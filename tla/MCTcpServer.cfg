SPECIFICATION FairSpec
CHECK_DEADLOCK FALSE
CONSTANTS
  c1 = c1
  c2 = c2
  c3 = c3
  NoWorker = NoWorker
  ThreadNum = 2
  Conns = {c1, c2, c3}
  Nobody = NoWorker
INVARIANTS WaitProtects OwnersOutliveListener NoneForgotten
PROPERTIES HandsOver DestructorReturns
