SPECIFICATION FairSpec
CHECK_DEADLOCK FALSE
CONSTANTS
  l1 = l1
  l2 = l2
  u1 = u1
  o1 = o1
  NullOwner = NullOwner
  Absent = Absent
  NoThread = NoThread
  Loops = {l1, l2}
  Users = {u1}
  Owners = {o1}
  MaxSeq = 2
  TaskPosts <- Pipeline
INVARIANTS OwnerIndexExact
PROPERTIES WithdrawnNeverRuns RunsInOrder PostedRuns
