SPECIFICATION FairSpec
CHECK_DEADLOCK FALSE
CONSTANTS
  a1 = a1
  r1 = r1
  r2 = r2
  d1 = d1
  NoTask = NoTask
  NoThread = NoThread
  Resident = {r1, r2}
  Disposible = {d1}
  Adders = {a1}
  LateAdds = {FALSE, TRUE}
INVARIANTS SleeperWillWake OneResidentAfterQuit
PROPERTIES JoinReturns ResidentKeepsRunning
