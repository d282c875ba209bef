SPECIFICATION FairSpec
CHECK_DEADLOCK FALSE
CONSTANTS
  x1 = x1
  x2 = x2
  None = None
  Timers = {x1, x2}
  Begins = {0, 1, 2, 3}
  Intervals = {0, 2}
  DefaultInterval = 3
  MaxLag = 3
PROPERTIES StoppedNeverFires OncePerTick NeverEarly StartedKeepsFiring
