SPECIFICATION FairSpec
CHECK_DEADLOCK FALSE
CONSTANTS
  Fds = {1, 2}
  MaxChannels = 3
  MaxTasks = 2
INVARIANTS AliveWhenUsed DescriptorsAccounted
PROPERTIES ClosedIsRecovered
