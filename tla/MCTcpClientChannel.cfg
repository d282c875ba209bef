SPECIFICATION FairSpec
CHECK_DEADLOCK FALSE
CONSTANTS
  f1 = f1
  f2 = f2
  NoSocket = NoSocket
  Sockets = {f1, f2}
  Configs <- TameConfigs
  MaxTasks = 3
INVARIANTS NoSocketLeaks ToldTheTruth
PROPERTIES ConnectingEnds PostedCloseCloses
