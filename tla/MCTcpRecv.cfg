SPECIFICATION RecvSpec
CHECK_DEADLOCK FALSE
CONSTANTS
  Lengths <- FivePackages
  RecvSize = 4
  Polite = {FALSE, TRUE}
  Junk = Junk
INVARIANTS PoliteIntact NothingLeftWaiting
