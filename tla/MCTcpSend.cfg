SPECIFICATION SendFairSpec
CHECK_DEADLOCK FALSE
CONSTANTS
  b1 = b1
  b2 = b2
  b3 = b3
  Packages <- MCPackages
  Room = 2
  MaxSent = 5
PROPERTIES ImplementsStream Drains
