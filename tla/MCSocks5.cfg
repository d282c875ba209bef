SPECIFICATION FairSpec
CHECK_DEADLOCK FALSE
CONSTANTS
  MaxData = 2
INVARIANTS ToldMeansTarget StreamIntact ConnectNeverAborts
PROPERTIES EndReaches
