SPECIFICATION FairSpec
CONSTANTS
  NumRequests = 3
  NumPortfolios = 2
  NumActions = 1
  MaxActive = 2
  MaxFaults = 1
INVARIANTS
  SuccessIsFinal
  RunIsComplete
  AdjustedOnce
PROPERTIES
  RerunCloses
CHECK_DEADLOCK FALSE
