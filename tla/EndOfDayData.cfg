SPECIFICATION Spec
CONSTANTS
  NumRequests = 1
  NumPortfolios = 2
  NumActions = 1
  MaxActive = 1
  MaxFaults = 0
INVARIANTS
  NavReachesCapital
CHECK_DEADLOCK FALSE
