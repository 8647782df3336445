SPECIFICATION FairSpec
CONSTANTS
  NumLegs = 3
  Total = 2
  Scale = 4
  Tolerance = 1
  MaxPct = 9
  Cancels = {c1}
  MaxFaults = 1
INVARIANTS
  ExecutedIsApproved
  DistributionBounded
  AllocatedIsComplete
PROPERTIES
  FilledIsDistributed
CHECK_DEADLOCK FALSE
