SPECIFICATION FairSpec
CONSTANTS
  NumSlices = 2
  SliceQty = 2
  Algos = {"timed", "iceberg"}
  Brokers = {"exchange", "in_process"}
  HttpAttempts = 2
  MaxCancels = 1
  MaxFaults = 1
INVARIANTS
  OneChildPerSlice
  ParentMatchesChildren
PROPERTIES
  NoSubmitAfterStop
  EverySliceIsTried
  RunnerEnds
CHECK_DEADLOCK FALSE
