SPECIFICATION FairKeySpec
CONSTANTS
  Requests = {r1, r2, r3}
  MaxKeyFaults = 2
INVARIANTS
  OneInHandler
  RetryIsReplayed
PROPERTIES
  LockIsFreed
CHECK_DEADLOCK FALSE
