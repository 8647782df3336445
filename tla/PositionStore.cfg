SPECIFICATION Spec
CONSTANTS
  Direct = {d1, d2}
  Retries = {d1, d2}
  Orders = {o1}
  Actions = {a1}
  Sells = {o1}
  MaxAttempts = 3
  MaxMessages = 2
  MaxFaults = 1
INVARIANTS
  RetryAppliedOnce
  ProjectionFollows
PROPERTIES
  ImplementsLog
SYMMETRY PostSymmetry
CHECK_DEADLOCK FALSE
