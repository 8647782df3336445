SPECIFICATION Spec
CONSTANTS
  NumTrades = 2
  Buys = {1}
  Requests = {r1, r2}
  MaxAmount = 1
  MaxDate = 2
  None = None
  Batches = {b1}
  MaxDeliveries = 1
  MaxRetries = 1
  MaxFaults = 1
INVARIANTS RowExplained SettledIsBooked CashFollowsCapital 
CHECK_DEADLOCK FALSE
SYMMETRY RequestSymmetry
