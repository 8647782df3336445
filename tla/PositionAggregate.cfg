SPECIFICATION AggregateSpec
CONSTANTS
  Quantities = {1, 3}
  Prices = {2, 6}
  Ratios = {2}
  Amounts = {1}
  MaxEvents = 6
  MaxSplits = 1
INVARIANTS
  LotsCarryPosition
  PnlConserved
  FifoMatching
CHECK_DEADLOCK FALSE
