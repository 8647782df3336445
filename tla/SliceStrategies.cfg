SPECIFICATION FairSliceSpec
CONSTANTS
  Kinds = {"twap", "vwap", "iceberg"}
  MaxTotal = 14
  MaxSlices = 4
  MaxWeight = 2
INVARIANTS TwapIcebergCover RoundingBounded
PROPERTY SlicingEnds
CHECK_DEADLOCK FALSE
