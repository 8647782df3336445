SPECIFICATION BreakerSpec
CONSTANTS
  Calls = {c1, c2}
  FailureThreshold = 2
  RecoveryTimeout = 2
  WindowSeconds = 3
  MaxTime = 9
PROPERTIES
  TripNeedsWindow
  BackoffRespected
