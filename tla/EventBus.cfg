SPECIFICATION FairSpec
CONSTANTS
  Events = {e1, e2, e3}
  Poison = {e3}
  Handlers = 2
  MaxRetries = 2
  BatchSize = 2
  MaxTopic = 4
  MaxFaults = 3
INVARIANTS
  CommittedWasTried
  DlqAfterRetries
  ReplayKeepsLetters
PROPERTIES
  EveryEventTried
CHECK_DEADLOCK FALSE
