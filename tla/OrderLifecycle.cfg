SPECIFICATION FairSpec
CONSTANTS
  Orders = {o1, o2}
  Quantity = 3
  InProcess = {o2}
  HttpAttempts = 2
  MaxFaults = 1
INVARIANTS
  NoOverfill
  PlatformFollowsBroker
  BooksAgree
PROPERTIES
  FilledNeverDrops
  EventuallySettles
CHECK_DEADLOCK FALSE
