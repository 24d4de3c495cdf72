SPECIFICATION FairQueueSpec
CONSTANTS
  r1 = r1
  r2 = r2
  r3 = r3
  k1 = k1
  k2 = k2
  Direct = Direct
  NoTicket = NoTicket
  Requests = {r1, r2, r3}
  Promoters = {k1, k2}
  UserOf <- TwoUsers
  Size <- Sizes
  MaxActive = 1
  MaxBytes = 2
  MaxPerUser = 3
  MaxQueue = 2
  MaxTroubles = 2
INVARIANTS WaitingOrderMatchesMap LimitExceededOnlyByOverlap
PROPERTY WaitingServed
CHECK_DEADLOCK FALSE
