SPECIFICATION FairSpec
CONSTANTS
  Parts <- TwoParts
  Sent <- FirstPart
  MaxAttempts = 2
  MaxPuts = 2
  MaxCompletes = 2
  MaxRequests = 3
  MaxBreaks = 2
INVARIANTS
  AvailableMeansWhole
  ClosedSessionHasFile
PROPERTY
  SessionSettles
CHECK_DEADLOCK FALSE
