SPECIFICATION Spec
CONSTANTS
  p1 = p1
  p2 = p2
  r1 = r1
  r2 = r2
  Pairs <- TwoPairs
  Requests <- TwoRequests
  PairsOf <- Overlapping
  MaxDownloads = 1
  MaxCalls = 4
  MaxTroubles = 1
INVARIANTS
  ApprovedHasItsShares
  OneActiveShare
  FreshRowIsRight
CHECK_DEADLOCK FALSE
