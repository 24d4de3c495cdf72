SPECIFICATION Spec
CONSTANTS
  fa = fa
  fb = fb
  fc = fc
  fd = fd
  Root = Root
  Folders = {fa, fb}
  NewNames <- Fresh
  Home <- Letters
  MaxAttempts = 1
  MaxCalls = 1
  MaxTroubles = 0
INVARIANT OnlyPathsBelowChange
CHECK_DEADLOCK FALSE
