SPECIFICATION Spec
CONSTANTS
  fa = fa
  fb = fb
  fc = fc
  fd = fd
  Root = Root
  Folders = {fa, fd}
  NewNames <- Longer
  Home <- Nested
  MaxAttempts = 2
  MaxCalls = 3
  MaxTroubles = 1
INVARIANTS
  TreeMatchesPaths
  FolderIsWherePathSays
CHECK_DEADLOCK FALSE
