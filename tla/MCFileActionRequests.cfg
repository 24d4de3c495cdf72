SPECIFICATION Spec
CONSTANTS
  r1 = r1
  r2 = r2
  a = a
  b = b
  Requests <- TwoRequests
  Folders <- TwoFolders
  Home = a
  Trash = Trash
  MaxCalls = 4
  MaxOthers = 1
  MaxTroubles = 1
INVARIANTS
  ExecutedOnce
  StatusIsTrue
CHECK_DEADLOCK FALSE
