CONSTANTS
  Folders = {"home", "other"}
  Home = "home"
  Names = {"a", "b"}
  FirstName = "a"
  MaxAttempts = 0
  MaxRequests = 3
  MaxDuplicates = 1
  MaxTroubles = 1
SPECIFICATION Spec
INVARIANTS
  AvailableMeansThere
  NobodyLeftSyncing
  ActiveFileInPlace
PROPERTY ImplementsJobQueue
CHECK_DEADLOCK FALSE
