SPECIFICATION FairSpec
CONSTANTS
  p1 = p1
  p2 = p2
  Jobs <- OneJob
  Transient <- NoJob
  Polls <- TwoPolls
  MaxAttempts = 1
  Concurrency = 1
  SlowDisk = FALSE
  MaxCrashes = 2
  MaxIOErrors = 1
INVARIANTS
  TypeOK
  NoJobLost
  FailedAfterAttempts
PROPERTIES
  ImplementsJobQueue
  EveryJobSettles
