SPECIFICATION FairSpec
CONSTANTS
  e1 = e1
  f1 = f1
  Events <- OneEvent
  Restores <- OneEvent
  Files <- OneFile
  FileOf <- OneEventFile
  Jobs <- TwoJobs
  EventOf <- TwoJobsOfOne
  MaxRetries = 1
  MaxAttempts = 1
  MaxCrashes = 1
  NoJob = NoJob
  Orphan = Orphan
INVARIANTS
  NoLostOperation
  DoneUnlessGone
  OneHandlerPerFile
  FailedOnlyAfterBudget
  CrashesAreNotAttempts
PROPERTY
  EveryOperationSettles
  ImplementsJobQueue
