SPECIFICATION Spec
CONSTANTS
  p1 = p1
  p2 = p2
  Jobs <- TwoJobs
  Transient <- SecondJob
  Polls <- TwoPolls
  MaxAttempts = 1
  Concurrency = 1
  SlowDisk = FALSE
  MaxCrashes = 1
  MaxIOErrors = 1
SYMMETRY PollSymmetry
INVARIANTS
  ConcurrencyRespected
  CountFollowsRuns
  OnceUnlessCrashed
