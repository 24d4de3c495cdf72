CONSTANTS
  p1 = p1
  p2 = p2
  p3 = p3
  p4 = p4
  None = None
  Calls <- FourCalls
  Renewing <- ThreeRenewing
  TTL = 4
  WaitTimeout = 3
  RenewEvery = 2
  Lag = 1
SPECIFICATION FairLockSpec
INVARIANT MutualExclusion
PROPERTIES EveryCallAnswered LockComesBack
CHECK_DEADLOCK FALSE
