SPECIFICATION Spec
CONSTANTS
  t1 = t1
  t2 = t2
  Threads <- MCThreads
  Ops <- MCOps
  PoolSize = 1
  OpenRetry = 1
  MaxSessions = 2
  MaxContexts = 2
  MaxFaults = 1
  NoThread = NoThread
INVARIANTS KeysCurrent Exclusive
PROPERTIES GetReturns
CHECK_DEADLOCK FALSE
