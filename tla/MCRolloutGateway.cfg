SPECIFICATION GatewayFairSpec
CONSTANTS
  t1 = t1
  t2 = t2
  s1 = s1
  s2 = s2
  s3 = s3
  Task <- MCTask
  Session <- MCSession
  Sessions <- MCSessions
  Callbacks <- MCCallbacks
  InitWorkers = 1
  RunWorkers = 1
  PostWorkers = 1
  ReadyBuffer = 1
  RunHook = TRUE
INVARIANTS
  StagesSafe
  CompletedMeansAllReported
PROPERTIES
  GatewaySettles
CHECK_DEADLOCK FALSE
