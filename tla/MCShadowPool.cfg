SPECIFICATION FairSpec
CONSTANTS
  c1 = c1
  c2 = c2
  c3 = c3
  t1 = t1
  t2 = t2
  k1 = k1
  k2 = k2
  k3 = k3
  None = None
  Caller <- MCCaller3
  Closer <- MCCloser1
  Conn <- MCConn2
  PoolSize = 1
  MaxCalls = 1
  MaxCrashes = 1
INVARIANTS
  NoCrossTalk
  SlotsSound
PROPERTIES
  CallReturns
CHECK_DEADLOCK FALSE
