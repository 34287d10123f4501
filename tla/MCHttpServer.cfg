SPECIFICATION Spec
CONSTANTS
  q1 = q1
  q2 = q2
  q3 = q3
  q4 = q4
  q5 = q5
  q6 = q6
  q7 = q7
  s1 = s1
  s2 = s2
  s3 = s3
  Request <- MCRequest
  Post <- MCPost
  Client <- MCClient
  Get <- MCGet
  Load <- MCLoad
  JobRecord <- MCJobRecord
  SubId = {"n1"}
  Agent = {"n2"}
  V6 = {"fe80::1", "fe80::2"}
  Local = {"127.0.0.1"}
  Burst = 2
  EvictAfter = 3
  MaxConns = 2
  QueueDepth = 2
  SnapshotLimit = 1
  LogWindow = 0
  JobWindow = 1
  MaxClock = 4
  MaxJobEvents = 1
INVARIANTS
  RateBound
  SlotsMatchStreams
  FramesFaithful

  
CHECK_DEADLOCK FALSE
