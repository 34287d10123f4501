SPECIFICATION Spec
CONSTANTS
  EOT = 0
  Caller <- MCCaller
  Workload <- MCWorkload
  SessionName <- MCSessionName
  Record <- MCRecord
  Node = {1, 2}
  Gateway = TRUE
  Plugins <- MCPlugins
  MaxSamples = 2
  QueueCapacity = 2
  DrainLimit = 2
  MaxAge = 0
  MaxClock = 1
  MaxFaults = 1
INVARIANTS
  GroupsFaithful
  RunningMeansWaiting
  AssignedInTurn
PROPERTIES
  ReadsKeepReports
CHECK_DEADLOCK FALSE
