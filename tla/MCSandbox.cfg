SPECIFICATION SandboxSpec
CONSTANTS
  j1 = j1
  j2 = j2
  Job <- MCJob
  Scenario <- MCScenario
  CleanupRetries = 3
  MaxFaults = 3
INVARIANTS
  LeftoversReported
  SuccessMeansRan
PROPERTIES
  ExecuteReturns
  WaitersEnd
