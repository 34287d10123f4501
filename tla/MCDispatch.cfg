SPECIFICATION Spec
CONSTANTS
  c1 = c1
  c2 = c2
  Caller <- MCCaller
  Baseline = "cpu-baseline"
  IdOrder <- MCIdOrder
  RawPolicy <- MCPolicy
  Calls <- MCCalls
  HalStates <- MCHalStates
  Seeds <- MCSeeds
  Plugins <- MCPlugins
  TTL = 1
  MaxBatch = 4
  HasHAL = TRUE
  SparseGuardrail = TRUE
  HostRAMCap = 4096
  MaxEpoch = 5
INVARIANTS
  AutoDisableSticks
  SameEpochSameView
  JobsOnEligibleProviders
  EventsTellWhatHappened
CHECK_DEADLOCK FALSE
