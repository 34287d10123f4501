SPECIFICATION SpikesSpec
CONSTANTS
  w1 = w1
  w2 = w2
  w3 = w3
  w4 = w4
  Writer <- MCWriter
  Write <- MCWrite
  WorkspaceOrder <- MCWorkspaceOrder
  PathOrder <- MCPathOrder
  Window = 3
  Threshold = 2
  Debounce = 2
  MaxHotPaths = 1
  ConflictWindow = 3
  SignatureTTL = 3
  MaxConflictPeers = 1
  SemanticThreshold = "signature_change"
  MaxLag = 1
  MaxClock = 3
SYMMETRY MCSymmetry
INVARIANTS
  NoBurstMissed
  SpikesDebounced
  ConflictsFound
  WarningsExplained
CHECK_DEADLOCK FALSE
