SPECIFICATION WBSpec
CONSTANTS
  w1 = w1
  c1 = c1
  f = f
  g = g
  root = root
  sub = sub
  x = x
  y = y
  Empty = Empty
  None = None
  Workspace <- MCWorkspace
  Client <- MCClient
  Path <- MCPath
  Root = root
  SubDir <- MCSubDir
  DirOf <- MCDirOf
  Content <- MCContent
  Attached = TRUE
  Horizon <- MCHorizon
  MaxWrites = 1
  MaxCommits = 1
  MaxDrops = 1
  MaxFaults = 1
  MaxCrashes = 1
INVARIANTS
  DrainedMeansSynced
PROPERTIES
  EngineSettles
