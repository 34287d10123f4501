SPECIFICATION Spec
CONSTANTS
  w1 = w1
  w2 = w2
  c1 = c1
  c2 = c2
  f = f
  g = g
  root = root
  sub = sub
  x = x
  Empty = Empty
  None = None
  Workspace <- MCWorkspace2
  Client <- MCClient2
  Path <- MCPath1
  Root = root
  SubDir <- MCSubDir
  DirOf <- MCDirOf
  Content <- MCContent
  Attached = FALSE
  MaxWrites = 2
  MaxCommits = 2
  MaxDrops = 2
  MaxFaults = 1
  MaxCrashes = 1
SYMMETRY MCSymmetry
INVARIANTS
  CommitsFormChain
  StoreConsistent
