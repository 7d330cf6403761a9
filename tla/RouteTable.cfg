CONSTANTS
  IoctlThreads = {i1, i2}
  ClassifyThreads = {}
  Apps = {a1, a2, a3}
  Kinds = {k1}
  k1 = k1
  Versions = {1, 2}
  Nodes = {n1, n2, n3}
  None = None
  MaxRoutes = 2
  MaxSync = 2
  Batches <- MCBatches
  UInt32Max = 7
SPECIFICATION Spec
INVARIANTS TypeOK MutualExclusion CountMatchesList OneRoutePerApp PoolAccounting FoundIsCurrent
PROPERTIES ImplementsRouteMap
SYMMETRY Symmetry
