CONSTANTS
  IoctlThreads = {i1}
  ClassifyThreads = {c1}
  Apps = {a1, a2}
  Kinds = {k1, k2}
  k1 = k1
  Versions = {1, 2}
  Nodes = {n1, n2}
  None = None
  MaxRoutes = 1
  MaxSync = 2
  Batches <- MCBatches
  UInt32Max = 7
SPECIFICATION FairSpec
PROPERTIES LockProgress ImplementsRouteMap
