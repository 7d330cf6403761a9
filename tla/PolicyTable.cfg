CONSTANTS
  IoctlThreads = {i1, i2}
  ClassifyThreads = {c1}
  Policies <- MCPolicies
  Batches <- MCBatches
  MaxPolicies = 2
  MaxSync = 3
  a1 = a1
  a2 = a2
  a3 = a3
SPECIFICATION Spec
INVARIANTS TypeOK TableWellFormed SyncInstallsBatch
PROPERTIES PriorityKept
SYMMETRY Symmetry
