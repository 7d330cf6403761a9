CONSTANTS
  Setters = {s1, s2}
  Evaluators = {e1}
  Luids = {0, 1}
  Requests <- MCRequests
  Stored = {0, 1, 3, 4}
  None = None
SPECIFICATION Spec
INVARIANTS TypeOK SnapshotIsInstalled ReportIsRecent
SYMMETRY Symmetry
