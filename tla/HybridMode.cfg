CONSTANTS
  IoctlThreads = {i1, i2}
  Entry = entry
  RequestModes = {0, 1, 2, 3}
  NdisCounts = {1}
  None = None
SPECIFICATION Spec
INVARIANTS TypeOK OverlapEndsAsRequested LoneRequestAgrees
SYMMETRY Symmetry
