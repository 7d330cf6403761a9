CONSTANTS
  Handlers = {h1, h2}
  Pids = {p1, p2, p3}
  Sessions = {s1, s2}
  MaxRequests = 3
  None = None
SPECIFICATION Spec
INVARIANTS TypeOK OneSession RefusedOnlyOnceOrphaned ServedHasBuffers RecordedOnce
SYMMETRY Alike
