SPECIFICATION Spec
CONSTANTS
  Worker = {w1, w2}
  j2 = j2
  sa = sa
  sb = sb
  Job = {j1, j2}
  Workspace = {sa, sb}
  WorkspaceOf <- MixedSpaces
  Malformed = {}
  None = None
  MaxBatch = 1
  ReclaimInterval = 1
  MaxErrors = 2
  MaxFaults = 0
  MaxLapses = 1
  MaxStops = 0
SYMMETRY Symmetry
INVARIANT QueueIsolation
CHECK_DEADLOCK FALSE
