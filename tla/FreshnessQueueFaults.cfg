SPECIFICATION CastSpec
CONSTANTS
  Worker = {w1, w2, w3}
  j1 = j1
  j2 = j2
  bad = bad
  sa = sa
  sb = sb
  Job = {j1, j2, bad}
  Workspace = {sa, sb}
  WorkspaceOf <- MixedSpaces
  Malformed = {bad}
  None = None
  MaxBatch = 2
  ReclaimInterval = 1
  MaxErrors = 2
  MaxFaults = 2
  MaxLapses = 1
  MaxStops = 1
SYMMETRY Symmetry
INVARIANTS
  TypeOK
  NoJobLost
  SingleRunner
  SingleReclaimer
  RoutedHome
PROPERTY ImplementsContract
CHECK_DEADLOCK FALSE
