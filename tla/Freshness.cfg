SPECIFICATION FreshnessSpec
CONSTANTS
  Worker = {w1, w2}
  j1 = j1
  j2 = j2
  bad = bad
  sa = sa
  sb = sb
  Job = {j1, j2, bad}
  Workspace = {sa, sb}
  WorkspaceOf <- MixedSpaces
  Malformed = {bad}
  None = None
  MaxBatch = 1
  ReclaimInterval = 1
  MaxErrors = 2
  MaxFaults = 1
  MaxLapses = 0
  MaxStops = 1
  w1 = w1
  w2 = w2
  v1 = v1
  v2 = v2
  m1 = m1
  m2 = m2
  d1 = d1
  Item = {m1, m2, d1}
  Fresh = {m1, m2, d1}
  Document = {d1}
  Processor = {w1, w2}
  Reviewer = {v1, v2}
  Nil = Nil
  MaxEntries = 2
  MaxTouches = 2
  MaxLosses = 1
INVARIANTS
  LifecycleSound
  KeptUntilAged
  ResolvedOnce
PROPERTIES
  DeadWorkerDrained
  DeliveredDespiteKills
  AgedRetired
CHECK_DEADLOCK FALSE
