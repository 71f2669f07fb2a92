SPECIFICATION WorkspaceSpec
CONSTANTS
  Workspace = {i1}
  Member = {c1, c2}
  Default = Default
  MaxChanges = 5
  MaxLapses = 1
INVARIANT AllDataGone
CHECK_DEADLOCK FALSE
