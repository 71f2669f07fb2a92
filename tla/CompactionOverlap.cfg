SPECIFICATION Spec
CONSTANTS
  Event = {1, 2, 3}
  Candidate = {1, 3}
  Attempt = {a1, a2}
  None = None
  MaxEvents = 2
  MaxFaults = 1
  MaxLapses = 1
  MaxStops = 1
SYMMETRY Symmetry
PROPERTY OnlyAbandonedReclaimed
CHECK_DEADLOCK FALSE
