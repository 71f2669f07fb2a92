SPECIFICATION Spec
CONSTANTS
  s1 = s1
  s2 = s2
  p1 = p1
  d1 = d1
  d2 = d2
  Sync = {s1, s2}
  Process = {p1}
  ProcessOf <- OneProcess
  Doc = {d1, d2}
  Config = {"narrow", "wide"}
  VisibleIn <- Visible
  FirstConfig = "narrow"
  None = None
  Careful = TRUE
  MaxClock = 2
  Budget <- Lossy
INVARIANT NoneLost
