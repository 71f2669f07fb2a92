SPECIFICATION BacklogsSpec
CONSTANTS
  \* compaction
  Event = {1, 2}
  Candidate = {1}
  Attempt = {a1, a2}
  None = None
  MaxEvents = 2
  MaxFaults = 2
  MaxLapses = 1
  MaxStops = 1
  \* proxy
  Turn = {p1}
  MaxTexts = 2
  \* backlog
  k1 = k1
  k2 = k2
  t1 = t1
  t2 = t2
  Doc = {k1, k2}
  Text = {t1, t2}
  Blank = Blank
  Call = {c1, c2}
  NoText = NoText
  Sweeper = Sweeper
  MaxCalls = 2
  MaxSetbacks = 1
  MaxResets = 1
  MaxRounds = 2
  Breaker = 1
INVARIANTS
  TypeOK
  OneMemoryPerContent
  AcknowledgedOnce
  TurnsHonest
  BacklogSound
PROPERTIES
  ClaimKept
  ImplementsContract
  EventuallyCompacted
  ReachesGraph
CHECK_DEADLOCK FALSE
