SPECIFICATION ServicesSpec
CONSTANTS
  Nothing = Nothing
  \* memory
  Record = {r1, r2, s1, s2}
  SessionRecord = {s1, s2}
  Content = {x1, x2}
  Client = {c1, c2}
  MaxCalls = 3
  MaxFaults = 1
  \* chunks
  Page = {s1, s2}
  Passage = {x1, x2}
  Ingest = {c1, c2}
  NoPage = NoPage
  MaxIngests = 2
  MaxSlips = 1
  \* channels
  Channel = {s1, s2}
  Token = {x1, x2}
  Endpoint = {c1, c2}
  Sweeper = Sweeper
  Poller = {r1, r2, r3}
  NoOne = NoOne
  MaxRequests = 3
  MaxMishaps = 2
  \* exports
  Export = {s1, s2, s3}
  Scope = {x1, x2}
  Caller = {c1, c2}
  NoExport = NoExport
  MaxBreaks = 1
  \* agents
  Agent = {s1, s2}
  Name = {r1, r2}
  Model = {x1, x2}
  Operator = {c1, c2}
  NoValue = NoValue
  MaxTurns = 4
  \* actions
  Action = {s1, s2, s3}
  User = {x1, x2}
  Message = {c1, c2}
  NoAction = NoAction
  MaxMessages = 5
  MaxExpiries = 1
  \* search
  Issue = {x1, x2}
  Searcher = {q1}
  NoPoint = NoPoint
  FreshnessFilter = TRUE
  RecallLimit = 1
  MaxSearches = 1
  MaxWrites = 2
  \* users
  Person = {s1, s2}
  Visit = {c1, c2}
  NoUser = NoUser
  MaxVisits = 3
  MaxEdits = 1
  \* server
  Piece = {i1}
  Room = {x1, x2}
  Pass = {c1, c2}
  NoRoom = NoRoom
  MaxPasses = 3
  MaxRevisions = 1
  \* workspaces
  Workspace = {i1}
  Member = {c1, c2}
  Default = Default
  MaxChanges = 5
  MaxLapses = 1
  \* pages
  MaxEntry = 3
  PageLimit = 1
  MaxTouches = 1
  MaxWalks = 2
  \* drive
  File = {x1, x2}
  Sub = Sub
  MaxTicks = 2
  MaxFetches = 2
  MaxTroubles = 1
  \* listings
  Memo = {1, 2}
  Leaf = {3, 4}
  ListLimit = 1
  MaxShifts = 1
  MaxListings = 1
SYMMETRY Symmetry
INVARIANTS
  MemoryKept
  ChunksSound
  ChannelsSound
  ExportsHonest
  RegistryConsistent
  ConfirmedOnce
  SearchHonest
  PlatformHonest
  SkippedAreHeld
  WorkspacesHonest
  FetchedUpToCursor
  TokenLeavesNothing
  ListingsCover
CHECK_DEADLOCK FALSE
