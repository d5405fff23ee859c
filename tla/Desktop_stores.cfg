SPECIFICATION MCSpec
CONSTANTS
  Required <- OneRequired
  Repair <- OneRepair
  Details <- OneDetail
  Threads = {t1, t2}
  None = None
  MaxVersion = 2
  Changing <- Cards
  StartDuring <- Overlapping
  Default = first
  Ids = {first, second, third}
  Sample = sample
  Values = {sample, edited}
  Absent = Absent
  Starts <- StartsDef
  Workers = {1, 2}
  Clients = {"client"}
  Attempts = 2
  Window = 1
  DataFiles = 2
  LastTick = 2
  LastData = 2
  LastRound = 2
  NotSet = NotSet
  Imports = {1, 2}
  LastVersion = 3
  Embedded = 1
  NoStored = NoStored
  Unreadable = Unreadable
INVARIANT RateHolds
INVARIANT LoadsSynchronised
INVARIANT CredentialsKept
PROPERTY DefaultsMoveOn
INVARIANT Durable
INVARIANT CacheHonest
PROPERTY RefreshRepairs
PROPERTY KeepsPromise
PROPERTY CalculatesWithListed
SYMMETRY DesktopSymmetry
