SPECIFICATION MCSpec
CONSTANTS
  Ids = {d, p, q}
  Default = d
  Values <- Configurations
  Sample <- Unedited
  Handlers = {h1}
  Ops = {"switch", "new", "copy", "import", "archive", "delete", "clear"}
  MaxEdits = 2
  MaxQueue = 2
  BusyInput = FALSE
  Failing = {"save", "import", "archive"}
  Profiles = {d, p}
  Inputs = {i, j}
  None = None
  Limit = 1
  StartDuring <- Overlapping
  MayFail = TRUE
  RemoteUpdates = TRUE
  MaxData = 2
  MaxResults = 2
  MaxGeneration = 1
INVARIANT Isolation
INVARIANT EditorShowsActive
INVARIANT NoLostEdit
INVARIANT NoStaleReuse
INVARIANT HistoryHolds
PROPERTY EditsReachStore
PROPERTY OtherHistoriesKept
PROPERTY CalculationEnds
