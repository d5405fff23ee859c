SPECIFICATION HistorySpec
CONSTANTS
  Profiles = {p}
  Inputs = {i, j}
  None = None
  Limit = 1
  StartDuring <- CalculateDuringUpdate
  MayFail = FALSE
  RemoteUpdates = FALSE
  MaxData = 2
  MaxResults = 3
  MaxGeneration = 2
INVARIANT NoStaleReuse
