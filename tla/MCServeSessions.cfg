SPECIFICATION FairSpec
CONSTANTS
  Ids = {i1}
  Requests = {q1, q2, q3}
  None = None
  MaxLive = 3
  MaxCrashes = 1
  AppendMayFail = TRUE
CHECK_DEADLOCK FALSE
INVARIANTS BusyExcludes HistoryRestored
PROPERTIES DeletedStays BusyEnds
