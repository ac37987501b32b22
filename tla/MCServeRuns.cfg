SPECIFICATION FairSpec
CONSTANTS
  Requests = {q1, q2, q3}
  Runs = {r1, r2}
  NoRun = NoRun
  MaxConcurrent = 2
  MaxStarts = 3
  SaveMayFail = TRUE
  SecondServer = FALSE
CHECK_DEADLOCK FALSE
INVARIANTS RequestsSound OneExecution RunningIsExecuting
PROPERTIES SettledStays RunsSettle
