SPECIFICATION GatedSpec
CONSTANTS
  Profiles <- MCProfiles
  Talking <- MCTalking
  Habits <- MCHabits
  Gated <- MCGated
  GateLevels <- MCLevels
  DriftThreshold = 2
  ComplexCalls = 1
CHECK_DEADLOCK FALSE
INVARIANTS RequestsReplayable HistoryKept SegmentsAreSound DoneIsChecked PhasesAreTrue
PROPERTY RunsEnd
