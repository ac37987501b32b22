SPECIFICATION GatedSpec
CONSTANTS
  Profiles <- MCTalking
  Talking <- MCTalking
  Habits <- MCHabits
  Gated <- MCNoneGated
  GateLevels <- MCLevels
  DriftThreshold = 2
  ComplexCalls = 1
CHECK_DEADLOCK FALSE
INVARIANT SystemStays
