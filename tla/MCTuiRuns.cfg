\* Two prompts in two sessions, up to two questions each.
SPECIFICATION TuiSpec
CONSTANTS
    MaxRuns = 2
    MaxAsks = 2
    MaxSessions = 2
CHECK_DEADLOCK FALSE
INVARIANTS SessionsAreTrue
PROPERTY RunsEnd
