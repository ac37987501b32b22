\* Plans of four nodes of which three are kept, two attempts, a history of one result.
SPECIFICATION Spec
CONSTANTS
    PlanSize = 4
    MaxNodes = 3
    Kinds <- MCKinds
    EdgeChoices <- MCEdges
    HintChoices <- MCHints
    Timed = {2}
    MaxAttempts = 2
    HistoryCap = 1
CHECK_DEADLOCK FALSE
INVARIANTS WavesAreSound StepsSeeResults
PROPERTIES DataflowSpec RunEnds
