SPECIFICATION FairSpec
CONSTANTS
    Sessions = {s1}
    MaxRequests = 3
    MaxUpdates <- OnlyFirst
    NoPrompt = NoPrompt
    Runtimes = {TRUE, FALSE}
\* The server returns after end of input.
CHECK_DEADLOCK FALSE
INVARIANTS ActivePrompts SingleThreadIsExact
PROPERTY PromptsEnd
