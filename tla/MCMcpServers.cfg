\* Three requests to a child process, or two concurrent requests over HTTP.
SPECIFICATION Spec
CONSTANTS
    Transports = {"stdio", "http"}
    MaxId = 3
    Cap = 1
    PipeCap = 1
    MaxAsks = 1
    Versions = {1, 2, 3}
    ServerVersions <- MCServerVersions
    Callers = {a, b}
    MaxExpiries = 1
    MaxRotations = 1
    MaxFaults = 1
    MaxSession = 5
CHECK_DEADLOCK FALSE
INVARIANTS RequestsMatched ExpiryHandled
PROPERTY RequestsEnd
