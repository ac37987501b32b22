\* Three calls over one to three permits, two levels below the main agent.
SPECIFICATION Spec
CONSTANTS
    Delegations = 3
    MaxConcurrent = 3
    MaxDepth = 3
    MaxRetries = 1
    MaxAttributions = 1
    Registered = {"coder"}
    Unregistered = {"ghost"}
    DegradeMap <- MCDegradeMap
CHECK_DEADLOCK FALSE
INVARIANT LimitsHold
PROPERTY DelegationsFinish
