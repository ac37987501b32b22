\* Two runs and a sub-agent behind one gate, three checks, one switch.
SPECIFICATION Spec
CONSTANTS
    Mains = {m1, m2}
    Subs = {s1}
    Calls = {"peek", "edit", "danger"}
    Class <- MCClass
    Settings <- MCSettings
    Modes = {"none", "plan", "auto", "accept_edits"}
    Capacity = 1
    Window = 2
    MaxTime = 2
    MaxChecks = 3
    MaxSwitches = 1
CHECK_DEADLOCK FALSE
INVARIANTS WaitsAreBounded RunsAreEntitled
PROPERTY AsksEnd
