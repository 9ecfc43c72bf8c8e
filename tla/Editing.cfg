\* Two administrators in two tabs, two inherited tasks, one failing statement, read or request.
CONSTANTS
    Tabs = {a, b}
    None = None
    Away = Away
    InitTasks = 2
    MaxEdits = 2
    MaxRequests = 2
    MaxFaults = 1

SPECIFICATION Spec
SYMMETRY TabSymmetry

INVARIANTS
    SettledViewExact
    WaitsEnd
    CompletionAuthentic

PROPERTY NoResurrection
CHECK_DEADLOCK FALSE
