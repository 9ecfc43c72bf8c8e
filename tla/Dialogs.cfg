SPECIFICATION Spec
CONSTANTS
    t1 = t1
    l1 = l1
    l2 = l2
    l3 = l3
    None = None
    Tabs <- MCTabs
    LockIds <- MCLockIds
    Stored <- MCStored
    Products <- MCProducts
    MaxReqs = 2
    MaxOpens = 2
    MaxFaults = 1
    MaxSaves = 1
INVARIANTS
    NoLockResurrection
    DuplicatesOnlyAfterError
    TasksNotOlder
    
PROPERTIES
    ClosedOnlyBySuccess
CHECK_DEADLOCK FALSE
SYMMETRY Symmetry
