SPECIFICATION Spec
CONSTANTS
    t1 = t1
    t2 = t2
    None = None
    Tabs <- MCTabs
    Names <- MCNames
    Stored <- MCStored
    Tasks <- MCTasks
    Stages <- MCStages
    PoolSize = 3
    MaxSaves = 2
    MaxEdits = 1
    MaxFaults = 1
INVARIANTS
    TasksNotOlderThanRow
    OneSaveAtATime
    NoPoolDeadlock
PROPERTIES
    RegisterSpec
    UnanchoredOnlyByRemoval
CHECK_DEADLOCK FALSE
