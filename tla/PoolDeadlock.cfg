SPECIFICATION FairSpec
CONSTANTS
    t1 = t1
    t2 = t2
    None = None
    Tabs <- MCTabs
    Names <- MCNames
    Stored <- MCStored
    Tasks <- MCTasks
    Stages <- MCStages
    PoolSize = 2
    MaxSaves = 1
    MaxEdits = 0
    MaxFaults = 0
PROPERTY StaysInSync
CHECK_DEADLOCK FALSE
