CONSTANTS
    u1 = u1
    t1 = t1
    k1 = k1
    k2 = k2
    w1 = w1
    w2 = w2
    NoSocket = NoSocket
    Users <- MCUsers
    Clients <- MCSockets
    UserOf <- MCUserOf
    Broadcasters <- MCBroadcasters
    Tabs <- MCTabs
    Sockets <- MCSockets
    TabOf <- MCTabOf
    BACKOFF_START = 1
    BACKOFF_CAP = 1
    clientBuffer = 2
    maxPerUser = 1
    MaxRev = 2
    MaxFrame = 2
    MaxCommits = 2
    MaxFaults = 1
    RereadMayFail = FALSE
    PromptRegister = TRUE
    FetchMayFail = FALSE
    KeepOnError = FALSE

SPECIFICATION FairSpec

INVARIANTS
    NoLostUpdate
    EveryCommitBroadcast
PROPERTIES
    EventuallyFresh

CHECK_DEADLOCK FALSE
