CONSTANTS
    q1 = q1
    q2 = q2
    NoPlan = NoPlan
    Requests <- MCRequests
    Plans <- ShiftingPlans
    SECOND = 1
    HOUR = 2
    DAY = 3
    WEEK = 4
    BatchLimit = 1
    notifyMaxAttempts = 2
    Outcomes = {"ok", "error"}
    MaxEdits = 2
    MaxTime = 4
    MaxFaults = 0

SPECIFICATION FairSpec

INVARIANTS ScheduleFollowsPlan RetriesBounded
PROPERTIES
    QueueDrains
    EventuallyAnnounced

CHECK_DEADLOCK FALSE
