CONSTANTS
    q1 = q1
    q2 = q2
    NoPlan = NoPlan
    Requests <- MCRequests
    Plans <- CatchUpPlan
    SECOND = 1
    HOUR = 2
    DAY = 3
    WEEK = 4
    BatchLimit = 2
    notifyMaxAttempts = 2
    Outcomes = {"ok"}
    MaxEdits = 2
    MaxTime = 5
    MaxFaults = 0

SPECIFICATION Spec

INVARIANT CatchUpOnce

CHECK_DEADLOCK FALSE
