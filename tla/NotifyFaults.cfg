CONSTANTS
    q1 = q1
    q2 = q2
    NoPlan = NoPlan
    Requests <- MCTwoRequests
    Plans <- TwoPlans
    SECOND = 1
    HOUR = 2
    DAY = 3
    WEEK = 4
    BatchLimit = 2
    notifyMaxAttempts = 2
    Outcomes = {"ok", "lost"}
    MaxEdits = 2
    MaxTime = 4
    MaxFaults = 1

SPECIFICATION Spec

INVARIANTS
    AcknowledgedOnce

CHECK_DEADLOCK FALSE
