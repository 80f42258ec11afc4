SPECIFICATION Spec
CONSTANTS
    Patrol = Patrol
    j1 = j1
    j2 = j2
    Jobs <- TwoJobs
    Kinds <- Both
    Refunds = TRUE
    Period = 1
    Grace = 1
    MaxClock = 4
    MaxExpiry = 5
    MaxUsed = 0
    MaxQuota = 1
    MaxFaults = 1
    MaxCrashes = 0
CONSTRAINT RefundNotLifted
INVARIANTS
    TypeOK
    TerminatedIsGone
PROPERTIES
    NeverPurgedEarly
    PaidTimeNotSuspended
    RevokedStaysShut
    ManualPauseKept
CHECK_DEADLOCK FALSE
