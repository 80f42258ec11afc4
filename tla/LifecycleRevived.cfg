SPECIFICATION Spec
CONSTANTS
    Patrol = Patrol
    j1 = j1
    j2 = j2
    Jobs <- OneJob
    Kinds <- Administrator
    Refunds = FALSE
    Period = 1
    Grace = 1
    MaxClock = 4
    MaxExpiry = 5
    MaxUsed = 0
    MaxQuota = 1
    MaxFaults = 0
    MaxCrashes = 0
PROPERTIES
    TerminatedIsFinal
CHECK_DEADLOCK FALSE
