SPECIFICATION FairSpec
CONSTANTS
    Patrol = Patrol
    j1 = j1
    j2 = j2
    Jobs <- OneJob
    Kinds <- Customer
    Refunds = TRUE
    Period = 1
    Grace = 1
    MaxClock = 3
    MaxExpiry = 3
    MaxUsed = 1
    MaxQuota = 2
    MaxFaults = 1
    MaxCrashes = 1
INVARIANTS
    ActiveRuns
PROPERTIES
    PaidServiceResumes
    MarkersClear
    RevokedUpstream
CHECK_DEADLOCK FALSE
