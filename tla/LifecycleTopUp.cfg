SPECIFICATION FairSpec
CONSTANTS
    Patrol = Patrol
    j1 = j1
    j2 = j2
    Jobs <- OneJob
    Kinds <- Traffic
    Refunds = FALSE
    Period = 1
    Grace = 1
    MaxClock = 1
    MaxExpiry = 2
    MaxUsed = 1
    MaxQuota = 2
    MaxFaults = 0
    MaxCrashes = 0
PROPERTIES
    TopUpResumes
CHECK_DEADLOCK FALSE
