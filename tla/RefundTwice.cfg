SPECIFICATION Spec
CONSTANTS
    o1 = o1
    o2 = o2
    r1 = r1
    r2 = r2
    r3 = r3
    Orders <- OneOrder
    ByIntent <- OneOrder
    Requests <- ThreeRequests
    Channel <- ChannelOf
    Held <- HeldOf
    Faults = {}
INVARIANTS
    NotRepaidTwice
SYMMETRY RequestSymmetry
CHECK_DEADLOCK FALSE
