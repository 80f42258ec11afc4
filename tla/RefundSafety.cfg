SPECIFICATION FairSpec
CONSTANTS
    o1 = o1
    o2 = o2
    r1 = r1
    r2 = r2
    r3 = r3
    Orders <- TwoOrders
    ByIntent <- OneOrder
    Requests <- ThreeRequests
    Channel <- ChannelOf
    Held <- HeldOf
    Faults = {"crash", "rollback"}
INVARIANTS
    TypeOK
    ChannelPaysOnce
    WalletCreditedOnce
    RefundedTogether
PROPERTIES
    VerdictsStand
    NoWedge
CHECK_DEADLOCK FALSE
