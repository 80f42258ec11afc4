SPECIFICATION Spec
CONSTANTS
    o1 = o1
    o2 = o2
    i1 = i1
    i2 = i2
    i3 = i3
    t1 = t1
    t2 = t2
    NoOrder = NoOrder
    Wallet = Wallet
    Orders <- OneOrder
    Intents <- TwoIntents
    Threads <- TwoThreads
    Price <- FlatPrice
    StartBalance = 1
    TopUps = {1}
    Misreports <- OneCentMore
    WalletCap = 1
INVARIANTS
    TypeOK
    OneLiveIntent
    FundedOnce
    PaidInFull
    AckedIsRecorded
    BalanceSheet
SYMMETRY FullSymmetry
PROPERTIES
    RecordsArePermanent
    Implements
CHECK_DEADLOCK FALSE
