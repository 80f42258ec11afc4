SPECIFICATION FairSpec
CONSTANTS
    o1 = o1
    o2 = o2
    i1 = i1
    i2 = i2
    i3 = i3
    t1 = t1
    t2 = t2
    NoOrder = NoOrder
    Wallet = Wallet
    Orders <- OneOrder
    Intents <- TwoIntents
    Threads <- OneThread
    Price <- UnitPrice
    StartBalance = 1
    TopUps = {1}
    Misreports = {0}
    WalletCap = 3
PROPERTIES
    ReceiptRecorded
CHECK_DEADLOCK FALSE
