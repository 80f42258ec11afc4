SPECIFICATION PlatformSpec
CONSTANTS
    Sales = {"a", "b"}
    Total <- Costs
    Rates = {500, 7500}
    Claims = {w1, w2}
    MinClaim = 1
    Sweepers = {s1}
    Owners = {b1}
    Cycle = 1
    Window = 0
    Due = 0
    Offered = {"intent"}
    MaxDate = 2
    MaxToday = 1
    MaxFunds = 1
    MaxTrouble = 1
    Admins = {a1}
    CrashLimit = 1
    MaxLoops = 2
    MaxAlive = 2
    MaxKeys = 2
    MaxMishaps = 1
    Buyers = {u1}
    Orders = {o1, o2}
    Goods = {"plan", "vm"}
    Configured = {"vm"}
    Offer <- Shelf
    Terms <- HalfOff
    ForGoods <- PlanOnly
    Limits = {0, 1}
    Stocks = {1}
    MaxCartQuantity = 2
    Permilles = {0}
    MaxEdits = 1
    Requests = {q1, q2, q3}
    Hosts = {h1, h2, h3}
    MaxHostEdits = 2
    Attempts = {r1, r2}
    Images = {i1}
    AccountFailLimit = 1
    IpFailLimit = 1
    AccountWindow = 1
    IpWindow = 1
    IpLock = 1
    MaxLock = 4
    RecordTTL = 1
    CaptchaTTL = 1
    MaxClock = 2
    Logins = {t1}
    Reissues = {t2}
    Replicas = {v1, v2}
    TokenTTL = 1
    AdminTokenTTL = 1
    MaxSecond = 1
    MaxPassword = 2
    Applicants = {k1, k2}
    Filings = {f1, f2}
    Papers = {p1, p2}
    IdNumbers = {n1}
    MaxCertify = 1
    Queries = {y1, y2}
    Letters = {l1, l2}
    Files = {z1, z2}
    MaxAttachments = 2
    Mailings = {g1, g2}
    CodeTTL = 1
    ResendInterval = 1
    Hour = 2
    HourlyCap = 2
    CodeMaxAttempts = 1
    MaxMinute = 3
    MaxCodes = 3
    Members = {m1, m2}
    Root = m1
    Edits <- FewEdits
    MaxBalance = 2
    Holders = {x1}
    Keys = {c1, c2}
    Creations = {n2, n3}
    Calls = {j1}
    MaxAPIKeys = 1
    MaxDay = 1
    Installs = {d1, d2}
    Databases = {e1, e2}
    MaxDeaths = 2
    Tenants = {tt}
    Rows = {ra, rb}
    Machines = {ma, mb}
    Errands = {ea, eb}
    MaxQuantity = 2
    PackInvoices = {ia, ib}
    PackRequests = {pa, pb}
    Notices = {na, nb}
    Sizes = {2}
    PackPrices = {1, 2}
    PackSteps = {1, 3}
    MaxPriceEdits = 1
    Partners = {ua}
    Tiers = {ta, tb}
    Applications = {aa}
    Desks = {da, db}
    Thresholds = {0, 1}
    Methods = {ga, gb}
    Gateways = {wx, zf}
    MerchantKeys = {"key"}
    Charges = {d9}
    Shelves = {sa, sb}
    Wares = {wa}
    Clerks = {ca, cb}
    CategoryDepth = 2
    Texts = {xa, xb}
    Slugs = {"p"}
    Deals = {ga1}
    Scribes = {sc1, sc2}
    WebNotices = {b1n, b2n}
    PatrolNotices = {b3n}
    QueueSize = 1
INVARIANTS
    PlatformTypeOK
    BooksAgree
    NothingOrphaned
    AccessHolds
    FilesHeld
PROPERTIES
    StepsEarned
CHECK_DEADLOCK FALSE
