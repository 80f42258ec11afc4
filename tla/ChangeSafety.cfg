SPECIFICATION ChangeSpec
CONSTANTS
    small = small
    large = large
    Specs = {small, large}
    Product <- OneProductEach
    Price <- DearerLarge
    Changes = {c1, c2}
    Workers = {w1, w2}
    NoChange = NoChange
    StartSpec = small
    StartExpires = 1
    StartBalance = 2
    MaxExpires = 2
    Serial = TRUE
    Faulty = TRUE
INVARIANTS
    ChangeTypeOK
    OneOpenChange
    FailedIsUndone
    MachineMatches
    ApplyingIsHeld
    ChangesBooked
PROPERTIES
    NoOldPrice
    DecisionsStand
SYMMETRY ChangeSymmetry
CHECK_DEADLOCK FALSE
