SPECIFICATION ChangeSpec
CONSTANTS
    small = small
    large = large
    Specs = {small, large}
    Product <- OneProductEach
    Price <- DearerLarge
    Changes = {c1}
    Workers = {w1}
    NoChange = NoChange
    StartSpec = small
    StartExpires = 1
    StartBalance = 2
    MaxExpires = 2
    Serial = FALSE
    Faulty = FALSE
PROPERTIES
    NoOldPrice
CHECK_DEADLOCK FALSE
