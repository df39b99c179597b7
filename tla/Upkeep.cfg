SPECIFICATION MCSpec
CONSTANTS
    Workers = {w1, w2}
    Custom = {"review"}
    SubStatuses = {"archived", "spam"}
    Owner <- MCOwner
    SubTTL <- MCSubTTL
    TTL = 1
    Reminder = 1
    Floor = 2
    Year = 3
    Dates = {0, 9}
    Never = 20
    LastDay = 3
    MaxOps = 3
    NoSub = NoSub
    Gone = Gone
    Idle = Idle
    w1 = w1
    w2 = w2
    Tenants = {1, 2}
    Root = 1
    Hosts = {"r", "a", "b"}
    Local = "127.0.0.1"
    Home <- MCHome
    Keys = {1, 2}
    Kinds <- MCKinds
    Life = 2
    Renewal = 2
    Notice = 1
    Days = 3
    MaxChanges = 3
    Tables = {"a", "b"}
    First = 2
    Target = 4
    Lifetime <- MCLifetime
    Unchecked <- MCUnchecked
    MaxRows = 1
    MaxStops = 1
INVARIANTS
    RetentionBounded
    SubstatusOfStatus
    
    UpgradedAsAWhole
PROPERTIES
    NotSweptEarly
    ExpiredIsDeleted
    ComesUp
CHECK_DEADLOCK FALSE
