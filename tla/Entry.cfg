SPECIFICATION MCSpec
SYMMETRY Symmetry
CONSTANTS
    Workers = {w1, w2}
    Home = Home
    Other = Other
    Reactor = Reactor
    MaxOps = 4
    Gone = Gone
    Idle = Idle
    w1 = w1
    w2 = w2
    Proofs = {p1, p2}
    Clients = {"c"}
    p1 = p1
    p2 = p2
    MaxAge = 4
    MaxFuture = 1
    TokenLife = 2
    MaxProofs = 1
    MaxTokens = 1
    Mints = 2
    Horizon = 10
    Addresses = {0, 1}
    Tor = 0
    Classes = {"login", "signup", "csp", "operation"}
    Burst = 2
    MaxBuckets = 5
    Days = 2
    CodeLife = 4
    Hours = 18
    MaxTimers = 2
    None = None
    Root = 1
    Tids = {1, 2, 3}
    Names = {"a", "b"}
    Threads = {p1, p2}
    Seeds <- MCSeeds
    MaxChanges = 2
    Hosted = {1, 2}
    Configs <- MCConfigs
    Visits <- MCVisits
    MaxHops = 2
INVARIANTS
    DeletedUserIsOut
    RedirectIsSingleUse
    HomeSessionsUpToDate
    OwnShare
    TenantsServed
    InitialisedOnce
    AnsweredByTenant
PROPERTIES
    ProofsHold
    CodeNotRepeated
CHECK_DEADLOCK FALSE
