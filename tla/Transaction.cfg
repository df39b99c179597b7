SPECIFICATION FairSpec
CONSTANTS
    Requests = {q1, q2, q3}
    Pages = {p1, p2}
    PoolSize = 2
    Retries = 2
    MaxStops = 1
    None = None
    q1 = q1
    q2 = q2
    q3 = q3
    p1 = p1
    p2 = p2
INVARIANTS
    RunsForCallerOrLater
PROPERTIES
    ImplementsAtomicRequests
    EveryRequestAnswered
CHECK_DEADLOCK FALSE
