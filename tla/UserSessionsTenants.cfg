SPECIFICATION Spec
CONSTANTS
    Workers = {w1}
    Home = Home
    Other = Other
    Reactor = Reactor
    MaxOps = 4
    Gone = Gone
    Idle = Idle
    w1 = w1
INVARIANT SessionsUpToDate
CHECK_DEADLOCK FALSE
