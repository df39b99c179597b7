SPECIFICATION Spec
CONSTANTS
    Recipients = {r1, r2}
    Custodians = {c1}
    Workers = {w1}
    MaxRequests = 2
    Idle = Idle
    r1 = r1
    r2 = r2
    c1 = c1
    w1 = w1
INVARIANT AuthorizedDiscloses
CHECK_DEADLOCK FALSE
