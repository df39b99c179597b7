SPECIFICATION MCSpec
SYMMETRY Symmetry
CONSTANTS
    Recipients = {r1, r2}
    Custodians = {c1, c2}
    Workers = {w1, w2}
    MaxRequests = 2
    Idle = Idle
    r1 = r1
    r2 = r2
    c1 = c1
    c2 = c2
    w1 = w1
    w2 = w2
    Answers = {"x", "y"}
    Comments = {"c"}
    Positions = {0, 1, 2}
    Rows = {r1, r2}
    Selections <- MCSelections
    MaxOps = 4
    News = {c1, c2}
    Whistleblower = wb
    MaxTime = 7
    Sessions = {w1, w2}
    Receipts = {r1, r2}
    Forms = {c1, c2}
    Files = {wb}
    None = None
    Retries = 2
    MaxCalls = 3
    MaxStored = 3
INVARIANTS
    FiledWhole
    DecidedByAsked
    RedactionsAreKept
    NobodyMissesNews
PROPERTIES
    NumbersInOrder
    AuthorizationIsDefinitive
    DisclosureIsFinal
CHECK_DEADLOCK FALSE
