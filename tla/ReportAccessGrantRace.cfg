SPECIFICATION Spec
CONSTANTS
    Recipients = {r1, r2}
    Files = {f1}
    Workers = {w1}
    CanGrant = {r1}
    CanTransfer = {}
    CanDelete = {}
    Encryption = TRUE
    LegacyPGP = FALSE
    MaxOps = 1
    NoRow = NoRow
    Plain = Plain
    Idle = Idle
    r1 = r1
    r2 = r2
    f1 = f1
    w1 = w1
INVARIANT EveryHolderSeesFiles
CHECK_DEADLOCK FALSE
