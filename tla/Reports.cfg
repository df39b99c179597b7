SPECIFICATION MCSpec
SYMMETRY Symmetry
CONSTANTS
    Recipients = {r1, r2, r3}
    Files = {f1, f2}
    Workers = {w1, w2}
    CanGrant = {r1, r2}
    CanTransfer = {r2}
    CanDelete = {r1}
    Encryption = TRUE
    LegacyPGP = FALSE
    MaxOps = 2
    NoRow = NoRow
    Plain = Plain
    Idle = Idle
    r1 = r1
    r2 = r2
    r3 = r3
    f1 = f1
    f2 = f2
    w1 = w1
    w2 = w2
    N = 4
    Parent <- MCParent
    Options <- MCOptions
    Unknown <- MCUnknown
    Blocks <- MCBlocks
    Sends <- MCSends
    Contexts <- MCContexts
    Points <- MCPoints
    Multiplier <- MCMultiplier
    Triggers <- MCTriggers
    Identity = {3}
    Single = {4}
    Addressees = {x, y}
    x = x
    y = y
    Medium = 2
    High = 4
    Stored = {x, y}
    Old = {x}
    Frames = 1
    MaxFaults = 1
    None = None
INVARIANTS
    SealedToHolder
    ErasedWithReport
    AudienceSeesFiles
    AnswersAgree
    OneAtATime
    ServedWhole
PROPERTIES
    LastRecipientKept
CHECK_DEADLOCK FALSE
