SPECIFICATION MCSpec
SYMMETRY Symmetry
CONSTANTS
    Tenants = {1, 2}
    Root = 1
    Fields = {1, 2, 3, 4, 5, 6, 7, 8, 9, 10, 11, 12, 13}
    Options = {1, 2, 3, 4}
    Questionnaires = {1, 2}
    Workers = {w1, w2}
    w1 = w1
    w2 = w2
    Identity = 1
    MaxNesting = 3
    MaxDepth = 6
    Seeds <- MCSeeds
    MaxEdits = 2
    ra = ra
    ta = ta
    Users = {ra, ta}
    Home <- MCHome
    Admins = {ra, ta}
    UserKeys = {1, 2, 3}
    EscrowKeys = {1, 2}
    Passwords = {p1, p2}
    None = None
    First = ra
    MaxOps = 6
INVARIANTS
    
    KeysSound
PROPERTY CopyLooksTheSame
CHECK_DEADLOCK FALSE
