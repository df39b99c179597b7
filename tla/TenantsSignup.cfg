SPECIFICATION Spec
CONSTANTS
    Tids = {1, 2, 3}
    Root = 1
    Names = {"a", "b"}
    Workers = {w1, w2}
    Threads = {r1, r2}
    w1 = w1
    w2 = w2
    r1 = r1
    r2 = r2
    Seeds <- MCSeeds
    MaxOps = 3
PROPERTY SignupKeepsActive
SYMMETRY Symmetry
CHECK_DEADLOCK FALSE
