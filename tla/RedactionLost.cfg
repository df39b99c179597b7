SPECIFICATION Spec
CONSTANTS
    Answers = {"x", "y"}
    Comments = {"c"}
    Positions = {0, 1, 2}
    Rows = {r1, r2}
    Selections <- MCSelections
    Workers = {w1, w2}
    MaxOps = 4
    w1 = w1
    w2 = w2
    r1 = r1
    r2 = r2
INVARIANT NothingComesBack
SYMMETRY Symmetry
CHECK_DEADLOCK FALSE
