\* Two workers and an admin's web process; no operator.
SPECIFICATION Spec
CONSTANTS
    Workers = {w1, w2}
    Shells = {s1}
    Admins = TRUE
    Commands = FALSE
    MaxRow = 1
SYMMETRY SymWorkers
INVARIANTS TypeOK ReadyMeansLadder
CHECK_DEADLOCK FALSE
