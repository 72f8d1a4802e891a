\* Two workers render one row.
SPECIFICATION Spec
CONSTANTS
    Workers = {w1, w2}
    Shells = {}
    Admins = FALSE
    Commands = FALSE
    MaxRow = 1
PROPERTIES MergeKeepsOtherClass
CHECK_DEADLOCK FALSE
