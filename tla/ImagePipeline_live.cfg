\* A worker runs the tasks, a shell the admin actions and the commands, under
\* fairness.
SPECIFICATION LiveSpec
CONSTANTS
    Workers = {w1}
    Shells = {s1}
    Admins = TRUE
    Commands = TRUE
    MaxRow = 1
PROPERTIES GeometryNeedsNoOverlap PendingEnds
CHECK_DEADLOCK FALSE
