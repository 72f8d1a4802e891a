\* A sync claims what the sweeper has selected.
SPECIFICATION Spec
CONSTANTS
    Procs = {p1, p2}
    Content = {c1}
    Owners = {u1}
    NoOwner = NoOwner
    Services = {"catalog"}
    Entities = {e1}
    Ops = {"sync", "sweep"}
    MaxObjects = 2
    Stored = 1
    MaxPk = 1
SYMMETRY SymAll
PROPERTIES SweepSparesReferenced
CHECK_DEADLOCK FALSE
