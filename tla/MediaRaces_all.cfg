\* Everything at once.
SPECIFICATION Spec
CONSTANTS
    Procs = {p1, p2}
    Content = {c1}
    Owners = {u1, u2}
    NoOwner = NoOwner
    Services = {"catalog"}
    Entities = {e1, e2}
    Ops = {"sync", "upload", "import", "merge", "sweep", "purge", "file", "entity"}
    MaxObjects = 2
    Stored = 1
    MaxPk = 3
SYMMETRY SymAll
INVARIANTS TypeOK Reapable
PROPERTIES UnlinkIsAlone DisownKeepsRefs
CHECK_DEADLOCK FALSE
