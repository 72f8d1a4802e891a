\* Two processes sync two keys over two contents, erase contents, or upload
\* beside each other, under a ceiling of one row.
SPECIFICATION Spec
CONSTANTS
    Procs = {p1, p2}
    Content = {c1, c2}
    Owners = {u1}
    NoOwner = NoOwner
    Services = {"catalog"}
    Entities = {e1, e2}
    Ops = {"sync", "file", "upload"}
    MaxObjects = 1
    Stored = 1
    MaxPk = 3
SYMMETRY SymAll
INVARIANTS OverrunIsBounded NoDeadlock StampMeansUnreferenced
PROPERTIES SyncKeepsOthers LedgerSteps
ACTION_CONSTRAINT UploadsApart
CHECK_DEADLOCK FALSE
