\* References, clock and ledger, without merges.
SPECIFICATION Spec
CONSTANTS
    u1 = u1
    u2 = u2
    Content = {c1, c2}
    Users = {u1, u2}
    NoOwner = NoOwner
    Names = {"a"}
    ImportName = "a"
    Services = {"catalog"}
    Entities = {e1, e2}
    Unstamped = Unstamped
    TTL = 1
    MaxObjects = 2
    DedupScope = "owner"
    MergePairs <- NoMerges
    UnlinkMayFail = FALSE
    MaxPk = 4
    MaxNow = 2
SYMMETRY SymUsers
INVARIANTS TypeOK RefsOnCarrier
PROPERTIES LedgerSpec
