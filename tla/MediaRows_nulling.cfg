\* Two owners of the same bytes leave, owner-scoped dedup.
SPECIFICATION Spec
CONSTANTS
    u1 = u1
    u2 = u2
    Content = {c1}
    Users = {u1, u2}
    NoOwner = NoOwner
    Names = {"a"}
    ImportName = "a"
    Services = {"catalog"}
    Entities = {e1}
    Unstamped = Unstamped
    TTL = 1
    MaxObjects = 2
    DedupScope = "owner"
    MergePairs <- NoMerges
    UnlinkMayFail = FALSE
    MaxPk = 3
    MaxNow = 2
INVARIANTS AccountErasable
