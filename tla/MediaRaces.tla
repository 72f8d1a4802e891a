------------------------------ MODULE MediaRaces ------------------------------
(***************************************************************************)
(* The handlers of MediaRows statement by statement, run by processes that *)
(* interleave: reference syncs that lock rows, uploads and imports, what   *)
(* destroys rows (the sweeper, the grace-period purge, the erasures of     *)
(* accounts, files and entities), and merges of accounts.  The database    *)
(* reads committed rows; a row a transaction has locked, written or        *)
(* deleted is not another's to lock, write or delete until it ends.        *)
(* Storage takes part in no transaction.                                   *)
(*                                                                         *)
(* One file name, owner-scoped dedup, every account has a user row: what   *)
(* the others add is in MediaRows.                                         *)
(***************************************************************************)
EXTENDS Integers, FiniteSets, Functions

CONSTANTS
    Procs,       \* web, consumer, beat and worker processes
    Content,     \* media refs
    Owners,      \* users
    NoOwner,     \* uploaded_by NULL: the service's pool, and what an erased
                 \* account leaves
    Services, Entities,
    Ops,         \* the handlers that run: a subset of Handlers
    MaxObjects,  \* MAX_OBJECTS_PER_OWNER
    Stored,      \* rows in the table at the start
    MaxPk        \* bound: rows ever created

Reapers  == {"sweep", "purge", "file", "entity"}
Handlers == {"sync", "upload", "import", "merge"} \cup Reapers

ASSUME OpsAssumption   == Ops \subseteq Handlers
ASSUME OwnerAssumption == NoOwner \notin Owners
ASSUME BoundAssumption ==
    MaxObjects \in Nat /\ Stored \in Nat /\ MaxPk \in Nat /\ Stored <= MaxPk

Pk     == 1..MaxPk
Key    == Services \X Entities
Keyset == SUBSET Key
Holder == Owners \cup {NoOwner}
Row    == [content : Content, owner : Holder, refs : Keyset,
           stamp : {"none", "fresh", "old"}]   \* unreferenced_since: NULL,
                                               \* within the TTL, past it
Partial(X) == UNION {[S -> X] : S \in SUBSET Pk}

\* What a handler keeps of a row it read: what it looks at again.
Read == [content : Content, refs : Keyset]

\* What a process is doing.  `mine` holds the rows its transaction has locked,
\* with the refs it read or will write (an account's erasure: the rows it has
\* un-owned), `gone` those it has deleted, `todo` the rows it has yet to come to
\* (a reaper: as it read them), `seen` the sequence when it looked for other rows
\* over the content it is about to unlink, `owner` the account that is erased,
\* `stranded` whether storage has refused one of its unlinks, `keeper` the row a
\* merge folds into, as it read it.
SyncJob == [op : {"sync"}, key : Key, old : SUBSET Content,
            new : SUBSET Content, todo : SUBSET Pk,
            mine : Partial(Keyset), gone : {{}}]
ReapJob == [op : Reapers, step : {"next", "unlink", "delete", "disown"},
            keys : Keyset, todo : Partial(Read), mine : Partial(Keyset),
            gone : SUBSET Pk, seen : 0..MaxPk + 1, owner : Holder,
            stranded : BOOLEAN]
MergeJob == [op : {"merge"}, step : {"fold", "save", "delete"}, from : Owners,
             into : Owners, todo : Partial(Read), mine : Partial(Keyset),
             gone : SUBSET Pk, keeper : [pk : 0..MaxPk, refs : Keyset]]
UploadJob == [op : {"upload", "import"}, step : {"quota", "write", "insert"},
              owner : Holder, content : Content, mine : {<<>>}, gone : {{}}]

VARIABLES
    rows,     \* pk -> row, the committed table
    nextPk,   \* the sequence of the primary key
    files,    \* contents whose original is in storage
    job       \* process -> what it is doing, for the busy ones

vars == <<rows, nextPk, files, job>>

TypeOK == /\ rows \in [DOMAIN rows -> Row] /\ DOMAIN rows \subseteq Pk
          /\ nextPk \in 1..(MaxPk + 1)
          /\ \A r \in DOMAIN rows : r < nextPk
          /\ files \subseteq Content
          /\ DOMAIN job \subseteq Procs
          /\ \A p \in DOMAIN job : job[p] \in SyncJob \cup ReapJob \cup MergeJob \cup UploadJob

\* Some uploads went by before anything ran at the same time.
Init == /\ rows \in {t \in [1..Stored -> Row] :
                        /\ \A r \in 1..Stored : t[r].refs = {} /\ t[r].stamp = "fresh"
                        /\ \A q, r \in 1..Stored :
                              t[q].content = t[r].content
                              /\ t[q].owner = t[r].owner => q = r}
        /\ nextPk = Stored + 1
        /\ files = {rows[r].content : r \in DOMAIN rows}
        /\ job = <<>>

-----------------------------------------------------------------------------

Over(c)    == {r \in DOMAIN rows : rows[r].content = c}
OwnedBy(o) == {r \in DOMAIN rows : rows[r].owner = o}

ReadOf(R) == [r \in R |-> [content |-> rows[r].content, refs |-> rows[r].refs]]

Idle(p) == p \in Procs \ DOMAIN job

Begin(p, j) == job' = [q \in DOMAIN job \cup {p} |-> IF q = p THEN j ELSE job[q]]

End(p) == job' = Restrict(job, DOMAIN job \ {p})

Locked(p) == DOMAIN job[p].mine \cup job[p].gone

\* Nobody waits for a lock.
FreeAlways(p, r) == TRUE

\* No other transaction holds the row.
Free(p, r) == \A q \in DOMAIN job \ {p} : r \notin Locked(q)

\* The process dies or its transaction fails: what it wrote is rolled back,
\* what it did to storage stays.
Crash(p) == /\ p \in DOMAIN job
            /\ End(p)
            /\ UNCHANGED <<rows, nextPk, files>>

\* A row passes its TTL.
Age(r) == /\ r \in DOMAIN rows /\ rows[r].stamp = "fresh"
          /\ rows' = [rows EXCEPT ![r].stamp = "old"]
          /\ UNCHANGED <<nextPk, files, job>>

-----------------------------------------------------------------------------
(* apply_ref_sync                                                          *)

\* The rows over every content the event adds or drops, to be locked.
SyncBegin(p, k, old, new) ==
    /\ Idle(p) /\ "sync" \in Ops
    /\ old # new
    /\ Begin(p, [op |-> "sync", key |-> k, old |-> old, new |-> new,
                 todo |-> UNION {Over(c) : c \in (old \ new) \cup (new \ old)},
                 mine |-> <<>>, gone |-> {}])
    /\ UNCHANGED <<rows, nextPk, files>>

\* SELECT ... FOR UPDATE without an order.
InAnyOrder(p, r) == TRUE

\* SELECT ... ORDER BY created_at, pk FOR UPDATE.
InLockOrder(p, r) == \A q \in job[p].todo : r <= q

\* The lock is had and the row read again; a row that is gone is passed over.
SyncLock(p, r) ==
    /\ p \in DOMAIN job /\ job[p].op = "sync"
    /\ r \in job[p].todo /\ InLockOrder(p, r) /\ Free(p, r)
    /\ job' = [job EXCEPT ![p].todo = @ \ {r},
                          ![p].mine = IF r \in DOMAIN rows
                                      THEN [q \in DOMAIN @ \cup {r} |->
                                              IF q = r THEN rows[r].refs ELSE @[q]]
                                      ELSE @]
    /\ UNCHANGED <<rows, nextPk, files>>

\* The row the ref of its content resolved to: the oldest of the locked ones.
Resolved(p) ==
    {r \in DOMAIN job[p].mine : \A q \in DOMAIN job[p].mine :
        rows[q].content = rows[r].content => r <= q}

ToAdd(p) == job[p].new \ job[p].old

\* The last detach forgets to restart the clock.
DetachedUnstamped(row, refs) == [row EXCEPT !.refs = refs]

\* The detach empties the list.
DetachedFromAll(row, refs) == [row EXCEPT !.refs = {}, !.stamp = "fresh"]

Detached(row, refs) ==
    [row EXCEPT !.refs = refs, !.stamp = IF refs = {} THEN "fresh" ELSE @]

\* The first attach leaves the clock running.
AttachedStamped(row, refs) == [row EXCEPT !.refs = refs]

Attached(row, refs) == [row EXCEPT !.refs = refs, !.stamp = "none"]

SyncCommit(p) ==
    /\ p \in DOMAIN job /\ job[p].op = "sync" /\ job[p].todo = {}
    /\ LET k == job[p].key
           mine == job[p].mine
           Drops(r) == /\ r \in Resolved(p) /\ k \in mine[r]
                       /\ rows[r].content \in job[p].old \ job[p].new
           Gains(r) == /\ r \in Resolved(p) /\ k \notin mine[r]
                       /\ rows[r].content \in ToAdd(p)
       IN  rows' = [r \in DOMAIN rows |->
                      IF Drops(r) THEN Detached(rows[r], mine[r] \ {k})
                      ELSE IF Gains(r) THEN Attached(rows[r], mine[r] \cup {k})
                      ELSE rows[r]]
    /\ End(p)
    /\ UNCHANGED <<nextPk, files>>

-----------------------------------------------------------------------------
(* What destroys rows.  The rows are selected by one query and then taken  *)
(* one by one, newest first.  The sweeper commits each row; the others run *)
(* in one transaction.                                                     *)

ReapBegin(p, op, R, keys, o) ==
    /\ Idle(p) /\ op \in Ops
    /\ Begin(p, [op |-> op, step |-> "next", keys |-> keys, owner |-> o,
                 todo |-> ReadOf(R), mine |-> <<>>, gone |-> {}, seen |-> 0,
                 stranded |-> FALSE])
    /\ UNCHANGED <<rows, nextPk, files>>

Unclaimed == {r \in DOMAIN rows : rows[r].refs = {} /\ rows[r].stamp = "old"}

SweepBegin(p) == Unclaimed # {} /\ ReapBegin(p, "sweep", Unclaimed, {}, NoOwner)

\* purge_unreferenced, which is all of user.deletion_initiated and the first half
\* of the erasure of an account: which of the two it is shows when it is over.
PurgeBegin(p, o) ==
    /\ OwnedBy(o) # {}
    /\ ReapBegin(p, "purge", {r \in OwnedBy(o) : rows[r].refs = {}}, {}, o)

FileBegin(p, c) == Over(c) # {} /\ ReapBegin(p, "file", Over(c), {}, NoOwner)

KeysOf(e) == {k \in Key : k[2] = e}

EntityBegin(p, e) ==
    LET R == {r \in DOMAIN rows : rows[r].refs \cap KeysOf(e) # {}}
    IN  R # {} /\ ReapBegin(p, "entity", R, KeysOf(e), NoOwner)

Reaping(p, step) ==
    p \in DOMAIN job /\ job[p].op \in Reapers /\ job[p].step = step

\* The row the loop is at.
Current(p, r) == /\ r \in DOMAIN job[p].todo
                 /\ \A q \in DOMAIN job[p].todo : q <= r

Left(p, r) == Restrict(job[p].todo, DOMAIN job[p].todo \ {r})

\* What the entity's keys leave of the refs the row was read with.
Remaining(p, r) == job[p].todo[r].refs \ job[p].keys

\* Keeps a row some other entity holds; `save` raises when it is gone.
EntitySave(p, r) ==
    /\ Reaping(p, "next") /\ Current(p, r)
    /\ job[p].op = "entity" /\ Remaining(p, r) # {}
    /\ Free(p, r)
    /\ IF r \in DOMAIN rows
       THEN job' = [job EXCEPT
              ![p].todo = Left(p, r),
              ![p].mine = [q \in DOMAIN @ \cup {r} |->
                             IF q = r THEN Remaining(p, r) ELSE @[q]]]
       ELSE End(p)
    /\ UNCHANGED <<rows, nextPk, files>>

\* The check counts the rows of the owner of r only.
SharedByOwner(p, r) ==
    \E q \in Over(job[p].todo[r].content) \ ({r} \cup job[p].gone) :
        r \in DOMAIN rows => rows[q].owner = rows[r].owner

\* shared_binary_exists: some other row over the content.
Shared(p, r) == Over(job[p].todo[r].content) \ ({r} \cup job[p].gone) # {}

DestroyBegin(p, r) ==
    /\ Reaping(p, "next") /\ Current(p, r)
    /\ ~(job[p].op = "entity" /\ Remaining(p, r) # {})
    /\ job' = IF Shared(p, r) THEN [job EXCEPT ![p].step = "delete"]
              ELSE [job EXCEPT ![p].step = "unlink", ![p].seen = nextPk]
    /\ UNCHANGED <<rows, nextPk, files>>

DestroyUnlink(p, r) ==
    /\ Reaping(p, "unlink") /\ Current(p, r)
    /\ files' = files \ {job[p].todo[r].content}
    /\ job' = [job EXCEPT ![p].step = "delete", ![p].seen = 0]
    /\ UNCHANGED <<rows, nextPk>>

\* Storage refuses.  The row stays; the sweeper and the purge go on with the
\* next one, the erasures of a file or an entity raise.
UnlinkRefused(p, r) ==
    /\ Reaping(p, "unlink") /\ Current(p, r)
    /\ \/ /\ job[p].op \in {"sweep", "purge"}
          /\ job' = [job EXCEPT ![p].todo = Left(p, r), ![p].step = "next",
                                ![p].seen = 0, ![p].stranded = TRUE]
       \/ job[p].op \in {"file", "entity"} /\ End(p)
    /\ UNCHANGED <<rows, nextPk, files>>

\* row.delete(): by primary key, whatever the row says by now.
DestroyDelete(p, r) ==
    /\ Reaping(p, "delete") /\ Current(p, r)
    /\ Free(p, r)
    /\ IF job[p].op = "sweep"
       THEN /\ rows' = Restrict(rows, DOMAIN rows \ {r})
            /\ job' = [job EXCEPT ![p].todo = Left(p, r), ![p].step = "next"]
       ELSE /\ rows' = rows
            /\ job' = [job EXCEPT ![p].todo = Left(p, r), ![p].step = "next",
                                  ![p].gone = @ \cup {r}]
    /\ UNCHANGED <<nextPk, files>>

\* The rows as the transaction of p leaves them.
Written(p) == [r \in DOMAIN rows \ job[p].gone |->
                  IF r \in DOMAIN job[p].mine
                  THEN [rows[r] EXCEPT !.refs = job[p].mine[r],
                                       !.owner = IF job[p].op = "purge" THEN NoOwner ELSE @]
                  ELSE rows[r]]

Disowning(p) == p \in DOMAIN job /\ job[p].op = "purge" /\ job[p].step = "disown"

\* A purge that left a row stranded raises after its pass, and is rolled back; the
\* sweeper has committed each row already.
ReapEnd(p) ==
    /\ Reaping(p, "next") \/ Disowning(p)
    /\ job[p].todo = <<>>
    /\ rows' = IF job[p].op = "purge" /\ job[p].stranded THEN rows ELSE Written(p)
    /\ End(p)
    /\ UNCHANGED <<nextPk, files>>

Twins(o, c) == OwnedBy(o) \cap Over(c)

\* gdpr.delete, after the purge: what the account has left is read ...
DisownRead(p) ==
    /\ Reaping(p, "next") /\ job[p].todo = <<>>
    /\ job[p].op = "purge" /\ ~job[p].stranded
    /\ job' = [job EXCEPT ![p].step = "disown",
                          ![p].todo = ReadOf(OwnedBy(job[p].owner) \ job[p].gone)]
    /\ UNCHANGED <<rows, nextPk, files>>

\* Rows over c that transactions under way have un-owned.
Unowned(c) == {r \in Over(c) : \E q \in DOMAIN job :
                                   job[q].op = "purge" /\ r \in DOMAIN job[q].mine}

\* All the columns are written, as they were read.
SavedRefsAsRead(p, r) == job[p].todo[r].refs

\* update_fields=['uploaded_by']: the refs stay what they are.
SavedRefs(p, r) == rows[r].refs

\* ... and saved row by row, whoever owns the row by now.  A row of the pool over
\* the same content is waited for and refuses it; `save` raises when the row is
\* gone.
DisownSave(p, r) ==
    LET c == job[p].todo[r].content
        t == (Twins(NoOwner, c) \cup Unowned(c)) \ ({r} \cup job[p].gone)
    IN  /\ Disowning(p) /\ Current(p, r)
        /\ \A q \in {r} \cup t : Free(p, q)
        /\ IF r \in DOMAIN rows /\ t = {}
           THEN job' = [job EXCEPT
                  ![p].todo = Left(p, r),
                  ![p].mine = [q \in DOMAIN @ \cup {r} |->
                                 IF q = r THEN SavedRefs(p, r) ELSE @[q]]]
           ELSE End(p)
        /\ UNCHANGED <<rows, nextPk, files>>

-----------------------------------------------------------------------------
(* user.merged: rows of the guest the survivor has too are folded into      *)
(* the survivor's, newest first; the others change owner.                   *)

MergeBegin(p, from, into) ==
    /\ Idle(p) /\ "merge" \in Ops
    /\ from # into /\ OwnedBy(from) # {}
    /\ Begin(p, [op |-> "merge", step |-> "fold", from |-> from, into |-> into,
                 todo |-> ReadOf({r \in OwnedBy(from) : Twins(into, rows[r].content) # {}}),
                 mine |-> <<>>, gone |-> {}, keeper |-> [pk |-> 0, refs |-> {}]])
    /\ UNCHANGED <<rows, nextPk, files>>

Merging(p, step) == p \in DOMAIN job /\ job[p].op = "merge" /\ job[p].step = step

\* The survivor's row is read, unless it has gone.
MergeKeeper(p, r) ==
    /\ Merging(p, "fold") /\ Current(p, r)
    /\ LET K == Twins(job[p].into, job[p].todo[r].content)
       IN  \/ /\ K = {}
              /\ job' = [job EXCEPT ![p].todo = Left(p, r)]
           \/ \E k \in K :
                job' = [job EXCEPT
                   ![p].keeper = [pk |-> k, refs |-> rows[k].refs],
                   ![p].step = IF job[p].todo[r].refs \subseteq rows[k].refs
                               THEN "delete" ELSE "save"]
    /\ UNCHANGED <<rows, nextPk, files>>

\* _fold_refs: the union is written over what the row holds by now; `save`
\* raises when the row is gone.
MergeSave(p, r) ==
    LET k == job[p].keeper.pk
    IN  /\ Merging(p, "save") /\ Current(p, r)
        /\ Free(p, k)
        /\ IF k \in DOMAIN rows
           THEN job' = [job EXCEPT
                  ![p].step = "delete",
                  ![p].mine = [q \in DOMAIN @ \cup {k} |->
                                 IF q = k THEN job[p].keeper.refs \cup job[p].todo[r].refs
                                 ELSE @[q]]]
           ELSE End(p)
        /\ UNCHANGED <<rows, nextPk, files>>

\* The guest's row goes, its bytes stay.
MergeDelete(p, r) ==
    /\ Merging(p, "delete") /\ Current(p, r)
    /\ Free(p, r)
    /\ job' = [job EXCEPT ![p].todo = Left(p, r), ![p].step = "fold",
                          ![p].gone = @ \cup {r}, ![p].keeper = [pk |-> 0, refs |-> {}]]
    /\ UNCHANGED <<rows, nextPk, files>>

\* What the guest has left changes owner and the transaction commits, unless the
\* survivor has got a row over the same content since.  Rows, and rows they would
\* collide with, are waited for.
MergeMove(p) ==
    LET into  == job[p].into
        left  == OwnedBy(job[p].from) \ job[p].gone
        twins == (UNION {Twins(into, rows[r].content) : r \in left}) \ job[p].gone
    IN  /\ Merging(p, "fold") /\ job[p].todo = <<>>
        /\ \A r \in left \cup twins : Free(p, r)
        /\ rows' = IF twins # {} THEN rows
                   ELSE [r \in DOMAIN Written(p) |->
                           IF r \in left THEN [Written(p)[r] EXCEPT !.owner = into]
                           ELSE Written(p)[r]]
        /\ End(p)
        /\ UNCHANGED <<nextPk, files>>

-----------------------------------------------------------------------------
(* An upload: lookup, quota, file, row; an import has no quota             *)

Uploading(p, step) ==
    p \in DOMAIN job /\ job[p].op \in {"upload", "import"} /\ job[p].step = step

UploadBegin(p, op, o, c) ==
    /\ Idle(p) /\ op \in Ops
    /\ \/ op = "upload" /\ o \in Owners
       \/ op = "import" /\ o = NoOwner
    /\ Twins(o, c) = {}
    /\ Begin(p, [op |-> op, step |-> IF op = "upload" THEN "quota" ELSE "write",
                 owner |-> o, content |-> c, mine |-> <<>>, gone |-> {}])
    /\ UNCHANGED <<rows, nextPk, files>>

\* The row that fills the ceiling is not counted.
HasRoomButOne(o) == Cardinality(OwnedBy(o)) <= MaxObjects

HasRoom(o) == Cardinality(OwnedBy(o)) < MaxObjects

UploadQuota(p) ==
    /\ Uploading(p, "quota")
    /\ IF HasRoom(job[p].owner) THEN job' = [job EXCEPT ![p].step = "write"]
       ELSE End(p)
    /\ UNCHANGED <<rows, nextPk, files>>

UploadWrite(p) ==
    /\ Uploading(p, "write")
    /\ files' = files \cup {job[p].content}
    /\ job' = [job EXCEPT ![p].step = "insert"]
    /\ UNCHANGED <<rows, nextPk>>

NewRow(o, c) == [content |-> c, owner |-> o, refs |-> {}, stamp |-> "fresh"]

\* A primary key that the sequence hands out again.
InsertReusesPk(o, c) ==
    /\ nextPk <= MaxPk
    /\ rows' = [r \in DOMAIN rows \cup {nextPk} |->
                  IF r = nextPk THEN NewRow(o, c) ELSE rows[r]]
    /\ UNCHANGED nextPk

Insert(o, c) ==
    /\ nextPk <= MaxPk
    /\ rows' = [r \in DOMAIN rows \cup {nextPk} |->
                  IF r = nextPk THEN NewRow(o, c) ELSE rows[r]]
    /\ nextPk' = nextPk + 1

\* The uniqueness constraint refuses a twin (the view answers 500) and waits
\* for the transaction that is about to delete it, or to make one.
UploadInsert(p) ==
    LET o == job[p].owner
        c == job[p].content
        t == Twins(o, c)
    IN  /\ Uploading(p, "insert")
        /\ \A r \in t : Free(p, r)
        /\ o = NoOwner => Unowned(c) = {}
        /\ \/ t # {} /\ UNCHANGED <<rows, nextPk>>
           \/ t = {} /\ Insert(o, c)
        /\ End(p)
        /\ UNCHANGED files

-----------------------------------------------------------------------------

Next ==
    \/ \E r \in Pk : Age(r)
    \/ \E p \in Procs :
         \/ \E k \in Key, old \in SUBSET Content, new \in SUBSET Content :
                SyncBegin(p, k, old, new)
         \/ \E r \in Pk : \/ SyncLock(p, r) \/ EntitySave(p, r)
                         \/ DestroyBegin(p, r) \/ DestroyUnlink(p, r)
                         \/ UnlinkRefused(p, r) \/ DestroyDelete(p, r)
                         \/ DisownSave(p, r)
                         \/ MergeKeeper(p, r) \/ MergeSave(p, r) \/ MergeDelete(p, r)
         \/ SyncCommit(p) \/ SweepBegin(p) \/ ReapEnd(p) \/ DisownRead(p)
         \/ \E o \in Owners : PurgeBegin(p, o)
         \/ \E from, into \in Owners : MergeBegin(p, from, into)
         \/ MergeMove(p) \/ Crash(p)
         \/ \E c \in Content : FileBegin(p, c)
         \/ \E e \in Entities : EntityBegin(p, e)
         \/ \E op \in {"upload", "import"}, o \in Holder, c \in Content :
                UploadBegin(p, op, o, c)
         \/ UploadQuota(p) \/ UploadWrite(p) \/ UploadInsert(p)

Spec == Init /\ [][Next]_vars

-----------------------------------------------------------------------------
(* Properties                                                              *)

\* A sync event moves its own key and nothing else: keys that other events
\* recorded on the same rows in the meantime are not lost.
SyncKeepsOthers ==
    [][\A p \in Procs : SyncCommit(p) =>
          \A r \in DOMAIN rows :
              rows'[r].refs \ {job[p].key} = rows[r].refs \ {job[p].key}]_vars

\* Syncs that name each other's contents never wait for each other in a ring.
Waits(p, q) ==
    /\ job[p].op = "sync" /\ job[p].todo # {}
    /\ \A r \in job[p].todo : InLockOrder(p, r) => ~Free(p, r)
    /\ \E r \in job[p].todo : InLockOrder(p, r) /\ r \in Locked(q)

NoDeadlock ==
    \A S \in SUBSET DOMAIN job :
        S # {} => \E p \in S : \A q \in S \ {p} : ~Waits(p, q)

\* "cleared while refs is non-empty": no interleaving of syncs leaves a row
\* that is in use on the sweeper's clock.
StampMeansUnreferenced ==
    \A r \in DOMAIN rows : rows[r].refs # {} => rows[r].stamp = "none"

\* A row nothing references is on the sweeper's clock, whatever ran at once.
Reapable == \A r \in DOMAIN rows : rows[r].refs = {} => rows[r].stamp # "none"

\* An original is unlinked under no row but the one that goes with it, save
\* rows that were inserted since shared_binary_exists looked: whatever syncs,
\* sweeps, purges and erasures overlap, no row it could have seen loses its
\* bytes.
UnlinkIsAlone ==
    [][\A p \in Procs, r \in Pk : DestroyUnlink(p, r) =>
          \A q \in Over(job[p].todo[r].content) \ ({r} \cup job[p].gone) :
              q >= job[p].seen]_vars

\* The erasure of an account loses no reference of a row it leaves: it saves rows
\* it read earlier, and syncs may have moved keys since.
DisownKeepsRefs ==
    [][\A p \in Procs : ReapEnd(p) /\ job[p].op = "purge" =>
          \A r \in DOMAIN rows' : rows'[r].refs = rows[r].refs]_vars

\* Uploads of an owner who has passed the quota and has no row yet.
Admitted(o) ==
    {p \in DOMAIN job : /\ Uploading(p, "write") \/ Uploading(p, "insert")
                        /\ job[p].owner = o}

\* The quota is read before the file is written and the row inserted, and nothing
\* is locked in between: the rows of an owner and the uploads of theirs on their
\* way exceed the ceiling by fewer than there are processes, and no more.
OverrunIsBounded ==
    \A o \in Owners : Cardinality(OwnedBy(o)) + Cardinality(Admitted(o))
                          < MaxObjects + Cardinality(Procs)

\* The sweeper never takes a row with a live reference.
SweepSparesReferenced ==
    [][\A p \in Procs, r \in DOMAIN rows :
          DestroyDelete(p, r) /\ job[p].op = "sweep" => rows[r].refs = {}]_vars

Held    == {x \in Key \X Content : \E r \in Over(x[2]) : x[1] \in rows[r].refs}
Present == {c \in Content : Over(c) # {}}

Ledger == INSTANCE RefLedger WITH held <- Held, present <- Present

\* Concurrent syncs are the ledger's one-step syncs in the order in which they
\* commit: every step is a step of the ledger or leaves it alone.
LedgerSteps == [][Ledger!Next]_<<Held, Present>>
=============================================================================
