-------------------------- MODULE MediaRaces_proofs ---------------------------
(***************************************************************************)
(* Theorems about the handlers that interleave, for any number of          *)
(* processes, rows and contents.                                           *)
(***************************************************************************)
EXTENDS MediaRaces, FiniteSetTheorems, WellFoundedInduction, TLAPS

-----------------------------------------------------------------------------
(* The inductive invariant                                                 *)

\* A sync holds the refs as they are, of rows older than those it waits for.
SyncReads(p) ==
    job[p].op = "sync" =>
        \A r \in DOMAIN job[p].mine :
            /\ job[p].mine[r] = rows[r].refs
            /\ \A t \in job[p].todo : r < t

\* What an entity's erasure and a merge write keeps a row in use: the one saves
\* what is left, the other only what adds to the survivor's refs.
WritesRefs(p) ==
    /\ job[p].op \notin {"sync", "purge"} => \A r \in DOMAIN job[p].mine : job[p].mine[r] # {}
    /\ job[p].op \notin {"sync", "entity", "merge", "purge"} => job[p].mine = <<>>
    /\ \A r \in Pk : Merging(p, "save") /\ Current(p, r) =>
           ~(job[p].todo[r].refs \subseteq job[p].keeper.refs)

\* The erasure of an account holds the refs of the rows it un-owns as they are.
UnownsOnly(p) ==
    job[p].op = "purge" => \A r \in DOMAIN job[p].mine : job[p].mine[r] = rows[r].refs

NoIntake == Ops \cap {"upload", "import"} = {}

\* What came over the content since the lookup has a later key.
SeenStands(p) ==
    \A r \in Pk : Reaping(p, "unlink") /\ Current(p, r) =>
        /\ job[p].seen <= nextPk
        /\ NoIntake => job[p].seen = nextPk
        /\ \A q \in Over(job[p].todo[r].content) \ ({r} \cup job[p].gone) :
               q >= job[p].seen

JobOK(p) ==
    /\ job[p].op \in Ops
    /\ DOMAIN job[p].mine \subseteq DOMAIN rows
    /\ SyncReads(p) /\ WritesRefs(p) /\ UnownsOnly(p) /\ SeenStands(p)

\* No two transactions hold one row.
LocksDisjoint ==
    \A p, q \in DOMAIN job : p # q => Locked(p) \cap Locked(q) = {}

Inv == TypeOK /\ LocksDisjoint /\ \A p \in DOMAIN job : JobOK(p)

-----------------------------------------------------------------------------
(* Finite maps from keys, and the records that hold them                   *)

LEMMA PartialIs ==
    ASSUME NEW X, NEW f
    PROVE  f \in Partial(X) <=>
              /\ f = [r \in DOMAIN f |-> f[r]]
              /\ DOMAIN f \subseteq Pk
              /\ \A r \in DOMAIN f : f[r] \in X
  BY DEF Partial

LEMMA PartialEmpty == ASSUME NEW X PROVE <<>> \in Partial(X) /\ DOMAIN <<>> = {}
<1>1. <<>> \in [{} -> X]
  OBVIOUS
<1> QED  BY <1>1 DEF Partial

LEMMA PartialLeft ==
    ASSUME NEW X, NEW f \in Partial(X), NEW r
    PROVE  /\ Restrict(f, DOMAIN f \ {r}) \in Partial(X)
           /\ DOMAIN Restrict(f, DOMAIN f \ {r}) = DOMAIN f \ {r}
           /\ \A q \in DOMAIN f \ {r} : Restrict(f, DOMAIN f \ {r})[q] = f[q]
  BY PartialIs DEF Restrict

LEMMA PartialWith ==
    ASSUME NEW X, NEW f \in Partial(X), NEW r \in Pk, NEW x \in X
    PROVE  [q \in DOMAIN f \cup {r} |-> IF q = r THEN x ELSE f[q]] \in Partial(X)
  BY PartialIs

LEMMA ReadOfTyped ==
    ASSUME TypeOK, NEW R, R \subseteq DOMAIN rows
    PROVE  ReadOf(R) \in Partial(Read)
<1>1. \A r \in R : [content |-> rows[r].content, refs |-> rows[r].refs] \in Read
  BY DEF TypeOK, Row, Read
<1> QED  BY <1>1, PartialIs DEF ReadOf, TypeOK

LEMMA JobKinds ==
    ASSUME TypeOK, NEW p \in DOMAIN job
    PROVE  /\ p \in Procs
           /\ job[p].op = "sync" => job[p] \in SyncJob
           /\ job[p].op \in Reapers => job[p] \in ReapJob
           /\ job[p].op = "merge" => job[p] \in MergeJob
           /\ job[p].op \in {"upload", "import"} => job[p] \in UploadJob
  BY DEF TypeOK, SyncJob, ReapJob, MergeJob, UploadJob, Reapers
-----------------------------------------------------------------------------
(* What a step of one process does to its own record                       *)

Job == SyncJob \cup ReapJob \cup MergeJob \cup UploadJob

\* Process p goes on; the others stand still.
Moves(p) ==
    /\ p \in DOMAIN job
    /\ DOMAIN job' = DOMAIN job
    /\ \A q \in DOMAIN job \ {p} : job'[q] = job[q]
    /\ job'[p] \in Job /\ job'[p].op = job[p].op

LEMMA SyncLockMoves ==
    ASSUME TypeOK, NEW p \in Procs, NEW r \in Pk, SyncLock(p, r)
    PROVE  /\ Moves(p)
           /\ job'[p].op = "sync" /\ job'[p].gone = {}
           /\ job'[p].old = job[p].old /\ job'[p].new = job[p].new
           /\ job'[p].todo = job[p].todo \ {r}
           /\ job'[p].mine = IF r \in DOMAIN rows
                             THEN [q \in DOMAIN job[p].mine \cup {r} |->
                                     IF q = r THEN rows[r].refs ELSE job[p].mine[q]]
                             ELSE job[p].mine
<1> DEFINE mine == IF r \in DOMAIN rows
                   THEN [q \in DOMAIN job[p].mine \cup {r} |->
                           IF q = r THEN rows[r].refs ELSE job[p].mine[q]]
                   ELSE job[p].mine
<1>1. /\ p \in DOMAIN job /\ job[p].op = "sync" /\ job[p] \in SyncJob
  BY JobKinds DEF SyncLock
<1>2. mine \in Partial(Keyset)
  <2>1. job[p].mine \in Partial(Keyset)
    BY <1>1 DEF SyncJob
  <2>2. r \in DOMAIN rows => rows[r].refs \in Keyset
    BY DEF TypeOK, Row
  <2> QED  BY <2>1, <2>2, PartialWith
<1>3. job' = [job EXCEPT ![p].todo = @ \ {r}, ![p].mine = mine]
  BY DEF SyncLock
<1> HIDE DEF mine
<1>4. /\ DOMAIN job' = DOMAIN job
      /\ \A q \in DOMAIN job \ {p} : job'[q] = job[q]
      /\ job'[p] = [job[p] EXCEPT !.todo = job[p].todo \ {r}, !.mine = mine]
  BY <1>1, <1>3
<1>5. /\ job'[p] \in SyncJob /\ job'[p].todo = job[p].todo \ {r}
      /\ job'[p].mine = mine /\ job'[p].op = "sync" /\ job'[p].gone = {}
      /\ job'[p].old = job[p].old /\ job'[p].new = job[p].new
  BY <1>1, <1>2, <1>4 DEF SyncJob
<1>6. Moves(p)
  BY <1>1, <1>4, <1>5 DEF Moves, Job
<1> QED  BY <1>5, <1>6 DEF mine
LEMMA EntitySaveMoves ==
    ASSUME TypeOK, NEW p \in Procs, NEW r \in Pk, EntitySave(p, r), r \in DOMAIN rows
    PROVE  /\ Moves(p)
           /\ job'[p].op = "entity" /\ job'[p].step = "next" /\ job'[p].gone = job[p].gone
           /\ job'[p].mine = [q \in DOMAIN job[p].mine \cup {r} |->
                                IF q = r THEN Remaining(p, r) ELSE job[p].mine[q]]
<1> DEFINE mine == [q \in DOMAIN job[p].mine \cup {r} |->
                      IF q = r THEN Remaining(p, r) ELSE job[p].mine[q]]
           left == Left(p, r)
<1>1. /\ p \in DOMAIN job /\ job[p].op = "entity" /\ job[p] \in ReapJob
      /\ job[p].step = "next"
  BY JobKinds DEF EntitySave, Reaping, Reapers
<1>2. mine \in Partial(Keyset)
  <2>1. job[p].mine \in Partial(Keyset) /\ job[p].todo \in Partial(Read)
    BY <1>1 DEF ReapJob
  <2>2. job[p].todo[r] \in Read
    BY <2>1, PartialIs DEF EntitySave, Current
  <2>3. Remaining(p, r) \in Keyset
    BY <2>2 DEF Remaining, Read, Keyset
  <2> QED  BY <2>1, <2>3, PartialWith
<1>3. left \in Partial(Read)
  BY <1>1, PartialLeft DEF Left, ReapJob
<1>4. job' = [job EXCEPT ![p].todo = left, ![p].mine = mine]
  BY DEF EntitySave
<1> HIDE DEF mine, left
<1>5. /\ DOMAIN job' = DOMAIN job
      /\ \A q \in DOMAIN job \ {p} : job'[q] = job[q]
      /\ job'[p] = [job[p] EXCEPT !.todo = left, !.mine = mine]
  BY <1>1, <1>4
<1>6. /\ job'[p] \in ReapJob /\ job'[p].mine = mine /\ job'[p].step = "next"
      /\ job'[p].op = "entity" /\ job'[p].gone = job[p].gone
  BY <1>1, <1>2, <1>3, <1>5 DEF ReapJob
<1>7. Moves(p)
  BY <1>1, <1>5, <1>6 DEF Moves, Job
<1> QED  BY <1>6, <1>7 DEF mine

\* The way to the deletion of a row, or to the unlinking before it.
LEMMA DestroyBeginMoves ==
    ASSUME TypeOK, NEW p \in Procs, NEW r \in Pk, DestroyBegin(p, r)
    PROVE  /\ Moves(p)
           /\ job[p].op \in Reapers
           /\ job'[p].todo = job[p].todo
           /\ job'[p].mine = job[p].mine /\ job'[p].gone = job[p].gone
           /\ job'[p].step = "unlink" => ~Shared(p, r) /\ job'[p].seen = nextPk
<1>1. p \in DOMAIN job /\ job[p] \in ReapJob /\ job[p].op \in Reapers
  BY JobKinds DEF DestroyBegin, Reaping
<1>2. nextPk \in 0..MaxPk + 1
  BY DEF TypeOK
<1>3. CASE Shared(p, r)
  <2>1. /\ DOMAIN job' = DOMAIN job
        /\ \A q \in DOMAIN job \ {p} : job'[q] = job[q]
        /\ job'[p] = [job[p] EXCEPT !.step = "delete"]
    BY <1>1, <1>3 DEF DestroyBegin
  <2>2. /\ job'[p] \in ReapJob /\ job'[p].todo = job[p].todo /\ job'[p].op = job[p].op
        /\ job'[p].mine = job[p].mine /\ job'[p].gone = job[p].gone
        /\ job'[p].step = "delete"
    BY <1>1, <2>1 DEF ReapJob
  <2> QED  BY <1>1, <2>1, <2>2 DEF Moves, Job
<1>4. CASE ~Shared(p, r)
  <2>1. /\ DOMAIN job' = DOMAIN job
        /\ \A q \in DOMAIN job \ {p} : job'[q] = job[q]
        /\ job'[p] = [job[p] EXCEPT !.step = "unlink", !.seen = nextPk]
    BY <1>1, <1>4 DEF DestroyBegin
  <2>2. /\ job'[p] \in ReapJob /\ job'[p].todo = job[p].todo /\ job'[p].op = job[p].op
        /\ job'[p].mine = job[p].mine /\ job'[p].gone = job[p].gone
        /\ job'[p].seen = nextPk
    BY <1>1, <1>2, <2>1 DEF ReapJob
  <2> QED  BY <1>1, <1>4, <2>1, <2>2 DEF Moves, Job
<1> QED  BY <1>3, <1>4

LEMMA DestroyUnlinkMoves ==
    ASSUME TypeOK, NEW p \in Procs, NEW r \in Pk, DestroyUnlink(p, r)
    PROVE  /\ Moves(p)
           /\ job[p].op \in Reapers /\ job'[p].step = "delete"
           /\ job'[p].mine = job[p].mine /\ job'[p].gone = job[p].gone
           /\ job'[p].todo = job[p].todo
<1>1. p \in DOMAIN job /\ job[p] \in ReapJob /\ job[p].op \in Reapers
  BY JobKinds DEF DestroyUnlink, Reaping
<1>2. 0 \in 0..MaxPk + 1
  BY BoundAssumption
<1>3. /\ DOMAIN job' = DOMAIN job
      /\ \A q \in DOMAIN job \ {p} : job'[q] = job[q]
      /\ job'[p] = [job[p] EXCEPT !.step = "delete", !.seen = 0]
  BY <1>1 DEF DestroyUnlink
<1>4. /\ job'[p] \in ReapJob /\ job'[p].op = job[p].op /\ job'[p].step = "delete"
      /\ job'[p].mine = job[p].mine /\ job'[p].gone = job[p].gone
      /\ job'[p].todo = job[p].todo
  BY <1>1, <1>2, <1>3 DEF ReapJob
<1> QED  BY <1>1, <1>3, <1>4 DEF Moves, Job

LEMMA DestroyDeleteMoves ==
    ASSUME TypeOK, NEW p \in Procs, NEW r \in Pk, DestroyDelete(p, r)
    PROVE  /\ Moves(p)
           /\ job[p].op \in Reapers /\ job'[p].step = "next"
           /\ job'[p].mine = job[p].mine
           /\ job'[p].gone = IF job[p].op = "sweep" THEN job[p].gone
                             ELSE job[p].gone \cup {r}
           /\ DOMAIN job'[p].todo = DOMAIN job[p].todo \ {r}
<1> DEFINE left == Left(p, r)
<1>1. p \in DOMAIN job /\ job[p] \in ReapJob /\ job[p].op \in Reapers
  BY JobKinds DEF DestroyDelete, Reaping
<1>2. left \in Partial(Read)
  BY <1>1, PartialLeft DEF Left, ReapJob
<1>3. job[p].op = "sweep" =>
        job' = [job EXCEPT ![p].todo = left, ![p].step = "next"]
  BY DEF DestroyDelete
<1>4. job[p].op # "sweep" =>
        job' = [job EXCEPT ![p].todo = left, ![p].step = "next", ![p].gone = @ \cup {r}]
  BY DEF DestroyDelete
<1> DEFINE gone == job[p].gone \cup {r}
<1>7. gone \in SUBSET Pk
  BY <1>1 DEF ReapJob
<1>8. DOMAIN left = DOMAIN job[p].todo \ {r}
  <2>1. job[p].todo \in Partial(Read)
    BY <1>1 DEF ReapJob
  <2> QED  BY <2>1, PartialLeft DEF Left
<1> HIDE DEF left, gone
<1>5. CASE job[p].op = "sweep"
  <2>1. /\ DOMAIN job' = DOMAIN job
        /\ \A q \in DOMAIN job \ {p} : job'[q] = job[q]
        /\ job'[p] = [job[p] EXCEPT !.todo = left, !.step = "next"]
    BY <1>1, <1>3, <1>5
  <2>2. /\ job'[p] \in ReapJob /\ job'[p].op = job[p].op /\ job'[p].step = "next"
        /\ job'[p].mine = job[p].mine /\ job'[p].gone = job[p].gone
        /\ job'[p].todo = left
    BY <1>1, <1>2, <2>1 DEF ReapJob
  <2> QED  BY <1>1, <1>5, <1>8, <2>1, <2>2 DEF Moves, Job
<1>6. CASE job[p].op # "sweep"
  <2>1. /\ DOMAIN job' = DOMAIN job
        /\ \A q \in DOMAIN job \ {p} : job'[q] = job[q]
        /\ job'[p] = [job[p] EXCEPT !.todo = left, !.step = "next",
                                    !.gone = gone]
    BY <1>1, <1>4, <1>6 DEF gone
  <2>2. /\ job'[p] \in ReapJob /\ job'[p].op = job[p].op /\ job'[p].step = "next"
        /\ job'[p].mine = job[p].mine /\ job'[p].gone = gone
        /\ job'[p].todo = left
    BY <1>1, <1>2, <1>7, <2>1 DEF ReapJob
  <2> QED  BY <1>1, <1>6, <1>8, <2>1, <2>2 DEF Moves, Job, gone
<1> QED  BY <1>5, <1>6

\* A refused unlink of the sweeper or the purge.
LEMMA UnlinkRefusedMoves ==
    ASSUME TypeOK, NEW p \in Procs, NEW r \in Pk, UnlinkRefused(p, r),
           job[p].op \in {"sweep", "purge"}
    PROVE  /\ Moves(p)
           /\ job[p].op \in Reapers /\ job'[p].step = "next"
           /\ job'[p].mine = job[p].mine /\ job'[p].gone = job[p].gone
           /\ DOMAIN job'[p].todo = DOMAIN job[p].todo \ {r}
<1> DEFINE left == Left(p, r)
<1>1. /\ p \in DOMAIN job /\ job[p] \in ReapJob /\ job[p].op \in Reapers
      /\ job' = [job EXCEPT ![p].todo = left, ![p].step = "next", ![p].seen = 0,
                            ![p].stranded = TRUE]
  BY JobKinds DEF UnlinkRefused, Reaping
<1>2. left \in Partial(Read) /\ DOMAIN left = DOMAIN job[p].todo \ {r}
  <2>1. job[p].todo \in Partial(Read)
    BY <1>1 DEF ReapJob
  <2> QED  BY <2>1, PartialLeft DEF Left
<1>3. 0 \in 0..MaxPk + 1
  BY BoundAssumption
<1> HIDE DEF left
<1>4. /\ DOMAIN job' = DOMAIN job
      /\ \A q \in DOMAIN job \ {p} : job'[q] = job[q]
      /\ job'[p] = [job[p] EXCEPT !.todo = left, !.step = "next", !.seen = 0,
                                  !.stranded = TRUE]
  BY <1>1
<1>5. /\ job'[p] \in ReapJob /\ job'[p].op = job[p].op /\ job'[p].step = "next"
      /\ job'[p].mine = job[p].mine /\ job'[p].gone = job[p].gone
      /\ job'[p].todo = left
  BY <1>1, <1>2, <1>3, <1>4 DEF ReapJob
<1> QED  BY <1>1, <1>2, <1>4, <1>5 DEF Moves, Job

LEMMA DisownReadMoves ==
    ASSUME TypeOK, NEW p \in Procs, DisownRead(p)
    PROVE  /\ Moves(p)
           /\ job[p].op = "purge" /\ job'[p].step = "disown"
           /\ job'[p].mine = job[p].mine /\ job'[p].gone = job[p].gone
<1> DEFINE todo == ReadOf(OwnedBy(job[p].owner) \ job[p].gone)
<1>1. /\ p \in DOMAIN job /\ job[p] \in ReapJob /\ job[p].op = "purge"
      /\ job' = [job EXCEPT ![p].step = "disown", ![p].todo = todo]
  BY JobKinds DEF DisownRead, Reaping
<1>2. todo \in Partial(Read)
  BY ReadOfTyped DEF OwnedBy
<1> HIDE DEF todo
<1>3. /\ DOMAIN job' = DOMAIN job
      /\ \A q \in DOMAIN job \ {p} : job'[q] = job[q]
      /\ job'[p] = [job[p] EXCEPT !.step = "disown", !.todo = todo]
  BY <1>1
<1>4. /\ job'[p] \in ReapJob /\ job'[p].op = job[p].op /\ job'[p].step = "disown"
      /\ job'[p].mine = job[p].mine /\ job'[p].gone = job[p].gone
  BY <1>1, <1>2, <1>3 DEF ReapJob
<1> QED  BY <1>1, <1>3, <1>4 DEF Moves, Job

\* A row is un-owned, unless it or its place in the pool is gone.
LEMMA DisownSaveMoves ==
    ASSUME TypeOK, NEW p \in Procs, NEW r \in Pk, DisownSave(p, r)
    PROVE  /\ p \in DOMAIN job /\ job[p].op = "purge" /\ Free(p, r)
           /\ \/ End(p)
              \/ /\ Moves(p) /\ r \in DOMAIN rows
                 /\ job'[p].step = "disown" /\ job'[p].gone = job[p].gone
                 /\ job'[p].mine = [q \in DOMAIN job[p].mine \cup {r} |->
                                      IF q = r THEN rows[r].refs ELSE job[p].mine[q]]
<1> DEFINE left == Left(p, r)
           mine == [q \in DOMAIN job[p].mine \cup {r} |->
                      IF q = r THEN rows[r].refs ELSE job[p].mine[q]]
<1>1. /\ p \in DOMAIN job /\ job[p] \in ReapJob /\ job[p].op = "purge" /\ Free(p, r)
      /\ \/ End(p)
         \/ r \in DOMAIN rows /\ job' = [job EXCEPT ![p].todo = left, ![p].mine = mine]
  <2>1. Disowning(p)
    BY DEF DisownSave
  <2>2. p \in DOMAIN job /\ job[p] \in ReapJob
    BY <2>1, JobKinds DEF Disowning, Reapers
  <2>3. job[p].op = "purge"
    BY <2>1 DEF Disowning
  <2>4. Free(p, r)
    BY DEF DisownSave
  <2>5. \/ End(p)
        \/ r \in DOMAIN rows /\ job' = [job EXCEPT ![p].todo = left, ![p].mine = mine]
    BY DEF DisownSave, SavedRefs
  <2> QED  BY <2>2, <2>3, <2>4, <2>5
<1>2. ASSUME r \in DOMAIN rows, job' = [job EXCEPT ![p].todo = left, ![p].mine = mine]
      PROVE  /\ Moves(p)
             /\ job'[p].step = job[p].step /\ job'[p].gone = job[p].gone
             /\ job'[p].mine = mine
  <2>1. mine \in Partial(Keyset)
    <3>1. job[p].mine \in Partial(Keyset) /\ rows[r].refs \in Keyset
      BY <1>1, <1>2 DEF ReapJob, TypeOK, Row
    <3> QED  BY <3>1, PartialWith
  <2>2. left \in Partial(Read)
    BY <1>1, PartialLeft DEF Left, ReapJob
  <2> HIDE DEF left, mine
  <2>3. /\ DOMAIN job' = DOMAIN job
        /\ \A q \in DOMAIN job \ {p} : job'[q] = job[q]
        /\ job'[p] = [job[p] EXCEPT !.todo = left, !.mine = mine]
    BY <1>1, <1>2
  <2>4. /\ job'[p] \in ReapJob /\ job'[p].op = job[p].op /\ job'[p].mine = mine
        /\ job'[p].step = job[p].step /\ job'[p].gone = job[p].gone
    BY <1>1, <2>1, <2>2, <2>3 DEF ReapJob
  <2> QED  BY <1>1, <2>3, <2>4 DEF Moves, Job
<1>3. job[p].step = "disown"
  BY DEF DisownSave, Disowning
<1> QED  BY <1>1, <1>2, <1>3

LEMMA MergeKeeperMoves ==
    ASSUME TypeOK, NEW p \in Procs, NEW r \in Pk, MergeKeeper(p, r)
    PROVE  /\ Moves(p)
           /\ job'[p].op = "merge"
           /\ job'[p].mine = job[p].mine /\ job'[p].gone = job[p].gone
           /\ job'[p].step = "save" =>
                /\ job'[p].todo = job[p].todo
                /\ ~(job[p].todo[r].refs \subseteq job'[p].keeper.refs)
<1> DEFINE left == Left(p, r)
           K    == Twins(job[p].into, job[p].todo[r].content)
<1>1. /\ p \in DOMAIN job /\ job[p] \in MergeJob /\ job[p].op = "merge"
      /\ job[p].step = "fold"
  BY JobKinds DEF MergeKeeper, Merging
<1>2. left \in Partial(Read)
  BY <1>1, PartialLeft DEF Left, MergeJob
<1>3. CASE job' = [job EXCEPT ![p].todo = left]
  <2> HIDE DEF left
  <2>1. /\ DOMAIN job' = DOMAIN job
        /\ \A q \in DOMAIN job \ {p} : job'[q] = job[q]
        /\ job'[p] = [job[p] EXCEPT !.todo = left]
    BY <1>1, <1>3
  <2>2. /\ job'[p] \in MergeJob /\ job'[p].op = "merge" /\ job'[p].step = "fold"
        /\ job'[p].mine = job[p].mine /\ job'[p].gone = job[p].gone
    BY <1>1, <1>2, <2>1 DEF MergeJob
  <2> QED  BY <1>1, <2>1, <2>2 DEF Moves, Job
<1>4. ASSUME NEW k \in K,
             job' = [job EXCEPT
                 ![p].keeper = [pk |-> k, refs |-> rows[k].refs],
                 ![p].step = IF job[p].todo[r].refs \subseteq rows[k].refs
                             THEN "delete" ELSE "save"]
      PROVE  /\ Moves(p)
             /\ job'[p].op = "merge"
             /\ job'[p].mine = job[p].mine /\ job'[p].gone = job[p].gone
             /\ job'[p].step = "save" =>
                  /\ job'[p].todo = job[p].todo
                  /\ ~(job[p].todo[r].refs \subseteq job'[p].keeper.refs)
  <2> DEFINE keeper == [pk |-> k, refs |-> rows[k].refs]
             step == IF job[p].todo[r].refs \subseteq rows[k].refs
                     THEN "delete" ELSE "save"
  <2>1. k \in 0..MaxPk /\ rows[k].refs \in Keyset
    BY BoundAssumption DEF Twins, OwnedBy, Over, TypeOK, Row, Pk
  <2>2. keeper \in [pk : 0..MaxPk, refs : Keyset] /\ keeper.refs = rows[k].refs
    BY <2>1
  <2>3. /\ step \in {"save", "delete"}
        /\ step = "save" => ~(job[p].todo[r].refs \subseteq keeper.refs)
    BY <2>2
  <2>4. job' = [job EXCEPT ![p].keeper = keeper, ![p].step = step]
    BY <1>4
  <2> HIDE DEF keeper, step, K
  <2>5. /\ DOMAIN job' = DOMAIN job
        /\ \A q \in DOMAIN job \ {p} : job'[q] = job[q]
        /\ job'[p] = [job[p] EXCEPT !.keeper = keeper, !.step = step]
    BY <1>1, <2>4
  <2>6. /\ job'[p] \in MergeJob /\ job'[p].op = "merge" /\ job'[p].step = step
        /\ job'[p].mine = job[p].mine /\ job'[p].gone = job[p].gone
        /\ job'[p].todo = job[p].todo /\ job'[p].keeper = keeper
    BY <1>1, <2>2, <2>3, <2>5 DEF MergeJob
  <2> QED  BY <1>1, <2>3, <2>5, <2>6 DEF Moves, Job
<1> QED  BY <1>3, <1>4 DEF MergeKeeper

LEMMA MergeSaveMoves ==
    ASSUME TypeOK, NEW p \in Procs, NEW r \in Pk, MergeSave(p, r),
           job[p].keeper.pk \in DOMAIN rows
    PROVE  /\ Moves(p)
           /\ job'[p].op = "merge" /\ job'[p].step = "delete"
           /\ job'[p].gone = job[p].gone
           /\ job'[p].mine = [q \in DOMAIN job[p].mine \cup {job[p].keeper.pk} |->
                IF q = job[p].keeper.pk
                THEN job[p].keeper.refs \cup job[p].todo[r].refs ELSE job[p].mine[q]]
<1> DEFINE k == job[p].keeper.pk
           refs == job[p].keeper.refs \cup job[p].todo[r].refs
           mine == [q \in DOMAIN job[p].mine \cup {k} |->
                      IF q = k THEN refs ELSE job[p].mine[q]]
<1>1. /\ p \in DOMAIN job /\ job[p] \in MergeJob /\ job[p].op = "merge"
  BY JobKinds DEF MergeSave, Merging
<1>2. mine \in Partial(Keyset)
  <2>1. job[p].mine \in Partial(Keyset) /\ job[p].todo \in Partial(Read)
        /\ job[p].keeper.refs \in Keyset
    BY <1>1 DEF MergeJob
  <2>2. job[p].todo[r] \in Read
    BY <2>1, PartialIs DEF MergeSave, Current
  <2>3. refs \in Keyset
    BY <2>1, <2>2 DEF Read, Keyset
  <2>4. k \in Pk
    BY DEF TypeOK
  <2> QED  BY <2>1, <2>3, <2>4, PartialWith
<1>3. job' = [job EXCEPT ![p].step = "delete", ![p].mine = mine]
  BY DEF MergeSave
<1> HIDE DEF mine
<1>4. /\ DOMAIN job' = DOMAIN job
      /\ \A q \in DOMAIN job \ {p} : job'[q] = job[q]
      /\ job'[p] = [job[p] EXCEPT !.step = "delete", !.mine = mine]
  BY <1>1, <1>3
<1>5. /\ job'[p] \in MergeJob /\ job'[p].mine = mine /\ job'[p].step = "delete"
      /\ job'[p].op = "merge" /\ job'[p].gone = job[p].gone
  BY <1>1, <1>2, <1>4 DEF MergeJob
<1>6. Moves(p)
  BY <1>1, <1>4, <1>5 DEF Moves, Job
<1> QED  BY <1>5, <1>6 DEF mine

LEMMA MergeDeleteMoves ==
    ASSUME TypeOK, NEW p \in Procs, NEW r \in Pk, MergeDelete(p, r)
    PROVE  /\ Moves(p)
           /\ job'[p].op = "merge" /\ job'[p].step = "fold"
           /\ job'[p].mine = job[p].mine /\ job'[p].gone = job[p].gone \cup {r}
<1> DEFINE left == Left(p, r)
           gone == job[p].gone \cup {r}
           keeper == [pk |-> 0, refs |-> {}]
<1>1. p \in DOMAIN job /\ job[p] \in MergeJob /\ job[p].op = "merge"
  BY JobKinds DEF MergeDelete, Merging
<1>2. left \in Partial(Read)
  BY <1>1, PartialLeft DEF Left, MergeJob
<1>3. gone \in SUBSET Pk
  BY <1>1 DEF MergeJob
<1>4. keeper \in [pk : 0..MaxPk, refs : Keyset]
  BY BoundAssumption DEF Keyset
<1>5. job' = [job EXCEPT ![p].todo = left, ![p].step = "fold", ![p].gone = gone,
                         ![p].keeper = keeper]
  BY DEF MergeDelete
<1> HIDE DEF left, gone, keeper
<1>6. /\ DOMAIN job' = DOMAIN job
      /\ \A q \in DOMAIN job \ {p} : job'[q] = job[q]
      /\ job'[p] = [job[p] EXCEPT !.todo = left, !.step = "fold", !.gone = gone,
                                  !.keeper = keeper]
  BY <1>1, <1>5
<1>7. /\ job'[p] \in MergeJob /\ job'[p].op = "merge" /\ job'[p].step = "fold"
      /\ job'[p].mine = job[p].mine /\ job'[p].gone = gone
  BY <1>1, <1>2, <1>3, <1>4, <1>6 DEF MergeJob
<1> QED  BY <1>1, <1>6, <1>7 DEF Moves, Job, gone

\* An upload on its way to the insert.
LEMMA UploadMoves ==
    ASSUME TypeOK, NEW p \in Procs, NEW step \in {"write", "insert"},
           p \in DOMAIN job, job[p].op \in {"upload", "import"},
           job' = [job EXCEPT ![p].step = step]
    PROVE  /\ Moves(p)
           /\ job[p].mine = <<>> /\ job[p].gone = {}
           /\ job'[p].mine = <<>> /\ job'[p].gone = {}
<1>1. job[p] \in UploadJob
  BY JobKinds
<1>2. /\ DOMAIN job' = DOMAIN job
      /\ \A q \in DOMAIN job \ {p} : job'[q] = job[q]
      /\ job'[p] = [job[p] EXCEPT !.step = step]
  OBVIOUS
<1>3. /\ job'[p] \in UploadJob /\ job'[p].op = job[p].op
      /\ job'[p].mine = <<>> /\ job'[p].gone = {}
      /\ job[p].mine = <<>> /\ job[p].gone = {}
  BY <1>1, <1>2 DEF UploadJob
<1> QED  BY <1>2, <1>3 DEF Moves, Job
\* Process p begins: it holds nothing yet.
Starts(p) ==
    /\ p \in Procs \ DOMAIN job
    /\ DOMAIN job' = DOMAIN job \cup {p}
    /\ \A q \in DOMAIN job : job'[q] = job[q]
    /\ job'[p] \in Job /\ job'[p].op \in Ops
    /\ job'[p].mine = <<>> /\ job'[p].gone = {}
    /\ ~Reaping(p, "unlink")' /\ ~Merging(p, "save")'

LEMMA BeginStarts ==
    ASSUME NEW p \in Procs \ DOMAIN job, NEW j \in Job, Begin(p, j),
           j.op \in Ops, j.mine = <<>>, j.gone = {},
           j.op \in Reapers => j.step = "next", j.op = "merge" => j.step = "fold"
    PROVE  Starts(p)
<1>1. /\ DOMAIN job' = DOMAIN job \cup {p} /\ job'[p] = j
      /\ \A q \in DOMAIN job : job'[q] = job[q]
  BY DEF Begin
<1>2. ~Reaping(p, "unlink")' /\ ~Merging(p, "save")'
  BY <1>1 DEF Reaping, Merging
<1> QED  BY <1>1, <1>2 DEF Starts

LEMMA SyncStarts ==
    ASSUME TypeOK, NEW p \in Procs, NEW k \in Key, NEW old \in SUBSET Content,
           NEW new \in SUBSET Content, SyncBegin(p, k, old, new)
    PROVE  Starts(p) /\ UNCHANGED <<rows, nextPk>>
<1> DEFINE todo == UNION {Over(c) : c \in (old \ new) \cup (new \ old)}
           j == [op |-> "sync", key |-> k, old |-> old, new |-> new,
                 todo |-> todo, mine |-> <<>>, gone |-> {}]
<1>1. todo \in SUBSET Pk
  BY DEF Over, TypeOK
<1>2. Begin(p, j) /\ p \in Procs \ DOMAIN job /\ "sync" \in Ops /\ UNCHANGED <<rows, nextPk>>
  BY DEF SyncBegin, Idle
<1> HIDE DEF todo
<1>3. j \in SyncJob
  BY <1>1, PartialEmpty DEF SyncJob
<1>4. j.op = "sync" /\ j.mine = <<>> /\ j.gone = {}
  OBVIOUS
<1> HIDE DEF j
<1> QED  BY <1>2, <1>3, <1>4, BeginStarts DEF Job, Reapers

LEMMA ReapStarts ==
    ASSUME TypeOK, NEW p \in Procs, NEW op \in Reapers, NEW R \in SUBSET DOMAIN rows,
           NEW keys \in Keyset, NEW o \in Holder, ReapBegin(p, op, R, keys, o)
    PROVE  Starts(p) /\ UNCHANGED <<rows, nextPk>>
<1> DEFINE todo == ReadOf(R)
           j == [op |-> op, step |-> "next", keys |-> keys, owner |-> o,
                 todo |-> todo, mine |-> <<>>, gone |-> {}, seen |-> 0,
                 stranded |-> FALSE]
<1>1. todo \in Partial(Read)
  BY ReadOfTyped
<1>2. Begin(p, j) /\ p \in Procs \ DOMAIN job /\ op \in Ops /\ UNCHANGED <<rows, nextPk>>
  BY DEF ReapBegin, Idle
<1>3. 0 \in 0..MaxPk + 1
  BY BoundAssumption
<1> HIDE DEF todo
<1>4. j \in ReapJob
  BY <1>1, <1>3, PartialEmpty DEF ReapJob
<1>5. j.op = op /\ j.mine = <<>> /\ j.gone = {} /\ j.step = "next"
  OBVIOUS
<1> HIDE DEF j
<1> QED  BY <1>2, <1>4, <1>5, BeginStarts DEF Job, Reapers

LEMMA MergeStarts ==
    ASSUME TypeOK, NEW p \in Procs, NEW from \in Owners, NEW into \in Owners,
           MergeBegin(p, from, into)
    PROVE  Starts(p) /\ UNCHANGED <<rows, nextPk>>
<1> DEFINE todo == ReadOf({r \in OwnedBy(from) : Twins(into, rows[r].content) # {}})
           keeper == [pk |-> 0, refs |-> {}]
           j == [op |-> "merge", step |-> "fold", from |-> from, into |-> into,
                 todo |-> todo, mine |-> <<>>, gone |-> {}, keeper |-> keeper]
<1>1. todo \in Partial(Read)
  BY ReadOfTyped DEF OwnedBy
<1>2. Begin(p, j) /\ p \in Procs \ DOMAIN job /\ "merge" \in Ops
      /\ UNCHANGED <<rows, nextPk>>
  BY DEF MergeBegin, Idle
<1>3. keeper \in [pk : 0..MaxPk, refs : Keyset]
  BY BoundAssumption DEF Keyset
<1> HIDE DEF todo, keeper
<1>4. j \in MergeJob
  BY <1>1, <1>3, PartialEmpty DEF MergeJob
<1>5. j.op = "merge" /\ j.mine = <<>> /\ j.gone = {} /\ j.step = "fold"
  OBVIOUS
<1> HIDE DEF j
<1> QED  BY <1>2, <1>4, <1>5, BeginStarts DEF Job, Reapers

LEMMA UploadStarts ==
    ASSUME TypeOK, NEW p \in Procs, NEW op \in {"upload", "import"}, NEW o \in Holder,
           NEW c \in Content, UploadBegin(p, op, o, c)
    PROVE  Starts(p) /\ UNCHANGED <<rows, nextPk>>
<1> DEFINE step == IF op = "upload" THEN "quota" ELSE "write"
           j == [op |-> op, step |-> step,
                 owner |-> o, content |-> c, mine |-> <<>>, gone |-> {}]
<1>1. Begin(p, j) /\ p \in Procs \ DOMAIN job /\ op \in Ops /\ UNCHANGED <<rows, nextPk>>
  BY DEF UploadBegin, Idle
<1>2. step \in {"quota", "write"}
  OBVIOUS
<1> HIDE DEF step
<1>3. j \in UploadJob
  BY <1>2 DEF UploadJob
<1>4. j.op = op /\ j.mine = <<>> /\ j.gone = {}
  OBVIOUS
<1> HIDE DEF j
<1> QED  BY <1>1, <1>3, <1>4, BeginStarts DEF Job, Reapers

\* Every handler begins in one of these ways.
Begins(p) ==
    \/ \E k \in Key, old \in SUBSET Content, new \in SUBSET Content :
            SyncBegin(p, k, old, new)
    \/ SweepBegin(p)
    \/ \E o \in Owners : PurgeBegin(p, o)
    \/ \E from, into \in Owners : MergeBegin(p, from, into)
    \/ \E c \in Content : FileBegin(p, c)
    \/ \E e \in Entities : EntityBegin(p, e)
    \/ \E op \in {"upload", "import"}, o \in Holder, c \in Content :
            UploadBegin(p, op, o, c)

LEMMA HandlersStart ==
    ASSUME TypeOK, NEW p \in Procs, Begins(p)
    PROVE  Starts(p) /\ UNCHANGED <<rows, nextPk>>
<1>1. CASE SweepBegin(p)
  <2>1. Unclaimed \in SUBSET DOMAIN rows
    BY DEF Unclaimed
  <2> QED  BY <1>1, <2>1, ReapStarts DEF SweepBegin, Reapers, Keyset, Holder
<1>2. ASSUME NEW o \in Owners, PurgeBegin(p, o)
      PROVE  Starts(p) /\ UNCHANGED <<rows, nextPk>>
  <2>1. {r \in OwnedBy(o) : rows[r].refs = {}} \in SUBSET DOMAIN rows
    BY DEF OwnedBy
  <2> QED  BY <1>2, <2>1, ReapStarts DEF PurgeBegin, Reapers, Keyset, Holder
<1>3. ASSUME NEW c \in Content, FileBegin(p, c)
      PROVE  Starts(p) /\ UNCHANGED <<rows, nextPk>>
  <2>1. Over(c) \in SUBSET DOMAIN rows
    BY DEF Over
  <2> QED  BY <1>3, <2>1, ReapStarts DEF FileBegin, Reapers, Keyset, Holder
<1>4. ASSUME NEW e \in Entities, EntityBegin(p, e)
      PROVE  Starts(p) /\ UNCHANGED <<rows, nextPk>>
  <2>1. {r \in DOMAIN rows : rows[r].refs \cap KeysOf(e) # {}} \in SUBSET DOMAIN rows
    OBVIOUS
  <2>2. KeysOf(e) \in Keyset
    BY DEF KeysOf, Keyset
  <2> QED  BY <1>4, <2>1, <2>2, ReapStarts DEF EntityBegin, Reapers, Holder
<1> QED  BY <1>1, <1>2, <1>3, <1>4, SyncStarts, MergeStarts, UploadStarts DEF Begins
-----------------------------------------------------------------------------
(* What a step of one process does to the table                            *)

TableOK == /\ rows \in [DOMAIN rows -> Row] /\ DOMAIN rows \subseteq Pk
           /\ nextPk \in 1..(MaxPk + 1)
           /\ \A r \in DOMAIN rows : r < nextPk

\* Process p leaves alone what the others hold; rows keep their content, and
\* a new one has a key that was never used.
TableFrame(p) ==
    /\ nextPk <= nextPk' /\ (NoIntake => nextPk' = nextPk)
    /\ \A r \in DOMAIN rows' :
          IF r \in DOMAIN rows THEN rows'[r].content = rows[r].content ELSE r >= nextPk
    /\ \A q \in DOMAIN job \ {p} : \A r \in DOMAIN job[q].mine :
          r \in DOMAIN rows' /\ rows'[r].refs = rows[r].refs

\* Process p ends, and what it wrote is written.
Ends(p) == /\ p \in DOMAIN job
           /\ DOMAIN job' = DOMAIN job \ {p}
           /\ \A q \in DOMAIN job \ {p} : job'[q] = job[q]

LEMMA EndEnds == ASSUME NEW p \in DOMAIN job, End(p) PROVE Ends(p)
  BY DEF End, Ends, Restrict

LEMMA MineTyped ==
    ASSUME TypeOK, NEW p \in DOMAIN job
    PROVE  job[p].mine \in Partial(Keyset) /\ job[p].gone \in SUBSET Pk
<1>1. job[p] \in SyncJob \cup ReapJob \cup MergeJob \cup UploadJob
  BY DEF TypeOK
<1>2. CASE job[p] \in SyncJob
  BY <1>2 DEF SyncJob
<1>3. CASE job[p] \in ReapJob
  BY <1>3 DEF ReapJob
<1>4. CASE job[p] \in MergeJob
  BY <1>4 DEF MergeJob
<1>5. CASE job[p] \in UploadJob
  BY <1>5, PartialEmpty DEF UploadJob
<1> QED  BY <1>1, <1>2, <1>3, <1>4, <1>5

LEMMA TypeOKIs ==
    TypeOK <=> /\ TableOK /\ files \subseteq Content
               /\ DOMAIN job \subseteq Procs
               /\ \A p \in DOMAIN job : job[p] \in Job
  BY DEF TypeOK, TableOK, Job

LEMMA StillTable ==
    ASSUME Inv, UNCHANGED <<rows, nextPk>>, NEW p
    PROVE  TableOK' /\ TableFrame(p)
<1>1. TableOK'
  BY DEF Inv, TypeOK, TableOK
<1>2. nextPk <= nextPk'
  BY DEF Inv, TypeOK
<1>3. \A q \in DOMAIN job : DOMAIN job[q].mine \subseteq DOMAIN rows
  BY DEF Inv, JobOK
<1> QED  BY <1>1, <1>2, <1>3 DEF TableFrame

\* A table that lost some rows nobody else holds, and got other refs, owners and
\* stamps on rows nobody else has locked.
LEMMA LessTable ==
    ASSUME Inv, NEW p, NEW S \in SUBSET DOMAIN rows,
           rows' = [r \in S |-> rows'[r]], nextPk' = nextPk,
           \A r \in S : rows'[r] \in Row /\ rows'[r].content = rows[r].content,
           \A q \in DOMAIN job \ {p} : \A r \in DOMAIN job[q].mine :
               r \in S /\ rows'[r].refs = rows[r].refs
    PROVE  TableOK' /\ TableFrame(p)
<1>1. DOMAIN rows' = S
  OBVIOUS
<1>2. TableOK'
  BY <1>1 DEF Inv, TypeOK, TableOK
<1>3. nextPk <= nextPk'
  BY DEF Inv, TypeOK
<1> QED  BY <1>1, <1>2, <1>3 DEF TableFrame

LEMMA WrittenIs ==
    ASSUME TypeOK, NEW p \in DOMAIN job
    PROVE  /\ DOMAIN Written(p) = DOMAIN rows \ job[p].gone
           /\ Written(p) = [r \in DOMAIN Written(p) |-> Written(p)[r]]
           /\ \A r \in DOMAIN Written(p) :
                 /\ Written(p)[r] \in Row
                 /\ Written(p)[r].content = rows[r].content
                 /\ Written(p)[r].owner \in {rows[r].owner, NoOwner}
                 /\ Written(p)[r].stamp = rows[r].stamp
                 /\ Written(p)[r].refs = IF r \in DOMAIN job[p].mine
                                         THEN job[p].mine[r] ELSE rows[r].refs
<1>1. \A r \in DOMAIN job[p].mine : job[p].mine[r] \in Keyset
  BY MineTyped, PartialIs
<1>2. \A r \in DOMAIN rows : rows[r] \in Row
  BY DEF TypeOK
<1>3. DOMAIN Written(p) = DOMAIN rows \ job[p].gone
      /\ Written(p) = [r \in DOMAIN Written(p) |-> Written(p)[r]]
  BY DEF Written
<1>4. ASSUME NEW r \in DOMAIN Written(p)
      PROVE  /\ Written(p)[r] \in Row
             /\ Written(p)[r].content = rows[r].content
             /\ Written(p)[r].owner \in {rows[r].owner, NoOwner}
             /\ Written(p)[r].stamp = rows[r].stamp
             /\ Written(p)[r].refs = IF r \in DOMAIN job[p].mine
                                     THEN job[p].mine[r] ELSE rows[r].refs
  <2>1. rows[r] \in Row
    BY <1>2, <1>3
  <2>2. CASE r \in DOMAIN job[p].mine
    <3> DEFINE owner == IF job[p].op = "purge" THEN NoOwner ELSE rows[r].owner
    <3>1. Written(p)[r] = [rows[r] EXCEPT !.refs = job[p].mine[r], !.owner = owner]
      BY <1>3, <2>2 DEF Written
    <3>2. owner \in {rows[r].owner, NoOwner} /\ owner \in Holder
      BY <2>1 DEF Row, Holder
    <3> HIDE DEF owner
    <3> QED  BY <1>1, <2>1, <2>2, <3>1, <3>2 DEF Row
  <2>3. CASE r \notin DOMAIN job[p].mine
    BY <1>3, <2>1, <2>3 DEF Written
  <2> QED  BY <2>2, <2>3
<1> QED  BY <1>3, <1>4

\* What is neither a sync nor a fold of refs writes none.
LEMMA WrittenKeepsRefs ==
    ASSUME Inv, NEW p \in DOMAIN job, job[p].op \notin {"sync", "entity", "merge"}
    PROVE  /\ DOMAIN Written(p) \subseteq DOMAIN rows
           /\ \A r \in DOMAIN Written(p) : /\ Written(p)[r].refs = rows[r].refs
                                           /\ Written(p)[r].stamp = rows[r].stamp
<1>1. \A r \in DOMAIN job[p].mine : job[p].mine[r] = rows[r].refs
  <2>1. job[p].op # "purge" => DOMAIN job[p].mine = {}
    BY PartialEmpty DEF Inv, JobOK, WritesRefs
  <2> QED  BY <2>1 DEF Inv, JobOK, UnownsOnly
<1>2. TypeOK
  BY DEF Inv
<1> QED  BY <1>1, <1>2, WrittenIs

\* What one process holds is not another's.
LEMMA HeldApart ==
    ASSUME Inv, NEW p \in DOMAIN job, NEW q \in DOMAIN job \ {p}
    PROVE  \A r \in DOMAIN job[q].mine :
               r \in DOMAIN rows /\ r \notin job[p].gone /\ r \notin DOMAIN job[p].mine
  BY DEF Inv, LocksDisjoint, Locked, JobOK

\* The transaction of p commits.
LEMMA CommitTable ==
    ASSUME Inv, NEW p \in DOMAIN job, nextPk' = nextPk,
           DOMAIN rows' = DOMAIN Written(p),
           rows' = [r \in DOMAIN rows' |-> rows'[r]],
           \A r \in DOMAIN rows' :
              /\ rows'[r] \in Row
              /\ rows'[r].content = Written(p)[r].content
              /\ rows'[r].refs = Written(p)[r].refs
    PROVE  TableOK' /\ TableFrame(p)
<1> DEFINE S == DOMAIN rows \ job[p].gone
<1>1. TypeOK
  BY DEF Inv
<1>2. DOMAIN rows' = S /\ S \in SUBSET DOMAIN rows
  BY <1>1, WrittenIs
<1>3. \A r \in S : rows'[r] \in Row /\ rows'[r].content = rows[r].content
  BY <1>1, <1>2, WrittenIs
<1>4. ASSUME NEW q \in DOMAIN job \ {p}, NEW r \in DOMAIN job[q].mine
      PROVE  r \in S /\ rows'[r].refs = rows[r].refs
  <2>1. r \in S /\ r \notin DOMAIN job[p].mine
    BY HeldApart
  <2>2. r \in DOMAIN rows' /\ r \in DOMAIN Written(p)
    BY <1>2, <2>1
  <2>3. Written(p)[r].refs = rows[r].refs
    BY <1>1, <2>1, <2>2, WrittenIs
  <2> QED  BY <2>1, <2>2, <2>3
<1> HIDE DEF S
<1> QED  BY <1>2, <1>3, <1>4, LessTable

LEMMA ReapEndTable ==
    ASSUME Inv, NEW p \in Procs, ReapEnd(p)
    PROVE  /\ Ends(p) /\ TableOK' /\ TableFrame(p)
           /\ p \in DOMAIN job /\ job[p].op \in Reapers
           /\ rows' = rows \/ rows' = Written(p)
           /\ job[p].op # "purge" => rows' = Written(p)
<1>1. /\ p \in DOMAIN job /\ TypeOK /\ nextPk' = nextPk /\ End(p)
      /\ job[p].op \in Reapers
      /\ rows' = rows \/ rows' = Written(p)
      /\ job[p].op # "purge" => rows' = Written(p)
  BY DEF ReapEnd, Reaping, Disowning, Reapers, Inv
<1>2. CASE rows' = rows
  BY <1>1, <1>2, StillTable, EndEnds
<1>3. CASE rows' = Written(p)
  BY <1>1, <1>3, WrittenIs, CommitTable, EndEnds
<1> QED  BY <1>1, <1>2, <1>3

\* The bulk move of a merge leaves everything as it was, or commits what the fold
\* wrote and changes owners besides.
LEMMA MergeMoveTable ==
    ASSUME Inv, NEW p \in Procs, MergeMove(p)
    PROVE  /\ Ends(p) /\ TableOK' /\ TableFrame(p)
           /\ p \in DOMAIN job /\ job[p].op = "merge"
           /\ \/ rows' = rows
              \/ /\ DOMAIN rows' = DOMAIN Written(p)
                 /\ \A r \in DOMAIN rows' : /\ rows'[r].refs = Written(p)[r].refs
                                            /\ rows'[r].stamp = Written(p)[r].stamp
<1> DEFINE into == job[p].into
           left == OwnedBy(job[p].from) \ job[p].gone
           moved == [r \in DOMAIN Written(p) |->
                       IF r \in left THEN [Written(p)[r] EXCEPT !.owner = into]
                       ELSE Written(p)[r]]
<1>1. /\ TypeOK /\ p \in DOMAIN job /\ job[p].op = "merge" /\ job[p] \in MergeJob
      /\ End(p) /\ nextPk' = nextPk
      /\ rows' = rows \/ rows' = moved
  <2>1. TypeOK /\ p \in DOMAIN job /\ job[p].op = "merge" /\ End(p) /\ nextPk' = nextPk
    BY DEF MergeMove, Merging, Inv
  <2>2. rows' = rows \/ rows' = moved
    BY DEF MergeMove
  <2> QED  BY <2>1, <2>2, JobKinds
<1>2. Ends(p)
  BY <1>1, EndEnds
<1>3. CASE rows' = rows
  BY <1>1, <1>2, <1>3, StillTable
<1>4. CASE rows' = moved
  <2>1. into \in Holder
    BY <1>1 DEF MergeJob, Holder
  <2> HIDE DEF left, into
  <2>2. /\ DOMAIN rows' = DOMAIN Written(p)
        /\ rows' = [r \in DOMAIN rows' |-> rows'[r]]
        /\ \A r \in DOMAIN rows' :
              rows'[r] = IF r \in left THEN [Written(p)[r] EXCEPT !.owner = into]
                         ELSE Written(p)[r]
    BY <1>4
  <2>3. ASSUME NEW r \in DOMAIN rows'
        PROVE  /\ rows'[r] \in Row
               /\ rows'[r].content = Written(p)[r].content
               /\ rows'[r].refs = Written(p)[r].refs
               /\ rows'[r].stamp = Written(p)[r].stamp
    <3>1. Written(p)[r] \in Row
      BY <1>1, <2>2, WrittenIs
    <3> QED  BY <2>1, <2>2, <3>1 DEF Row
  <2>4. TableOK' /\ TableFrame(p)
    BY <1>1, <2>2, <2>3, CommitTable
  <2> QED  BY <1>1, <1>2, <2>2, <2>3, <2>4
<1> QED  BY <1>1, <1>3, <1>4

\* A commit of a sync moves its own key on rows it holds, and the stamp with it.
LEMMA SyncCommitTable ==
    ASSUME Inv, NEW p \in Procs, SyncCommit(p)
    PROVE  /\ Ends(p) /\ TableOK' /\ TableFrame(p)
           /\ job[p] \in SyncJob /\ job[p].todo = {} /\ DOMAIN rows' = DOMAIN rows
           /\ \A r \in DOMAIN rows :
                 /\ rows'[r].content = rows[r].content
                 /\ rows'[r].owner = rows[r].owner
                 /\ \/ /\ r \in Resolved(p) /\ job[p].key \in rows[r].refs
                       /\ rows[r].content \in job[p].old \ job[p].new
                       /\ rows'[r].refs = rows[r].refs \ {job[p].key}
                       /\ rows'[r].stamp = IF rows'[r].refs = {} THEN "fresh"
                                           ELSE rows[r].stamp
                    \/ /\ r \in Resolved(p) /\ job[p].key \notin rows[r].refs
                       /\ rows[r].content \in job[p].new \ job[p].old
                       /\ rows'[r].refs = rows[r].refs \cup {job[p].key}
                       /\ rows'[r].stamp = "none"
                    \/ /\ rows'[r] = rows[r]
                       /\ ~ /\ r \in Resolved(p) /\ job[p].key \in rows[r].refs
                            /\ rows[r].content \in job[p].old \ job[p].new
                       /\ ~ /\ r \in Resolved(p) /\ job[p].key \notin rows[r].refs
                            /\ rows[r].content \in job[p].new \ job[p].old
<1> DEFINE k == job[p].key
           mine == job[p].mine
           Drops(r) == /\ r \in Resolved(p) /\ k \in mine[r]
                       /\ rows[r].content \in job[p].old \ job[p].new
           Gains(r) == /\ r \in Resolved(p) /\ k \notin mine[r]
                       /\ rows[r].content \in ToAdd(p)
<1>1. /\ p \in DOMAIN job /\ job[p].op = "sync" /\ job[p].todo = {} /\ TypeOK
      /\ End(p) /\ nextPk' = nextPk
      /\ rows' = [r \in DOMAIN rows |->
                    IF Drops(r) THEN Detached(rows[r], mine[r] \ {k})
                    ELSE IF Gains(r) THEN Attached(rows[r], mine[r] \cup {k})
                    ELSE rows[r]]
  BY DEF SyncCommit, Inv
<1>2. job[p] \in SyncJob /\ k \in Key
  BY <1>1, JobKinds DEF SyncJob
<1>3. \A r \in Resolved(p) : r \in DOMAIN mine
  BY DEF Resolved
<1>4. \A r \in DOMAIN mine : mine[r] = rows[r].refs
  BY <1>1 DEF Inv, JobOK, SyncReads
<1> HIDE DEF k, mine, Drops, Gains
<1>5. /\ DOMAIN rows' = DOMAIN rows
      /\ rows' = [r \in DOMAIN rows |-> rows'[r]]
      /\ \A r \in DOMAIN rows :
            rows'[r] = IF Drops(r) THEN Detached(rows[r], mine[r] \ {k})
                       ELSE IF Gains(r) THEN Attached(rows[r], mine[r] \cup {k})
                       ELSE rows[r]
  BY <1>1
<1>6. ASSUME NEW r \in DOMAIN rows
      PROVE  /\ rows'[r] \in Row
             /\ rows'[r].content = rows[r].content
             /\ rows'[r].owner = rows[r].owner
             /\ \/ /\ Drops(r) /\ mine[r] = rows[r].refs
                   /\ rows'[r].refs = rows[r].refs \ {k}
                   /\ rows'[r].stamp = IF rows'[r].refs = {} THEN "fresh"
                                       ELSE rows[r].stamp
                \/ /\ Gains(r) /\ mine[r] = rows[r].refs
                   /\ rows'[r].refs = rows[r].refs \cup {k}
                   /\ rows'[r].stamp = "none"
                \/ rows'[r] = rows[r] /\ ~Drops(r) /\ ~Gains(r)
  <2>1. rows[r] \in Row
    BY <1>1 DEF TypeOK
  <2>2. CASE Drops(r)
    <3>1. mine[r] = rows[r].refs
      BY <1>3, <1>4, <2>2 DEF Drops
    <3>2. rows'[r] = [rows[r] EXCEPT !.refs = rows[r].refs \ {k},
              !.stamp = IF rows[r].refs \ {k} = {} THEN "fresh" ELSE rows[r].stamp]
      BY <1>5, <2>2, <3>1 DEF Detached
    <3>3. rows[r].refs \ {k} \in Keyset
      BY <2>1 DEF Row, Keyset
    <3> QED  BY <2>1, <2>2, <3>1, <3>2, <3>3 DEF Row
  <2>3. CASE ~Drops(r) /\ Gains(r)
    <3>1. mine[r] = rows[r].refs
      BY <1>3, <1>4, <2>3 DEF Gains
    <3>2. rows'[r] = [rows[r] EXCEPT !.refs = rows[r].refs \cup {k}, !.stamp = "none"]
      BY <1>5, <2>3, <3>1 DEF Attached
    <3>3. rows[r].refs \cup {k} \in Keyset
      BY <1>2, <2>1 DEF Row, Keyset
    <3> QED  BY <2>1, <2>3, <3>1, <3>2, <3>3 DEF Row
  <2>4. CASE ~Drops(r) /\ ~Gains(r)
    BY <1>5, <2>1, <2>4
  <2> QED  BY <2>2, <2>3, <2>4
<1>7. ASSUME NEW q \in DOMAIN job \ {p}, NEW r \in DOMAIN job[q].mine
      PROVE  r \in DOMAIN rows /\ rows'[r].refs = rows[r].refs
  <2>1. r \in DOMAIN rows /\ r \notin DOMAIN mine
    BY <1>1, HeldApart DEF mine
  <2>2. ~Drops(r) /\ ~Gains(r)
    BY <1>3, <2>1 DEF Drops, Gains
  <2> QED  BY <1>6, <2>1, <2>2
<1>8. TableOK' /\ TableFrame(p)
  BY <1>1, <1>5, <1>6, <1>7, LessTable
<1>9. Ends(p)
  BY <1>1, EndEnds
<1>10. ASSUME NEW r \in DOMAIN rows
       PROVE  /\ r \in Resolved(p) => mine[r] = rows[r].refs
              /\ ToAdd(p) = job[p].new \ job[p].old
  BY <1>3, <1>4 DEF ToAdd
<1> QED  BY <1>1, <1>2, <1>5, <1>6, <1>8, <1>9, <1>10 DEF Drops, Gains, k
LEMMA AgeTable ==
    ASSUME Inv, NEW r \in Pk, Age(r)
    PROVE  /\ TableOK' /\ \A p : TableFrame(p)
           /\ job' = job /\ DOMAIN rows' = DOMAIN rows
           /\ \A q \in DOMAIN rows :
                 /\ rows'[q].content = rows[q].content
                 /\ rows'[q].owner = rows[q].owner
                 /\ rows'[q].refs = rows[q].refs
                 /\ rows'[q].stamp = IF q = r THEN "old" ELSE rows[q].stamp
           /\ rows[r].stamp = "fresh"
<1>1. /\ r \in DOMAIN rows /\ rows[r].stamp = "fresh" /\ TypeOK /\ rows[r] \in Row
      /\ rows' = [rows EXCEPT ![r] = [rows[r] EXCEPT !.stamp = "old"]]
      /\ UNCHANGED <<nextPk, job>>
  BY DEF Age, Inv, TypeOK
<1> DEFINE new == [rows[r] EXCEPT !.stamp = "old"]
<1>2. /\ new \in Row /\ new.content = rows[r].content /\ new.owner = rows[r].owner
      /\ new.refs = rows[r].refs /\ new.stamp = "old"
  BY <1>1 DEF Row
<1> HIDE DEF new
<1>3. /\ DOMAIN rows' = DOMAIN rows
      /\ rows' = [q \in DOMAIN rows |-> rows'[q]]
      /\ \A q \in DOMAIN rows : rows'[q] = IF q = r THEN new ELSE rows[q]
  BY <1>1 DEF new, TypeOK
<1>4. \A q \in DOMAIN rows : /\ rows'[q] \in Row
                             /\ rows'[q].content = rows[q].content
                             /\ rows'[q].owner = rows[q].owner
                             /\ rows'[q].refs = rows[q].refs
                             /\ rows'[q].stamp = IF q = r THEN "old" ELSE rows[q].stamp
  BY <1>1, <1>2, <1>3 DEF TypeOK
<1>5. ASSUME NEW p PROVE TableOK' /\ TableFrame(p)
  <2>1. \A q \in DOMAIN job : DOMAIN job[q].mine \subseteq DOMAIN rows
    BY DEF Inv, JobOK
  <2> QED  BY <1>1, <1>3, <1>4, <2>1, LessTable
<1> QED  BY <1>1, <1>3, <1>4, <1>5

\* The sweeper's delete, which is committed at once.
LEMMA DestroyDeleteTable ==
    ASSUME Inv, NEW p \in Procs, NEW r \in Pk, DestroyDelete(p, r)
    PROVE  /\ TableOK' /\ TableFrame(p) /\ nextPk' = nextPk
           /\ DOMAIN rows' \subseteq DOMAIN rows
           /\ \A q \in DOMAIN rows' : rows'[q] = rows[q]
           /\ job[p].op # "sweep" => rows' = rows
           /\ job[p].op = "sweep" => DOMAIN rows' = DOMAIN rows \ {r}
<1>1. /\ p \in DOMAIN job /\ nextPk' = nextPk /\ Free(p, r) /\ TypeOK
      /\ IF job[p].op = "sweep" THEN rows' = Restrict(rows, DOMAIN rows \ {r})
         ELSE rows' = rows
  BY DEF DestroyDelete, Reaping, Inv
<1>2. CASE job[p].op # "sweep"
  BY <1>1, <1>2, StillTable
<1>3. CASE job[p].op = "sweep"
  <2> DEFINE S == DOMAIN rows \ {r}
  <2>1. rows' = [q \in S |-> rows[q]]
    BY <1>1, <1>3 DEF Restrict
  <2>2. ASSUME NEW q \in DOMAIN job \ {p}, NEW x \in DOMAIN job[q].mine
        PROVE  x \in S /\ rows'[x].refs = rows[x].refs
    <3>1. x \in DOMAIN rows
      BY DEF Inv, JobOK
    <3>2. x # r
      BY <1>1 DEF Free, Locked
    <3> QED  BY <2>1, <3>1, <3>2
  <2>3. S \in SUBSET DOMAIN rows
    OBVIOUS
  <2>4. \A x \in S : rows[x] \in Row
    BY <1>1 DEF TypeOK
  <2> HIDE DEF S
  <2>5. /\ rows' = [x \in S |-> rows'[x]] /\ DOMAIN rows' = S
        /\ \A x \in S : rows'[x] = rows[x]
    BY <2>1
  <2>6. TableOK' /\ TableFrame(p)
    BY <1>1, <2>2, <2>3, <2>4, <2>5, LessTable
  <2> QED  BY <1>1, <1>3, <2>3, <2>5, <2>6 DEF S
<1> QED  BY <1>2, <1>3

\* An insert takes the next key, or is refused.
LEMMA UploadInsertTable ==
    ASSUME Inv, NEW p \in Procs, UploadInsert(p)
    PROVE  /\ Ends(p) /\ TableOK' /\ TableFrame(p)
           /\ \/ rows' = rows
              \/ /\ DOMAIN rows' = DOMAIN rows \cup {nextPk} /\ nextPk \notin DOMAIN rows
                 /\ \A r \in DOMAIN rows : rows'[r] = rows[r]
                 /\ rows'[nextPk].refs = {} /\ rows'[nextPk].stamp = "fresh"
                 /\ Twins(rows'[nextPk].owner, rows'[nextPk].content) = {}
                 /\ rows'[nextPk].owner = job[p].owner
                 /\ job[p].op \in {"upload", "import"} /\ job[p].step = "insert"
<1> DEFINE o == job[p].owner
           c == job[p].content
<1>1. /\ p \in DOMAIN job /\ job[p] \in UploadJob /\ End(p) /\ TypeOK
      /\ job[p].op \in {"upload", "import"} /\ job[p].step = "insert"
      /\ \/ UNCHANGED <<rows, nextPk>>
         \/ Twins(o, c) = {} /\ Insert(o, c)
  BY JobKinds DEF UploadInsert, Uploading, Inv
<1>2. Ends(p)
  BY <1>1, EndEnds
<1>3. CASE UNCHANGED <<rows, nextPk>>
  BY <1>2, <1>3, StillTable
<1>4. CASE Twins(o, c) = {} /\ Insert(o, c)
  <2> DEFINE new == NewRow(o, c)
  <2>1. /\ new \in Row /\ new.refs = {} /\ new.stamp = "fresh"
        /\ new.owner = o /\ new.content = c
    BY <1>1 DEF NewRow, Row, UploadJob, Keyset
  <2>2. /\ nextPk <= MaxPk /\ nextPk' = nextPk + 1 /\ nextPk \in 1..MaxPk + 1
        /\ rows' = [r \in DOMAIN rows \cup {nextPk} |->
                      IF r = nextPk THEN new ELSE rows[r]]
    BY <1>1, <1>4 DEF Insert, TypeOK
  <2> HIDE DEF new, o, c
  <2>3. /\ DOMAIN rows' = DOMAIN rows \cup {nextPk}
        /\ nextPk \notin DOMAIN rows
        /\ rows'[nextPk] = new /\ \A r \in DOMAIN rows : rows'[r] = rows[r]
    BY <1>1, <2>2 DEF TypeOK
  <2>4. TableOK'
    <3>1. rows' \in [DOMAIN rows' -> Row]
      BY <1>1, <2>1, <2>2, <2>3 DEF TypeOK
    <3>2. nextPk \in Pk /\ nextPk' \in 1..MaxPk + 1
      BY <2>2, BoundAssumption DEF Pk
    <3>3. \A r \in DOMAIN rows : r \in Int /\ r < nextPk /\ r \in Pk
      BY <1>1 DEF TypeOK, Pk
    <3> QED  BY <2>2, <2>3, <3>1, <3>2, <3>3 DEF TableOK
  <2>5. TableFrame(p)
    <3>1. \A q \in DOMAIN job : DOMAIN job[q].mine \subseteq DOMAIN rows
      BY DEF Inv, JobOK
    <3>2. ~NoIntake
      BY <1>1 DEF NoIntake, Inv, JobOK
    <3> QED  BY <2>2, <2>3, <3>1, <3>2 DEF TableFrame
  <2>6. rows'[nextPk].owner = job[p].owner
    BY <2>1, <2>3 DEF o
  <2> QED  BY <1>1, <1>2, <1>4, <2>1, <2>3, <2>4, <2>5, <2>6
<1> QED  BY <1>1, <1>3, <1>4
-----------------------------------------------------------------------------
(* A process that goes on keeps its part of the invariant                  *)

GoesOn(p) ==
    /\ Moves(p) /\ JobOK(p)' /\ TableOK' /\ TableFrame(p)
    /\ \A r \in Locked(p)' : r \in Locked(p) \/ Free(p, r)

\* Nothing but the step of a process changes: its locks stay what they were.
LEMMA SameLocks ==
    ASSUME Inv, NEW p \in DOMAIN job,
           job'[p].mine = job[p].mine, job'[p].gone = job[p].gone
    PROVE  /\ \A r \in Locked(p)' : r \in Locked(p) \/ Free(p, r)
           /\ DOMAIN job'[p].mine \subseteq DOMAIN rows
  BY DEF Inv, JobOK, Locked

LEMMA SyncLockGoesOn ==
    ASSUME Inv, NEW p \in Procs, NEW r \in Pk, SyncLock(p, r)
    PROVE  GoesOn(p)
<1>1. /\ TypeOK /\ p \in DOMAIN job /\ job[p].op = "sync" /\ JobOK(p)
      /\ r \in job[p].todo /\ InLockOrder(p, r) /\ Free(p, r)
      /\ UNCHANGED <<rows, nextPk>>
  BY DEF Inv, SyncLock
<1>2. TableOK' /\ TableFrame(p)
  BY <1>1, StillTable
<1>3. /\ Moves(p)
      /\ job'[p].op = "sync" /\ job'[p].gone = {}
      /\ job'[p].todo = job[p].todo \ {r}
      /\ job'[p].mine = IF r \in DOMAIN rows
                        THEN [q \in DOMAIN job[p].mine \cup {r} |->
                                IF q = r THEN rows[r].refs ELSE job[p].mine[q]]
                        ELSE job[p].mine
  BY <1>1, SyncLockMoves
<1>4. DOMAIN job'[p].mine \subseteq DOMAIN job[p].mine \cup ({r} \cap DOMAIN rows)
  BY <1>3
<1>5. job[p].todo \subseteq Pk /\ job[p].gone = {}
  BY <1>1, JobKinds DEF SyncJob
<1>6. SyncReads(p)'
  <2>1. ASSUME NEW q \in DOMAIN job'[p].mine
        PROVE  job'[p].mine[q] = rows[q].refs /\ \A t \in job'[p].todo : q < t
    <3>1. \A t \in job'[p].todo : t \in Pk /\ t # r /\ t \in job[p].todo /\ r <= t
      BY <1>1, <1>3, <1>5 DEF InLockOrder
    <3>2. CASE q = r
      <4>1. r \in DOMAIN rows \/ r \in DOMAIN job[p].mine
        BY <1>4, <2>1, <3>2
      <4>2. r \in DOMAIN rows
        BY <1>1, <4>1 DEF JobOK
      <4>3. job'[p].mine[r] = rows[r].refs
        BY <1>3, <4>2
      <4>4. \A t \in job'[p].todo : t \in Int /\ r \in Int /\ t # r /\ r <= t
        BY <3>1 DEF Pk
      <4>5. \A t \in job'[p].todo : r < t
        BY <4>4
      <4> QED  BY <3>2, <4>3, <4>5
    <3>3. CASE q # r
      <4>1. q \in DOMAIN job[p].mine /\ job'[p].mine[q] = job[p].mine[q]
        BY <1>3, <2>1, <3>3
      <4>2. job[p].mine[q] = rows[q].refs /\ \A t \in job[p].todo : q < t
        BY <1>1, <4>1 DEF JobOK, SyncReads
      <4> QED  BY <3>1, <4>1, <4>2
    <3> QED  BY <3>2, <3>3
  <2> QED  BY <1>1, <2>1 DEF SyncReads
<1>7. WritesRefs(p)' /\ UnownsOnly(p)' /\ SeenStands(p)'
  BY <1>3 DEF WritesRefs, UnownsOnly, SeenStands, Merging, Reaping, Reapers
<1>8. JobOK(p)'
  BY <1>1, <1>3, <1>4, <1>6, <1>7 DEF JobOK
<1> QED  BY <1>1, <1>2, <1>3, <1>4, <1>5, <1>8 DEF GoesOn, Locked

LEMMA EntitySaveGoesOn ==
    ASSUME Inv, NEW p \in Procs, NEW r \in Pk, EntitySave(p, r), r \in DOMAIN rows
    PROVE  GoesOn(p)
<1>1. /\ TypeOK /\ p \in DOMAIN job /\ job[p].op = "entity" /\ JobOK(p)
      /\ Remaining(p, r) # {} /\ Free(p, r) /\ UNCHANGED <<rows, nextPk>>
  BY DEF Inv, EntitySave, Reaping
<1>2. TableOK' /\ TableFrame(p)
  BY <1>1, StillTable
<1>3. /\ Moves(p)
      /\ job'[p].op = "entity" /\ job'[p].step = "next" /\ job'[p].gone = job[p].gone
      /\ job'[p].mine = [q \in DOMAIN job[p].mine \cup {r} |->
                           IF q = r THEN Remaining(p, r) ELSE job[p].mine[q]]
  BY <1>1, EntitySaveMoves
<1>4. DOMAIN job'[p].mine = DOMAIN job[p].mine \cup {r}
      /\ \A q \in DOMAIN job'[p].mine : job'[p].mine[q] # {}
  BY <1>1, <1>3 DEF JobOK, WritesRefs
<1>5. SyncReads(p)' /\ WritesRefs(p)' /\ UnownsOnly(p)' /\ SeenStands(p)'
  BY <1>3, <1>4 DEF SyncReads, WritesRefs, UnownsOnly, SeenStands, Merging, Reaping
<1>6. JobOK(p)'
  BY <1>1, <1>3, <1>4, <1>5 DEF JobOK
<1> QED  BY <1>1, <1>2, <1>3, <1>4, <1>6 DEF GoesOn, Locked

\* A destroying handler between its writes.
LEMMA DestroyGoesOn ==
    ASSUME Inv, NEW p \in Procs, NEW r \in Pk,
           DestroyBegin(p, r) \/ DestroyUnlink(p, r)
    PROVE  GoesOn(p)
<1>1. TypeOK /\ UNCHANGED <<rows, nextPk>>
  BY DEF Inv, DestroyBegin, DestroyUnlink
<1>2. TableOK' /\ TableFrame(p)
  BY <1>1, StillTable
<1>3. /\ Moves(p) /\ job[p].op \in Reapers /\ job'[p].op = job[p].op
      /\ job'[p].mine = job[p].mine /\ job'[p].gone = job[p].gone
  BY <1>1, DestroyBeginMoves, DestroyUnlinkMoves DEF Moves
<1>4. p \in DOMAIN job /\ JobOK(p)
  BY <1>3 DEF Moves, Inv
<1>5. SyncReads(p)' /\ WritesRefs(p)' /\ UnownsOnly(p)'
  BY <1>1, <1>3, <1>4 DEF SyncReads, WritesRefs, UnownsOnly, Merging, Reapers, JobOK
<1>6. SeenStands(p)'
  <2>1. CASE DestroyUnlink(p, r)
    BY <1>1, <2>1, DestroyUnlinkMoves DEF SeenStands, Reaping
  <2>2. CASE DestroyBegin(p, r)
    <3> SUFFICES ASSUME NEW s \in Pk, Reaping(p, "unlink")', Current(p, s)'
                 PROVE  /\ job'[p].seen <= nextPk /\ job'[p].seen = nextPk
                        /\ \A q \in (Over(job[p].todo[s].content))'
                                        \ ({s} \cup job'[p].gone) : q >= job'[p].seen
      BY <1>1 DEF SeenStands
    <3>1. job'[p].todo = job[p].todo /\ ~Shared(p, r) /\ job'[p].seen = nextPk
      BY <1>1, <2>2, DestroyBeginMoves DEF Reaping
    <3>2. s = r
      <4>1. job[p].todo \in Partial(Read)
        BY <1>1, <1>3, <1>4, JobKinds DEF ReapJob
      <4>2. DOMAIN job[p].todo \subseteq Pk
        BY <4>1, PartialIs
      <4>3. Current(p, r)
        BY <2>2 DEF DestroyBegin
      <4>4. Current(p, s)
        BY <3>1 DEF Current
      <4>5. r \in Int /\ s \in Int /\ r <= s /\ s <= r
        BY <4>3, <4>4 DEF Current, Pk
      <4> QED  BY <4>5
    <3>3. (Over(job[p].todo[s].content))' = Over(job'[p].todo[s].content)
      BY <1>1 DEF Over
    <3> QED  BY <1>1, <1>3, <3>1, <3>2, <3>3 DEF Shared, TypeOK
  <2> QED  BY <2>1, <2>2
<1>7. JobOK(p)'
  BY <1>1, <1>3, <1>4, <1>5, <1>6 DEF JobOK
<1> QED  BY <1>2, <1>3, <1>4, <1>7, SameLocks DEF GoesOn
LEMMA DestroyDeleteGoesOn ==
    ASSUME Inv, NEW p \in Procs, NEW r \in Pk, DestroyDelete(p, r)
    PROVE  GoesOn(p)
<1>1. TableOK' /\ TableFrame(p) /\ DOMAIN rows' \subseteq DOMAIN rows
  BY DestroyDeleteTable
<1>2. /\ TypeOK /\ p \in DOMAIN job /\ Free(p, r) /\ JobOK(p)
  BY DEF Inv, DestroyDelete, Reaping
<1>3. /\ Moves(p) /\ job[p].op \in Reapers /\ job'[p].step = "next"
      /\ job'[p].op = job[p].op /\ job'[p].mine = job[p].mine
      /\ job'[p].gone = IF job[p].op = "sweep" THEN job[p].gone
                        ELSE job[p].gone \cup {r}
  BY <1>2, DestroyDeleteMoves DEF Moves
<1>4. DOMAIN job'[p].mine \subseteq DOMAIN rows'
  <2>1. CASE job[p].op = "sweep"
    <3>1. job[p].mine = <<>>
      BY <1>2, <2>1 DEF JobOK, WritesRefs
    <3>2. DOMAIN job[p].mine = {}
      BY <3>1, PartialEmpty
    <3> QED  BY <1>3, <3>2
  <2>2. CASE job[p].op # "sweep"
    BY <1>2, <1>3, <2>2, DestroyDeleteTable DEF JobOK
  <2> QED  BY <2>1, <2>2
<1>5. SyncReads(p)' /\ WritesRefs(p)' /\ SeenStands(p)'
  BY <1>2, <1>3 DEF SyncReads, WritesRefs, SeenStands, Merging, Reaping, Reapers, JobOK
<1>7. UnownsOnly(p)'
  BY <1>2, <1>3, DestroyDeleteTable DEF UnownsOnly, JobOK
<1>6. JobOK(p)'
  BY <1>2, <1>3, <1>4, <1>5, <1>7 DEF JobOK
<1> QED  BY <1>1, <1>2, <1>3, <1>6 DEF GoesOn, Locked

LEMMA UnlinkRefusedGoesOn ==
    ASSUME Inv, NEW p \in Procs, NEW r \in Pk, UnlinkRefused(p, r),
           job[p].op \in {"sweep", "purge"}
    PROVE  GoesOn(p)
<1>1. TypeOK /\ p \in DOMAIN job /\ JobOK(p) /\ UNCHANGED <<rows, nextPk>>
  BY DEF Inv, UnlinkRefused, Reaping
<1>2. TableOK' /\ TableFrame(p)
  BY <1>1, StillTable
<1>3. /\ Moves(p) /\ job'[p].op = job[p].op /\ job[p].op \in Reapers
      /\ job'[p].step = "next"
      /\ job'[p].mine = job[p].mine /\ job'[p].gone = job[p].gone
  BY <1>1, UnlinkRefusedMoves DEF Moves
<1>4. SyncReads(p)' /\ WritesRefs(p)' /\ UnownsOnly(p)' /\ SeenStands(p)'
  BY <1>1, <1>3 DEF SyncReads, WritesRefs, UnownsOnly, SeenStands, Merging, Reaping,
                    Reapers, JobOK
<1>5. JobOK(p)'
  BY <1>1, <1>3, <1>4 DEF JobOK
<1> QED  BY <1>1, <1>2, <1>3, <1>5, SameLocks DEF GoesOn

LEMMA DisownReadGoesOn ==
    ASSUME Inv, NEW p \in Procs, DisownRead(p)
    PROVE  GoesOn(p)
<1>1. TypeOK /\ p \in DOMAIN job /\ JobOK(p) /\ UNCHANGED <<rows, nextPk>>
  BY DEF Inv, DisownRead, Reaping
<1>2. TableOK' /\ TableFrame(p)
  BY <1>1, StillTable
<1>3. /\ Moves(p) /\ job'[p].op = job[p].op /\ job[p].op = "purge"
      /\ job'[p].step = "disown"
      /\ job'[p].mine = job[p].mine /\ job'[p].gone = job[p].gone
  BY <1>1, DisownReadMoves DEF Moves
<1>4. SyncReads(p)' /\ WritesRefs(p)' /\ UnownsOnly(p)' /\ SeenStands(p)'
  BY <1>1, <1>3 DEF SyncReads, WritesRefs, UnownsOnly, SeenStands, Merging, Reaping, JobOK
<1>5. JobOK(p)'
  BY <1>1, <1>3, <1>4 DEF JobOK
<1> QED  BY <1>1, <1>2, <1>3, <1>5, SameLocks DEF GoesOn

LEMMA DisownSaveGoesOn ==
    ASSUME Inv, NEW p \in Procs, NEW r \in Pk, DisownSave(p, r)
    PROVE  \/ GoesOn(p)
           \/ p \in DOMAIN job /\ End(p) /\ UNCHANGED <<rows, nextPk>>
<1>1. TypeOK /\ p \in DOMAIN job /\ JobOK(p) /\ UNCHANGED <<rows, nextPk>>
      /\ Free(p, r)
  BY DEF Inv, DisownSave, Disowning
<1>2. TableOK' /\ TableFrame(p)
  BY <1>1, StillTable
<1>3. ASSUME /\ Moves(p) /\ r \in DOMAIN rows /\ job[p].op = "purge"
             /\ job'[p].step = "disown" /\ job'[p].gone = job[p].gone
             /\ job'[p].mine = [q \in DOMAIN job[p].mine \cup {r} |->
                                  IF q = r THEN rows[r].refs ELSE job[p].mine[q]]
      PROVE  GoesOn(p)
  <2>1. /\ DOMAIN job'[p].mine = DOMAIN job[p].mine \cup {r}
        /\ \A q \in DOMAIN job'[p].mine : job'[p].mine[q] = rows[q].refs
    BY <1>1, <1>3 DEF JobOK, UnownsOnly
  <2>2. job'[p].op = "purge"
    BY <1>3 DEF Moves
  <2>3. SyncReads(p)' /\ WritesRefs(p)' /\ UnownsOnly(p)' /\ SeenStands(p)'
    BY <1>1, <1>3, <2>1, <2>2 DEF SyncReads, WritesRefs, UnownsOnly, SeenStands, Merging,
                                  Reaping
  <2>4. JobOK(p)'
    BY <1>1, <1>3, <2>1, <2>2, <2>3 DEF JobOK
  <2> QED  BY <1>1, <1>2, <1>3, <2>1, <2>4 DEF GoesOn, Locked
<1> QED  BY <1>1, <1>3, DisownSaveMoves

LEMMA MergeKeeperGoesOn ==
    ASSUME Inv, NEW p \in Procs, NEW r \in Pk, MergeKeeper(p, r)
    PROVE  GoesOn(p)
<1>1. TypeOK /\ p \in DOMAIN job /\ JobOK(p) /\ UNCHANGED <<rows, nextPk>>
      /\ job[p].op = "merge" /\ Current(p, r)
  BY DEF Inv, MergeKeeper, Merging
<1>2. TableOK' /\ TableFrame(p)
  BY <1>1, StillTable
<1>3. /\ Moves(p) /\ job'[p].op = "merge"
      /\ job'[p].mine = job[p].mine /\ job'[p].gone = job[p].gone
      /\ job'[p].step = "save" =>
           /\ job'[p].todo = job[p].todo
           /\ ~(job[p].todo[r].refs \subseteq job'[p].keeper.refs)
  BY <1>1, MergeKeeperMoves
<1>4. SyncReads(p)' /\ SeenStands(p)'
  BY <1>3 DEF SyncReads, SeenStands, Reaping, Reapers
<1>5. WritesRefs(p)' /\ UnownsOnly(p)'
  <2>1. \A q \in DOMAIN job'[p].mine : job'[p].mine[q] # {}
    BY <1>1, <1>3 DEF JobOK, WritesRefs
  <2>2. ASSUME NEW s \in Pk, Merging(p, "save")', Current(p, s)'
        PROVE  ~(job'[p].todo[s].refs \subseteq job'[p].keeper.refs)
    <3>1. job'[p].todo = job[p].todo
      BY <1>3, <2>2 DEF Merging
    <3>2. Current(p, s)
      BY <2>2, <3>1 DEF Current
    <3>3. r \in Int /\ s \in Int /\ r <= s /\ s <= r
      BY <1>1, <3>2 DEF Current, Pk
    <3>4. r = s
      BY <3>3
    <3> QED  BY <1>3, <2>2, <3>1, <3>4 DEF Merging
  <2> QED  BY <1>3, <2>1, <2>2 DEF WritesRefs, UnownsOnly
<1>6. JobOK(p)'
  BY <1>1, <1>3, <1>4, <1>5 DEF JobOK
<1> QED  BY <1>1, <1>2, <1>3, <1>6, SameLocks DEF GoesOn

LEMMA MergeSaveGoesOn ==
    ASSUME Inv, NEW p \in Procs, NEW r \in Pk, MergeSave(p, r),
           job[p].keeper.pk \in DOMAIN rows
    PROVE  GoesOn(p)
<1> DEFINE k == job[p].keeper.pk
           refs == job[p].keeper.refs \cup job[p].todo[r].refs
<1>1. /\ TypeOK /\ p \in DOMAIN job /\ JobOK(p) /\ UNCHANGED <<rows, nextPk>>
      /\ job[p].op = "merge" /\ Current(p, r) /\ Merging(p, "save") /\ Free(p, k)
  BY DEF Inv, MergeSave, Merging
<1>2. TableOK' /\ TableFrame(p)
  BY <1>1, StillTable
<1>3. refs # {}
  BY <1>1 DEF JobOK, WritesRefs
<1>4. /\ Moves(p) /\ job'[p].op = "merge" /\ job'[p].step = "delete"
      /\ job'[p].gone = job[p].gone
      /\ job'[p].mine = [q \in DOMAIN job[p].mine \cup {k} |->
                           IF q = k THEN refs ELSE job[p].mine[q]]
  BY <1>1, MergeSaveMoves
<1> HIDE DEF refs
<1>5. DOMAIN job'[p].mine = DOMAIN job[p].mine \cup {k}
      /\ \A q \in DOMAIN job'[p].mine : job'[p].mine[q] # {}
  BY <1>1, <1>3, <1>4 DEF JobOK, WritesRefs
<1>6. SyncReads(p)' /\ WritesRefs(p)' /\ UnownsOnly(p)' /\ SeenStands(p)'
  BY <1>4, <1>5 DEF SyncReads, WritesRefs, UnownsOnly, SeenStands, Merging, Reaping, Reapers
<1>7. JobOK(p)'
  BY <1>1, <1>4, <1>5, <1>6 DEF JobOK
<1> QED  BY <1>1, <1>2, <1>4, <1>5, <1>7 DEF GoesOn, Locked

LEMMA MergeDeleteGoesOn ==
    ASSUME Inv, NEW p \in Procs, NEW r \in Pk, MergeDelete(p, r)
    PROVE  GoesOn(p)
<1>1. TypeOK /\ p \in DOMAIN job /\ JobOK(p) /\ UNCHANGED <<rows, nextPk>>
      /\ job[p].op = "merge" /\ Free(p, r)
  BY DEF Inv, MergeDelete, Merging
<1>2. TableOK' /\ TableFrame(p)
  BY <1>1, StillTable
<1>3. /\ Moves(p) /\ job'[p].op = "merge" /\ job'[p].step = "fold"
      /\ job'[p].mine = job[p].mine /\ job'[p].gone = job[p].gone \cup {r}
  BY <1>1, MergeDeleteMoves
<1>4. SyncReads(p)' /\ WritesRefs(p)' /\ UnownsOnly(p)' /\ SeenStands(p)'
  BY <1>1, <1>3 DEF SyncReads, WritesRefs, UnownsOnly, SeenStands, Merging, Reaping, Reapers, JobOK
<1>5. JobOK(p)'
  BY <1>1, <1>3, <1>4 DEF JobOK
<1> QED  BY <1>1, <1>2, <1>3, <1>5 DEF GoesOn, Locked

LEMMA UploadGoesOn ==
    ASSUME Inv, NEW p \in Procs, UNCHANGED <<rows, nextPk>>,
           p \in DOMAIN job, job[p].op \in {"upload", "import"},
           NEW step \in {"write", "insert"}, job' = [job EXCEPT ![p].step = step]
    PROVE  GoesOn(p)
<1>1. TypeOK /\ JobOK(p)
  BY DEF Inv
<1>2. TableOK' /\ TableFrame(p)
  BY StillTable
<1>3. /\ Moves(p) /\ job[p].mine = <<>> /\ job[p].gone = {}
      /\ job'[p].mine = <<>> /\ job'[p].gone = {} /\ job'[p].op = job[p].op
  BY <1>1, UploadMoves DEF Moves
<1>4. DOMAIN job'[p].mine = {}
  BY <1>3, PartialEmpty
<1>5. SyncReads(p)' /\ WritesRefs(p)' /\ UnownsOnly(p)' /\ SeenStands(p)'
  BY <1>3, <1>4 DEF SyncReads, WritesRefs, UnownsOnly, SeenStands, Merging, Reaping, Reapers
<1>6. JobOK(p)'
  BY <1>1, <1>3, <1>4, <1>5 DEF JobOK
<1> QED  BY <1>2, <1>3, <1>6, SameLocks DEF GoesOn
-----------------------------------------------------------------------------
(* The invariant                                                           *)

\* The steps that change the table otherwise than by leaving it alone.
Stays(p) == Ends(p) /\ TableOK' /\ TableFrame(p)

\* Each step is the clock's, or one process begins, goes on or ends.
LEMMA StepShape ==
    ASSUME Inv, [Next]_vars
    PROVE  \/ UNCHANGED vars
           \/ \E r \in Pk : Age(r)
           \/ \E p \in Procs : \/ Starts(p) /\ UNCHANGED <<rows, nextPk>>
                               \/ GoesOn(p)
                               \/ Stays(p)
<1>1. TypeOK
  BY DEF Inv
<1> DEFINE Shape(p) == \/ Starts(p) /\ UNCHANGED <<rows, nextPk>>
                       \/ GoesOn(p)
                       \/ Stays(p)
<1>2. ASSUME NEW p \in Procs, Begins(p) PROVE Shape(p)
  BY <1>1, <1>2, HandlersStart
<1>3. ASSUME NEW p \in DOMAIN job, End(p), UNCHANGED <<rows, nextPk>>
      PROVE  Shape(p)
  BY <1>3, StillTable, EndEnds DEF Stays
<1>4. ASSUME NEW p \in Procs, NEW r \in Pk,
             \/ SyncLock(p, r) \/ EntitySave(p, r)
             \/ DestroyBegin(p, r) \/ DestroyUnlink(p, r) \/ DestroyDelete(p, r)
             \/ UnlinkRefused(p, r) \/ DisownSave(p, r)
             \/ MergeKeeper(p, r) \/ MergeSave(p, r) \/ MergeDelete(p, r)
      PROVE  Shape(p)
  <2>1. CASE EntitySave(p, r)
    <3>1. CASE r \in DOMAIN rows
      BY <2>1, <3>1, EntitySaveGoesOn
    <3>2. CASE r \notin DOMAIN rows
      BY <1>3, <2>1, <3>2 DEF EntitySave, Reaping
    <3> QED  BY <3>1, <3>2
  <2>2. CASE MergeSave(p, r)
    <3>1. CASE job[p].keeper.pk \in DOMAIN rows
      BY <2>2, <3>1, MergeSaveGoesOn
    <3>2. CASE job[p].keeper.pk \notin DOMAIN rows
      BY <1>3, <2>2, <3>2 DEF MergeSave, Merging
    <3> QED  BY <3>1, <3>2
  <2>3. CASE UnlinkRefused(p, r)
    BY <1>3, <2>3, UnlinkRefusedGoesOn DEF UnlinkRefused, Reaping
  <2>4. CASE DisownSave(p, r)
    BY <1>3, <2>4, DisownSaveGoesOn
  <2> QED  BY <1>4, <2>1, <2>2, <2>3, <2>4, SyncLockGoesOn, DestroyGoesOn,
              DestroyDeleteGoesOn, MergeKeeperGoesOn, MergeDeleteGoesOn
<1>5. ASSUME NEW p \in Procs, UploadQuota(p) \/ UploadWrite(p)
      PROVE  Shape(p)
  <2>1. /\ p \in DOMAIN job /\ job[p].op \in {"upload", "import"}
        /\ UNCHANGED <<rows, nextPk>>
    BY <1>5 DEF UploadQuota, UploadWrite, Uploading
  <2>2. \/ End(p)
        \/ \E step \in {"write", "insert"} : job' = [job EXCEPT ![p].step = step]
    BY <1>5 DEF UploadQuota, UploadWrite
  <2> QED  BY <1>3, <2>1, <2>2, UploadGoesOn
<1>6. ASSUME NEW p \in Procs,
             \/ SyncCommit(p) \/ ReapEnd(p) \/ UploadInsert(p)
             \/ DisownRead(p) \/ MergeMove(p) \/ Crash(p)
      PROVE  Shape(p)
  BY <1>3, <1>6, SyncCommitTable, ReapEndTable, MergeMoveTable, UploadInsertTable,
     DisownReadGoesOn DEF Stays, Crash
<1> HIDE DEF Shape
<1>7. [Next]_vars =>
        \/ UNCHANGED vars
        \/ \E r \in Pk : Age(r)
        \/ \E p \in Procs : Shape(p)
  BY <1>2, <1>4, <1>5, <1>6 DEF Next, Begins
<1> QED  BY <1>7 DEF Shape

LEMMA FilesTyped == ASSUME Inv, [Next]_vars PROVE files' \subseteq Content
<1>1. files \subseteq Content
  BY DEF Inv, TypeOK
<1>2. ASSUME NEW p \in Procs, UploadWrite(p) PROVE files' \subseteq Content
  <2>1. job[p] \in UploadJob
    BY <1>2, JobKinds DEF UploadWrite, Uploading, Inv
  <2> QED  BY <1>1, <1>2, <2>1 DEF UploadWrite, UploadJob
<1>3. ASSUME NEW p \in Procs, NEW r \in Pk, DestroyUnlink(p, r)
      PROVE  files' \subseteq files
  BY <1>3 DEF DestroyUnlink
<1>4. ASSUME NEW p \in Procs, Begins(p) PROVE files' = files
  BY <1>4 DEF Begins, SyncBegin, SweepBegin, ReapBegin, PurgeBegin, MergeBegin, FileBegin,
              EntityBegin, UploadBegin
<1>5. ASSUME NEW p \in Procs, NEW r \in Pk,
             \/ SyncLock(p, r) \/ EntitySave(p, r) \/ DestroyBegin(p, r)
             \/ DestroyDelete(p, r) \/ UnlinkRefused(p, r) \/ DisownSave(p, r)
             \/ MergeKeeper(p, r) \/ MergeSave(p, r) \/ MergeDelete(p, r)
      PROVE  files' = files
  <2>1. CASE SyncLock(p, r) \/ EntitySave(p, r) \/ DestroyBegin(p, r)
    BY <2>1 DEF SyncLock, EntitySave, DestroyBegin
  <2>2. CASE DestroyDelete(p, r) \/ MergeKeeper(p, r)
    BY <2>2 DEF DestroyDelete, MergeKeeper
  <2>3. CASE MergeSave(p, r) \/ MergeDelete(p, r)
    BY <2>3 DEF MergeSave, MergeDelete
  <2>4. CASE UnlinkRefused(p, r) \/ DisownSave(p, r)
    BY <2>4 DEF UnlinkRefused, DisownSave
  <2> QED  BY <1>5, <2>1, <2>2, <2>3, <2>4
<1>6. ASSUME NEW p \in Procs,
             \/ SyncCommit(p) \/ ReapEnd(p) \/ UploadInsert(p) \/ UploadQuota(p)
             \/ DisownRead(p) \/ MergeMove(p) \/ Crash(p)
      PROVE  files' = files
  <2>1. CASE SyncCommit(p)
    BY <2>1 DEF SyncCommit
  <2>2. CASE ReapEnd(p) \/ DisownRead(p) \/ MergeMove(p) \/ Crash(p)
    BY <2>2 DEF ReapEnd, DisownRead, MergeMove, Crash
  <2>3. CASE UploadInsert(p) \/ UploadQuota(p)
    BY <2>3 DEF UploadInsert, UploadQuota
  <2> QED  BY <1>6, <2>1, <2>2, <2>3
<1>7. ASSUME NEW r \in Pk, Age(r) PROVE files' = files
  BY <1>7 DEF Age
<1>8. [Next]_vars => \/ files' = files
                     \/ \E p \in Procs : UploadWrite(p)
                     \/ \E p \in Procs, r \in Pk : DestroyUnlink(p, r)
  BY <1>4, <1>5, <1>6, <1>7 DEF Next, vars, Begins
<1> QED  BY <1>1, <1>2, <1>3, <1>8

\* A process that stands still keeps its part of the invariant.
LEMMA OthersKeep ==
    ASSUME Inv, NEW p, TableFrame(p), NEW q \in DOMAIN job \ {p}, job'[q] = job[q],
           DOMAIN rows \subseteq Pk, DOMAIN rows' \subseteq Pk, nextPk \in Nat, nextPk' \in Nat
    PROVE  JobOK(q)'
<1>1. JobOK(q) /\ TypeOK
  BY DEF Inv
<1>2. DOMAIN job[q].mine \subseteq DOMAIN rows'
      /\ \A r \in DOMAIN job[q].mine : rows'[r].refs = rows[r].refs
  BY DEF TableFrame
<1>3. SyncReads(q)'
  BY <1>1, <1>2 DEF JobOK, SyncReads
<1>4. WritesRefs(q)'
  <2>1. \A s \in Pk : /\ Current(q, s)' <=> Current(q, s)
                      /\ Merging(q, "save")' => Merging(q, "save")
    BY DEF Current, Merging
  <2> QED  BY <1>1, <2>1 DEF JobOK, WritesRefs
<1>5. SeenStands(q)'
  <2> SUFFICES ASSUME NEW s \in Pk, Reaping(q, "unlink")', Current(q, s)'
               PROVE  /\ job'[q].seen <= nextPk'
                      /\ NoIntake => job'[q].seen = nextPk'
                      /\ \A r \in (Over(job[q].todo[s].content))' \ ({s} \cup job'[q].gone) :
                             r >= job'[q].seen
    BY DEF SeenStands
  <2>1. Reaping(q, "unlink") /\ Current(q, s)
    BY DEF Reaping, Current
  <2>2. job[q].seen \in Nat
    BY <1>1, <2>1, JobKinds, BoundAssumption DEF Reaping, ReapJob
  <2>3. /\ job[q].seen <= nextPk
        /\ NoIntake => job[q].seen = nextPk
        /\ \A r \in Over(job[q].todo[s].content) \ ({s} \cup job[q].gone) :
               r >= job[q].seen
    BY <1>1, <2>1 DEF JobOK, SeenStands
  <2>4. job[q].seen <= nextPk'
    BY <2>2, <2>3 DEF TableFrame
  <2>5. ASSUME NEW r \in (Over(job[q].todo[s].content))' \ ({s} \cup job'[q].gone)
        PROVE  r >= job'[q].seen
    <3>1. r \in DOMAIN rows' /\ rows'[r].content = job[q].todo[s].content
          /\ r \notin {s} \cup job[q].gone /\ r \in Int
      BY <2>5 DEF Over, Pk
    <3>2. CASE r \in DOMAIN rows
      BY <2>3, <3>1, <3>2 DEF TableFrame, Over
    <3>3. CASE r \notin DOMAIN rows
      BY <2>2, <2>3, <3>1, <3>3 DEF TableFrame
    <3> QED  BY <3>2, <3>3
  <2>6. NoIntake => job'[q].seen = nextPk'
    BY <2>3 DEF TableFrame
  <2> QED  BY <2>4, <2>5, <2>6
<1>6. UnownsOnly(q)'
  BY <1>1, <1>2 DEF JobOK, UnownsOnly
<1> QED  BY <1>1, <1>2, <1>3, <1>4, <1>5, <1>6 DEF JobOK
LEMMA InvInit == Init => Inv
<1> SUFFICES ASSUME Init PROVE Inv
  OBVIOUS
<1>1. DOMAIN job = {}
  BY PartialEmpty DEF Init
<1>2. /\ DOMAIN rows = 1..Stored /\ rows \in [1..Stored -> Row]
      /\ nextPk = Stored + 1
  BY DEF Init
<1>3. 1..Stored \subseteq Pk /\ nextPk \in 1..MaxPk + 1 /\ \A r \in 1..Stored : r < nextPk
  BY <1>2, BoundAssumption DEF Pk
<1>4. files \subseteq Content
  <2>1. files = {rows[r].content : r \in DOMAIN rows}
    BY DEF Init
  <2>2. \A r \in DOMAIN rows : rows[r].content \in Content
    BY <1>2 DEF Row
  <2> QED  BY <2>1, <2>2
<1>5. TypeOK
  BY <1>1, <1>2, <1>3, <1>4 DEF TypeOK
<1> QED  BY <1>1, <1>5 DEF Inv, LocksDisjoint

\* The invariant is inductive.
LEMMA InvStep == Inv /\ [Next]_vars => Inv'
<1> SUFFICES ASSUME Inv, [Next]_vars PROVE Inv'
  OBVIOUS
<1>1. TypeOK /\ LocksDisjoint /\ (\A p \in DOMAIN job : JobOK(p)) /\ files' \subseteq Content
  BY FilesTyped DEF Inv
<1>2. DOMAIN rows \subseteq Pk /\ nextPk \in Nat
  BY <1>1, BoundAssumption DEF TypeOK
<1>3. TableOK' => DOMAIN rows' \subseteq Pk /\ nextPk' \in Nat
  BY BoundAssumption DEF TableOK
<1>4. CASE UNCHANGED vars
  <2>1. TypeOK' /\ LocksDisjoint'
    BY <1>1, <1>4 DEF TypeOK, LocksDisjoint, Locked, vars
  <2>2. TableOK' /\ \A p : TableFrame(p)
    BY <1>4, StillTable DEF vars
  <2>3. ASSUME NEW q \in DOMAIN job' PROVE JobOK(q)'
    <3>1. PICK p : p \notin DOMAIN job
      BY NoSetContainsEverything
    <3> QED  BY <1>2, <1>3, <1>4, <2>2, <3>1, OthersKeep DEF vars
  <2> QED  BY <2>1, <2>3 DEF Inv
<1>5. ASSUME NEW r \in Pk, Age(r) PROVE Inv'
  <2>1. TableOK' /\ (\A p : TableFrame(p)) /\ job' = job
    BY <1>5, AgeTable
  <2>2. ASSUME NEW q \in DOMAIN job' PROVE JobOK(q)'
    <3>1. PICK p : p \notin DOMAIN job
      BY NoSetContainsEverything
    <3> QED  BY <1>2, <1>3, <2>1, <3>1, OthersKeep
  <2>3. TypeOK'
    BY <1>1, <2>1, TypeOKIs DEF TypeOK, TableOK, Job
  <2>4. LocksDisjoint'
    BY <1>1, <2>1 DEF LocksDisjoint, Locked
  <2> QED  BY <2>2, <2>3, <2>4 DEF Inv
<1>6. ASSUME NEW p \in Procs, Starts(p), UNCHANGED <<rows, nextPk>> PROVE Inv'
  <2>1. TableOK' /\ TableFrame(p)
    BY <1>6, StillTable
  <2>2. TypeOK'
    BY <1>1, <1>6, <2>1 DEF TypeOK, TableOK, Job, Starts
  <2>3. DOMAIN job'[p].mine = {}
    BY <1>6, PartialEmpty DEF Starts
  <2>4. JobOK(p)'
    <3>1. SyncReads(p)' /\ WritesRefs(p)' /\ UnownsOnly(p)' /\ SeenStands(p)'
      BY <1>6, <2>3 DEF Starts, SyncReads, WritesRefs, UnownsOnly, SeenStands
    <3> QED  BY <1>6, <2>3, <3>1 DEF JobOK, Starts
  <2>5. ASSUME NEW q \in DOMAIN job' PROVE JobOK(q)'
    BY <1>2, <1>3, <1>6, <2>1, <2>4, OthersKeep DEF Starts
  <2>6. LocksDisjoint'
    <3>1. Locked(p)' = {}
      BY <1>6, <2>3 DEF Locked, Starts
    <3>2. \A q \in DOMAIN job : Locked(q)' = Locked(q)
      BY <1>6 DEF Locked, Starts
    <3> QED  BY <1>1, <1>6, <3>1, <3>2 DEF LocksDisjoint, Starts
  <2> QED  BY <2>2, <2>5, <2>6 DEF Inv
<1>7. ASSUME NEW p \in Procs, GoesOn(p) PROVE Inv'
  <2>1. TypeOK'
    BY <1>1, <1>7 DEF TypeOK, TableOK, Job, GoesOn, Moves
  <2>2. ASSUME NEW q \in DOMAIN job' PROVE JobOK(q)'
    BY <1>2, <1>3, <1>7, OthersKeep DEF GoesOn, Moves
  <2>3. LocksDisjoint'
    <3>1. \A q \in DOMAIN job \ {p} : Locked(q)' = Locked(q)
      BY <1>7 DEF Locked, GoesOn, Moves
    <3>2. \A q \in DOMAIN job \ {p} : Locked(p)' \cap Locked(q) = {}
      BY <1>1, <1>7 DEF GoesOn, Moves, Free, LocksDisjoint
    <3> QED  BY <1>1, <1>7, <3>1, <3>2 DEF LocksDisjoint, GoesOn, Moves
  <2> QED  BY <2>1, <2>2, <2>3 DEF Inv
<1>8. ASSUME NEW p \in Procs, Stays(p) PROVE Inv'
  <2>1. TypeOK'
    BY <1>1, <1>8 DEF TypeOK, TableOK, Job, Stays, Ends
  <2>2. ASSUME NEW q \in DOMAIN job' PROVE JobOK(q)'
    BY <1>2, <1>3, <1>8, OthersKeep DEF Stays, Ends
  <2>3. LocksDisjoint'
    BY <1>1, <1>8 DEF LocksDisjoint, Locked, Stays, Ends
  <2> QED  BY <2>1, <2>2, <2>3 DEF Inv
<1> QED  BY <1>4, <1>5, <1>6, <1>7, <1>8, StepShape

LEMMA InvAlways == Spec => []Inv
  BY InvInit, InvStep, PTL DEF Spec

\* What the table, the files and the processes hold is well formed whatever
\* overlaps, and every key handed out is below the sequence.
THEOREM TypeCorrect == Spec => []TypeOK
<1>1. Inv => TypeOK
  BY DEF Inv
<1> QED  BY <1>1, InvAlways, PTL
-----------------------------------------------------------------------------
(* What becomes of the table                                               *)

LEMMA TableShape ==
    ASSUME Inv, [Next]_vars
    PROVE  \/ rows' = rows
           \/ \E r \in Pk : Age(r)
           \/ \E p \in Procs, r \in Pk : DestroyDelete(p, r)
           \/ \E p \in Procs : \/ SyncCommit(p) \/ ReapEnd(p) \/ MergeMove(p)
                               \/ UploadInsert(p)
<1>1. TypeOK
  BY DEF Inv
<1>2. ASSUME NEW p \in Procs, Begins(p) PROVE rows' = rows
  BY <1>1, <1>2, HandlersStart
<1>3. ASSUME NEW p \in Procs, NEW r \in Pk,
             \/ SyncLock(p, r) \/ EntitySave(p, r)
             \/ DestroyBegin(p, r) \/ DestroyUnlink(p, r)
             \/ UnlinkRefused(p, r) \/ DisownSave(p, r)
             \/ MergeKeeper(p, r) \/ MergeSave(p, r) \/ MergeDelete(p, r)
      PROVE  rows' = rows
  <2>1. CASE SyncLock(p, r) \/ EntitySave(p, r)
    BY <2>1 DEF SyncLock, EntitySave
  <2>2. CASE DestroyBegin(p, r) \/ DestroyUnlink(p, r)
    BY <2>2 DEF DestroyBegin, DestroyUnlink
  <2>3. CASE MergeKeeper(p, r) \/ MergeSave(p, r) \/ MergeDelete(p, r)
    BY <2>3 DEF MergeKeeper, MergeSave, MergeDelete
  <2>4. CASE UnlinkRefused(p, r) \/ DisownSave(p, r)
    BY <2>4 DEF UnlinkRefused, DisownSave
  <2> QED  BY <1>3, <2>1, <2>2, <2>3, <2>4
<1>4. ASSUME NEW p \in Procs,
             UploadQuota(p) \/ UploadWrite(p) \/ DisownRead(p) \/ Crash(p)
      PROVE  rows' = rows
  BY <1>4 DEF UploadQuota, UploadWrite, DisownRead, Crash
<1> QED  BY <1>2, <1>3, <1>4 DEF Next, vars, Begins

-----------------------------------------------------------------------------
(* What the interleavings keep                                             *)

LEMMA ReapableStep == Inv /\ Reapable /\ [Next]_vars => Reapable'
<1> SUFFICES ASSUME Inv, Reapable, [Next]_vars PROVE Reapable'
  OBVIOUS
<1>1. CASE rows' = rows
  BY <1>1 DEF Reapable
<1>2. ASSUME NEW r \in Pk, Age(r) PROVE Reapable'
  BY <1>2, AgeTable DEF Reapable
<1>3. ASSUME NEW p \in Procs, NEW r \in Pk, DestroyDelete(p, r) PROVE Reapable'
  BY <1>3, DestroyDeleteTable DEF Reapable
<1>4. ASSUME NEW p \in Procs, SyncCommit(p) PROVE Reapable'
  BY <1>4, SyncCommitTable DEF Reapable
<1>5. ASSUME NEW p \in DOMAIN job, job[p].op # "sync"
      PROVE  \A r \in DOMAIN Written(p) :
                 Written(p)[r].refs = {} => Written(p)[r].stamp # "none"
  <2>1. \A r \in DOMAIN job[p].mine : job[p].mine[r] # {} \/ job[p].mine[r] = rows[r].refs
    BY <1>5 DEF Inv, JobOK, WritesRefs, UnownsOnly
  <2>2. TypeOK
    BY DEF Inv
  <2>3. /\ DOMAIN Written(p) \subseteq DOMAIN rows
        /\ \A r \in DOMAIN Written(p) :
              /\ Written(p)[r].stamp = rows[r].stamp
              /\ Written(p)[r].refs = IF r \in DOMAIN job[p].mine
                                      THEN job[p].mine[r] ELSE rows[r].refs
    BY <2>2, WrittenIs
  <2> QED  BY <2>1, <2>3 DEF Reapable
<1>6. ASSUME NEW p \in Procs, ReapEnd(p) PROVE Reapable'
  BY <1>5, <1>6, ReapEndTable DEF Reapers, Reapable
<1>7. ASSUME NEW p \in Procs, MergeMove(p) PROVE Reapable'
  BY <1>5, <1>7, MergeMoveTable DEF Reapable
<1>8. ASSUME NEW p \in Procs, UploadInsert(p) PROVE Reapable'
  BY <1>8, UploadInsertTable DEF Reapable
<1> QED  BY <1>1, <1>2, <1>3, <1>4, <1>6, <1>7, <1>8, TableShape

\* A row nothing references is on the sweeper's clock, whatever ran at once:
\* a save of an entity's erasure or of a merge never empties a list, an account's
\* leaves it as it is, and a sync that empties one restarts the clock in the same
\* commit.
THEOREM ReapableAlways == Spec => []Reapable
<1>1. Init => Reapable
  BY DEF Init, Reapable
<1> QED  BY <1>1, ReapableStep, InvAlways, PTL DEF Spec

LEMMA CommitKeepsOthers ==
    ASSUME Inv, NEW p \in Procs, SyncCommit(p), NEW r \in DOMAIN rows
    PROVE  rows'[r].refs \ {job[p].key} = rows[r].refs \ {job[p].key}
<1>1. \/ rows'[r].refs = rows[r].refs \ {job[p].key}
      \/ rows'[r].refs = rows[r].refs \cup {job[p].key}
      \/ rows'[r] = rows[r]
  BY SyncCommitTable
<1> QED  BY <1>1

\* A sync event moves its own key and nothing else, whatever other syncs,
\* erasures and merges wrote to the same rows since the event arrived: the lock
\* is what makes the list it writes back the list that is there.
THEOREM SyncKeepsOthersAlways == Spec => SyncKeepsOthers
<1>1. Inv /\ [Next]_vars =>
        [\A p \in Procs : SyncCommit(p) =>
            \A r \in DOMAIN rows :
                rows'[r].refs \ {job[p].key} = rows[r].refs \ {job[p].key}]_vars
  BY CommitKeepsOthers
<1> QED  BY <1>1, InvAlways, PTL DEF Spec, SyncKeepsOthers

\* Of the rows over an original that is unlinked, other than the one that goes and
\* those its transaction has deleted, none was there when shared_binary_exists
\* looked: whatever overlaps, one that is there by now was inserted since.
THEOREM UnlinkIsAloneAlways == Spec => UnlinkIsAlone
<1>1. Inv /\ [Next]_vars =>
        [\A p \in Procs, r \in Pk : DestroyUnlink(p, r) =>
            \A q \in Over(job[p].todo[r].content) \ ({r} \cup job[p].gone) :
                q >= job[p].seen]_vars
  <2> SUFFICES ASSUME Inv, NEW p \in Procs, NEW r \in Pk, DestroyUnlink(p, r),
                      NEW q \in Over(job[p].todo[r].content) \ ({r} \cup job[p].gone)
               PROVE  q >= job[p].seen
    OBVIOUS
  <2>1. p \in DOMAIN job /\ Reaping(p, "unlink") /\ Current(p, r)
    BY DEF DestroyUnlink, Reaping
  <2>2. SeenStands(p)
    BY <2>1 DEF Inv, JobOK
  <2> QED  BY <2>1, <2>2 DEF SeenStands
<1> QED  BY <1>1, InvAlways, PTL DEF Spec, UnlinkIsAlone

\* An original is unlinked under no other row at all.
UnlinkSparesAll ==
    [][\A p \in Procs, r \in Pk : DestroyUnlink(p, r) =>
          Over(job[p].todo[r].content) \ ({r} \cup job[p].gone) = {}]_vars

\* Where nothing is uploaded or imported, no row loses its bytes to the deletion of
\* another: sweeps, purges and erasures of contents, entities and accounts that
\* overlap, and merges, leave each other's rows their originals.  (An upload or
\* import that inserts between the look and the unlink is the one exception, and
\* nothing in the code excludes it.)
THEOREM UnlinkSparesAllAtRest ==
    ASSUME Ops \cap {"upload", "import"} = {}
    PROVE  Spec => UnlinkSparesAll
<1>1. Inv /\ [Next]_vars =>
        [\A p \in Procs, r \in Pk : DestroyUnlink(p, r) =>
            Over(job[p].todo[r].content) \ ({r} \cup job[p].gone) = {}]_vars
  <2> SUFFICES ASSUME Inv, NEW p \in Procs, NEW r \in Pk, DestroyUnlink(p, r),
                      NEW q \in Over(job[p].todo[r].content) \ ({r} \cup job[p].gone)
               PROVE  FALSE
    OBVIOUS
  <2>1. p \in DOMAIN job /\ Reaping(p, "unlink") /\ Current(p, r)
    BY DEF DestroyUnlink, Reaping
  <2>2. SeenStands(p) /\ NoIntake
    BY <2>1 DEF Inv, JobOK, NoIntake
  <2>3. q >= job[p].seen /\ job[p].seen = nextPk
    BY <2>1, <2>2 DEF SeenStands
  <2>4. q < nextPk /\ q \in Int /\ nextPk \in Int
    BY DEF Over, Inv, TypeOK, Pk
  <2> QED  BY <2>3, <2>4
<1> QED  BY <1>1, InvAlways, PTL DEF Spec, UnlinkSparesAll

\* The erasure of an account saves rows it read earlier, and what it saves leaves
\* their references as they are when it commits: whichever syncs, merges and
\* erasures wrote to them in between.
THEOREM DisownAlwaysKeepsRefs == Spec => DisownKeepsRefs
<1>1. Inv /\ [Next]_vars =>
        [\A p \in Procs : ReapEnd(p) /\ job[p].op = "purge" =>
            \A r \in DOMAIN rows' : rows'[r].refs = rows[r].refs]_vars
  <2> SUFFICES ASSUME Inv, NEW p \in Procs, ReapEnd(p), job[p].op = "purge",
                      NEW r \in DOMAIN rows'
               PROVE  rows'[r].refs = rows[r].refs
    OBVIOUS
  <2> QED  BY ReapEndTable, WrittenKeepsRefs
<1> QED  BY <1>1, InvAlways, PTL DEF Spec, DisownKeepsRefs

LEMMA StampStep ==
    ASSUME {"entity", "merge"} \cap Ops = {}, Inv, StampMeansUnreferenced, [Next]_vars
    PROVE  StampMeansUnreferenced'
<1>1. CASE rows' = rows
  BY <1>1 DEF StampMeansUnreferenced
<1>2. ASSUME NEW r \in Pk, Age(r) PROVE StampMeansUnreferenced'
  BY <1>2, AgeTable DEF StampMeansUnreferenced
<1>3. ASSUME NEW p \in Procs, NEW r \in Pk, DestroyDelete(p, r)
      PROVE  StampMeansUnreferenced'
  BY <1>3, DestroyDeleteTable DEF StampMeansUnreferenced
<1>4. ASSUME NEW p \in Procs, SyncCommit(p) PROVE StampMeansUnreferenced'
  <2> SUFFICES ASSUME NEW r \in DOMAIN rows, rows'[r].refs # {}
               PROVE  rows'[r].stamp = "none"
    BY <1>4, SyncCommitTable DEF StampMeansUnreferenced
  <2> DEFINE k == job[p].key
  <2>1. \/ /\ k \in rows[r].refs
           /\ rows'[r].stamp = IF rows'[r].refs = {} THEN "fresh" ELSE rows[r].stamp
        \/ rows'[r].stamp = "none"
        \/ rows'[r] = rows[r]
    BY <1>4, SyncCommitTable
  <2> QED  BY <2>1 DEF StampMeansUnreferenced
<1>5. \A p \in DOMAIN job : job[p].op \notin {"entity", "merge"}
  BY DEF Inv, JobOK
<1>6. ASSUME NEW p \in Procs, ReapEnd(p) PROVE StampMeansUnreferenced'
  <2>1. /\ p \in DOMAIN job /\ job[p].op \notin {"sync", "entity", "merge"}
        /\ rows' = rows \/ rows' = Written(p)
    BY <1>5, <1>6, ReapEndTable DEF Reapers
  <2> QED  BY <2>1, WrittenKeepsRefs DEF StampMeansUnreferenced
<1>7. ASSUME NEW p \in Procs, MergeMove(p) PROVE FALSE
  BY <1>5, <1>7 DEF MergeMove, Merging
<1>8. ASSUME NEW p \in Procs, UploadInsert(p) PROVE StampMeansUnreferenced'
  BY <1>8, UploadInsertTable DEF StampMeansUnreferenced
<1> QED  BY <1>1, <1>2, <1>3, <1>4, <1>6, <1>7, <1>8, TableShape

\* Where no entity is erased and no account merged, no row that is in use is on
\* the sweeper's clock: however syncs, uploads, sweeps, purges and erasures of
\* files overlap.  (The two that are left out save a list of refs they read
\* earlier and leave the stamp as it is.)
THEOREM StampAlways ==
    ASSUME {"entity", "merge"} \cap Ops = {}
    PROVE  Spec => []StampMeansUnreferenced
<1>1. Init => StampMeansUnreferenced
  BY DEF Init, StampMeansUnreferenced
<1>2. Inv /\ StampMeansUnreferenced /\ [Next]_vars => StampMeansUnreferenced'
  BY StampStep
<1> QED  BY <1>1, <1>2, InvAlways, PTL DEF Spec

-----------------------------------------------------------------------------
(* The sweeper and what writes references                                  *)

\* No sync, erasure of an entity or merge is under way while the sweeper is.
SweepsAlone ==
    \A p, q \in DOMAIN job :
        job[p].op = "sweep" => job[q].op \notin {"sync", "entity", "merge"}

\* What a sweep has yet to come to is unreferenced still.
SweepReads ==
    \A p \in DOMAIN job : job[p].op = "sweep" =>
        \A r \in DOMAIN job[p].todo \cap DOMAIN rows : rows[r].refs = {}

\* While none of the three is under way, no references change and a new row has
\* none.
LEMMA RefsStand ==
    ASSUME Inv, [Next]_vars, \A p \in DOMAIN job : job[p].op \notin {"sync", "entity", "merge"}
    PROVE  \A r \in DOMAIN rows' :
               rows'[r].refs = IF r \in DOMAIN rows THEN rows[r].refs ELSE {}
<1> DEFINE RefsStay == \A r \in DOMAIN rows' :
              rows'[r].refs = IF r \in DOMAIN rows THEN rows[r].refs ELSE {}
<1>1. ASSUME NEW r \in Pk, Age(r) PROVE RefsStay
  BY <1>1, AgeTable
<1>2. ASSUME NEW p \in Procs, NEW r \in Pk, DestroyDelete(p, r) PROVE RefsStay
  BY <1>2, DestroyDeleteTable
<1>3. ASSUME NEW p \in Procs PROVE ~SyncCommit(p)
  BY DEF SyncCommit
<1>5. ASSUME NEW p \in Procs, ReapEnd(p) PROVE RefsStay
  <2>1. p \in DOMAIN job /\ (rows' = rows \/ rows' = Written(p))
    BY <1>5, ReapEndTable
  <2> QED  BY <2>1, WrittenKeepsRefs
<1>6. ASSUME NEW p \in Procs, MergeMove(p) PROVE FALSE
  BY <1>6 DEF MergeMove, Merging
<1>7. ASSUME NEW p \in Procs, UploadInsert(p) PROVE RefsStay
  BY <1>7, UploadInsertTable
<1>8. rows' = rows => RefsStay
  OBVIOUS
<1> HIDE DEF RefsStay
<1>9. RefsStay
  BY <1>1, <1>2, <1>3, <1>5, <1>6, <1>7, <1>8, TableShape
<1> QED  BY <1>9 DEF RefsStay

\* A sweep begins with rows that are unreferenced, and then only takes from them.
LEMMA SweepTodo ==
    ASSUME Inv, [Next]_vars, NEW q \in DOMAIN job', job'[q].op = "sweep"
    PROVE  \/ SweepBegin(q)
           \/ /\ q \in DOMAIN job /\ job[q].op = "sweep"
              /\ DOMAIN job'[q].todo \subseteq DOMAIN job[q].todo
<1> DEFINE Takes == /\ q \in DOMAIN job /\ job[q].op = "sweep"
                    /\ DOMAIN job'[q].todo \subseteq DOMAIN job[q].todo
<1>1. TypeOK
  BY DEF Inv
<1>2. q \in DOMAIN job /\ job'[q] = job[q] => Takes
  OBVIOUS
<1>3. ASSUME NEW p \in Procs, Begins(p) PROVE SweepBegin(q) \/ Takes
  <2>1. /\ DOMAIN job' = DOMAIN job \cup {p}
        /\ \A x \in DOMAIN job : job'[x] = job[x]
    BY <1>1, <1>3, HandlersStart DEF Starts
  <2>2. CASE p = q
    <3>1. ASSUME NEW j, Begin(p, j) PROVE job'[q] = j
      BY <2>2, <3>1 DEF Begin
    <3>2. ASSUME NEW op, NEW R, NEW keys, NEW o, ReapBegin(p, op, R, keys, o)
          PROVE  job'[q].op = op
      BY <3>1, <3>2 DEF ReapBegin
    <3>3. ASSUME NEW k, NEW old, NEW new, SyncBegin(p, k, old, new) PROVE FALSE
      BY <3>1, <3>3 DEF SyncBegin
    <3>4. ASSUME NEW from, NEW into, MergeBegin(p, from, into) PROVE FALSE
      BY <3>1, <3>4 DEF MergeBegin
    <3>5. ASSUME NEW op \in {"upload", "import"}, NEW o, NEW c, UploadBegin(p, op, o, c) PROVE FALSE
      BY <3>1, <3>5 DEF UploadBegin
    <3>6. /\ \A o \in Owners : ~PurgeBegin(p, o)
          /\ \A c \in Content : ~FileBegin(p, c)
          /\ \A e \in Entities : ~EntityBegin(p, e)
      BY <3>2 DEF PurgeBegin, FileBegin, EntityBegin
    <3> QED  BY <1>3, <2>2, <3>3, <3>4, <3>5, <3>6 DEF Begins
  <2>3. CASE p # q
    BY <1>2, <2>1, <2>3
  <2> QED  BY <2>2, <2>3
<1>4. ASSUME NEW p \in Procs, Moves(p), p = q => DOMAIN job'[p].todo \subseteq DOMAIN job[p].todo
      PROVE  Takes
  BY <1>2, <1>4 DEF Moves
<1>5. ASSUME NEW p \in Procs, Ends(p) PROVE Takes
  BY <1>2, <1>5 DEF Ends
<1>6. ASSUME NEW p \in Procs, NEW r \in Pk,
             \/ DestroyBegin(p, r) \/ DestroyUnlink(p, r) \/ DestroyDelete(p, r)
             \/ UnlinkRefused(p, r) /\ job[p].op \in {"sweep", "purge"}
      PROVE  Takes
  <2>1. Moves(p) /\ DOMAIN job'[p].todo \subseteq DOMAIN job[p].todo
    BY <1>1, <1>6, DestroyBeginMoves, DestroyUnlinkMoves, DestroyDeleteMoves,
       UnlinkRefusedMoves
  <2> QED  BY <1>4, <2>1
<1>7. ASSUME NEW p \in Procs, NEW r \in Pk,
             \/ SyncLock(p, r) \/ EntitySave(p, r) \/ DisownSave(p, r)
             \/ UnlinkRefused(p, r) /\ job[p].op \notin {"sweep", "purge"}
             \/ MergeKeeper(p, r) \/ MergeSave(p, r) \/ MergeDelete(p, r)
      PROVE  Takes
  <2>1. p \in DOMAIN job /\ job[p].op # "sweep"
    <3>1. SyncLock(p, r) \/ EntitySave(p, r) => p \in DOMAIN job /\ job[p].op # "sweep"
      BY DEF SyncLock, EntitySave, Reaping
    <3>2. DisownSave(p, r) => p \in DOMAIN job /\ job[p].op # "sweep"
      BY DEF DisownSave, Disowning
    <3>3. UnlinkRefused(p, r) => p \in DOMAIN job
      BY DEF UnlinkRefused, Reaping
    <3>4. MergeKeeper(p, r) \/ MergeSave(p, r) \/ MergeDelete(p, r) =>
              p \in DOMAIN job /\ job[p].op # "sweep"
      BY DEF MergeKeeper, MergeSave, MergeDelete, Merging
    <3> QED  BY <1>7, <3>1, <3>2, <3>3, <3>4
  <2>2. GoesOn(p) \/ End(p)
    BY <1>7, SyncLockGoesOn, EntitySaveGoesOn, DisownSaveGoesOn, MergeKeeperGoesOn,
       MergeSaveGoesOn, MergeDeleteGoesOn DEF EntitySave, MergeSave, UnlinkRefused
  <2>3. GoesOn(p) => Moves(p) /\ job'[p].op # "sweep"
    BY <2>1 DEF GoesOn, Moves
  <2> QED  BY <1>4, <1>5, <2>1, <2>2, <2>3, EndEnds
<1>8. ASSUME NEW p \in Procs, UploadQuota(p) \/ UploadWrite(p) PROVE Takes
  <2>1. p \in DOMAIN job /\ job[p].op \in {"upload", "import"}
    BY <1>8 DEF UploadQuota, UploadWrite, Uploading
  <2>2. \/ End(p)
        \/ \E step \in {"write", "insert"} : job' = [job EXCEPT ![p].step = step]
    BY <1>8 DEF UploadQuota, UploadWrite
  <2>3. ASSUME NEW step, job' = [job EXCEPT ![p].step = step] PROVE Takes
    <3>1. p # q
      <4>1. p = q => job'[q] = [job[p] EXCEPT !.step = step]
        BY <2>1, <2>3
      <4>2. job[p] \in UploadJob
        BY <1>1, <2>1, JobKinds
      <4> QED  BY <2>1, <4>1, <4>2 DEF UploadJob
    <3> QED  BY <1>2, <2>3, <3>1
  <2> QED  BY <1>5, <2>1, <2>2, <2>3, EndEnds
<1>9. ASSUME NEW p \in Procs,
             \/ SyncCommit(p) \/ ReapEnd(p) \/ UploadInsert(p)
             \/ MergeMove(p) \/ Crash(p)
      PROVE  Takes
  <2>1. p \in DOMAIN job /\ End(p)
    BY <1>9 DEF SyncCommit, ReapEnd, UploadInsert, MergeMove, Crash, Reaping, Disowning, Merging,
                Uploading
  <2> QED  BY <1>5, <2>1, EndEnds
<1>13. ASSUME NEW p \in Procs, DisownRead(p) PROVE Takes
  <2>1. Moves(p) /\ job'[p].op # "sweep"
    BY <1>1, <1>13, DisownReadMoves DEF Moves
  <2> QED  BY <1>4, <2>1
<1>10. ASSUME NEW r \in Pk, Age(r) PROVE Takes
  BY <1>2, <1>10 DEF Age
<1>11. UNCHANGED vars => Takes
  BY <1>2 DEF vars
<1> HIDE DEF Takes
<1>12. SweepBegin(q) \/ Takes
  BY <1>3, <1>6, <1>7, <1>8, <1>9, <1>10, <1>11, <1>13 DEF Next, Begins
<1> QED  BY <1>12 DEF Takes

LEMMA SweepReadsStep ==
    ASSUME Inv, SweepsAlone, SweepReads, [Next]_vars
    PROVE  SweepReads'
<1> SUFFICES ASSUME NEW q \in DOMAIN job', job'[q].op = "sweep",
                    NEW r \in DOMAIN job'[q].todo \cap DOMAIN rows'
             PROVE  rows'[r].refs = {}
  BY DEF SweepReads
<1>1. CASE SweepBegin(q)
  <2>1. job'[q].todo = ReadOf(Unclaimed) /\ rows' = rows
    BY <1>1 DEF SweepBegin, ReapBegin, Begin
  <2> QED  BY <2>1 DEF ReadOf, Unclaimed
<1>2. CASE /\ q \in DOMAIN job /\ job[q].op = "sweep"
           /\ DOMAIN job'[q].todo \subseteq DOMAIN job[q].todo
  <2>1. \A p \in DOMAIN job : job[p].op \notin {"sync", "entity", "merge"}
    BY <1>2 DEF SweepsAlone
  <2>2. rows'[r].refs = IF r \in DOMAIN rows THEN rows[r].refs ELSE {}
    BY <2>1, RefsStand
  <2>3. r \in DOMAIN rows => rows[r].refs = {}
    BY <1>2 DEF SweepReads
  <2> QED  BY <2>2, <2>3
<1> QED  BY <1>1, <1>2, SweepTodo

\* The sweeper takes no row with a live reference if no sync, erasure of an
\* entity or merge is under way while it is, whatever uploads, imports, purges,
\* erasures of contents and other sweeps overlap: what MediaRaces_claim finds is
\* a matter of the handlers that write references alone, which services.py:1021
\* looks at no more once it has its candidates.
THEOREM SweepSparesAlone == Spec /\ []SweepsAlone => SweepSparesReferenced
<1>1. Init => SweepReads
  <2>1. Init => DOMAIN job = {}
    BY PartialEmpty DEF Init
  <2> QED  BY <2>1 DEF SweepReads
<1>2. Inv /\ SweepsAlone /\ SweepReads /\ [Next]_vars => SweepReads'
  BY SweepReadsStep
<1>3. SweepReads /\ [Next]_vars =>
        [\A p \in Procs, r \in DOMAIN rows :
            DestroyDelete(p, r) /\ job[p].op = "sweep" => rows[r].refs = {}]_vars
  BY DEF SweepReads, DestroyDelete, Reaping, Current
<1> QED  BY <1>1, <1>2, <1>3, InvAlways, PTL DEF Spec, SweepSparesReferenced

-----------------------------------------------------------------------------
(* Syncs do not wait in a ring                                             *)

LEMMA LeastNumber ==
    ASSUME NEW S \in SUBSET Nat, S # {}
    PROVE  \E m \in S : \A q \in S : m <= q
<1> DEFINE R == OpToRel(<, Nat)
<1>1. IsWellFoundedOn(R, Nat)
  BY NatLessThanWellFounded
<1>2. \A x, y \in Nat : x < y => <<x, y>> \in R
  BY DEF OpToRel
<1> HIDE DEF R
<1>3. \E m \in S : \A q \in S : <<q, m>> \notin R
  BY <1>1, WFMin
<1>4. PICK m \in S : \A q \in S : <<q, m>> \notin R
  BY <1>3
<1>5. \A q \in S : ~(q < m)
  BY <1>2, <1>4
<1>6. \A q \in S : m <= q
  BY <1>5
<1> QED  BY <1>6

LEMMA SmallestKey ==
    ASSUME NEW S \in SUBSET Pk, S # {}
    PROVE  \E m \in S : \A q \in S : m <= q
<1>1. S \in SUBSET Nat
  BY DEF Pk
<1> QED  BY <1>1, LeastNumber

LEMMA LargestKey ==
    ASSUME NEW S \in SUBSET Pk, S # {}
    PROVE  \E m \in S : \A q \in S : q <= m
<1> DEFINE Depth == {MaxPk - s : s \in S}
<1>1. \A s \in S : s \in Int /\ MaxPk - s \in Nat
  BY BoundAssumption DEF Pk
<1>2. Depth \in SUBSET Nat /\ Depth # {}
  BY <1>1
<1>3. \A s \in S : MaxPk - s \in Depth
  OBVIOUS
<1>4. \A d \in Depth : \E s \in S : d = MaxPk - s
  OBVIOUS
<1> HIDE DEF Depth
<1>5. PICK d \in Depth : \A e \in Depth : d <= e
  BY <1>2, LeastNumber
<1>6. PICK m \in S : d = MaxPk - m
  BY <1>4
<1>7. ASSUME NEW q \in S PROVE q <= m
  <2>1. MaxPk - m <= MaxPk - q
    BY <1>3, <1>5, <1>6
  <2> QED  BY <1>1, <2>1, BoundAssumption
<1> QED  BY <1>7

\* A sync that waits for another waits for a row that one has locked, and so for
\* a smaller key than any that one waits for.
LEMMA WaitsDescends ==
    ASSUME Inv, NEW p \in DOMAIN job, NEW q \in DOMAIN job, Waits(p, q),
           job[q].op = "sync",
           NEW m \in job[p].todo, \A t \in job[p].todo : m <= t,
           NEW n \in job[q].todo
    PROVE  m < n
<1>1. TypeOK /\ job[p].op = "sync" /\ JobOK(q)
  BY DEF Inv, Waits
<1>2. job[p].todo \subseteq Pk /\ job[q].todo \subseteq Pk /\ job[q].gone = {}
  BY <1>1, JobKinds DEF SyncJob
<1>3. PICK r \in job[p].todo : InLockOrder(p, r) /\ r \in Locked(q)
  BY DEF Waits
<1>4. r \in DOMAIN job[q].mine
  BY <1>2, <1>3 DEF Locked
<1>5. r < n
  BY <1>1, <1>4 DEF JobOK, SyncReads
<1>6. r <= m /\ m <= r /\ r \in Int /\ m \in Int /\ n \in Int
  BY <1>2, <1>3 DEF InLockOrder, Pk
<1> QED  BY <1>5, <1>6

LEMMA InvNoRing == Inv => NoDeadlock
<1> SUFFICES ASSUME Inv, NEW S \in SUBSET DOMAIN job, S # {}
             PROVE  \E p \in S : \A q \in S \ {p} : ~Waits(p, q)
  BY DEF NoDeadlock
<1> DEFINE Waiting == {p \in S : job[p].op = "sync" /\ job[p].todo # {}}
           First(p, m) == m \in job[p].todo /\ \A t \in job[p].todo : m <= t
           Firsts == {m \in Pk : \E p \in Waiting : First(p, m)}
<1>1. CASE Waiting # S
  BY <1>1 DEF Waits
<1>2. CASE Waiting = S
  <2>1. ASSUME NEW p \in S
        PROVE  job[p].todo \in SUBSET Pk /\ \E m \in Pk : First(p, m)
    <3>1. job[p] \in SyncJob /\ job[p].todo # {}
      BY <1>2, <2>1, JobKinds DEF Inv
    <3>2. job[p].todo \in SUBSET Pk
      BY <3>1 DEF SyncJob
    <3> QED  BY <3>1, <3>2, SmallestKey
  <2>2. Firsts \in SUBSET Pk /\ Firsts # {}
    BY <1>2, <2>1
  <2>3. PICK m \in Firsts : \A n \in Firsts : n <= m
    BY <2>2, LargestKey
  <2>4. PICK p \in S : First(p, m)
    BY <1>2, <2>3
  <2>5. ASSUME NEW q \in S \ {p}, Waits(p, q) PROVE FALSE
    <3>1. PICK n \in Pk : First(q, n)
      BY <2>1
    <3>2. n \in Firsts /\ job[q].op = "sync"
      BY <1>2, <3>1
    <3>3. m < n
      BY <2>4, <2>5, <3>1, <3>2, WaitsDescends
    <3>4. n <= m /\ m \in Int /\ n \in Int
      BY <2>3, <3>2 DEF Pk
    <3> QED  BY <3>3, <3>4
  <2> QED  BY <2>5
<1> QED  BY <1>1, <1>2

\* No set of processes has all its members waiting for one another's rows in
\* syncs: the locks are taken in the order of the keys.
THEOREM NoDeadlockAlways == Spec => []NoDeadlock
  BY InvNoRing, InvAlways, PTL
-----------------------------------------------------------------------------
(* Concurrent syncs, erasures of contents, and the ledger                  *)

SyncsAndErasures == Ops \subseteq {"sync", "file"}

\* The contents a sync adds or drops.
Concerns(p) == (job[p].old \ job[p].new) \cup (job[p].new \ job[p].old)

\* References are recorded on the oldest row over a content; a sync comes to
\* every row over the contents it concerns, the erasure of a content to every
\* row over it and to no other.
OldestHolds ==
    \A r \in DOMAIN rows : rows[r].refs # {} =>
        \A q \in Over(rows[r].content) : r <= q

Meets(p) == DOMAIN job[p].todo \cup job[p].gone

Covers(p) ==
    /\ job[p].op = "sync" => \A r \in DOMAIN rows : rows[r].content \in Concerns(p) =>
                                r \in job[p].todo \cup DOMAIN job[p].mine
    /\ job[p].op = "file" => \E c \in Content : Meets(p) \cap DOMAIN rows = Over(c)

LedgerInv == OldestHolds /\ \A p \in DOMAIN job : Covers(p)

\* The steps of an erasure before it commits.
Erases(p) ==
    /\ p \in DOMAIN job /\ job[p].op = "file"
    /\ \E r \in Pk : DestroyBegin(p, r) \/ DestroyUnlink(p, r) \/ DestroyDelete(p, r)

\* Where syncs and erasures of contents are all that runs, nothing else steps.
LEMMA QuietSteps ==
    ASSUME SyncsAndErasures, Inv, [Next]_vars
    PROVE  \/ UNCHANGED vars
           \/ \E r \in Pk : Age(r)
           \/ \E p \in Procs :
                 \/ \E k \in Key, old \in SUBSET Content, new \in SUBSET Content :
                        SyncBegin(p, k, old, new)
                 \/ \E r \in Pk : SyncLock(p, r)
                 \/ SyncCommit(p)
                 \/ \E c \in Content : FileBegin(p, c)
                 \/ Erases(p)
                 \/ job[p].op = "file" /\ ReapEnd(p)
                 \/ Crash(p)
<1>1. \A p \in DOMAIN job : job[p].op \in {"sync", "file"}
  BY DEF SyncsAndErasures, Inv, JobOK
<1>2. ASSUME NEW p PROVE /\ ~SweepBegin(p) /\ \A o : ~PurgeBegin(p, o)
                         /\ \A e : ~EntityBegin(p, e)
  BY DEF SyncsAndErasures, SweepBegin, PurgeBegin, EntityBegin, ReapBegin
<1>3. ASSUME NEW p PROVE /\ \A from, into : ~MergeBegin(p, from, into)
                         /\ \A op \in {"upload", "import"} : \A o, c : ~UploadBegin(p, op, o, c)
  BY DEF SyncsAndErasures, MergeBegin, UploadBegin
<1>4. ASSUME NEW p, NEW step PROVE /\ ~Merging(p, step) /\ ~Uploading(p, step)
                                   /\ Reaping(p, step) => p \in DOMAIN job /\ job[p].op = "file"
  BY <1>1 DEF Reaping, Reapers, Merging, Uploading
<1>5. ASSUME NEW p, NEW r
      PROVE  /\ ~EntitySave(p, r) /\ ~MergeKeeper(p, r) /\ ~MergeSave(p, r)
             /\ ~MergeDelete(p, r)
             /\ DestroyBegin(p, r) \/ DestroyUnlink(p, r) \/ DestroyDelete(p, r) =>
                    p \in DOMAIN job /\ job[p].op = "file"
  BY <1>4 DEF EntitySave, DestroyBegin, DestroyUnlink, DestroyDelete, MergeKeeper,
              MergeSave, MergeDelete
<1>7. ASSUME NEW p, NEW r
      PROVE  ~DisownSave(p, r) /\ (UnlinkRefused(p, r) => Crash(p))
  <2>1. ~DisownSave(p, r)
    BY <1>1 DEF DisownSave, Disowning
  <2>2. UnlinkRefused(p, r) => Crash(p)
    BY <1>4 DEF UnlinkRefused, Crash
  <2> QED  BY <2>1, <2>2
<1>6. ASSUME NEW p
      PROVE  /\ ~DisownRead(p) /\ ~MergeMove(p)
             /\ ~UploadQuota(p) /\ ~UploadWrite(p) /\ ~UploadInsert(p)
             /\ ReapEnd(p) => job[p].op = "file"
  <2>1. ~DisownRead(p) /\ ~MergeMove(p) /\ ~UploadQuota(p) /\ ~UploadWrite(p)
        /\ ~UploadInsert(p)
    BY <1>4 DEF DisownRead, MergeMove, UploadQuota, UploadWrite, UploadInsert
  <2>2. ReapEnd(p) => Reaping(p, "next") \/ Disowning(p)
    BY DEF ReapEnd
  <2>3. ~Disowning(p)
    BY <1>1 DEF Disowning
  <2> QED  BY <1>4, <2>1, <2>2, <2>3
<1> QED  BY <1>2, <1>3, <1>5, <1>6, <1>7 DEF Next, Erases

\* With all its locks, what a sync's refs resolve to is the oldest row of all.
LEMMA ResolvedIsOldest ==
    ASSUME Inv, NEW p \in DOMAIN job, Covers(p), job[p].op = "sync", job[p].todo = {},
           NEW r \in DOMAIN rows, rows[r].content \in Concerns(p)
    PROVE  r \in Resolved(p) <=> \A q \in Over(rows[r].content) : r <= q
<1>1. DOMAIN job[p].mine \subseteq DOMAIN rows
  BY DEF Inv, JobOK
<1>2. \A q \in DOMAIN rows : rows[q].content = rows[r].content => q \in DOMAIN job[p].mine
  BY DEF Covers
<1> QED  BY <1>1, <1>2 DEF Resolved, Over

\* An erasure goes on without touching the table and comes to what it came to.
LEMMA EraseStep ==
    ASSUME Inv, NEW p \in Procs, Erases(p)
    PROVE  Moves(p) /\ rows' = rows /\ Meets(p)' = Meets(p)
<1>1. p \in DOMAIN job /\ job[p].op = "file" /\ TypeOK
  BY DEF Erases, Inv
<1>2. PICK r \in Pk : DestroyBegin(p, r) \/ DestroyUnlink(p, r) \/ DestroyDelete(p, r)
  BY DEF Erases
<1>3. CASE DestroyBegin(p, r)
  BY <1>1, <1>3, DestroyBeginMoves DEF DestroyBegin, Meets
<1>4. CASE DestroyUnlink(p, r)
  BY <1>1, <1>4, DestroyUnlinkMoves DEF DestroyUnlink, Meets
<1>5. CASE DestroyDelete(p, r)
  <2>1. /\ Moves(p) /\ rows' = rows /\ r \in DOMAIN job[p].todo
        /\ DOMAIN job'[p].todo = DOMAIN job[p].todo \ {r}
        /\ job'[p].gone = job[p].gone \cup {r}
    BY <1>1, <1>5, DestroyDeleteMoves DEF DestroyDelete, Current
  <2> QED  BY <2>1 DEF Meets
<1> QED  BY <1>2, <1>3, <1>4, <1>5

\* When an erasure commits, every row over its content is gone and the others are
\* what they were.
LEMMA EraseCommit ==
    ASSUME Inv, LedgerInv, NEW p \in Procs, job[p].op = "file", ReapEnd(p)
    PROVE  \E c \in Content :
              /\ DOMAIN rows' = DOMAIN rows \ Over(c)
              /\ \A r \in DOMAIN rows' : rows'[r].content = rows[r].content
                                         /\ rows'[r].refs = rows[r].refs
<1>1. /\ p \in DOMAIN job /\ TypeOK /\ rows' = Written(p) /\ job[p].todo = <<>>
  BY DEF ReapEnd, Reaping, Disowning, Reapers, Inv
<1>2. DOMAIN job[p].todo = {} /\ DOMAIN job[p].mine = {}
  <2>1. job[p].mine = <<>>
    BY <1>1 DEF Inv, JobOK, WritesRefs
  <2> QED  BY <1>1, <2>1, PartialEmpty
<1>3. PICK c \in Content : Meets(p) \cap DOMAIN rows = Over(c)
  BY <1>1 DEF LedgerInv, Covers
<1>4. job[p].gone \cap DOMAIN rows = Over(c)
  BY <1>2, <1>3 DEF Meets
<1>5. DOMAIN rows' = DOMAIN rows \ Over(c)
  BY <1>1, <1>4, WrittenIs
<1>6. \A r \in DOMAIN rows' : rows'[r].content = rows[r].content /\ rows'[r].refs = rows[r].refs
  BY <1>1, <1>2, WrittenIs
<1> QED  BY <1>5, <1>6

LEMMA OldestStep ==
    ASSUME SyncsAndErasures, Inv, LedgerInv, [Next]_vars
    PROVE  OldestHolds' /\ DOMAIN rows' \subseteq DOMAIN rows
           /\ \A r \in DOMAIN rows' : rows'[r].content = rows[r].content
<1>1. ASSUME NEW p \in Procs, SyncCommit(p)
      PROVE  OldestHolds' /\ DOMAIN rows' = DOMAIN rows
             /\ \A r \in DOMAIN rows : rows'[r].content = rows[r].content
  <2>1. DOMAIN rows' = DOMAIN rows /\ p \in DOMAIN job /\ job[p].op = "sync" /\ job[p].todo = {}
        /\ \A r \in DOMAIN rows : rows'[r].content = rows[r].content
    BY <1>1, SyncCommitTable DEF SyncCommit
  <2>2. ASSUME NEW r \in DOMAIN rows, rows'[r].refs # {},
               NEW q \in DOMAIN rows, rows[q].content = rows[r].content
        PROVE  r <= q
    <3>1. CASE rows[r].refs # {}
      BY <2>2, <3>1 DEF LedgerInv, OldestHolds, Over
    <3>2. CASE rows[r].refs = {}
      <4>1. r \in Resolved(p) /\ rows[r].content \in job[p].new \ job[p].old
        BY <1>1, <2>2, <3>2, SyncCommitTable
      <4>2. rows[r].content \in Concerns(p)
        BY <4>1 DEF Concerns
      <4> QED  BY <2>1, <2>2, <4>1, <4>2, ResolvedIsOldest DEF LedgerInv, Over
    <3> QED  BY <3>1, <3>2
  <2> QED  BY <2>1, <2>2 DEF OldestHolds, Over
<1>2. ASSUME NEW r \in Pk, Age(r)
      PROVE  OldestHolds' /\ DOMAIN rows' = DOMAIN rows
             /\ \A q \in DOMAIN rows : rows'[q].content = rows[q].content
  BY <1>2, AgeTable DEF LedgerInv, OldestHolds, Over
<1>3. CASE rows' = rows
  BY <1>3 DEF LedgerInv, OldestHolds, Over
<1>4. ASSUME NEW p \in Procs, job[p].op = "file", ReapEnd(p)
      PROVE  OldestHolds' /\ DOMAIN rows' \subseteq DOMAIN rows
             /\ \A r \in DOMAIN rows' : rows'[r].content = rows[r].content
  <2>1. PICK c \in Content :
          /\ DOMAIN rows' = DOMAIN rows \ Over(c)
          /\ \A r \in DOMAIN rows' : rows'[r].content = rows[r].content
                                     /\ rows'[r].refs = rows[r].refs
    BY <1>4, EraseCommit
  <2>2. ASSUME NEW r \in DOMAIN rows', rows'[r].refs # {},
               NEW q \in DOMAIN rows', rows'[q].content = rows'[r].content
        PROVE  r <= q
    <3>1. r \in DOMAIN rows /\ rows[r].refs # {} /\ q \in Over(rows[r].content)
      BY <2>1, <2>2 DEF Over
    <3> QED  BY <3>1 DEF LedgerInv, OldestHolds
  <2> QED  BY <2>1, <2>2 DEF OldestHolds, Over
<1>5. ASSUME NEW p \in Procs, Erases(p) PROVE rows' = rows
  BY <1>5, EraseStep
<1>6. ASSUME NEW p \in Procs,
             \/ \E k \in Key, old \in SUBSET Content, new \in SUBSET Content :
                    SyncBegin(p, k, old, new)
             \/ \E r \in Pk : SyncLock(p, r)
             \/ \E c \in Content : FileBegin(p, c)
             \/ Crash(p)
      PROVE  rows' = rows
  BY <1>6 DEF SyncBegin, SyncLock, Crash, FileBegin, ReapBegin
<1>7. UNCHANGED vars => rows' = rows
  BY DEF vars
<1> QED  BY <1>1, <1>2, <1>3, <1>4, <1>5, <1>6, <1>7, QuietSteps

LEMMA LedgerInvStep ==
    ASSUME SyncsAndErasures, Inv, LedgerInv, [Next]_vars
    PROVE  LedgerInv'
<1> DEFINE Covered == \A p \in DOMAIN job' : Covers(p)'
<1>1. OldestHolds' /\ DOMAIN rows' \subseteq DOMAIN rows
      /\ \A r \in DOMAIN rows' : rows'[r].content = rows[r].content
  BY OldestStep
<1>2. ASSUME NEW p \in DOMAIN job, job'[p] = job[p] PROVE Covers(p)'
  <2>1. Covers(p)
    BY DEF LedgerInv
  <2>2. Concerns(p)' = Concerns(p) /\ Meets(p)' = Meets(p)
    BY <1>2 DEF Concerns, Meets
  <2>3. \A c : Over(c)' = Over(c) \cap DOMAIN rows'
    BY <1>1 DEF Over
  <2>4. ASSUME job[p].op = "sync", NEW r \in DOMAIN rows', rows'[r].content \in Concerns(p)'
        PROVE  r \in job'[p].todo \cup DOMAIN job'[p].mine
    BY <1>1, <1>2, <2>1, <2>2, <2>4 DEF Covers
  <2>5. ASSUME job[p].op = "file"
        PROVE  \E c \in Content : Meets(p)' \cap DOMAIN rows' = Over(c)'
    <3>1. PICK c \in Content : Meets(p) \cap DOMAIN rows = Over(c)
      BY <2>1, <2>5 DEF Covers
    <3>2. Meets(p)' \cap DOMAIN rows' = Over(c)'
      BY <1>1, <2>2, <2>3, <3>1
    <3> QED  BY <3>2
  <2> QED  BY <1>2, <2>4, <2>5 DEF Covers
<1>3. ASSUME job' = job PROVE Covered
  BY <1>2, <1>3
<1>4. ASSUME NEW p, Moves(p), Covers(p)' PROVE Covered
  BY <1>2, <1>4 DEF Moves
<1>5. ASSUME NEW p \in Procs, NEW k \in Key, NEW old \in SUBSET Content,
             NEW new \in SUBSET Content, SyncBegin(p, k, old, new)
      PROVE  Covered
  <2> DEFINE todo == UNION {Over(c) : c \in (old \ new) \cup (new \ old)}
             j == [op |-> "sync", key |-> k, old |-> old, new |-> new,
                   todo |-> todo, mine |-> <<>>, gone |-> {}]
  <2>1. Begin(p, j) /\ rows' = rows
    BY <1>5 DEF SyncBegin
  <2>2. DOMAIN job' = DOMAIN job \cup {p} /\ job'[p] = j
        /\ \A q \in DOMAIN job : q # p => job'[q] = job[q]
    BY <2>1 DEF Begin
  <2>3. \A r \in DOMAIN rows : rows[r].content \in Concerns(p)' => r \in job'[p].todo
    <3>1. Concerns(p)' = (old \ new) \cup (new \ old) /\ job'[p].todo = todo
      BY <2>2 DEF Concerns
    <3> QED  BY <3>1 DEF Over
  <2>4. job'[p].op = "sync"
    BY <2>2
  <2>5. Covers(p)'
    BY <2>1, <2>3, <2>4 DEF Covers
  <2> QED  BY <1>2, <2>2, <2>5
<1>6. ASSUME NEW p \in Procs, NEW c \in Content, FileBegin(p, c) PROVE Covered
  <2> DEFINE j == [op |-> "file", step |-> "next", keys |-> {}, owner |-> NoOwner,
                   todo |-> ReadOf(Over(c)), mine |-> <<>>, gone |-> {}, seen |-> 0,
                   stranded |-> FALSE]
  <2>1. Begin(p, j) /\ rows' = rows
    BY <1>6 DEF FileBegin, ReapBegin
  <2>2. DOMAIN job' = DOMAIN job \cup {p} /\ job'[p] = j
        /\ \A q \in DOMAIN job : q # p => job'[q] = job[q]
    BY <2>1 DEF Begin
  <2>3. Meets(p)' = Over(c)
    BY <2>2 DEF Meets, ReadOf
  <2>4. Meets(p)' \cap DOMAIN rows' = Over(c)'
    BY <2>1, <2>3 DEF Over
  <2>5. job'[p].op = "file"
    BY <2>2
  <2>6. Covers(p)'
    BY <2>4, <2>5 DEF Covers
  <2> QED  BY <1>2, <2>2, <2>6
<1>7. ASSUME NEW p \in Procs, NEW s \in Pk, SyncLock(p, s) PROVE Covered
  <2>1. /\ Moves(p) /\ job[p].op = "sync" /\ job'[p].todo = job[p].todo \ {s}
        /\ job'[p].mine = IF s \in DOMAIN rows
                          THEN [q \in DOMAIN job[p].mine \cup {s} |->
                                  IF q = s THEN rows[s].refs ELSE job[p].mine[q]]
                          ELSE job[p].mine
        /\ job'[p].old = job[p].old /\ job'[p].new = job[p].new
        /\ rows' = rows
    BY <1>7, SyncLockMoves DEF Inv, SyncLock
  <2>2. Concerns(p)' = Concerns(p)
    BY <2>1 DEF Concerns
  <2>3. \A r \in DOMAIN rows : rows[r].content \in Concerns(p)' =>
            r \in job'[p].todo \cup DOMAIN job'[p].mine
    <3>1. \A r \in DOMAIN rows : rows[r].content \in Concerns(p) =>
              r \in job[p].todo \cup DOMAIN job[p].mine
      BY <2>1 DEF LedgerInv, Covers, Moves
    <3>2. s \in DOMAIN rows => DOMAIN job'[p].mine = DOMAIN job[p].mine \cup {s}
      BY <2>1
    <3>3. s \notin DOMAIN rows => DOMAIN job'[p].mine = DOMAIN job[p].mine
      BY <2>1
    <3> QED  BY <2>1, <2>2, <3>1, <3>2, <3>3
  <2>4. job'[p].op = "sync"
    BY <2>1 DEF Moves
  <2>5. Covers(p)'
    BY <2>1, <2>3, <2>4 DEF Covers
  <2> QED  BY <1>4, <2>1, <2>5
<1>8. ASSUME NEW p \in Procs, Erases(p) PROVE Covered
  <2>1. /\ Moves(p) /\ rows' = rows /\ Meets(p)' = Meets(p)
        /\ p \in DOMAIN job /\ job[p].op = "file"
    BY <1>8, EraseStep DEF Erases
  <2>2. job'[p].op = "file"
    BY <2>1 DEF Moves
  <2>3. PICK c \in Content : Meets(p) \cap DOMAIN rows = Over(c)
    BY <2>1 DEF LedgerInv, Covers
  <2>4. Meets(p)' \cap DOMAIN rows' = Over(c)'
    BY <2>1, <2>3 DEF Over
  <2>5. Covers(p)'
    BY <2>2, <2>4 DEF Covers
  <2> QED  BY <1>4, <2>1, <2>5
<1>9. ASSUME NEW p \in Procs, SyncCommit(p) \/ Crash(p) \/ ReapEnd(p) PROVE Covered
  <2>1. p \in DOMAIN job /\ End(p)
    BY <1>9 DEF SyncCommit, Crash, ReapEnd, Reaping, Disowning
  <2>2. Ends(p)
    BY <2>1, EndEnds
  <2> QED  BY <1>2, <2>2 DEF Ends
<1>10. Covered
  <2>1. ASSUME NEW r \in Pk, Age(r) PROVE job' = job
    BY <2>1 DEF Age
  <2>2. UNCHANGED vars => job' = job
    BY DEF vars
  <2> HIDE DEF Covered
  <2> QED  BY <1>3, <1>5, <1>6, <1>7, <1>8, <1>9, <2>1, <2>2, QuietSteps
<1> QED  BY <1>1, <1>10 DEF LedgerInv

\* A commit is one step of the ledger.
LEMMA CommitIsSync ==
    ASSUME Inv, LedgerInv, NEW p \in Procs, SyncCommit(p)
    PROVE  Ledger!Next
<1> DEFINE k == job[p].key
           old == job[p].old
           new == job[p].new
<1>1. /\ p \in DOMAIN job /\ job[p] \in SyncJob /\ job[p].todo = {}
      /\ job[p].op = "sync" /\ Covers(p)
      /\ DOMAIN rows' = DOMAIN rows
      /\ \A r \in DOMAIN rows : rows'[r].content = rows[r].content
  BY SyncCommitTable DEF SyncCommit, LedgerInv
<1>2. k \in Key /\ old \in SUBSET Content /\ new \in SUBSET Content
  BY <1>1 DEF SyncJob
<1>3. \A c : (Over(c))' = Over(c)
  BY <1>1 DEF Over
<1>4. Present' = Present
  BY <1>3 DEF Present
<1>5. \A r \in DOMAIN rows : \A x : x # k =>
          (x \in rows'[r].refs <=> x \in rows[r].refs)
  BY CommitKeepsOthers
<1>6. ASSUME NEW r \in DOMAIN rows, rows[r].content \notin Concerns(p)
      PROVE  rows'[r].refs = rows[r].refs
  BY <1>6, SyncCommitTable DEF Concerns
<1>7. ASSUME NEW r \in DOMAIN rows, rows[r].content \in old \ new
      PROVE  k \notin rows'[r].refs
  <2>1. CASE k \in rows[r].refs
    <3>1. \A q \in Over(rows[r].content) : r <= q
      BY <2>1 DEF LedgerInv, OldestHolds
    <3>2. r \in Resolved(p)
      BY <1>1, <1>7, <3>1, ResolvedIsOldest DEF Concerns, LedgerInv
    <3> QED  BY <1>7, <2>1, <3>2, SyncCommitTable
  <2>2. CASE k \notin rows[r].refs
    BY <1>7, <2>2, SyncCommitTable
  <2> QED  BY <2>1, <2>2
<1>8. ASSUME NEW c \in new \ old, Over(c) # {}
      PROVE  \E r \in Over(c) : k \in rows'[r].refs
  <2>1. Over(c) \in SUBSET Pk
    BY DEF Over, Inv, TypeOK
  <2>2. PICK r \in Over(c) : \A q \in Over(c) : r <= q
    BY <1>8, <2>1, SmallestKey
  <2>3. r \in DOMAIN rows /\ rows[r].content = c
    BY DEF Over
  <2>4. r \in Resolved(p)
    BY <1>1, <1>8, <2>2, <2>3, ResolvedIsOldest DEF Concerns, LedgerInv
  <2> QED  BY <1>8, <2>3, <2>4, SyncCommitTable
<1> HIDE DEF k, old, new
<1>9. \A r \in DOMAIN rows : rows[r].content \in Content
  BY DEF Inv, TypeOK, Row
<1> DEFINE after == (Held \ ({k} \X (old \ new))) \cup ({k} \X ((new \ old) \cap Present))
<1>10. ASSUME NEW x \in Key, NEW c \in Content
       PROVE  <<x, c>> \in Held' <=> <<x, c>> \in after
  <2>1. <<x, c>> \in Held' <=> \E r \in Over(c) : x \in rows'[r].refs
    BY <1>3 DEF Held
  <2>2. <<x, c>> \in Held <=> \E r \in Over(c) : x \in rows[r].refs
    BY DEF Held
  <2>3. \A r \in Over(c) : r \in DOMAIN rows /\ rows[r].content = c
    BY DEF Over
  <2>4. CASE x # k
    BY <1>5, <2>1, <2>2, <2>3, <2>4
  <2>5. CASE x = k /\ c \in old \ new
    <3>1. \A r \in Over(c) : k \notin rows'[r].refs
      BY <1>7, <2>3, <2>5 DEF k, old, new
    <3> QED  BY <2>1, <2>5, <3>1
  <2>6. CASE x = k /\ c \in new \ old
    <3>1. Over(c) # {} => <<x, c>> \in Held'
      BY <1>8, <2>1, <2>6 DEF k, old, new
    <3>2. Over(c) # {} <=> c \in Present
      BY DEF Present
    <3> QED  BY <2>1, <2>2, <2>6, <3>1, <3>2
  <2>7. CASE x = k /\ c \notin old \ new /\ c \notin new \ old
    <3>1. \A r \in Over(c) : rows'[r].refs = rows[r].refs
      BY <1>6, <2>3, <2>7 DEF Concerns, old, new
    <3> QED  BY <2>1, <2>2, <2>7, <3>1
  <2> QED  BY <2>4, <2>5, <2>6, <2>7
<1>11. Held' = after
  <2>1. Held' \subseteq Key \X Content /\ after \subseteq Key \X Content
    BY <1>2 DEF Held
  <2> HIDE DEF after
  <2> QED  BY <1>10, <2>1
<1>12. Ledger!Sync(k, old, new)
  BY <1>4, <1>11 DEF Ledger!Sync
<1> QED  BY <1>2, <1>12 DEF Ledger!Next, Ledger!Key, Key

\* So is the commit of an erasure.
LEMMA EraseIsExpunge ==
    ASSUME Inv, LedgerInv, NEW p \in Procs, job[p].op = "file", ReapEnd(p)
    PROVE  Ledger!Next
<1>1. PICK c \in Content :
        /\ DOMAIN rows' = DOMAIN rows \ Over(c)
        /\ \A r \in DOMAIN rows' : rows'[r].content = rows[r].content
                                   /\ rows'[r].refs = rows[r].refs
  BY EraseCommit
<1>2. \A x : Over(x)' = IF x = c THEN {} ELSE Over(x)
  BY <1>1 DEF Over
<1>3. Present' = Present \ {c}
  BY <1>2 DEF Present
<1>4. ASSUME NEW k \in Key, NEW x \in Content
      PROVE  <<k, x>> \in Held' <=> <<k, x>> \in Held /\ x # c
  <2>1. <<k, x>> \in Held' <=> \E r \in Over(x)' : k \in rows'[r].refs
    BY DEF Held
  <2>2. <<k, x>> \in Held <=> \E r \in Over(x) : k \in rows[r].refs
    BY DEF Held
  <2>3. \A r \in Over(x) : x # c => rows'[r].refs = rows[r].refs
    BY <1>1 DEF Over
  <2> QED  BY <1>2, <2>1, <2>2, <2>3
<1>5. Held' = Held \ (Key \X {c})
  <2>1. Held \subseteq Key \X Content /\ Held' \subseteq Key \X Content
    BY DEF Held
  <2> QED  BY <1>4, <2>1
<1>6. Ledger!Expunge(c)
  BY <1>3, <1>5 DEF Ledger!Expunge, Ledger!Key, Key
<1> QED  BY <1>6 DEF Ledger!Next

LEMMA LedgerStep ==
    ASSUME SyncsAndErasures, Inv, LedgerInv, [Next]_vars
    PROVE  [Ledger!Next]_<<Held, Present>>
<1>1. ASSUME NEW p \in Procs, SyncCommit(p) PROVE Ledger!Next
  BY <1>1, CommitIsSync
<1>2. ASSUME NEW p \in Procs, job[p].op = "file", ReapEnd(p) PROVE Ledger!Next
  BY <1>2, EraseIsExpunge
<1>3. ASSUME NEW r \in Pk, Age(r) PROVE UNCHANGED <<Held, Present>>
  BY <1>3, AgeTable DEF Held, Present, Over
<1>4. CASE rows' = rows
  BY <1>4 DEF Held, Present, Over
<1> QED  BY <1>1, <1>2, <1>3, <1>4, QuietSteps, EraseStep
         DEF vars, SyncBegin, SyncLock, Crash, FileBegin, ReapBegin

\* Syncs and erasures of contents that interleave statement by statement are the
\* one-step syncs and expunctions of the reference ledger, in the order in which
\* they commit, for any number of them, of contents and of rows over each content.
THEOREM LedgerStepsAlways ==
    ASSUME Ops \subseteq {"sync", "file"}
    PROVE  Spec => LedgerSteps
<1>1. SyncsAndErasures
  BY DEF SyncsAndErasures
<1>2. Init => LedgerInv
  <2>1. Init => DOMAIN job = {}
    BY PartialEmpty DEF Init
  <2> QED  BY <2>1 DEF Init, LedgerInv, OldestHolds
<1>3. Inv /\ LedgerInv /\ [Next]_vars => LedgerInv'
  BY <1>1, LedgerInvStep
<1>4. Inv /\ LedgerInv /\ [Next]_vars => [Ledger!Next]_<<Held, Present>>
  BY <1>1, LedgerStep
<1> QED  BY <1>2, <1>3, <1>4, InvAlways, PTL DEF Spec, LedgerSteps

-----------------------------------------------------------------------------
(* The quota and uploads that overtake each other                          *)

LEMMA OwnedFinite ==
    ASSUME Inv, NEW o
    PROVE  IsFiniteSet(OwnedBy(o)) /\ Cardinality(OwnedBy(o)) \in Nat
<1>1. OwnedBy(o) \subseteq Pk
  BY DEF OwnedBy, Inv, TypeOK
<1>2. IsFiniteSet(Pk)
  BY FS_Interval, BoundAssumption DEF Pk
<1> QED  BY <1>1, <1>2, FS_Subset, FS_CardinalityType

LEMMA AdmittedFinite ==
    ASSUME Inv, IsFiniteSet(Procs), NEW o
    PROVE  /\ IsFiniteSet(Admitted(o)) /\ Cardinality(Admitted(o)) \in Nat
           /\ Cardinality(Admitted(o)) <= Cardinality(Procs)
<1>1. Admitted(o) \subseteq Procs
  BY DEF Admitted, Inv, TypeOK
<1> QED  BY <1>1, FS_Subset, FS_CardinalityType

\* The only way to be admitted is past the quota.
LEMMA AdmittedStep ==
    ASSUME Inv, [Next]_vars, NEW o \in Owners, NEW p \in Admitted(o)', p \notin Admitted(o)
    PROVE  Cardinality(OwnedBy(o)) < MaxObjects /\ rows' = rows
<1>1. /\ p \in DOMAIN job' /\ job'[p].op \in {"upload", "import"}
      /\ job'[p].step \in {"write", "insert"} /\ job'[p].owner = o
  BY DEF Admitted, Uploading
<1>2. ~(p \in DOMAIN job /\ job'[p] = job[p])
  BY <1>1 DEF Admitted, Uploading
<1>3. TypeOK
  BY DEF Inv
<1>4. ASSUME NEW q \in DOMAIN job, End(q) PROVE FALSE
  BY <1>1, <1>2, <1>4, EndEnds DEF Ends
<1>5. ASSUME NEW q, Moves(q), job'[q].op \notin {"upload", "import"} PROVE FALSE
  BY <1>1, <1>2, <1>5 DEF Moves
<1>6. ASSUME NEW q \in Procs, NEW j, q \notin DOMAIN job, Begin(q, j),
             j.op \notin {"upload", "import"} \/ j.step = "quota" \/ j.owner = NoOwner
      PROVE  FALSE
  <2>1. DOMAIN job' = DOMAIN job \cup {q} /\ job'[q] = j /\ \A x \in DOMAIN job : job'[x] = job[x]
    BY <1>6 DEF Begin
  <2> QED  BY <1>1, <1>2, <1>6, <2>1, OwnerAssumption
<1>7. ASSUME NEW q \in Procs, NEW op \in Reapers, NEW R, NEW keys, NEW x,
             ReapBegin(q, op, R, keys, x)
      PROVE  FALSE
  <2> DEFINE j == [op |-> op, step |-> "next", keys |-> keys, owner |-> x,
                   todo |-> ReadOf(R), mine |-> <<>>, gone |-> {}, seen |-> 0,
                   stranded |-> FALSE]
  <2>1. q \notin DOMAIN job /\ Begin(q, j)
    BY <1>7 DEF ReapBegin, Idle
  <2>2. j.op \notin {"upload", "import"}
    BY DEF Reapers
  <2> HIDE DEF j
  <2> QED  BY <1>6, <2>1, <2>2
<1>8. ASSUME NEW q \in Procs, Begins(q) PROVE FALSE
  <2>1. ASSUME NEW k \in Key, NEW old \in SUBSET Content, NEW new \in SUBSET Content,
               SyncBegin(q, k, old, new)
        PROVE  FALSE
    <3> DEFINE j == [op |-> "sync", key |-> k, old |-> old, new |-> new,
                     todo |-> UNION {Over(c) : c \in (old \ new) \cup (new \ old)},
                     mine |-> <<>>, gone |-> {}]
    <3>1. q \notin DOMAIN job /\ Begin(q, j)
      BY <2>1 DEF SyncBegin, Idle
    <3>2. j.op \notin {"upload", "import"}
      OBVIOUS
    <3> HIDE DEF j
    <3> QED  BY <1>6, <3>1, <3>2
  <2>2. ASSUME NEW from \in Owners, NEW into \in Owners, MergeBegin(q, from, into)
        PROVE  FALSE
    <3> DEFINE j == [op |-> "merge", step |-> "fold", from |-> from, into |-> into,
                     todo |-> ReadOf({r \in OwnedBy(from) : Twins(into, rows[r].content) # {}}),
                     mine |-> <<>>, gone |-> {}, keeper |-> [pk |-> 0, refs |-> {}]]
    <3>1. q \notin DOMAIN job /\ Begin(q, j)
      BY <2>2 DEF MergeBegin, Idle
    <3>2. j.op \notin {"upload", "import"}
      OBVIOUS
    <3> HIDE DEF j
    <3> QED  BY <1>6, <3>1, <3>2
  <2>3. ASSUME NEW op \in {"upload", "import"}, NEW x \in Holder, NEW c \in Content,
               UploadBegin(q, op, x, c)
        PROVE  FALSE
    <3> DEFINE j == [op |-> op, step |-> IF op = "upload" THEN "quota" ELSE "write",
                     owner |-> x, content |-> c, mine |-> <<>>, gone |-> {}]
    <3>1. q \notin DOMAIN job /\ Begin(q, j) /\ (op = "upload" \/ x = NoOwner)
      BY <2>3 DEF UploadBegin, Idle
    <3>2. j.step = "quota" \/ j.owner = NoOwner
      BY <3>1
    <3> HIDE DEF j
    <3> QED  BY <1>6, <3>1, <3>2
  <2>4. ~SweepBegin(q)
    BY <1>7 DEF SweepBegin, Reapers
  <2>5. \A x \in Owners : ~PurgeBegin(q, x)
    BY <1>7 DEF PurgeBegin, Reapers
  <2>6. \A c \in Content : ~FileBegin(q, c)
    BY <1>7 DEF FileBegin, Reapers
  <2>7. \A e \in Entities : ~EntityBegin(q, e)
    BY <1>7 DEF EntityBegin, Reapers
  <2> QED  BY <1>8, <2>1, <2>2, <2>3, <2>4, <2>5, <2>6, <2>7 DEF Begins
<1>9. ASSUME NEW q \in Procs, NEW r \in Pk,
             \/ SyncLock(q, r) \/ EntitySave(q, r)
             \/ DestroyBegin(q, r) \/ DestroyUnlink(q, r) \/ DestroyDelete(q, r)
             \/ UnlinkRefused(q, r) \/ DisownSave(q, r)
             \/ MergeKeeper(q, r) \/ MergeSave(q, r) \/ MergeDelete(q, r)
      PROVE  FALSE
  <2>1. CASE EntitySave(q, r)
    <3>1. CASE r \in DOMAIN rows
      BY <1>3, <1>5, <2>1, <3>1, EntitySaveMoves
    <3>2. CASE r \notin DOMAIN rows
      BY <1>4, <2>1, <3>2 DEF EntitySave, Reaping
    <3> QED  BY <3>1, <3>2
  <2>2. CASE MergeSave(q, r)
    <3>1. CASE job[q].keeper.pk \in DOMAIN rows
      BY <1>3, <1>5, <2>2, <3>1, MergeSaveMoves
    <3>2. CASE job[q].keeper.pk \notin DOMAIN rows
      BY <1>4, <2>2, <3>2 DEF MergeSave, Merging
    <3> QED  BY <3>1, <3>2
  <2>3. CASE DestroyBegin(q, r) \/ DestroyUnlink(q, r) \/ DestroyDelete(q, r)
    <3>1. Moves(q) /\ job[q].op \in Reapers
      BY <1>3, <2>3, DestroyBeginMoves, DestroyUnlinkMoves, DestroyDeleteMoves
    <3>2. job'[q].op \notin {"upload", "import"}
      BY <3>1 DEF Moves, Reapers
    <3> QED  BY <1>5, <3>1, <3>2
  <2>6. CASE UnlinkRefused(q, r)
    <3>1. CASE job[q].op \in {"sweep", "purge"}
      BY <1>3, <1>5, <2>6, <3>1, UnlinkRefusedMoves DEF Moves
    <3>2. CASE job[q].op \notin {"sweep", "purge"}
      BY <1>4, <2>6, <3>2 DEF UnlinkRefused, Reaping
    <3> QED  BY <3>1, <3>2
  <2>7. CASE DisownSave(q, r)
    BY <1>3, <1>4, <1>5, <2>7, DisownSaveMoves DEF Moves
  <2>4. CASE SyncLock(q, r)
    BY <1>3, <1>5, <2>4, SyncLockMoves
  <2>5. CASE MergeKeeper(q, r) \/ MergeDelete(q, r)
    BY <1>3, <1>5, <2>5, MergeKeeperMoves, MergeDeleteMoves
  <2> QED  BY <1>9, <2>1, <2>2, <2>3, <2>4, <2>5, <2>6, <2>7
<1>10. ASSUME NEW q \in Procs,
              \/ SyncCommit(q) \/ ReapEnd(q) \/ UploadInsert(q)
              \/ MergeMove(q) \/ Crash(q)
       PROVE  FALSE
  <2>1. q \in DOMAIN job /\ End(q)
    BY <1>10 DEF SyncCommit, ReapEnd, UploadInsert, MergeMove, Crash, Reaping, Disowning, Merging,
                 Uploading
  <2> QED  BY <1>4, <2>1
<1>14. ASSUME NEW q \in Procs, DisownRead(q) PROVE FALSE
  BY <1>3, <1>5, <1>14, DisownReadMoves DEF Moves
<1>11. ASSUME NEW q \in Procs, UploadWrite(q) PROVE FALSE
  <2>1. /\ q \in DOMAIN job /\ job[q] \in UploadJob /\ job[q].step = "write"
        /\ job' = [job EXCEPT ![q].step = "insert"]
    BY <1>3, <1>11, JobKinds DEF UploadWrite, Uploading
  <2>2. /\ DOMAIN job' = DOMAIN job /\ \A x \in DOMAIN job \ {q} : job'[x] = job[x]
        /\ job'[q] = [job[q] EXCEPT !.step = "insert"]
    BY <2>1
  <2>3. job'[q].op = job[q].op /\ job'[q].owner = job[q].owner
    BY <2>1, <2>2 DEF UploadJob
  <2>4. p = q
    BY <1>1, <1>2, <2>2
  <2> QED  BY <1>1, <2>1, <2>3, <2>4 DEF Admitted, Uploading
<1>12. ASSUME NEW q \in Procs, UploadQuota(q)
       PROVE  Cardinality(OwnedBy(o)) < MaxObjects /\ rows' = rows
  <2>1. /\ q \in DOMAIN job /\ job[q] \in UploadJob /\ rows' = rows
        /\ \/ /\ Cardinality(OwnedBy(job[q].owner)) < MaxObjects
              /\ job' = [job EXCEPT ![q].step = "write"]
           \/ End(q)
    BY <1>3, <1>12, JobKinds DEF UploadQuota, Uploading, HasRoom
  <2>2. job' = [job EXCEPT ![q].step = "write"]
    BY <1>4, <2>1
  <2>3. /\ DOMAIN job' = DOMAIN job /\ \A x \in DOMAIN job \ {q} : job'[x] = job[x]
        /\ job'[q] = [job[q] EXCEPT !.step = "write"]
    BY <2>1, <2>2
  <2>4. job'[q].owner = job[q].owner
    BY <2>1, <2>3 DEF UploadJob
  <2>5. p = q
    BY <1>1, <1>2, <2>3
  <2>6. job[q].owner = o
    BY <1>1, <2>4, <2>5
  <2> QED  BY <1>4, <2>1, <2>6
<1>13. ASSUME job' = job PROVE FALSE
  BY <1>1, <1>2, <1>13
<1> QED
  BY <1>8, <1>9, <1>10, <1>11, <1>12, <1>13, <1>14 DEF Next, vars, Begins, Age

\* Unless accounts are merged, an owner gets rows from nothing but the insert of
\* an upload that was admitted.
LEMMA OwnedStep ==
    ASSUME "merge" \notin Ops, Inv, [Next]_vars, NEW o \in Owners
    PROVE  \/ OwnedBy(o)' \subseteq OwnedBy(o)
           \/ \E p \in Admitted(o) : /\ OwnedBy(o)' \subseteq OwnedBy(o) \cup {nextPk}
                                     /\ Admitted(o)' \subseteq Admitted(o) \ {p}
<1>1. TypeOK
  BY DEF Inv
<1>2. ASSUME \A r \in DOMAIN rows' : r \in DOMAIN rows /\ rows'[r].owner \in {rows[r].owner, NoOwner}
      PROVE  OwnedBy(o)' \subseteq OwnedBy(o)
  BY <1>2, OwnerAssumption DEF OwnedBy
<1>3. ASSUME NEW r \in Pk, Age(r) PROVE OwnedBy(o)' \subseteq OwnedBy(o)
  BY <1>2, <1>3, AgeTable
<1>4. ASSUME NEW p \in Procs, NEW r \in Pk, DestroyDelete(p, r)
      PROVE  OwnedBy(o)' \subseteq OwnedBy(o)
  BY <1>2, <1>4, DestroyDeleteTable
<1>5. ASSUME NEW p \in Procs, SyncCommit(p) PROVE OwnedBy(o)' \subseteq OwnedBy(o)
  BY <1>2, <1>5, SyncCommitTable
<1>6. ASSUME NEW p \in Procs, ReapEnd(p) PROVE OwnedBy(o)' \subseteq OwnedBy(o)
  <2>1. p \in DOMAIN job /\ (rows' = rows \/ rows' = Written(p))
    BY <1>6, ReapEndTable
  <2>2. \A r \in DOMAIN rows' : /\ r \in DOMAIN rows
                               /\ rows'[r].owner \in {rows[r].owner, NoOwner}
    BY <1>1, <2>1, WrittenIs
  <2> QED  BY <1>2, <2>2
<1>7. ASSUME NEW p \in Procs, MergeMove(p) PROVE FALSE
  BY <1>7, MergeMoveTable DEF Inv, JobOK
<1>8. ASSUME NEW p \in Procs, UploadInsert(p)
      PROVE  \/ OwnedBy(o)' \subseteq OwnedBy(o)
             \/ /\ p \in Admitted(o) /\ OwnedBy(o)' \subseteq OwnedBy(o) \cup {nextPk}
                /\ Admitted(o)' \subseteq Admitted(o) \ {p}
  <2>1. CASE rows' = rows
    BY <2>1 DEF OwnedBy
  <2>2. CASE /\ DOMAIN rows' = DOMAIN rows \cup {nextPk}
             /\ \A r \in DOMAIN rows : rows'[r] = rows[r]
             /\ rows'[nextPk].owner = job[p].owner
             /\ job[p].op \in {"upload", "import"} /\ job[p].step = "insert"
    <3>1. CASE job[p].owner # o
      BY <2>2, <3>1 DEF OwnedBy
    <3>2. CASE job[p].owner = o
      <4>1. Ends(p)
        BY <1>8, UploadInsertTable
      <4>2. p \in Admitted(o) /\ Admitted(o)' \subseteq Admitted(o) \ {p}
        BY <2>2, <3>2, <4>1 DEF Ends, Admitted, Uploading
      <4>3. OwnedBy(o)' \subseteq OwnedBy(o) \cup {nextPk}
        BY <2>2 DEF OwnedBy
      <4> QED  BY <4>2, <4>3
    <3> QED  BY <3>1, <3>2
  <2> QED  BY <1>8, <2>1, <2>2, UploadInsertTable
<1>9. CASE rows' = rows
  BY <1>9 DEF OwnedBy
<1> QED  BY <1>3, <1>4, <1>5, <1>6, <1>7, <1>8, <1>9, TableShape

LEMMA RoomStep ==
    ASSUME "merge" \notin Ops, IsFiniteSet(Procs), Inv, OverrunIsBounded, [Next]_vars
    PROVE  OverrunIsBounded'
<1> SUFFICES ASSUME NEW o \in Owners
             PROVE  Cardinality(OwnedBy(o)') + Cardinality(Admitted(o)')
                       < MaxObjects + Cardinality(Procs)
  BY DEF OverrunIsBounded
<1>1. Inv'
  BY InvStep
<1>2. /\ IsFiniteSet(OwnedBy(o)) /\ Cardinality(OwnedBy(o)) \in Nat
      /\ IsFiniteSet(Admitted(o)) /\ Cardinality(Admitted(o)) \in Nat
  BY OwnedFinite, AdmittedFinite
<1>3. /\ IsFiniteSet(OwnedBy(o)') /\ Cardinality(OwnedBy(o)') \in Nat
  <2>1. OwnedBy(o)' \subseteq Pk
    BY <1>1 DEF OwnedBy, Inv, TypeOK
  <2>2. IsFiniteSet(Pk)
    BY FS_Interval, BoundAssumption DEF Pk
  <2> QED  BY <2>1, <2>2, FS_Subset, FS_CardinalityType
<1>4. /\ IsFiniteSet(Admitted(o)') /\ Cardinality(Admitted(o)') \in Nat
      /\ Cardinality(Admitted(o)') <= Cardinality(Procs) /\ Cardinality(Procs) \in Nat
  <2>1. Admitted(o)' \subseteq Procs
    BY <1>1 DEF Admitted, Inv, TypeOK
  <2> QED  BY <2>1, FS_Subset, FS_CardinalityType
<1>5. MaxObjects \in Nat
  BY BoundAssumption
<1>6. Cardinality(OwnedBy(o)) + Cardinality(Admitted(o)) < MaxObjects + Cardinality(Procs)
  BY DEF OverrunIsBounded
<1>7. CASE ~(Admitted(o)' \subseteq Admitted(o))
  <2>1. PICK p \in Admitted(o)' : p \notin Admitted(o)
    BY <1>7
  <2>2. Cardinality(OwnedBy(o)) < MaxObjects /\ rows' = rows
    BY <2>1, AdmittedStep
  <2>3. OwnedBy(o)' = OwnedBy(o)
    BY <2>2 DEF OwnedBy
  <2> QED  BY <1>2, <1>4, <1>5, <2>2, <2>3
<1>8. CASE Admitted(o)' \subseteq Admitted(o) /\ OwnedBy(o)' \subseteq OwnedBy(o)
  <2>1. /\ Cardinality(OwnedBy(o)') <= Cardinality(OwnedBy(o))
        /\ Cardinality(Admitted(o)') <= Cardinality(Admitted(o))
    BY <1>2, <1>8, FS_Subset
  <2> QED  BY <1>2, <1>3, <1>4, <1>5, <1>6, <2>1
<1>9. ASSUME NEW p \in Admitted(o), OwnedBy(o)' \subseteq OwnedBy(o) \cup {nextPk},
             Admitted(o)' \subseteq Admitted(o) \ {p}
      PROVE  Cardinality(OwnedBy(o)') + Cardinality(Admitted(o)')
                < MaxObjects + Cardinality(Procs)
  <2>1. /\ IsFiniteSet(OwnedBy(o) \cup {nextPk})
        /\ Cardinality(OwnedBy(o) \cup {nextPk}) \in Nat
        /\ Cardinality(OwnedBy(o) \cup {nextPk}) <= Cardinality(OwnedBy(o)) + 1
    <3>1. /\ IsFiniteSet(OwnedBy(o) \cup {nextPk})
          /\ Cardinality(OwnedBy(o) \cup {nextPk}) =
                IF nextPk \in OwnedBy(o) THEN Cardinality(OwnedBy(o))
                ELSE Cardinality(OwnedBy(o)) + 1
      BY <1>2, FS_AddElement
    <3> QED  BY <1>2, <3>1, FS_CardinalityType
  <2>2. /\ IsFiniteSet(Admitted(o) \ {p})
        /\ Cardinality(Admitted(o) \ {p}) = Cardinality(Admitted(o)) - 1
    BY <1>2, FS_RemoveElement
  <2>3. /\ Cardinality(OwnedBy(o)') <= Cardinality(OwnedBy(o) \cup {nextPk})
        /\ Cardinality(Admitted(o)') <= Cardinality(Admitted(o) \ {p})
    BY <1>9, <2>1, <2>2, FS_Subset
  <2> QED  BY <1>2, <1>3, <1>4, <1>5, <1>6, <2>1, <2>2, <2>3
<1> QED  BY <1>7, <1>8, <1>9, OwnedStep

\* The quota is read before the file is written and the row inserted, and nothing
\* is locked in between, so uploads at the same time can overrun it, but rows and
\* admitted uploads of an owner together by no more than one for each process
\* beside the one that was in time: whatever else runs, unless accounts are
\* merged, which no quota bounds.
THEOREM OverrunAlwaysBounded ==
    ASSUME "merge" \notin Ops, IsFiniteSet(Procs), Stored < MaxObjects + Cardinality(Procs)
    PROVE  Spec => []OverrunIsBounded
<1>1. Cardinality(Procs) \in Nat
  BY FS_CardinalityType
<1>2. ASSUME Init PROVE OverrunIsBounded
  <2> SUFFICES ASSUME NEW o \in Owners
               PROVE  Cardinality(OwnedBy(o)) + Cardinality(Admitted(o))
                         < MaxObjects + Cardinality(Procs)
    BY DEF OverrunIsBounded
  <2>1. DOMAIN job = {} /\ DOMAIN rows = 1..Stored
    BY <1>2, PartialEmpty DEF Init
  <2>2. Cardinality(Admitted(o)) = 0
    <3>1. Admitted(o) = {}
      BY <2>1 DEF Admitted
    <3> QED  BY <3>1, FS_EmptySet
  <2>3. Cardinality(OwnedBy(o)) \in Nat /\ Cardinality(OwnedBy(o)) <= Stored
    <3>1. OwnedBy(o) \subseteq 1..Stored
      BY <2>1 DEF OwnedBy
    <3>2. IsFiniteSet(1..Stored) /\ Cardinality(1..Stored) = Stored
      BY FS_Interval, BoundAssumption
    <3> QED  BY <3>1, <3>2, FS_Subset, FS_CardinalityType
  <2> QED  BY <1>1, <2>2, <2>3, BoundAssumption
<1>3. Inv /\ OverrunIsBounded /\ [Next]_vars => OverrunIsBounded'
  BY RoomStep
<1> QED  BY <1>2, <1>3, InvAlways, PTL DEF Spec
=============================================================================
