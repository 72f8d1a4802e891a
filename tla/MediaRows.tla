------------------------------ MODULE MediaRows ------------------------------
(***************************************************************************)
(* The rows of one media model (Image, Video, File and Audio keep the same *)
(* columns and constraints), the files they point at, and every handler    *)
(* that changes them: the upload views, cdn.import_from_url, reference     *)
(* sync, the unclaimed-media sweeper, account, file and entity erasure, the*)
(* grace-period purge and the account merge.                               *)
(*                                                                         *)
(* A handler is one step here.  What its statements do when the steps of   *)
(* two handlers interleave is the subject of MediaRaces.                   *)
(***************************************************************************)
EXTENDS Integers, FiniteSets, Functions

CONSTANTS
    Content,        \* media refs `<prefix>/<hash>`
    Users,          \* primary keys of user rows
    NoOwner,        \* uploaded_by IS NULL: the service-owned pool
    Names,          \* file names; the name is part of the stored path
    ImportName,     \* the name cdn.import_from_url gives its file
    Services,       \* first segment of a reference key
    Entities,       \* `<entity_type>/<entity_id>` of a reference key
    Unstamped,      \* unreferenced_since IS NULL
    TTL,            \* UNCLAIMED_TTL_HOURS, in ticks of the clock
    MaxObjects,     \* MAX_OBJECTS_PER_OWNER
    DedupScope,     \* STAPEL_CDN["DEDUP_SCOPE"]
    MergePairs,     \* <<guest, survivor>> pairs auth may merge
    UnlinkMayFail,  \* whether storage may refuse an unlink
    MaxPk,          \* bound: rows ever created
    MaxNow          \* bound: ticks of the clock

ASSUME OwnersAssumption  == NoOwner \notin Users
ASSUME NamesAssumption   == ImportName \in Names
ASSUME StampAssumption   == Unstamped \notin Int
ASSUME NumbersAssumption ==
    TTL \in Nat \ {0} /\ MaxObjects \in Nat /\ MaxPk \in Nat /\ MaxNow \in Nat
ASSUME ScopeAssumption   == DedupScope \in {"owner", "global"}
ASSUME MergeAssumption   == \A p \in MergePairs :
                               p \in Users \X Users /\ p[1] # p[2]
ASSUME FaultAssumption   == UnlinkMayFail \in BOOLEAN

Owner == Users \cup {NoOwner}
Key   == Services \X Entities
Pk    == 1..MaxPk
Row   == [content : Content, owner : Owner, name : Names,
          refs : SUBSET Key, stamp : Nat \cup {Unstamped}]

VARIABLES
    rows,       \* pk -> row, for the rows in the table
    nextPk,     \* the sequence of the primary key; never reused
    files,      \* <<content, name>>: the originals in storage
    accounts,   \* users that have a user row
    now         \* the clock

vars == <<rows, nextPk, files, accounts, now>>

TypeOK == /\ rows \in [DOMAIN rows -> Row]
          /\ DOMAIN rows \subseteq Pk
          /\ nextPk \in Pk \cup {MaxPk + 1}
          /\ \A r \in DOMAIN rows : r < nextPk
          /\ files \subseteq Content \X Names
          /\ accounts \subseteq Users
          /\ now \in 0..MaxNow

Init == /\ rows = <<>>
        /\ nextPk = 1
        /\ files = {}
        /\ accounts = {}
        /\ now = 0

-----------------------------------------------------------------------------
(* Selections                                                              *)

Over(c)    == {r \in DOMAIN rows : rows[r].content = c}
OwnedBy(o) == {r \in DOMAIN rows : rows[r].owner = o}
Path(r)    == <<rows[r].content, rows[r].name>>

\* The ref resolves to the newest row instead.
CarrierNewest(r) == \A q \in Over(rows[r].content) : r >= q

\* The row a media ref resolves to: the oldest one over the content.
Carrier(r) == \A q \in Over(rows[r].content) : r <= q

\* The lookup of import_from_url misses the rows of its own pool.
KnownMissesPool(o, c) ==
    \E r \in Over(c) : rows[r].owner = o /\ rows[r].owner \in Users

\* The lookup asks for the owner's own row in either scope.
KnownOwnerOnly(o, c) == \E r \in Over(c) : rows[r].owner = o

\* The dedup lookup of an intake path finds a row.
Known(o, c) == \E r \in Over(c) : DedupScope = "global" \/ rows[r].owner = o

-----------------------------------------------------------------------------
(* Intake                                                                  *)

\* A primary key that the sequence hands out again.
StoreReusesPk(o, c, n) ==
    /\ nextPk <= MaxPk
    /\ rows' = [r \in DOMAIN rows \cup {nextPk} |->
                  IF r = nextPk
                  THEN [content |-> c, owner |-> o, name |-> n,
                        refs |-> {}, stamp |-> now]
                  ELSE rows[r]]
    /\ files' = files \cup {<<c, n>>}
    /\ UNCHANGED <<nextPk, accounts, now>>

\* objects.create: the file is written (OverwriteStorage replaces a file of
\* that path), the row starts with no reference and its clock running.
Store(o, c, n) ==
    /\ nextPk <= MaxPk
    /\ rows' = [r \in DOMAIN rows \cup {nextPk} |->
                  IF r = nextPk
                  THEN [content |-> c, owner |-> o, name |-> n,
                        refs |-> {}, stamp |-> now]
                  ELSE rows[r]]
    /\ nextPk' = nextPk + 1
    /\ files' = files \cup {<<c, n>>}
    /\ UNCHANGED <<accounts, now>>

\* Bytes the owner already has answer 200 with the row there is; an owner at
\* the ceiling is refused 403.
Upload(u, c, n) ==
    /\ u \in accounts
    /\ ~Known(u, c)
    /\ Cardinality(OwnedBy(u)) < MaxObjects
    /\ Store(u, c, n)

ImportFromUrl(c) ==
    /\ ~Known(NoOwner, c)
    /\ Store(NoOwner, c, ImportName)

-----------------------------------------------------------------------------
(* Reference sync                                                          *)

\* The last detach forgets to restart the clock.
DetachedUnstamped(row, k) == [row EXCEPT !.refs = @ \ {k}]

Detached(row, k) ==
    LET left == row.refs \ {k}
    IN  [row EXCEPT !.refs = left,
                    !.stamp = IF left = {} THEN now ELSE @]

Attached(row, k) == [row EXCEPT !.refs = @ \cup {k}, !.stamp = Unstamped]

\* apply_ref_sync: one transaction over the carriers of every named content.
\* A ref that resolves to no row is reported and changes nothing.
ApplyRefSync(k, old, new) ==
    LET Drops(r) == /\ Carrier(r) /\ rows[r].content \in old \ new
                    /\ k \in rows[r].refs
        Gains(r) == /\ Carrier(r) /\ rows[r].content \in new \ old
                    /\ k \notin rows[r].refs
    IN  /\ rows' = [r \in DOMAIN rows |->
                      IF Drops(r) THEN Detached(rows[r], k)
                      ELSE IF Gains(r) THEN Attached(rows[r], k)
                      ELSE rows[r]]
        /\ UNCHANGED <<nextPk, files, accounts, now>>

-----------------------------------------------------------------------------
(* Destruction.  `_destroy` runs over the rows of D newest first and       *)
(* unlinks an original only when no other row is over the same content, so *)
(* of the rows of D over one content only the last, the oldest, can.       *)

\* Every row unlinks, whoever else is over the content.
LastHoldersAll(D) == D

LastHolders(D) ==
    {r \in D : \A q \in Over(rows[r].content) : q \in D /\ r <= q}

\* F: the contents whose file storage refuses to unlink.
Stranded(D, F) ==
    {r \in LastHolders(D) : rows[r].content \in F /\ Path(r) \in files}

Unlinked(D, F) == {Path(r) : r \in LastHolders(D) \ Stranded(D, F)}

Refusals == IF UnlinkMayFail THEN SUBSET Content ELSE {{}}

\* A refused unlink is swallowed and the row goes all the same.
DestroySwallows(D, F) ==
    /\ rows' = Restrict(rows, DOMAIN rows \ D)
    /\ files' = files \ Unlinked(D, F)
    /\ UNCHANGED <<nextPk, accounts, now>>

\* The rows of D go, save those that are stranded.
Destroy(D, F) ==
    /\ rows' = Restrict(rows, DOMAIN rows \ (D \ Stranded(D, F)))
    /\ files' = files \ Unlinked(D, F)
    /\ UNCHANGED <<nextPk, accounts, now>>

\* The handler raises and its transaction is rolled back; the files P it has
\* unlinked by then stay unlinked.
RollBack(P) ==
    /\ files' = files \ P
    /\ UNCHANGED <<rows, nextPk, accounts, now>>

\* sweep_unclaimed: zero-ref and expired.  A stranded row is skipped.
Unclaimed == {r \in DOMAIN rows : /\ rows[r].refs = {}
                                  /\ rows[r].stamp # Unstamped
                                  /\ rows[r].stamp < now - TTL}

Sweep(F) == Destroy(Unclaimed, F)

\* The purge does not look at refs.
UnreferencedAny(u) == OwnedBy(u)

\* purge_unreferenced raises after its pass when a row was stranded.
Unreferenced(u) == {r \in OwnedBy(u) : rows[r].refs = {}}

DeletionInitiated(u, F) ==
    LET D == Unreferenced(u)
    IN  \/ Stranded(D, F) = {} /\ Destroy(D, F)
        \/ Stranded(D, F) # {} /\ RollBack(Unlinked(D, F))

\* gdpr.delete: the purge, then uploaded_by is nulled on what is left, which
\* the one-row-per-content constraint of the service pool may refuse.
NullingCollides(R) ==
    \E r \in R : \E q \in Over(rows[r].content) : rows[q].owner = NoOwner

\* Anonymising restarts the clock of what it touches.
DisownedRestamps(R) ==
    [r \in DOMAIN rows |->
        IF r \in R THEN [rows[r] EXCEPT !.owner = NoOwner, !.stamp = now]
                   ELSE rows[r]]

Disowned(R) ==
    [r \in DOMAIN rows |-> IF r \in R THEN [rows[r] EXCEPT !.owner = NoOwner]
                                      ELSE rows[r]]

EraseAccount(u, F) ==
    LET D     == Unreferenced(u)
        Kept  == OwnedBy(u) \ D
        Fails == Stranded(D, F) # {} \/ NullingCollides(Kept)
    IN  \/ /\ ~Fails
           /\ rows' = Restrict(Disowned(Kept), DOMAIN rows \ D)
           /\ files' = files \ Unlinked(D, F)
           /\ UNCHANGED <<nextPk, accounts, now>>
        \/ Fails /\ RollBack(Unlinked(D, F))

\* erase_file: every row over the content, referenced or not.
EraseFile(c, F) ==
    LET D == Over(c)
    IN  \/ Stranded(D, F) = {} /\ Destroy(D, F)
        \/ Stranded(D, F) # {} /\ RollBack({})

\* erase_entity: the keys of entity e leave every row, and a row left without
\* any is destroyed.  The loop stops at the first row it cannot destroy.
KeysOf(e) == {k \in Key : k[2] = e}

EraseEntity(e, F) ==
    LET Hit   == {r \in DOMAIN rows : rows[r].refs \cap KeysOf(e) # {}}
        D     == {r \in Hit : rows[r].refs \subseteq KeysOf(e)}
        Stuck == Stranded(D, F)
        Done  == {r \in LastHolders(D) : \A s \in Stuck : r > s}
    IN  \/ /\ Stuck = {}
           /\ rows' = [r \in DOMAIN rows \ D |->
                         [rows[r] EXCEPT !.refs = @ \ KeysOf(e)]]
           /\ files' = files \ Unlinked(D, F)
           /\ UNCHANGED <<nextPk, accounts, now>>
        \/ Stuck # {} /\ RollBack({Path(r) : r \in Done})

-----------------------------------------------------------------------------
(* The account life cycle                                                  *)

\* Every guest row changes owner, duplicates too.
UserMergedBlindly(g, s) ==
    /\ s \in accounts
    /\ rows' = [r \in DOMAIN rows |->
                  IF rows[r].owner = g THEN [rows[r] EXCEPT !.owner = s]
                                       ELSE rows[r]]
    /\ UNCHANGED <<nextPk, files, accounts, now>>

\* Duplicates go with the references they carry.
UserMergedDropsRefs(g, s) ==
    /\ s \in accounts
    /\ rows' = [r \in {q \in DOMAIN rows : rows[q].owner = g =>
                          ~Known(s, rows[q].content)} |->
                  IF rows[r].owner = g THEN [rows[r] EXCEPT !.owner = s]
                                       ELSE rows[r]]
    /\ UNCHANGED <<nextPk, files, accounts, now>>

\* user.merged: guest rows over content the survivor already holds are folded
\* into the survivor's row, the others change owner.  A merge whose survivor
\* has no user row yet raises and is redelivered.
UserMerged(g, s) ==
    LET Duplicate(r) == /\ r \in OwnedBy(g)
                        /\ \E q \in OwnedBy(s) :
                              rows[q].content = rows[r].content
        Folded       == {r \in DOMAIN rows : Duplicate(r)}
        FoldedRefs(q) == UNION {rows[r].refs : r \in
                            {f \in Folded : rows[f].content = rows[q].content}}
    IN  /\ s \in accounts
        /\ rows' = [r \in DOMAIN rows \ Folded |->
                      IF rows[r].owner = s
                      THEN [rows[r] EXCEPT !.refs = @ \cup FoldedRefs(r)]
                      ELSE IF rows[r].owner = g
                      THEN [rows[r] EXCEPT !.owner = s]
                      ELSE rows[r]]
        /\ UNCHANGED <<nextPk, files, accounts, now>>

UserRowLands(u) ==
    /\ u \notin accounts
    /\ accounts' = accounts \cup {u}
    /\ UNCHANGED <<rows, nextPk, files, now>>

\* Deleting a user row: uploaded_by is SET_NULL, under the same constraint.
UserRowDeleted(u) ==
    /\ u \in accounts
    /\ ~NullingCollides(OwnedBy(u))
    /\ rows' = Disowned(OwnedBy(u))
    /\ accounts' = accounts \ {u}
    /\ UNCHANGED <<nextPk, files, now>>

Tick == /\ now < MaxNow
        /\ now' = now + 1
        /\ UNCHANGED <<rows, nextPk, files, accounts>>

-----------------------------------------------------------------------------

Next ==
    \/ \E u \in Users, c \in Content, n \in Names : Upload(u, c, n)
    \/ \E c \in Content : ImportFromUrl(c)
    \/ \E k \in Key, old \in SUBSET Content, new \in SUBSET Content :
          ApplyRefSync(k, old, new)
    \/ \E F \in Refusals : Sweep(F)
    \/ \E u \in Users, F \in Refusals : DeletionInitiated(u, F)
    \/ \E u \in Users, F \in Refusals : EraseAccount(u, F)
    \/ \E c \in Content, F \in Refusals : EraseFile(c, F)
    \/ \E e \in Entities, F \in Refusals : EraseEntity(e, F)
    \/ \E p \in MergePairs : UserMerged(p[1], p[2])
    \/ \E u \in Users : UserRowLands(u) \/ UserRowDeleted(u)
    \/ Tick

Spec == Init /\ [][Next]_vars

-----------------------------------------------------------------------------
(* Properties                                                              *)

\* The two uniqueness constraints of every media model: one row per content
\* and owner, one row per content in the service pool.  No handler trips them
\* (the merge's bulk update and the nulling of uploaded_by are the risky ones).
OneRowPerOwner ==
    \A q, r \in DOMAIN rows :
        (rows[q].content = rows[r].content /\ rows[q].owner = rows[r].owner)
            => q = r

\* An object nothing references is on the sweeper's clock: a zero-ref row
\* without a stamp is never a candidate of sweep_unclaimed and never goes.
Reapable == \A r \in DOMAIN rows : rows[r].refs = {} => rows[r].stamp \in Nat

\* References sit only on the row their ref resolves to: `_batch_resolve_media`
\* pins a ref to the oldest row "so that reference tracking cannot drift".
RefsOnCarrier == \A r \in DOMAIN rows : rows[r].refs # {} => Carrier(r)

\* The sweep TTL counts from the moment an object last became unreferenced:
\* losing the last reference stamps now, and while a row stays zero-ref no
\* handler (merge and anonymisation included) moves its stamp either way.
ClockCountsFromLastDetach ==
    [][\A r \in DOMAIN rows \cap DOMAIN rows' :
          rows'[r].refs = {} =>
              rows'[r].stamp = IF rows[r].refs = {} THEN rows[r].stamp
                                                    ELSE now]_vars

\* A committed handler never unlinks an original that a row which stays still
\* points at: the content-addressed blob is shared (shared_binary_exists).
UnlinkSparesHolders ==
    [][rows' # rows =>
          \A r \in DOMAIN rows \cap DOMAIN rows' :
              Path(r) \in files => Path(r) \in files']_vars

\* Bytes are in storage only while a row is over their content, so that an
\* erasure, the sweeper and an export can still find them: a blob that cannot
\* be unlinked keeps its row, and the last row over a content takes the bytes.
BytesNeedARow == \A p \in files : Over(p[1]) # {}

\* An erasure that fails and is rolled back has not restored the files it had
\* unlinked by then; but none of them was held by an entity other than the one
\* that is erased (RollBack in the purge, account and entity erasures).
RollbackTakesOnlyCondemned ==
    [][rows' = rows => \A p \in files \ files' :
          \E e \in Entities : \A r \in Over(p[1]) :
              rows[r].refs \subseteq KeysOf(e)]_vars

\* Account erasure can anonymise what it must keep serving: nulling the owner
\* of the user's referenced media is never refused by the service pool.
AccountErasable ==
    \A u \in Users : ~NullingCollides(OwnedBy(u) \ Unreferenced(u))

\* The pairs <<key, content>> some row records.
Held == {p \in Key \X Content : \E r \in Over(p[2]) : p[1] \in rows[r].refs}

\* A merge erases nothing: every recorded reference and every stored content
\* outlives the fold of the guest's duplicate rows.
MergeErasesNothing ==
    [][\A p \in MergePairs : UserMerged(p[1], p[2]) =>
          /\ Held' = Held
          /\ \A c \in Content : Over(c) # {} => Over(c)' # {}]_vars
=============================================================================
