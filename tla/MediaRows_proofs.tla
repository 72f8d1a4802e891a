--------------------------- MODULE MediaRows_proofs ---------------------------
(***************************************************************************)
(* Theorems about the media rows, for every value of the constants, and    *)
(* the refinement of the ledger of references by them.                     *)
(*                                                                         *)
(* Most handlers only take rows away.  The lemmas of the first section give*)
(* each handler the shape the invariants need (what it stores, what it     *)
(* takes away, what it changes on the rows that stay); the theorems are    *)
(* then proved action by action from those shapes.                         *)
(***************************************************************************)
EXTENDS MediaRowsRefinement, WellFoundedInduction, TLAPS

\* The step takes rows away and leaves the others as they are.
TakesAway == \E S \in SUBSET DOMAIN rows : rows' = [r \in S |-> rows[r]]

\* The handlers that destroy rows and do nothing else to the table.
Destroys ==
    \/ \E F \in Refusals : Sweep(F)
    \/ \E u \in Users, F \in Refusals : DeletionInitiated(u, F)
    \/ \E c \in Content, F \in Refusals : EraseFile(c, F)

\* A destroying handler takes rows away and touches neither the key sequence,
\* the accounts nor the clock; files can only go.
LEMMA DestroysShape ==
    ASSUME TypeOK, Destroys
    PROVE  /\ TakesAway
           /\ files' \subseteq files
           /\ UNCHANGED <<nextPk, accounts, now>>
<1>1. ASSUME NEW D \in SUBSET DOMAIN rows, NEW F, Destroy(D, F)
      PROVE  TakesAway /\ files' \subseteq files
                 /\ UNCHANGED <<nextPk, accounts, now>>
  BY <1>1 DEF Destroy, Restrict, TakesAway
<1>2. ASSUME NEW P, RollBack(P)
      PROVE  TakesAway /\ files' \subseteq files
                 /\ UNCHANGED <<nextPk, accounts, now>>
  <2>1. rows' = [r \in DOMAIN rows |-> rows[r]]
    BY <1>2 DEF RollBack, TypeOK
  <2> QED  BY <1>2, <2>1 DEF RollBack, TakesAway
<1>3. CASE \E F \in Refusals : Sweep(F)
  BY <1>1, <1>3 DEF Sweep, Unclaimed
<1>4. CASE \E u \in Users, F \in Refusals : DeletionInitiated(u, F)
  BY <1>1, <1>2, <1>4 DEF DeletionInitiated, Unreferenced, OwnedBy
<1>5. CASE \E c \in Content, F \in Refusals : EraseFile(c, F)
  BY <1>1, <1>2, <1>5 DEF EraseFile, Over
<1> QED  BY <1>3, <1>4, <1>5 DEF Destroys

\* The next-state relation, with the destroying handlers taken together.
LEMMA StepCases ==
    ASSUME [Next]_vars
    PROVE  \/ \E u \in Users, c \in Content, n \in Names : Upload(u, c, n)
           \/ \E c \in Content : ImportFromUrl(c)
           \/ \E k \in Key, old \in SUBSET Content, new \in SUBSET Content :
                  ApplyRefSync(k, old, new)
           \/ Destroys
           \/ \E u \in Users, F \in Refusals : EraseAccount(u, F)
           \/ \E e \in Entities, F \in Refusals : EraseEntity(e, F)
           \/ \E p \in MergePairs : UserMerged(p[1], p[2])
           \/ \E u \in Users : UserRowLands(u)
           \/ \E u \in Users : UserRowDeleted(u)
           \/ Tick
           \/ UNCHANGED vars
  BY DEF Next, Destroys

-----------------------------------------------------------------------------
(* Type correctness                                                        *)

LEMMA TypeInit == Init => TypeOK
  BY NumbersAssumption DEF Init, TypeOK, Pk

\* Storing a row keeps the table well typed: the key handed out is fresh.
LEMMA StoreTyped ==
    ASSUME TypeOK, NEW o \in Owner, NEW c \in Content, NEW n \in Names,
           Store(o, c, n)
    PROVE  TypeOK'
<1> DEFINE new == [content |-> c, owner |-> o, name |-> n,
                   refs |-> {}, stamp |-> now]
<1>1. new \in Row
  BY DEF Row, TypeOK
<1>2. /\ DOMAIN rows' = DOMAIN rows \cup {nextPk}
      /\ \A r \in DOMAIN rows' : rows'[r] \in Row
      /\ rows' = [r \in DOMAIN rows' |-> rows'[r]]
  BY <1>1 DEF Store, TypeOK
<1>3. rows' \in [DOMAIN rows' -> Row]
  BY <1>2
<1>4. /\ nextPk \in Pk
      /\ nextPk' \in Pk \cup {MaxPk + 1}
      /\ \A r \in DOMAIN rows' : r < nextPk'
  BY <1>2, NumbersAssumption DEF Store, TypeOK, Pk
<1>5. /\ files' \subseteq Content \X Names
      /\ accounts' \subseteq Users
      /\ now' \in 0..MaxNow
  BY DEF Store, TypeOK
<1>6. DOMAIN rows' \subseteq Pk
  BY <1>2, <1>4 DEF TypeOK
<1> QED  BY <1>3, <1>4, <1>5, <1>6 DEF TypeOK

LEMMA TakesAwayTyped ==
    ASSUME TypeOK, TakesAway, files' \subseteq files,
           UNCHANGED <<nextPk, accounts, now>>
    PROVE  TypeOK'
<1>1. PICK S \in SUBSET DOMAIN rows : rows' = [r \in S |-> rows[r]]
  BY DEF TakesAway
<1>2. DOMAIN rows' = S /\ rows' \in [S -> Row]
  BY <1>1 DEF TypeOK
<1> QED  BY <1>2 DEF TypeOK

\* A table whose rows are all well typed and whose keys were there before.
LEMMA RowsTyped ==
    ASSUME TypeOK, NEW S \in SUBSET DOMAIN rows, NEW f \in [S -> Row],
           rows' = f, files' \subseteq files,
           UNCHANGED <<nextPk, accounts, now>>
    PROVE  TypeOK'
  BY DEF TypeOK

LEMMA DisownedTyped ==
    ASSUME TypeOK, NEW R
    PROVE  Disowned(R) \in [DOMAIN rows -> Row]
<1>1. \A r \in DOMAIN rows : [rows[r] EXCEPT !.owner = NoOwner] \in Row
  BY DEF TypeOK, Row, Owner
<1> QED  BY <1>1 DEF Disowned, TypeOK

LEMMA TypeStep == TypeOK /\ [Next]_vars => TypeOK'
<1> SUFFICES ASSUME TypeOK, [Next]_vars PROVE TypeOK'
  OBVIOUS
<1>1. ASSUME NEW u \in Users, NEW c \in Content, NEW n \in Names, Upload(u, c, n)
      PROVE  TypeOK'
  BY <1>1, StoreTyped DEF Upload, Owner
<1>2. ASSUME NEW c \in Content, ImportFromUrl(c)
      PROVE  TypeOK'
  BY <1>2, StoreTyped, NamesAssumption DEF ImportFromUrl, Owner
<1>3. ASSUME NEW k \in Key, NEW old \in SUBSET Content,
             NEW new \in SUBSET Content, ApplyRefSync(k, old, new)
      PROVE  TypeOK'
  <2>1. ASSUME NEW r \in DOMAIN rows
        PROVE  Detached(rows[r], k) \in Row /\ Attached(rows[r], k) \in Row
    <3>1. rows[r] \in Row /\ now \in Nat
      BY DEF TypeOK
    <3>2. rows[r].refs \ {k} \in SUBSET Key /\ rows[r].refs \cup {k} \in SUBSET Key
      BY <3>1 DEF Row
    <3>3. Detached(rows[r], k) \in Row
      BY <3>1, <3>2 DEF Detached, Row
    <3>4. Attached(rows[r], k) \in Row
      BY <3>1, <3>2 DEF Attached, Row
    <3> QED  BY <3>3, <3>4
  <2>2. /\ DOMAIN rows' = DOMAIN rows
        /\ rows' = [r \in DOMAIN rows |-> rows'[r]]
        /\ \A r \in DOMAIN rows : \/ rows'[r] = Detached(rows[r], k)
                                  \/ rows'[r] = Attached(rows[r], k)
                                  \/ rows'[r] = rows[r]
    BY <1>3 DEF ApplyRefSync
  <2>3. rows' \in [DOMAIN rows -> Row]
    BY <2>1, <2>2 DEF TypeOK
  <2> QED  BY <1>3, <2>3, RowsTyped DEF ApplyRefSync
<1>4. CASE Destroys
  BY <1>4, DestroysShape, TakesAwayTyped
<1>5. ASSUME NEW u \in Users, NEW F \in Refusals, EraseAccount(u, F)
      PROVE  TypeOK'
  <2>1. ASSUME NEW P, RollBack(P) PROVE TypeOK'
    BY <2>1 DEF RollBack, TypeOK
  <2>2. ASSUME NEW R, NEW D, NEW P,
               rows' = Restrict(Disowned(R), DOMAIN rows \ D),
               files' = files \ P, UNCHANGED <<nextPk, accounts, now>>
        PROVE  TypeOK'
    <3>1. Restrict(Disowned(R), DOMAIN rows \ D) \in [DOMAIN rows \ D -> Row]
      BY DisownedTyped DEF Restrict
    <3> QED  BY <2>2, <3>1, RowsTyped
  <2> QED  BY <1>5, <2>1, <2>2 DEF EraseAccount
<1>6. ASSUME NEW e \in Entities, NEW F \in Refusals, EraseEntity(e, F)
      PROVE  TypeOK'
  <2>1. ASSUME NEW P, RollBack(P) PROVE TypeOK'
    BY <2>1 DEF RollBack, TypeOK
  <2>2. ASSUME NEW D, NEW P,
               rows' = [r \in DOMAIN rows \ D |->
                          [rows[r] EXCEPT !.refs = @ \ KeysOf(e)]],
               files' = files \ P, UNCHANGED <<nextPk, accounts, now>>
        PROVE  TypeOK'
    <3>1. \A r \in DOMAIN rows : [rows[r] EXCEPT !.refs = @ \ KeysOf(e)] \in Row
      BY DEF TypeOK, Row
    <3>2. rows' \in [DOMAIN rows \ D -> Row]
      BY <2>2, <3>1
    <3> QED  BY <2>2, <3>2, RowsTyped
  <2> QED  BY <1>6, <2>1, <2>2 DEF EraseEntity
<1>7. ASSUME NEW p \in MergePairs, UserMerged(p[1], p[2])
      PROVE  TypeOK'
  <2> DEFINE g == p[1]
             s == p[2]
             Folded == {r \in DOMAIN rows :
                          /\ r \in OwnedBy(g)
                          /\ \E q \in OwnedBy(s) :
                                rows[q].content = rows[r].content}
             FoldedRefs(q) == UNION {rows[r].refs : r \in
                            {f \in Folded : rows[f].content = rows[q].content}}
             Merged(r) == IF rows[r].owner = s
                          THEN [rows[r] EXCEPT !.refs = @ \cup FoldedRefs(r)]
                          ELSE IF rows[r].owner = g
                          THEN [rows[r] EXCEPT !.owner = s]
                          ELSE rows[r]
  <2>1. s \in Users
    BY MergeAssumption
  <2>2. ASSUME NEW r \in DOMAIN rows PROVE Merged(r) \in Row
    <3>1. FoldedRefs(r) \in SUBSET Key
      BY DEF TypeOK, Row
    <3> HIDE DEF FoldedRefs
    <3>2. rows[r] \in Row
      BY DEF TypeOK
    <3>3. [rows[r] EXCEPT !.refs = @ \cup FoldedRefs(r)] \in Row
      BY <3>1, <3>2 DEF Row
    <3>4. [rows[r] EXCEPT !.owner = s] \in Row
      BY <2>1, <3>2 DEF Row, Owner
    <3> QED  BY <3>2, <3>3, <3>4
  <2>3. /\ rows' = [r \in DOMAIN rows \ Folded |-> Merged(r)]
        /\ UNCHANGED <<nextPk, files, accounts, now>>
    BY <1>7 DEF UserMerged
  <2> HIDE DEF Merged, Folded
  <2>4. rows' \in [DOMAIN rows \ Folded -> Row]
    BY <2>2, <2>3
  <2> QED  BY <2>3, <2>4, RowsTyped
<1>8. ASSUME NEW u \in Users, UserRowLands(u)
      PROVE  TypeOK'
  BY <1>8 DEF UserRowLands, TypeOK
<1>9. ASSUME NEW u \in Users, UserRowDeleted(u)
      PROVE  TypeOK'
  BY <1>9, DisownedTyped DEF UserRowDeleted, TypeOK
<1>10. CASE Tick
  BY <1>10, NumbersAssumption DEF Tick, TypeOK
<1>11. CASE UNCHANGED vars
  BY <1>11 DEF vars, TypeOK
<1> QED
  BY <1>1, <1>2, <1>3, <1>4, <1>5, <1>6, <1>7, <1>8, <1>9, <1>10, <1>11,
     StepCases

\* Every reachable table is well typed, and every key in it was handed out
\* before the one the sequence hands out next.
THEOREM TypeCorrect == Spec => []TypeOK
  BY TypeInit, TypeStep, PTL DEF Spec

-----------------------------------------------------------------------------
(* Shapes of the other handlers                                            *)

\* The two intake handlers store a row its owner does not have yet.
Stores == \E o \in Owner, c \in Content, n \in Names :
             ~Known(o, c) /\ Store(o, c, n)

\* The user rows an anonymisation leaves behind.
Anonymises ==
    \E u \in Users, S \in SUBSET DOMAIN rows : \E R \in SUBSET OwnedBy(u) :
        /\ ~NullingCollides(R)
        /\ rows' = [r \in S |-> Disowned(R)[r]]

\* The entity's keys leave the rows of S, none of which is emptied by it.
LetsGo ==
    \E e \in Entities, S \in SUBSET DOMAIN rows :
        /\ rows' = [r \in S |-> [rows[r] EXCEPT !.refs = @ \ KeysOf(e)]]
        /\ \A r \in S : rows[r].refs # {} => rows[r].refs \ KeysOf(e) # {}

LEMMA EraseAccountShape ==
    ASSUME TypeOK, NEW u \in Users, NEW F \in Refusals, EraseAccount(u, F)
    PROVE  TakesAway \/ Anonymises
<1> DEFINE D    == Unreferenced(u)
           Kept == OwnedBy(u) \ D
           S    == DOMAIN rows \ D
<1>1. CASE rows' = rows
  <2>1. rows' = [r \in DOMAIN rows |-> rows[r]]
    BY <1>1 DEF TypeOK
  <2> QED  BY <2>1 DEF TakesAway
<1>2. CASE /\ ~NullingCollides(Kept)
           /\ rows' = Restrict(Disowned(Kept), DOMAIN rows \ D)
  <2>1. rows' = [r \in S |-> Disowned(Kept)[r]]
    BY <1>2 DEF Restrict
  <2>2. Kept \in SUBSET OwnedBy(u) /\ S \in SUBSET DOMAIN rows
    OBVIOUS
  <2> HIDE DEF Kept, S, D
  <2> QED  BY <1>2, <2>1, <2>2 DEF Anonymises
<1> QED  BY <1>1, <1>2 DEF EraseAccount, RollBack

LEMMA UserRowDeletedShape ==
    ASSUME TypeOK, NEW u \in Users, UserRowDeleted(u)
    PROVE  Anonymises
<1>1. rows' = [r \in DOMAIN rows |-> Disowned(OwnedBy(u))[r]]
  BY DEF UserRowDeleted, Disowned
<1> QED  BY <1>1 DEF UserRowDeleted, Anonymises

LEMMA EraseEntityShape ==
    ASSUME TypeOK, NEW e \in Entities, NEW F \in Refusals, EraseEntity(e, F)
    PROVE  TakesAway \/ LetsGo
<1> DEFINE Hit == {r \in DOMAIN rows : rows[r].refs \cap KeysOf(e) # {}}
           D   == {r \in Hit : rows[r].refs \subseteq KeysOf(e)}
           S   == DOMAIN rows \ D
<1>1. CASE rows' = rows
  <2>1. rows' = [r \in DOMAIN rows |-> rows[r]]
    BY <1>1 DEF TypeOK
  <2> QED  BY <2>1 DEF TakesAway
<1>2. CASE rows' = [r \in S |-> [rows[r] EXCEPT !.refs = @ \ KeysOf(e)]]
  <2>1. \A r \in S : rows[r].refs # {} => rows[r].refs \ KeysOf(e) # {}
    OBVIOUS
  <2>2. S \in SUBSET DOMAIN rows
    OBVIOUS
  <2> HIDE DEF S
  <2> QED  BY <1>2, <2>1, <2>2 DEF LetsGo
<1> QED  BY <1>1, <1>2 DEF EraseEntity, RollBack

\* Every step, by what it does to the rows.
LEMMA RowCases ==
    ASSUME TypeOK, [Next]_vars
    PROVE  \/ Stores
           \/ \E k \in Key, old \in SUBSET Content, new \in SUBSET Content :
                  ApplyRefSync(k, old, new)
           \/ TakesAway
           \/ Anonymises
           \/ LetsGo
           \/ \E p \in MergePairs : UserMerged(p[1], p[2])
<1>1. ASSUME NEW u \in Users, NEW c \in Content, NEW n \in Names, Upload(u, c, n)
      PROVE  Stores
  BY <1>1 DEF Upload, Stores, Owner
<1>2. ASSUME NEW c \in Content, ImportFromUrl(c)
      PROVE  Stores
  BY <1>2, NamesAssumption DEF ImportFromUrl, Stores, Owner
<1>3. ASSUME rows' = rows
      PROVE  TakesAway
  <2>1. rows' = [r \in DOMAIN rows |-> rows[r]]
    BY <1>3 DEF TypeOK
  <2> QED  BY <2>1 DEF TakesAway
<1> QED
  BY <1>1, <1>2, <1>3, StepCases, DestroysShape, EraseAccountShape,
     UserRowDeletedShape, EraseEntityShape
  DEF UserRowLands, Tick, vars

-----------------------------------------------------------------------------
(* One row per content and owner                                           *)

LEMMA StoreFresh ==
    ASSUME TypeOK, NEW o, NEW c, NEW n, Store(o, c, n)
    PROVE  /\ nextPk \notin DOMAIN rows
           /\ \A r \in DOMAIN rows : r < nextPk
           /\ DOMAIN rows' = DOMAIN rows \cup {nextPk}
           /\ \A r \in DOMAIN rows : rows'[r] = rows[r] /\ r # nextPk
           /\ rows'[nextPk].content = c
           /\ rows'[nextPk].owner = o
           /\ rows'[nextPk].name = n
           /\ rows'[nextPk].refs = {}
           /\ rows'[nextPk].stamp = now
<1>1. nextPk \in Int
  BY NumbersAssumption DEF TypeOK, Pk
<1>2. nextPk \notin DOMAIN rows
  BY <1>1 DEF TypeOK
<1> QED  BY <1>2 DEF Store, TypeOK

\* Rows that keep content and owner keep the constraint.
LEMMA SameIdentity ==
    ASSUME OneRowPerOwner, DOMAIN rows' \subseteq DOMAIN rows,
           \A r \in DOMAIN rows' : /\ rows'[r].content = rows[r].content
                                   /\ rows'[r].owner = rows[r].owner
    PROVE  OneRowPerOwner'
  BY DEF OneRowPerOwner

LEMMA UniqueStep == TypeOK /\ OneRowPerOwner /\ [Next]_vars => OneRowPerOwner'
<1> SUFFICES ASSUME TypeOK, OneRowPerOwner, [Next]_vars
             PROVE  OneRowPerOwner'
  OBVIOUS
<1>1. CASE Stores
  <2>1. PICK o \in Owner, c \in Content, n \in Names :
                ~Known(o, c) /\ Store(o, c, n)
    BY <1>1 DEF Stores
  <2>2. \A r \in DOMAIN rows : ~(rows[r].content = c /\ rows[r].owner = o)
    BY <2>1 DEF Known, Over
  <2>3. /\ DOMAIN rows' = DOMAIN rows \cup {nextPk}
        /\ \A r \in DOMAIN rows : rows'[r] = rows[r] /\ r # nextPk
        /\ rows'[nextPk].content = c /\ rows'[nextPk].owner = o
    BY <2>1, StoreFresh
  <2> QED  BY <2>2, <2>3 DEF OneRowPerOwner
<1>2. ASSUME NEW k \in Key, NEW old \in SUBSET Content,
             NEW new \in SUBSET Content, ApplyRefSync(k, old, new)
      PROVE  OneRowPerOwner'
  <2>1. \A r \in DOMAIN rows :
           /\ rows[r] \in Row
           /\ \/ rows'[r] = Detached(rows[r], k)
              \/ rows'[r] = Attached(rows[r], k)
              \/ rows'[r] = rows[r]
    BY <1>2 DEF ApplyRefSync, TypeOK
  <2>2. \A r \in DOMAIN rows : /\ rows'[r].content = rows[r].content
                               /\ rows'[r].owner = rows[r].owner
    BY <2>1 DEF Detached, Attached, Row
  <2> QED  BY <1>2, <2>2, SameIdentity DEF ApplyRefSync
<1>3. CASE TakesAway
  <2>1. PICK S \in SUBSET DOMAIN rows : rows' = [r \in S |-> rows[r]]
    BY <1>3 DEF TakesAway
  <2> QED  BY <2>1, SameIdentity
<1>4. CASE Anonymises
  <2>1. PICK u \in Users, S \in SUBSET DOMAIN rows :
                \E R \in SUBSET OwnedBy(u) :
                    /\ ~NullingCollides(R)
                    /\ rows' = [r \in S |-> Disowned(R)[r]]
    BY <1>4 DEF Anonymises
  <2>2. PICK R \in SUBSET OwnedBy(u) : /\ ~NullingCollides(R)
                                       /\ rows' = [r \in S |-> Disowned(R)[r]]
    BY <2>1
  <2>3. \A r \in S :
           /\ rows'[r].content = rows[r].content
           /\ rows'[r].owner = IF r \in R THEN NoOwner ELSE rows[r].owner
    BY <2>2 DEF Disowned, TypeOK, Row
  <2>4. \A r \in R : /\ r \in DOMAIN rows
                     /\ rows[r].owner = u
                     /\ \A q \in DOMAIN rows :
                           rows[q].content = rows[r].content
                               => rows[q].owner # NoOwner
    BY <2>2 DEF OwnedBy, NullingCollides, Over
  <2> QED  BY <2>2, <2>3, <2>4 DEF OneRowPerOwner
<1>5. CASE LetsGo
  <2>1. PICK e \in Entities, S \in SUBSET DOMAIN rows :
                rows' = [r \in S |-> [rows[r] EXCEPT !.refs = @ \ KeysOf(e)]]
    BY <1>5 DEF LetsGo
  <2>2. \A r \in S : /\ rows'[r].content = rows[r].content
                     /\ rows'[r].owner = rows[r].owner
    BY <2>1 DEF TypeOK, Row
  <2> QED  BY <2>1, <2>2, SameIdentity
<1>6. ASSUME NEW p \in MergePairs, UserMerged(p[1], p[2])
      PROVE  OneRowPerOwner'
  <2> DEFINE g == p[1]
             s == p[2]
             Folded == {r \in DOMAIN rows :
                          /\ r \in OwnedBy(g)
                          /\ \E q \in OwnedBy(s) :
                                rows[q].content = rows[r].content}
  <2>1. /\ DOMAIN rows' = DOMAIN rows \ Folded
        /\ \A r \in DOMAIN rows' :
              /\ rows'[r].content = rows[r].content
              /\ rows'[r].owner = IF rows[r].owner = g THEN s ELSE rows[r].owner
    BY <1>6 DEF UserMerged, TypeOK, Row
  <2>2. \A q, r \in DOMAIN rows \ Folded :
           rows[r].owner = g /\ rows[q].owner = s
               => rows[q].content # rows[r].content
    BY DEF OwnedBy
  <2> HIDE DEF Folded
  <2> QED  BY <2>1, <2>2 DEF OneRowPerOwner
<1> QED  BY <1>1, <1>2, <1>3, <1>4, <1>5, <1>6, RowCases

\* No sequence of uploads, imports, merges, erasures and user deletions ever
\* puts two rows over one content in one pool: the unique constraints of the
\* media models are never tripped by the handlers.
THEOREM OwnersUnique == Spec => []OneRowPerOwner
<1>1. Init => OneRowPerOwner
  BY DEF Init, OneRowPerOwner
<1> QED  BY <1>1, UniqueStep, TypeCorrect, PTL DEF Spec

-----------------------------------------------------------------------------
(* The clock of the unclaimed                                              *)

\* What a reference event does to a row.
LEMMA SyncShape ==
    ASSUME TypeOK, NEW k \in Key, NEW old \in SUBSET Content,
           NEW new \in SUBSET Content, ApplyRefSync(k, old, new)
    PROVE  /\ DOMAIN rows' = DOMAIN rows
           /\ \A r \in DOMAIN rows :
                 /\ rows'[r].content = rows[r].content
                 /\ \/ rows'[r] = rows[r]
                    \/ /\ Carrier(r) /\ k \in rows[r].refs
                       /\ rows'[r].refs = rows[r].refs \ {k}
                       /\ rows'[r].stamp = IF rows'[r].refs = {} THEN now
                                           ELSE rows[r].stamp
                    \/ /\ Carrier(r) /\ rows'[r].refs = rows[r].refs \cup {k}
<1>1. \A r \in DOMAIN rows : rows[r] \in Row
  BY DEF TypeOK
<1>2. DOMAIN rows' = DOMAIN rows
  BY DEF ApplyRefSync
<1>3. ASSUME NEW r \in DOMAIN rows
      PROVE  \/ rows'[r] = rows[r]
             \/ Carrier(r) /\ k \in rows[r].refs /\ rows'[r] = Detached(rows[r], k)
             \/ Carrier(r) /\ rows'[r] = Attached(rows[r], k)
  BY DEF ApplyRefSync
<1>4. ASSUME NEW r \in DOMAIN rows
      PROVE  /\ Detached(rows[r], k).content = rows[r].content
             /\ Detached(rows[r], k).refs = rows[r].refs \ {k}
             /\ Detached(rows[r], k).stamp =
                   IF rows[r].refs \ {k} = {} THEN now ELSE rows[r].stamp
             /\ Attached(rows[r], k).content = rows[r].content
             /\ Attached(rows[r], k).refs = rows[r].refs \cup {k}
  BY <1>1 DEF Detached, Attached, Row
<1> QED  BY <1>2, <1>3, <1>4

\* What a merge does to a row that stays.
LEMMA MergeShape ==
    ASSUME TypeOK, NEW p \in MergePairs, UserMerged(p[1], p[2])
    PROVE  /\ DOMAIN rows' \subseteq DOMAIN rows
           /\ \A r \in DOMAIN rows' : /\ rows'[r].content = rows[r].content
                                      /\ rows[r].refs \subseteq rows'[r].refs
                                      /\ rows'[r].stamp = rows[r].stamp
  BY DEF UserMerged, TypeOK, Row

\* What anonymising and letting go keep.
LEMMA AnonymisesShape ==
    ASSUME TypeOK, Anonymises
    PROVE  /\ DOMAIN rows' \subseteq DOMAIN rows
           /\ \A r \in DOMAIN rows' : /\ rows'[r].content = rows[r].content
                                      /\ rows'[r].refs = rows[r].refs
                                      /\ rows'[r].stamp = rows[r].stamp
<1>1. PICK u \in Users, S \in SUBSET DOMAIN rows :
              \E R \in SUBSET OwnedBy(u) :
                  rows' = [r \in S |-> Disowned(R)[r]]
  BY DEF Anonymises
<1> QED  BY <1>1 DEF Disowned, TypeOK, Row

LEMMA LetsGoShape ==
    ASSUME TypeOK, LetsGo
    PROVE  /\ DOMAIN rows' \subseteq DOMAIN rows
           /\ \A r \in DOMAIN rows' :
                 /\ rows'[r].content = rows[r].content
                 /\ rows'[r].refs \subseteq rows[r].refs
                 /\ rows[r].refs # {} => rows'[r].refs # {}
                 /\ rows'[r].stamp = rows[r].stamp
<1>1. PICK e \in Entities, S \in SUBSET DOMAIN rows :
        /\ rows' = [r \in S |-> [rows[r] EXCEPT !.refs = @ \ KeysOf(e)]]
        /\ \A r \in S : rows[r].refs # {} => rows[r].refs \ KeysOf(e) # {}
  BY DEF LetsGo
<1>2. \A r \in S : rows'[r].refs = rows[r].refs \ KeysOf(e)
  BY <1>1 DEF TypeOK, Row
<1>3. \A r \in S : /\ rows'[r].content = rows[r].content
                   /\ rows'[r].stamp = rows[r].stamp
  BY <1>1 DEF TypeOK, Row
<1> QED  BY <1>1, <1>2, <1>3

LEMMA ReapableStep == TypeOK /\ Reapable /\ [Next]_vars => Reapable'
<1> SUFFICES ASSUME TypeOK, Reapable, [Next]_vars PROVE Reapable'
  OBVIOUS
<1> now \in Nat
  BY DEF TypeOK
<1>1. CASE Stores
  <2>1. PICK o \in Owner, c \in Content, n \in Names : Store(o, c, n)
    BY <1>1 DEF Stores
  <2>2. /\ DOMAIN rows' = DOMAIN rows \cup {nextPk}
        /\ \A r \in DOMAIN rows : rows'[r] = rows[r]
        /\ rows'[nextPk].stamp = now
    BY <2>1, StoreFresh
  <2> QED  BY <2>2 DEF Reapable
<1>2. ASSUME NEW k \in Key, NEW old \in SUBSET Content,
             NEW new \in SUBSET Content, ApplyRefSync(k, old, new)
      PROVE  Reapable'
  BY <1>2, SyncShape DEF Reapable
<1>3. CASE TakesAway
  BY <1>3 DEF TakesAway, Reapable
<1>4. CASE Anonymises
  BY <1>4, AnonymisesShape DEF Reapable
<1>5. CASE LetsGo
  BY <1>5, LetsGoShape DEF Reapable
<1>6. ASSUME NEW p \in MergePairs, UserMerged(p[1], p[2])
      PROVE  Reapable'
  BY <1>6, MergeShape DEF Reapable
<1> QED  BY <1>1, <1>2, <1>3, <1>4, <1>5, <1>6, RowCases

\* An object that nothing references always carries a stamp, whatever mix of
\* detaches, merges and erasures emptied its reference list: the sweeper's
\* query can see it, so no unclaimed object is kept for ever.
THEOREM UnclaimedReapable == Spec => []Reapable
<1>1. Init => Reapable
  BY DEF Init, Reapable
<1> QED  BY <1>1, ReapableStep, TypeCorrect, PTL DEF Spec

LEMMA ClockStep ==
    TypeOK /\ [Next]_vars =>
        \A r \in DOMAIN rows \cap DOMAIN rows' :
            rows'[r].refs = {} =>
                rows'[r].stamp = IF rows[r].refs = {} THEN rows[r].stamp
                                                      ELSE now
<1> SUFFICES ASSUME TypeOK, [Next]_vars,
                    NEW r \in DOMAIN rows \cap DOMAIN rows',
                    rows'[r].refs = {}
             PROVE  rows'[r].stamp = IF rows[r].refs = {} THEN rows[r].stamp
                                                          ELSE now
  OBVIOUS
<1>1. CASE Stores
  <2>1. PICK o \in Owner, c \in Content, n \in Names : Store(o, c, n)
    BY <1>1 DEF Stores
  <2> QED  BY <2>1, StoreFresh
<1>2. ASSUME NEW k \in Key, NEW old \in SUBSET Content,
             NEW new \in SUBSET Content, ApplyRefSync(k, old, new)
      PROVE  rows'[r].stamp = IF rows[r].refs = {} THEN rows[r].stamp ELSE now
  BY <1>2, SyncShape
<1>3. CASE TakesAway
  BY <1>3 DEF TakesAway
<1>4. CASE Anonymises
  BY <1>4, AnonymisesShape
<1>5. CASE LetsGo
  BY <1>5, LetsGoShape
<1>6. ASSUME NEW p \in MergePairs, UserMerged(p[1], p[2])
      PROVE  rows'[r].stamp = IF rows[r].refs = {} THEN rows[r].stamp ELSE now
  BY <1>6, MergeShape
<1> QED  BY <1>1, <1>2, <1>3, <1>4, <1>5, <1>6, RowCases

\* The time to live of an unclaimed object counts from its last detach: no
\* handler moves the stamp of a row that stays without references, and the
\* one that takes the last reference stamps the time of that step.
THEOREM ClockFromLastDetach == Spec => ClockCountsFromLastDetach
<1>1. TypeOK /\ [Next]_vars =>
        [\A r \in DOMAIN rows \cap DOMAIN rows' :
            rows'[r].refs = {} =>
                rows'[r].stamp = IF rows[r].refs = {} THEN rows[r].stamp
                                                      ELSE now]_vars
  BY ClockStep
<1> QED  BY <1>1, TypeCorrect, PTL DEF Spec, ClockCountsFromLastDetach

-----------------------------------------------------------------------------
(* Where references sit                                                    *)

\* What a merge has to see to: a guest's row that carries references is folded
\* into the oldest of the other rows over its content, that is, no third owner
\* has an older one than the survivor.
FoldsIntoNextCarrier(g, s) ==
    UserMerged(g, s) =>
        \A r \in OwnedBy(g), q \in OwnedBy(s) :
            rows[q].content = rows[r].content /\ rows[r].refs # {} =>
                \A t \in Over(rows[r].content) \ {r} : q <= t

MergesKeepCarriers == [][\A p \in MergePairs : FoldsIntoNextCarrier(p[1], p[2])]_vars

LEMMA MergeOnCarrier ==
    ASSUME TypeOK, RefsOnCarrier, NEW p \in MergePairs,
           UserMerged(p[1], p[2]), FoldsIntoNextCarrier(p[1], p[2])
    PROVE  RefsOnCarrier'
<1> DEFINE g == p[1]
           s == p[2]
           Folded == {r \in DOMAIN rows :
                        /\ r \in OwnedBy(g)
                        /\ \E q \in OwnedBy(s) :
                              rows[q].content = rows[r].content}
           FoldedRefs(q) == UNION {rows[r].refs : r \in
                          {f \in Folded : rows[f].content = rows[q].content}}
<1>1. /\ DOMAIN rows' = DOMAIN rows \ Folded
      /\ \A r \in DOMAIN rows' :
            /\ rows'[r].content = rows[r].content
            /\ rows'[r].refs = IF rows[r].owner = s
                               THEN rows[r].refs \cup FoldedRefs(r)
                               ELSE rows[r].refs
  BY DEF UserMerged, TypeOK, Row
<1>2. SUFFICES ASSUME NEW r \in DOMAIN rows', rows'[r].refs # {},
                      NEW t \in DOMAIN rows', rows[t].content = rows[r].content
               PROVE  r <= t
  BY <1>1 DEF RefsOnCarrier, Carrier, Over
<1>3. CASE rows[r].refs # {}
  BY <1>1, <1>2, <1>3 DEF RefsOnCarrier, Carrier, Over
<1>4. CASE rows[r].refs = {}
  <2>1. rows[r].owner = s /\ FoldedRefs(r) # {}
    BY <1>1, <1>2, <1>4
  <2>2. PICK f \in Folded : rows[f].content = rows[r].content /\ rows[f].refs # {}
    BY <2>1
  <2>3. f \in OwnedBy(g) /\ r \in OwnedBy(s) /\ t \in Over(rows[f].content) \ {f}
    <3>1. r \in DOMAIN rows /\ t \in DOMAIN rows \ Folded /\ f \in OwnedBy(g)
      BY <1>1, <2>2
    <3> HIDE DEF Folded
    <3> QED  BY <1>2, <2>1, <2>2, <3>1 DEF OwnedBy, Over
  <2> QED  BY <2>2, <2>3 DEF FoldsIntoNextCarrier
<1> QED  BY <1>3, <1>4

LEMMA OnCarrierStep ==
    ASSUME TypeOK, RefsOnCarrier, [Next]_vars,
           [\A p \in MergePairs : FoldsIntoNextCarrier(p[1], p[2])]_vars
    PROVE  RefsOnCarrier'
<1>1. CASE Stores
  <2>1. PICK o \in Owner, c \in Content, n \in Names : Store(o, c, n)
    BY <1>1 DEF Stores
  <2>2. /\ DOMAIN rows' = DOMAIN rows \cup {nextPk}
        /\ \A r \in DOMAIN rows : rows'[r] = rows[r] /\ r <= nextPk
        /\ rows'[nextPk].refs = {}
    <3>1. nextPk \in Int /\ DOMAIN rows \subseteq Int
      BY NumbersAssumption DEF TypeOK, Pk
    <3> QED  BY <2>1, <3>1, StoreFresh
  <2> QED  BY <2>2 DEF RefsOnCarrier, Carrier, Over
<1>2. ASSUME NEW k \in Key, NEW old \in SUBSET Content,
             NEW new \in SUBSET Content, ApplyRefSync(k, old, new)
      PROVE  RefsOnCarrier'
  <2>1. /\ DOMAIN rows' = DOMAIN rows
        /\ \A r \in DOMAIN rows :
              /\ rows'[r].content = rows[r].content
              /\ rows'[r].refs # {} => Carrier(r)
    BY <1>2, SyncShape DEF RefsOnCarrier
  <2> QED  BY <2>1 DEF RefsOnCarrier, Carrier, Over
<1>3. CASE TakesAway
  BY <1>3 DEF TakesAway, RefsOnCarrier, Carrier, Over
<1>4. CASE Anonymises
  BY <1>4, AnonymisesShape DEF RefsOnCarrier, Carrier, Over
<1>5. CASE LetsGo
  BY <1>5, LetsGoShape DEF RefsOnCarrier, Carrier, Over
<1>6. CASE vars' = vars
  BY <1>6 DEF vars, RefsOnCarrier, Carrier, Over
<1>7. ASSUME vars' # vars, NEW p \in MergePairs, UserMerged(p[1], p[2])
      PROVE  RefsOnCarrier'
  BY <1>7, MergeOnCarrier
<1> QED  BY <1>1, <1>2, <1>3, <1>4, <1>5, <1>6, <1>7, RowCases

\* A reference is recorded on the oldest row over its content and stays there,
\* whoever else uploads or erases the same bytes, so that a later event of the
\* same key finds it: as long as merges fold carriers into the next carriers.
THEOREM ReferencesOnCarrier == Spec /\ MergesKeepCarriers => []RefsOnCarrier
<1>1. Init => RefsOnCarrier
  BY DEF Init, RefsOnCarrier
<1>2. TypeOK /\ RefsOnCarrier /\ [Next]_vars
         /\ [\A p \in MergePairs : FoldsIntoNextCarrier(p[1], p[2])]_vars => RefsOnCarrier'
  BY OnCarrierStep
<1> QED  BY <1>1, <1>2, TypeCorrect, PTL DEF Spec, MergesKeepCarriers

\* Where accounts are never merged, no merge does otherwise.
LEMMA NoMergesKeepCarriers == MergePairs = {} => MergesKeepCarriers
<1> SUFFICES ASSUME MergePairs = {} PROVE MergesKeepCarriers
  OBVIOUS
<1>1. [\A p \in MergePairs : FoldsIntoNextCarrier(p[1], p[2])]_vars
  OBVIOUS
<1> QED  BY <1>1, PTL DEF MergesKeepCarriers

-----------------------------------------------------------------------------
(* Bytes                                                                   *)

\* Destroying the rows of D leaves the file of every row that stays: a path is
\* unlinked only by the oldest row over its content, and only when all the
\* rows over that content are in D.
LEMMA DestroySpares ==
    ASSUME TypeOK, NEW D \in SUBSET DOMAIN rows, NEW F,
           files' = files \ Unlinked(D, F),
           NEW r \in DOMAIN rows, r \notin D \ Stranded(D, F),
           Path(r) \in files
    PROVE  Path(r) \in files'
<1>1. \A q, m \in DOMAIN rows : q <= m /\ m <= q => q = m
  BY NumbersAssumption DEF TypeOK, Pk
<1>2. ASSUME NEW q \in LastHolders(D) \ Stranded(D, F), Path(q) = Path(r)
      PROVE  FALSE
  <2>1. rows[q].content = rows[r].content
    BY <1>2 DEF Path
  <2>2. r \in Over(rows[q].content) /\ q \in Over(rows[r].content)
    BY <1>2, <2>1 DEF Over, LastHolders
  <2>3. r \in D /\ q <= r
    BY <1>2, <2>2 DEF LastHolders
  <2>4. r \in Stranded(D, F)
    BY <2>3
  <2>5. r <= q
    BY <1>2, <2>2, <2>4 DEF Stranded, LastHolders
  <2>6. q \in DOMAIN rows
    BY <1>2 DEF LastHolders
  <2>7. q = r
    BY <1>1, <2>3, <2>5, <2>6
  <2> QED  BY <1>2, <2>4, <2>7
<1> QED  BY <1>2 DEF Unlinked

LEMMA SparesStep ==
    TypeOK /\ [Next]_vars =>
        (rows' # rows =>
            \A r \in DOMAIN rows \cap DOMAIN rows' :
                Path(r) \in files => Path(r) \in files')
<1> SUFFICES ASSUME TypeOK, [Next]_vars, rows' # rows,
                    NEW r \in DOMAIN rows \cap DOMAIN rows',
                    Path(r) \in files
             PROVE  Path(r) \in files'
  OBVIOUS
<1>1. ASSUME NEW D \in SUBSET DOMAIN rows, NEW F, Destroy(D, F)
      PROVE  Path(r) \in files'
  BY <1>1, DestroySpares DEF Destroy, Restrict
<1>2. ASSUME NEW u \in Users, NEW c \in Content, NEW n \in Names, Upload(u, c, n)
      PROVE  Path(r) \in files'
  BY <1>2 DEF Upload, Store
<1>3. ASSUME NEW c \in Content, ImportFromUrl(c)
      PROVE  Path(r) \in files'
  BY <1>3 DEF ImportFromUrl, Store
<1>4. CASE \E F \in Refusals : Sweep(F)
  BY <1>1, <1>4 DEF Sweep, Unclaimed
<1>5. CASE \E u \in Users, F \in Refusals : DeletionInitiated(u, F)
  BY <1>1, <1>5 DEF DeletionInitiated, RollBack, Unreferenced, OwnedBy
<1>6. CASE \E c \in Content, F \in Refusals : EraseFile(c, F)
  BY <1>1, <1>6 DEF EraseFile, RollBack, Over
<1>7. ASSUME NEW u \in Users, NEW F \in Refusals, EraseAccount(u, F)
      PROVE  Path(r) \in files'
  <2>1. /\ files' = files \ Unlinked(Unreferenced(u), F)
        /\ DOMAIN rows' = DOMAIN rows \ Unreferenced(u)
    BY <1>7 DEF EraseAccount, RollBack, Restrict
  <2>2. Unreferenced(u) \in SUBSET DOMAIN rows
    BY DEF Unreferenced, OwnedBy
  <2> QED  BY <2>1, <2>2, DestroySpares
<1>8. ASSUME NEW e \in Entities, NEW F \in Refusals, EraseEntity(e, F)
      PROVE  Path(r) \in files'
  <2> DEFINE Hit == {q \in DOMAIN rows : rows[q].refs \cap KeysOf(e) # {}}
             D   == {q \in Hit : rows[q].refs \subseteq KeysOf(e)}
  <2>1. files' = files \ Unlinked(D, F) /\ DOMAIN rows' = DOMAIN rows \ D
    BY <1>8 DEF EraseEntity, RollBack
  <2>2. D \in SUBSET DOMAIN rows
    OBVIOUS
  <2> HIDE DEF D
  <2> QED  BY <2>1, <2>2, DestroySpares
<1>9. CASE UNCHANGED files
  BY <1>9
<1> QED
  BY <1>2, <1>3, <1>4, <1>5, <1>6, <1>7, <1>8, <1>9, StepCases
  DEF Destroys, ApplyRefSync, UserMerged, UserRowLands, UserRowDeleted, Tick, vars

\* A handler that commits never unlinks the original of a row that stays,
\* however owners, names and refused unlinks combine.
THEOREM UnlinkSafe == Spec => UnlinkSparesHolders
<1>1. TypeOK /\ [Next]_vars =>
        [rows' # rows =>
            \A r \in DOMAIN rows \cap DOMAIN rows' :
                Path(r) \in files => Path(r) \in files']_vars
  BY SparesStep
<1> QED  BY <1>1, TypeCorrect, PTL DEF Spec, UnlinkSparesHolders

\* What is unlinked for the rows of D was over rows of D only.
LEMMA UnlinkedIsCondemned ==
    ASSUME TypeOK, NEW D \in SUBSET DOMAIN rows, NEW e,
           \A r \in D : rows[r].refs \subseteq KeysOf(e),
           NEW p \in files, NEW L \in SUBSET LastHolders(D), p \in {Path(r) : r \in L}
    PROVE  \A r \in Over(p[1]) : rows[r].refs \subseteq KeysOf(e)
<1>1. PICK q \in L : p = Path(q)
  OBVIOUS
<1>2. p[1] = rows[q].content /\ q \in LastHolders(D)
  BY <1>1 DEF Path
<1> QED  BY <1>2 DEF LastHolders

\* A handler that commits although it changes no row has unlinked nothing.
LEMMA NothingTaken ==
    ASSUME NEW D \in SUBSET DOMAIN rows, NEW F, DOMAIN rows' = DOMAIN rows \ (D \ Stranded(D, F)),
           rows' = rows
    PROVE  Unlinked(D, F) = {}
<1>1. D \subseteq Stranded(D, F)
  OBVIOUS
<1> QED  BY <1>1 DEF Unlinked, LastHolders

LEMMA RollbackStep ==
    ASSUME TypeOK, [Next]_vars, Entities # {}, rows' = rows, NEW p \in files \ files'
    PROVE  \E e \in Entities : \A r \in Over(p[1]) : rows[r].refs \subseteq KeysOf(e)
<1>1. ASSUME NEW D \in SUBSET DOMAIN rows, NEW F, NEW e \in Entities,
             \A r \in D : rows[r].refs \subseteq KeysOf(e), files' = files \ Unlinked(D, F)
      PROVE  \A r \in Over(p[1]) : rows[r].refs \subseteq KeysOf(e)
  <2> DEFINE L == LastHolders(D) \ Stranded(D, F)
  <2>1. p \in {Path(r) : r \in L} /\ L \in SUBSET LastHolders(D) /\ p \in files
    BY <1>1 DEF Unlinked
  <2> HIDE DEF L
  <2> QED  BY <1>1, <2>1, UnlinkedIsCondemned
<1>2. PICK any \in Entities : TRUE
  OBVIOUS
<1>3. ASSUME NEW D \in SUBSET DOMAIN rows, NEW F, Destroy(D, F)
      PROVE  FALSE
  <2>1. DOMAIN rows' = DOMAIN rows \ (D \ Stranded(D, F)) /\ files' = files \ Unlinked(D, F)
    BY <1>3 DEF Destroy, Restrict
  <2>2. Unlinked(D, F) = {}
    BY <2>1, NothingTaken
  <2> QED  BY <2>1, <2>2
<1>4. \A u \in Users : /\ Unreferenced(u) \in SUBSET DOMAIN rows
                       /\ \A r \in Unreferenced(u) : rows[r].refs \subseteq KeysOf(any)
  BY DEF Unreferenced, OwnedBy
<1>5. ASSUME NEW u \in Users, NEW c \in Content, NEW n \in Names, Upload(u, c, n)
      PROVE  FALSE
  BY <1>5 DEF Upload, Store
<1>6. ASSUME NEW c \in Content, ImportFromUrl(c)
      PROVE  FALSE
  BY <1>6 DEF ImportFromUrl, Store
<1>7. CASE \E F \in Refusals : Sweep(F)
  BY <1>3, <1>7 DEF Sweep, Unclaimed
<1>8. ASSUME NEW u \in Users, NEW F \in Refusals, DeletionInitiated(u, F)
      PROVE  \A r \in Over(p[1]) : rows[r].refs \subseteq KeysOf(any)
  <2>1. files' = files \ Unlinked(Unreferenced(u), F)
    BY <1>8 DEF DeletionInitiated, Destroy, RollBack
  <2> QED  BY <1>1, <1>4, <2>1
<1>9. CASE \E c \in Content, F \in Refusals : EraseFile(c, F)
  BY <1>3, <1>9 DEF EraseFile, RollBack, Over
<1>10. ASSUME NEW u \in Users, NEW F \in Refusals, EraseAccount(u, F)
       PROVE  \A r \in Over(p[1]) : rows[r].refs \subseteq KeysOf(any)
  <2>1. files' = files \ Unlinked(Unreferenced(u), F)
    BY <1>10 DEF EraseAccount, RollBack
  <2> QED  BY <1>1, <1>4, <2>1
<1>11. ASSUME NEW e \in Entities, NEW F \in Refusals, EraseEntity(e, F)
       PROVE  \A r \in Over(p[1]) : rows[r].refs \subseteq KeysOf(e)
  <2> DEFINE Hit == {r \in DOMAIN rows : rows[r].refs \cap KeysOf(e) # {}}
             D   == {r \in Hit : rows[r].refs \subseteq KeysOf(e)}
             Done == {r \in LastHolders(D) : \A s \in Stranded(D, F) : r > s}
  <2>1. D \in SUBSET DOMAIN rows /\ \A r \in D : rows[r].refs \subseteq KeysOf(e)
    OBVIOUS
  <2>2. \/ files' = files \ Unlinked(D, F)
        \/ files' = files \ {Path(r) : r \in Done}
    BY <1>11 DEF EraseEntity, RollBack
  <2>3. Done \in SUBSET LastHolders(D) /\ p \in files
    OBVIOUS
  <2> HIDE DEF D, Done
  <2>4. CASE files' = files \ Unlinked(D, F)
    BY <1>1, <2>1, <2>4
  <2>5. CASE files' = files \ {Path(r) : r \in Done}
    <3>1. p \in {Path(r) : r \in Done}
      BY <2>5
    <3> QED  BY <2>1, <2>3, <3>1, UnlinkedIsCondemned
  <2> QED  BY <2>2, <2>4, <2>5
<1>12. CASE UNCHANGED files
  BY <1>12
<1> QED
  BY <1>2, <1>5, <1>6, <1>7, <1>8, <1>9, <1>10, <1>11, <1>12, StepCases
  DEF Destroys, ApplyRefSync, UserMerged, UserRowLands, UserRowDeleted, Tick, vars

\* An erasure that is rolled back after an unlink that went through has taken
\* the bytes of what it was to erase only, never of a row that another entity
\* holds: whatever storage refuses, in whichever order.
THEOREM RollbackTakesOnlyItsOwn ==
    ASSUME Entities # {}
    PROVE  Spec => RollbackTakesOnlyCondemned
<1>1. TypeOK /\ [Next]_vars =>
        [rows' = rows => \A p \in files \ files' :
            \E e \in Entities : \A r \in Over(p[1]) : rows[r].refs \subseteq KeysOf(e)]_vars
  BY RollbackStep
<1> QED  BY <1>1, TypeCorrect, PTL DEF Spec, RollbackTakesOnlyCondemned


-----------------------------------------------------------------------------
(* Merging                                                                 *)

LEMMA MergeStep ==
    ASSUME TypeOK, NEW p \in MergePairs, UserMerged(p[1], p[2])
    PROVE  /\ Held' = Held
           /\ \A c \in Content : Over(c) # {} => Over(c)' # {}
<1> DEFINE g == p[1]
           s == p[2]
           Folded == {r \in DOMAIN rows :
                        /\ r \in OwnedBy(g)
                        /\ \E q \in OwnedBy(s) :
                              rows[q].content = rows[r].content}
           FoldedRefs(q) == UNION {rows[r].refs : r \in
                          {f \in Folded : rows[f].content = rows[q].content}}
<1>1. g # s
  BY MergeAssumption
<1>2. /\ DOMAIN rows' = DOMAIN rows \ Folded
      /\ \A r \in DOMAIN rows' :
            /\ rows'[r].content = rows[r].content
            /\ rows'[r].refs = IF rows[r].owner = s
                               THEN rows[r].refs \cup FoldedRefs(r)
                               ELSE rows[r].refs
  BY DEF UserMerged, TypeOK, Row
\* A folded row has a keeper, which stays.
<1>3. \A f \in Folded : \E q \in DOMAIN rows \ Folded :
         rows[q].owner = s /\ rows[q].content = rows[f].content
  BY <1>1 DEF OwnedBy
<1>4. \A c \in Content : Over(c) # {} => Over(c)' # {}
  <2> SUFFICES ASSUME NEW c \in Content, Over(c) # {}
               PROVE  \E q \in DOMAIN rows' : rows'[q].content = c
    BY DEF Over
  <2>1. PICK r \in DOMAIN rows : rows[r].content = c
    BY DEF Over
  <2>2. PICK q \in DOMAIN rows \ Folded : rows[q].content = c
    <3> HIDE DEF Folded
    <3>1. CASE r \in Folded
      BY <1>3, <2>1, <3>1
    <3>2. CASE r \notin Folded
      BY <2>1, <3>2
    <3> QED  BY <3>1, <3>2
  <2>3. q \in DOMAIN rows' /\ rows'[q].content = c
    BY <1>2, <2>2
  <2> QED  BY <2>3
<1>5. ASSUME NEW x \in Held PROVE x \in Held'
  <2>1. PICK r \in DOMAIN rows : /\ x \in Key \X Content
                                 /\ rows[r].content = x[2]
                                 /\ x[1] \in rows[r].refs
    BY <1>5 DEF Held, Over
  <2>2. CASE r \in Folded
    <3>1. PICK q \in DOMAIN rows \ Folded :
             rows[q].owner = s /\ rows[q].content = rows[r].content
      BY <1>3, <2>2
    <3>2. x[1] \in FoldedRefs(q)
      BY <2>1, <2>2, <3>1
    <3>3. q \in DOMAIN rows' /\ rows'[q].content = x[2] /\ x[1] \in rows'[q].refs
      BY <1>2, <2>1, <3>1, <3>2
    <3> QED  BY <2>1, <3>3 DEF Held, Over
  <2>3. CASE r \notin Folded
    BY <1>2, <2>1, <2>3 DEF Held, Over
  <2> QED  BY <2>2, <2>3
<1>6. ASSUME NEW x \in Held' PROVE x \in Held
  <2>1. PICK r \in DOMAIN rows' : /\ x \in Key \X Content
                                  /\ rows'[r].content = x[2]
                                  /\ x[1] \in rows'[r].refs
    BY <1>6 DEF Held, Over
  <2>2. CASE x[1] \in rows[r].refs
    BY <1>2, <2>1, <2>2 DEF Held, Over
  <2>3. CASE x[1] \in FoldedRefs(r)
    <3>1. PICK f \in Folded : /\ rows[f].content = rows[r].content
                              /\ x[1] \in rows[f].refs
      BY <2>3
    <3> QED  BY <1>2, <2>1, <3>1 DEF Held, Over
  <2> QED  BY <1>2, <2>1, <2>2, <2>3
<1> QED  BY <1>4, <1>5, <1>6

\* Merging an account erases nothing, whatever rows guest and survivor hold:
\* the recorded references are the same before and after, and content that was
\* stored still is.
THEOREM MergeKeepsEverything == Spec => MergeErasesNothing
<1>1. TypeOK /\ [Next]_vars =>
        [\A p \in MergePairs : UserMerged(p[1], p[2]) =>
            /\ Held' = Held
            /\ \A c \in Content : Over(c) # {} => Over(c)' # {}]_vars
  BY MergeStep
<1> QED  BY <1>1, TypeCorrect, PTL DEF Spec, MergeErasesNothing

-----------------------------------------------------------------------------
(* Bytes without a row                                                     *)

LEMMA LeastKey ==
    ASSUME NEW S \in SUBSET Nat, S # {}
    PROVE  \E m \in S : \A q \in S : m <= q
<1> DEFINE R == OpToRel(<, Nat)
<1>1. IsWellFoundedOn(R, Nat)
  BY NatLessThanWellFounded
<1>2. \A x, y \in Nat : x < y => <<x, y>> \in R
  BY DEF OpToRel
<1> HIDE DEF R
<1>3. \E m \in S : \A q \in S : <<q, m>> \notin R
  BY <1>1, WFMin
<1>4. PICK m \in S : \A q \in S : <<q, m>> \notin R
  BY <1>3
<1>5. \A q \in S : ~(q < m)
  BY <1>2, <1>4
<1>6. \A q \in S : m <= q
  BY <1>5
<1> QED  BY <1>6

\* Content that has a row has a carrier.
LEMMA CarrierExists ==
    ASSUME TypeOK, NEW c, Over(c) # {}
    PROVE  \E r \in Over(c) : \A q \in Over(c) : r <= q
<1>1. Over(c) \in SUBSET Nat
  BY NumbersAssumption DEF Over, TypeOK, Pk
<1> QED  BY <1>1, LeastKey

\* Content all of whose rows go loses its file with them, when the owners of
\* the same bytes gave them one name.
LEMMA LastRowTakesTheFile ==
    ASSUME TypeOK, \A m, n \in Names : m = n,
           NEW D \in SUBSET DOMAIN rows, NEW F,
           files' = files \ Unlinked(D, F),
           NEW x \in files', Over(x[1]) # {}
    PROVE  \E r \in Over(x[1]) : r \notin D \ Stranded(D, F)
<1> SUFFICES ASSUME \A r \in Over(x[1]) : r \in D \ Stranded(D, F)
             PROVE  FALSE
  OBVIOUS
<1>1. PICK r \in Over(x[1]) : \A q \in Over(x[1]) : r <= q
  BY CarrierExists
<1>2. /\ r \in DOMAIN rows /\ rows[r].content = x[1]
      /\ rows[r] \in Row
      /\ x \in Content \X Names
  BY <1>1 DEF Over, TypeOK
<1>3. r \in LastHolders(D)
  BY <1>1, <1>2 DEF LastHolders
<1>4. Path(r) = x
  BY <1>2 DEF Path, Row
<1> QED  BY <1>1, <1>3, <1>4 DEF Unlinked

LEMMA BytesStep ==
    (\A m, n \in Names : m = n) /\ TypeOK /\ BytesNeedARow /\ [Next]_vars
        => BytesNeedARow'
<1> SUFFICES ASSUME \A m, n \in Names : m = n, TypeOK, BytesNeedARow,
                    [Next]_vars, NEW x \in files'
             PROVE  \E r \in DOMAIN rows' : rows'[r].content = x[1]
  BY DEF BytesNeedARow, Over
<1>1. ASSUME \A r \in DOMAIN rows : /\ r \in DOMAIN rows'
                                    /\ rows'[r].content = rows[r].content,
             files' \subseteq files
      PROVE  \E r \in DOMAIN rows' : rows'[r].content = x[1]
  BY <1>1 DEF BytesNeedARow, Over
<1>2. ASSUME NEW D \in SUBSET DOMAIN rows, NEW F,
             files' = files \ Unlinked(D, F),
             DOMAIN rows' = DOMAIN rows \ (D \ Stranded(D, F)),
             \A r \in DOMAIN rows' : rows'[r].content = rows[r].content
      PROVE  \E r \in DOMAIN rows' : rows'[r].content = x[1]
  <2>1. Over(x[1]) # {}
    BY <1>2 DEF BytesNeedARow
  <2>2. PICK r \in Over(x[1]) : r \notin D \ Stranded(D, F)
    BY <1>2, <2>1, LastRowTakesTheFile
  <2> QED  BY <1>2, <2>2 DEF Over
<1>3. ASSUME NEW D \in SUBSET DOMAIN rows, NEW F, Destroy(D, F)
      PROVE  \E r \in DOMAIN rows' : rows'[r].content = x[1]
  BY <1>2, <1>3 DEF Destroy, Restrict
<1>4. ASSUME NEW P, RollBack(P)
      PROVE  \E r \in DOMAIN rows' : rows'[r].content = x[1]
  BY <1>1, <1>4 DEF RollBack
<1>5. ASSUME NEW o, NEW c, NEW n, Store(o, c, n)
      PROVE  \E r \in DOMAIN rows' : rows'[r].content = x[1]
  <2>1. /\ nextPk \in DOMAIN rows' /\ rows'[nextPk].content = c
        /\ \A r \in DOMAIN rows : r \in DOMAIN rows' /\ rows'[r] = rows[r]
        /\ files' = files \cup {<<c, n>>}
    BY <1>5, StoreFresh DEF Store
  <2>2. CASE x \in files
    BY <2>1, <2>2 DEF BytesNeedARow, Over
  <2>3. CASE x = <<c, n>>
    BY <2>1, <2>3
  <2> QED  BY <2>1, <2>2, <2>3
<1>6. CASE \/ \E u \in Users, c \in Content, n \in Names : Upload(u, c, n)
           \/ \E c \in Content : ImportFromUrl(c)
  BY <1>5, <1>6 DEF Upload, ImportFromUrl
<1>7. ASSUME NEW k \in Key, NEW old \in SUBSET Content,
             NEW new \in SUBSET Content, ApplyRefSync(k, old, new)
      PROVE  \E r \in DOMAIN rows' : rows'[r].content = x[1]
  BY <1>1, <1>7, SyncShape DEF ApplyRefSync
<1>8. CASE Destroys
  BY <1>3, <1>4, <1>8
  DEF Destroys, Sweep, Unclaimed, DeletionInitiated, Unreferenced, OwnedBy,
      EraseFile, Over
<1>9. ASSUME NEW u \in Users, NEW F \in Refusals, EraseAccount(u, F)
      PROVE  \E r \in DOMAIN rows' : rows'[r].content = x[1]
  <2> DEFINE D    == Unreferenced(u)
             Kept == OwnedBy(u) \ D
  <2>1. CASE /\ Stranded(D, F) = {}
             /\ rows' = Restrict(Disowned(Kept), DOMAIN rows \ D)
             /\ files' = files \ Unlinked(D, F)
    <3>1. D \in SUBSET DOMAIN rows
      BY DEF Unreferenced, OwnedBy
    <3>2. /\ DOMAIN rows' = DOMAIN rows \ D
          /\ \A r \in DOMAIN rows' : rows'[r].content = rows[r].content
      BY <2>1 DEF Restrict, Disowned, TypeOK, Row
    <3> HIDE DEF D
    <3> QED  BY <1>2, <2>1, <3>1, <3>2
  <2>2. CASE RollBack(Unlinked(D, F))
    BY <1>4, <2>2
  <2> QED  BY <1>9, <2>1, <2>2 DEF EraseAccount
<1>10. ASSUME NEW e \in Entities, NEW F \in Refusals, EraseEntity(e, F)
       PROVE  \E r \in DOMAIN rows' : rows'[r].content = x[1]
  <2> DEFINE Hit == {r \in DOMAIN rows : rows[r].refs \cap KeysOf(e) # {}}
             D   == {r \in Hit : rows[r].refs \subseteq KeysOf(e)}
  <2>1. CASE /\ Stranded(D, F) = {}
             /\ rows' = [r \in DOMAIN rows \ D |->
                           [rows[r] EXCEPT !.refs = @ \ KeysOf(e)]]
             /\ files' = files \ Unlinked(D, F)
    <3>1. D \in SUBSET DOMAIN rows
      OBVIOUS
    <3> HIDE DEF D
    <3>2. /\ DOMAIN rows' = DOMAIN rows \ D
          /\ \A r \in DOMAIN rows' : rows'[r].content = rows[r].content
      BY <2>1 DEF TypeOK, Row
    <3> QED  BY <1>2, <2>1, <3>1, <3>2
  <2>2. CASE \E P : RollBack(P)
    BY <1>4, <2>2
  <2> QED  BY <1>10, <2>1, <2>2 DEF EraseEntity
<1>11. ASSUME NEW p \in MergePairs, UserMerged(p[1], p[2])
       PROVE  \E r \in DOMAIN rows' : rows'[r].content = x[1]
  <2>1. x \in files /\ x \in Content \X Names
    BY <1>11 DEF UserMerged, TypeOK
  <2>2. Over(x[1]) # {} /\ x[1] \in Content
    BY <2>1 DEF BytesNeedARow
  <2>3. Over(x[1])' # {}
    BY <1>11, <2>2, MergeStep
  <2> QED  BY <2>3 DEF Over
<1>12. CASE \E u \in Users : UserRowDeleted(u)
  <2>1. /\ files' = files /\ DOMAIN rows' = DOMAIN rows
        /\ \A r \in DOMAIN rows : rows'[r].content = rows[r].content
    BY <1>12 DEF UserRowDeleted, Disowned, TypeOK, Row
  <2> QED  BY <1>1, <2>1
<1>13. CASE rows' = rows /\ files' = files
  BY <1>1, <1>13
<1> QED
  BY <1>6, <1>7, <1>8, <1>9, <1>10, <1>11, <1>12, <1>13, StepCases
  DEF UserRowLands, Tick, vars

\* Where the owners of the same bytes give them one name, no handler leaves
\* bytes in storage without a row over them, refused unlinks included.
THEOREM NoStrayBytes ==
    ASSUME \A m, n \in Names : m = n PROVE Spec => []BytesNeedARow
<1>1. Init => BytesNeedARow
  BY DEF Init, BytesNeedARow
<1>2. TypeOK /\ BytesNeedARow /\ [Next]_vars => BytesNeedARow'
  BY BytesStep
<1> QED  BY <1>1, <1>2, TypeCorrect, PTL DEF Spec

-----------------------------------------------------------------------------
(* Global deduplication                                                    *)

\* The strengthening: with one dedup scope for all owners a content has at
\* most one row, so the nulling of an owner has nothing to collide with.
OneRowPerContent ==
    \A q, r \in DOMAIN rows : rows[q].content = rows[r].content => q = r

LEMMA OneRowStep ==
    DedupScope = "global" /\ TypeOK /\ OneRowPerContent /\ [Next]_vars
        => OneRowPerContent'
<1> SUFFICES ASSUME DedupScope = "global", TypeOK, OneRowPerContent,
                    [Next]_vars
             PROVE  OneRowPerContent'
  OBVIOUS
<1>1. CASE Stores
  <2>1. PICK o \in Owner, c \in Content, n \in Names :
                ~Known(o, c) /\ Store(o, c, n)
    BY <1>1 DEF Stores
  <2>2. \A r \in DOMAIN rows : rows[r].content # c
    BY <2>1 DEF Known, Over
  <2>3. /\ DOMAIN rows' = DOMAIN rows \cup {nextPk}
        /\ \A r \in DOMAIN rows : rows'[r] = rows[r] /\ r # nextPk
        /\ rows'[nextPk].content = c
    BY <2>1, StoreFresh
  <2> QED  BY <2>2, <2>3 DEF OneRowPerContent
<1>2. CASE /\ DOMAIN rows' \subseteq DOMAIN rows
           /\ \A r \in DOMAIN rows' : rows'[r].content = rows[r].content
  BY <1>2 DEF OneRowPerContent
<1>3. CASE \E k \in Key, old \in SUBSET Content, new \in SUBSET Content :
              ApplyRefSync(k, old, new)
  BY <1>2, <1>3, SyncShape
<1>4. CASE TakesAway
  BY <1>2, <1>4 DEF TakesAway
<1>5. CASE Anonymises
  BY <1>2, <1>5, AnonymisesShape
<1>6. CASE LetsGo
  BY <1>2, <1>6, LetsGoShape
<1>7. CASE \E p \in MergePairs : UserMerged(p[1], p[2])
  BY <1>2, <1>7, MergeShape
<1> QED  BY <1>1, <1>3, <1>4, <1>5, <1>6, <1>7, RowCases

\* Under the global dedup scope an account erasure can always null the owner
\* of what it must keep serving.
THEOREM GlobalScopeErasable ==
    ASSUME DedupScope = "global" PROVE Spec => []AccountErasable
<1>1. Init => OneRowPerContent
  BY DEF Init, OneRowPerContent
<1>2. TypeOK /\ OneRowPerContent /\ [Next]_vars => OneRowPerContent'
  BY OneRowStep
<1>3. OneRowPerContent => AccountErasable
  BY OwnersAssumption
  DEF OneRowPerContent, AccountErasable, NullingCollides, OwnedBy, Over
<1> QED  BY <1>1, <1>2, <1>3, TypeCorrect, PTL DEF Spec

(***************************************************************************)
(* Refinement.                                                             *)
(*                                                                         *)
(* The rows implement the ledger of references, for every value of the     *)
(* constants.  The mapping needs the references to sit on the carrier      *)
(* (RefsOnCarrier): only then does the row that a detach looks at hold all *)
(* there is to detach.                                                     *)
(***************************************************************************)

\* Held and present, unfolded.
LEMMA HeldIs ==
    \A k \in Key, c \in Content :
        <<k, c>> \in Held <=>
            \E r \in DOMAIN rows : rows[r].content = c /\ k \in rows[r].refs
  BY DEF Held, Over

LEMMA HeldIsPrimed ==
    \A k \in Key, c \in Content :
        <<k, c>> \in Held' <=>
            \E r \in DOMAIN rows' : rows'[r].content = c /\ k \in rows'[r].refs
  BY DEF Held, Over

LEMMA PresentIs ==
    \A c \in Content : c \in Present <=>
                          \E r \in DOMAIN rows : rows[r].content = c
  BY DEF Present, Over

LEMMA PresentIsPrimed ==
    \A c \in Content : c \in Present' <=>
                          \E r \in DOMAIN rows' : rows'[r].content = c
  BY DEF Present, Over

\* A step that keeps content and references of every row is a stutter.
LEMMA StutterCase ==
    ASSUME DOMAIN rows' = DOMAIN rows,
           \A r \in DOMAIN rows : /\ rows'[r].content = rows[r].content
                                  /\ rows'[r].refs = rows[r].refs
    PROVE  UNCHANGED Ledger!vars
<1>1. Held' = Held
  BY DEF Held, Over
<1>2. Present' = Present
  BY DEF Present, Over
<1> QED  BY <1>1, <1>2 DEF Ledger!vars

\* A step that takes unreferenced rows away collects.
LEMMA CollectCase ==
    ASSUME TypeOK, NEW D \in SUBSET DOMAIN rows,
           \A r \in D : rows[r].refs = {},
           DOMAIN rows' = DOMAIN rows \ D,
           \A r \in DOMAIN rows' : /\ rows'[r].content = rows[r].content
                                   /\ rows'[r].refs = rows[r].refs
    PROVE  \E C \in SUBSET Content : Ledger!Collect(C)
<1> DEFINE C == Present \ Present'
<1>1. Held' = Held
  BY DEF Held, Over
<1>2. Present' = Present \ C /\ C \in SUBSET Content
  BY DEF Present, Over
<1>3. ASSUME NEW c \in C PROVE Ledger!Holders(c) = {}
  <2>1. c \in Content /\ ~ \E r \in DOMAIN rows' : rows'[r].content = c
    BY <1>3, PresentIsPrimed DEF Present
  <2>2. \A k \in Key : <<k, c>> \notin Held
    BY <2>1, HeldIs
  <2> QED  BY <2>2 DEF Ledger!Holders, Ledger!Key, Key
<1> HIDE DEF C
<1> QED  BY <1>1, <1>2, <1>3 DEF Ledger!Collect

LEMMA StoresCase ==
    ASSUME TypeOK, Stores
    PROVE  \E c \in Content : Ledger!Arrive(c)
<1>1. PICK o \in Owner, c \in Content, n \in Names : Store(o, c, n)
  BY DEF Stores
<1>2. /\ DOMAIN rows' = DOMAIN rows \cup {nextPk}
      /\ \A r \in DOMAIN rows : rows'[r] = rows[r]
      /\ rows'[nextPk].content = c
      /\ rows'[nextPk].refs = {}
  BY <1>1, StoreFresh
<1>3. Held' = Held
  BY <1>2 DEF Held, Over
<1>4. Present' = Present \cup {c}
  BY <1>2 DEF Present, Over
<1> QED  BY <1>3, <1>4 DEF Ledger!Arrive

LEMMA SyncCase ==
    ASSUME TypeOK, RefsOnCarrier, NEW k \in Key, NEW old \in SUBSET Content,
           NEW new \in SUBSET Content, ApplyRefSync(k, old, new)
    PROVE  Ledger!Sync(k, old, new)
<1> DEFINE Drops(r) == /\ Carrier(r) /\ rows[r].content \in old \ new
                       /\ k \in rows[r].refs
           Gains(r) == /\ Carrier(r) /\ rows[r].content \in new \ old
                       /\ k \notin rows[r].refs
           Target == (Held \ ({k} \X (old \ new)))
                         \cup ({k} \X ((new \ old) \cap Present))
<1>1. DOMAIN rows' = DOMAIN rows
  BY DEF ApplyRefSync
<1>2. \A r \in DOMAIN rows :
         /\ rows'[r].content = rows[r].content
         /\ rows'[r].refs = IF Drops(r) THEN rows[r].refs \ {k}
                            ELSE IF Gains(r) THEN rows[r].refs \cup {k}
                            ELSE rows[r].refs
  BY DEF ApplyRefSync, Detached, Attached, TypeOK, Row
<1>3. Present' = Present
  BY <1>1, <1>2 DEF Present, Over
<1>4. ASSUME NEW j \in Key, NEW c \in Content
      PROVE  <<j, c>> \in Held' <=> <<j, c>> \in Target
  <2>1. <<j, c>> \in Target <=>
           \/ <<j, c>> \in Held /\ ~(j = k /\ c \in old \ new)
           \/ j = k /\ c \in new \ old /\ c \in Present
    OBVIOUS
  <2>2. <<j, c>> \in Held <=>
           \E r \in DOMAIN rows : rows[r].content = c /\ j \in rows[r].refs
    BY HeldIs
  <2>3. <<j, c>> \in Held' <=>
           \E r \in DOMAIN rows : rows[r].content = c /\ j \in rows'[r].refs
    <3>1. \A r \in DOMAIN rows : rows'[r].content = rows[r].content
      BY <1>2
    <3>2. <<j, c>> \in Held' <=>
             \E r \in DOMAIN rows' : rows'[r].content = c /\ j \in rows'[r].refs
      BY HeldIsPrimed
    <3> QED  BY <1>1, <3>1, <3>2
  <2> HIDE DEF Target
  <2>4. CASE j # k
    <3>1. \A r \in DOMAIN rows : j \in rows'[r].refs <=> j \in rows[r].refs
      BY <1>2, <2>4
    <3> QED  BY <2>1, <2>2, <2>3, <2>4, <3>1
  <2>5. CASE j = k /\ c \in old \ new
    <3>1. \A r \in DOMAIN rows : rows[r].content = c => k \notin rows'[r].refs
      BY <1>2, <2>5 DEF RefsOnCarrier
    <3> QED  BY <2>1, <2>3, <2>5, <3>1
  <2>6. CASE j = k /\ c \in new \ old
    <3>1. ASSUME c \in Present PROVE <<j, c>> \in Held'
      <4>1. PICK r \in Over(c) : \A q \in Over(c) : r <= q
        BY <3>1, CarrierExists DEF Present
      <4>2. r \in DOMAIN rows /\ rows[r].content = c /\ Carrier(r)
        BY <4>1 DEF Carrier, Over
      <4>3. k \in rows'[r].refs
        BY <1>2, <2>6, <4>2
      <4> QED  BY <2>3, <2>6, <4>2, <4>3
    <3>2. <<j, c>> \in Held \/ <<j, c>> \in Held' => c \in Present
      BY <2>2, <2>3, PresentIs
    <3> QED  BY <2>1, <2>6, <3>1, <3>2
  <2>7. CASE j = k /\ c \notin old \ new /\ c \notin new \ old
    <3>1. \A r \in DOMAIN rows :
             rows[r].content = c => rows'[r].refs = rows[r].refs
      BY <1>2, <2>7
    <3> QED  BY <2>1, <2>2, <2>3, <2>7, <3>1
  <2> QED  BY <2>4, <2>5, <2>6, <2>7
<1>5. Held' \subseteq Key \X Content /\ Target \subseteq Key \X Content
  BY DEF Held, Present
<1>6. Held' = Target
  <2> HIDE DEF Target
  <2> QED  BY <1>4, <1>5
<1> QED  BY <1>3, <1>6 DEF Ledger!Sync

LEMMA DestroysCase ==
    ASSUME TypeOK, Destroys
    PROVE  \/ \E C \in SUBSET Content : Ledger!Collect(C)
           \/ \E c \in Content : Ledger!Expunge(c)
           \/ UNCHANGED Ledger!vars
<1>1. ASSUME NEW D \in SUBSET DOMAIN rows, NEW F, Destroy(D, F),
             \A r \in D : rows[r].refs = {}
      PROVE  \E C \in SUBSET Content : Ledger!Collect(C)
  <2> DEFINE G == D \ Stranded(D, F)
  <2>1. G \in SUBSET DOMAIN rows /\ \A r \in G : rows[r].refs = {}
    BY <1>1
  <2>2. /\ DOMAIN rows' = DOMAIN rows \ G
        /\ \A r \in DOMAIN rows' : rows'[r] = rows[r]
    BY <1>1 DEF Destroy, Restrict
  <2> HIDE DEF G
  <2> QED  BY <2>1, <2>2, CollectCase
<1>2. ASSUME rows' = rows PROVE UNCHANGED Ledger!vars
  BY <1>2, StutterCase
<1>3. CASE \E F \in Refusals : Sweep(F)
  BY <1>1, <1>3 DEF Sweep, Unclaimed
<1>4. CASE \E u \in Users, F \in Refusals : DeletionInitiated(u, F)
  BY <1>1, <1>2, <1>4 DEF DeletionInitiated, RollBack, Unreferenced, OwnedBy
<1>5. ASSUME NEW c \in Content, NEW F \in Refusals, EraseFile(c, F)
      PROVE  Ledger!Expunge(c) \/ UNCHANGED Ledger!vars
  <2>1. CASE rows' = rows
    BY <1>2, <2>1
  <2>2. CASE rows' = Restrict(rows, DOMAIN rows \ Over(c))
    <3>1. /\ DOMAIN rows' = {r \in DOMAIN rows : rows[r].content # c}
          /\ \A r \in DOMAIN rows' : rows'[r] = rows[r]
      BY <2>2 DEF Restrict, Over
    <3>2. Present' = Present \ {c}
      BY <3>1 DEF Present, Over
    <3>3. Held' = Held \ (Key \X {c})
      BY <3>1 DEF Held, Over
    <3> QED  BY <3>2, <3>3 DEF Ledger!Expunge, Ledger!Key, Key
  <2>3. DOMAIN rows \ (Over(c) \ {}) = DOMAIN rows \ Over(c)
    OBVIOUS
  <2> QED  BY <1>5, <2>1, <2>2, <2>3 DEF EraseFile, Destroy, RollBack
<1> QED  BY <1>3, <1>4, <1>5 DEF Destroys

LEMMA EraseAccountCase ==
    ASSUME TypeOK, NEW u \in Users, NEW F \in Refusals, EraseAccount(u, F)
    PROVE  \/ \E C \in SUBSET Content : Ledger!Collect(C)
           \/ UNCHANGED Ledger!vars
<1> DEFINE D    == Unreferenced(u)
           Kept == OwnedBy(u) \ D
<1>1. CASE rows' = rows
  BY <1>1, StutterCase
<1>2. CASE rows' = Restrict(Disowned(Kept), DOMAIN rows \ D)
  <2>1. D \in SUBSET DOMAIN rows /\ \A r \in D : rows[r].refs = {}
    BY DEF Unreferenced, OwnedBy
  <2>2. /\ DOMAIN rows' = DOMAIN rows \ D
        /\ \A r \in DOMAIN rows' : /\ rows'[r].content = rows[r].content
                                   /\ rows'[r].refs = rows[r].refs
    BY <1>2 DEF Restrict, Disowned, TypeOK, Row
  <2> HIDE DEF D
  <2> QED  BY <2>1, <2>2, CollectCase
<1> QED  BY <1>1, <1>2 DEF EraseAccount, RollBack

LEMMA EraseEntityCase ==
    ASSUME TypeOK, NEW e \in Entities, NEW F \in Refusals, EraseEntity(e, F)
    PROVE  \/ \E C \in SUBSET Content : Ledger!Release(e, C)
           \/ UNCHANGED Ledger!vars
<1> DEFINE Hit == {r \in DOMAIN rows : rows[r].refs \cap KeysOf(e) # {}}
           D   == {r \in Hit : rows[r].refs \subseteq KeysOf(e)}
           C   == Present \ Present'
<1>1. CASE rows' = rows
  BY <1>1, StutterCase
<1>2. CASE rows' = [r \in DOMAIN rows \ D |->
                      [rows[r] EXCEPT !.refs = @ \ KeysOf(e)]]
  <2>1. /\ DOMAIN rows' = DOMAIN rows \ D
        /\ \A r \in DOMAIN rows' :
              /\ rows'[r].content = rows[r].content
              /\ rows'[r].refs = rows[r].refs \ KeysOf(e)
    BY <1>2 DEF TypeOK, Row
  <2>2. ASSUME NEW k \in Key, NEW c \in Content
        PROVE  <<k, c>> \in Held' <=> <<k, c>> \in Held /\ k \notin KeysOf(e)
    BY <2>1, HeldIs, HeldIsPrimed
  <2>3. Held' = Held \ (KeysOf(e) \X Content)
    <3>1. Held' \subseteq Key \X Content /\ Held \subseteq Key \X Content
      BY DEF Held
    <3> QED  BY <2>2, <3>1
  <2>4. Present' = Present \ C /\ C \in SUBSET Content
    BY <2>1 DEF Present, Over
  <2>5. ASSUME NEW c \in C
        PROVE  /\ Ledger!Holders(c) # {}
               /\ Ledger!Holders(c) \subseteq KeysOf(e)
    <3>1. /\ c \in Content
          /\ \E r \in DOMAIN rows : rows[r].content = c
          /\ \A r \in DOMAIN rows : rows[r].content = c => r \in D
      BY <2>1, <2>5, PresentIsPrimed, PresentIs DEF Present
    <3>2. PICK r \in D : rows[r].content = c
      BY <3>1
    <3>3. PICK k \in KeysOf(e) : k \in rows[r].refs
      BY <3>2
    <3>4. k \in Key /\ <<k, c>> \in Held
      BY <3>1, <3>2, <3>3, HeldIs DEF KeysOf
    <3>5. \A j \in Key : <<j, c>> \in Held => j \in KeysOf(e)
      BY <3>1, HeldIs
    <3> QED  BY <3>4, <3>5 DEF Ledger!Holders, Ledger!Key, Key
  <2>6. Ledger!KeysOf(e) = KeysOf(e)
    BY DEF Ledger!KeysOf, Ledger!Key, KeysOf, Key
  <2> HIDE DEF C
  <2> QED  BY <2>3, <2>4, <2>5, <2>6 DEF Ledger!Release
<1> QED  BY <1>1, <1>2 DEF EraseEntity, RollBack

LEMMA RefinesStep ==
    TypeOK /\ RefsOnCarrier /\ [Next]_vars => [Ledger!Next]_(Ledger!vars)
<1> SUFFICES ASSUME TypeOK, RefsOnCarrier, [Next]_vars
             PROVE  [Ledger!Next]_(Ledger!vars)
  OBVIOUS
<1>1. CASE Stores
  BY <1>1, StoresCase DEF Ledger!Next
<1>2. ASSUME NEW k \in Key, NEW old \in SUBSET Content,
             NEW new \in SUBSET Content, ApplyRefSync(k, old, new)
      PROVE  [Ledger!Next]_(Ledger!vars)
  BY <1>2, SyncCase DEF Ledger!Next, Ledger!Key, Key
<1>3. CASE Destroys
  BY <1>3, DestroysCase DEF Ledger!Next
<1>4. ASSUME NEW u \in Users, NEW F \in Refusals, EraseAccount(u, F)
      PROVE  [Ledger!Next]_(Ledger!vars)
  BY <1>4, EraseAccountCase DEF Ledger!Next
<1>5. ASSUME NEW e \in Entities, NEW F \in Refusals, EraseEntity(e, F)
      PROVE  [Ledger!Next]_(Ledger!vars)
  BY <1>5, EraseEntityCase DEF Ledger!Next
<1>6. ASSUME NEW u \in Users, UserRowDeleted(u)
      PROVE  UNCHANGED Ledger!vars
  <2>1. /\ DOMAIN rows' = DOMAIN rows
        /\ \A r \in DOMAIN rows : /\ rows'[r].content = rows[r].content
                                  /\ rows'[r].refs = rows[r].refs
    BY <1>6 DEF UserRowDeleted, Disowned, TypeOK, Row
  <2> QED  BY <2>1, StutterCase
<1>7. CASE rows' = rows
  BY <1>7, StutterCase
<1>10. ASSUME NEW p \in MergePairs, UserMerged(p[1], p[2])
       PROVE  UNCHANGED Ledger!vars
  <2>1. Held' = Held /\ \A c \in Content : Over(c) # {} => Over(c)' # {}
    BY <1>10, MergeStep
  <2>2. DOMAIN rows' \subseteq DOMAIN rows
        /\ \A r \in DOMAIN rows' : rows'[r].content = rows[r].content
    BY <1>10, MergeShape
  <2>3. \A c \in Content : Over(c)' # {} => Over(c) # {}
    BY <2>2 DEF Over
  <2> QED  BY <2>1, <2>3 DEF Present, Ledger!vars
<1>8. \A u \in Users, c \in Content, n \in Names : Upload(u, c, n) => Stores
  BY DEF Upload, Stores, Owner
<1>9. \A c \in Content : ImportFromUrl(c) => Stores
  BY NamesAssumption DEF ImportFromUrl, Stores, Owner
<1> QED
  BY <1>1, <1>2, <1>3, <1>4, <1>5, <1>6, <1>7, <1>8, <1>9, <1>10, StepCases
  DEF UserRowLands, Tick, vars

\* The rows implement the ledger: whatever uploads, imports, reference events,
\* sweeps and erasures do to rows, owners, clocks and files, what a service
\* observes of its references and of the stored content is a behaviour of
\* RefLedger.  A merge is no step of it; but one that folds a reference into
\* a row that is not the oldest left moves it off the row that the next detach
\* looks at, and the ledger is left behind.
THEOREM RowsImplementLedger == Spec /\ MergesKeepCarriers => LedgerSpec
<1>1. Init => Ledger!Init
  BY DEF Init, Ledger!Init, Held, Present, Over
<1>2. TypeOK /\ RefsOnCarrier /\ [Next]_vars => [Ledger!Next]_(Ledger!vars)
  BY RefinesStep
<1> QED
  BY <1>1, <1>2, TypeCorrect, ReferencesOnCarrier, PTL
  DEF Spec, LedgerSpec, Ledger!Spec
=============================================================================
