--------------------------- MODULE Retyping_proofs ---------------------------
(***************************************************************************)
(* Theorems about the commands that move originals, for any tables, keys,  *)
(* names and marks, and any number of runs, uploads and syncs.             *)
(*                                                                         *)
(* A command works from snapshots of its rows.  The invariant says how far *)
(* a snapshot may be from its row (the owner and, until its turn, the type *)
(* are the same; the row has no key the snapshot lacks but for fresh ones) *)
(* and what each stage of a row's turn has made sure of before the next.   *)
(***************************************************************************)
EXTENDS Retyping, WellFoundedInduction, SequenceTheorems, TLAPS

\* A stored path is in the directory of its row's type (upload_to).
TypeDirectories == \A i \in DOMAIN images : images[i].path.type = images[i].type

\* What has happened to a row since it was read.
Known(s) ==
    /\ s.id \in DOMAIN images
    /\ images[s.id].owner = s.row.owner
    /\ \A key \in images[s.id].refs : key \in s.row.refs \/ <<s.id, key>> \in fresh

SameType(s) == images[s.id].type = s.row.type

TodoOK ==
    /\ cmd.todo # {}
    /\ cmd.todo \subseteq Snapshot
    /\ \A s, t \in cmd.todo : s.id = t.id => s = t
    /\ \A s \in cmd.todo : s.row.path.type = s.row.type
    /\ cmd.kind = "retype" => \A s \in cmd.todo : s.row.type = From
    /\ \A s \in cmd.todo : Known(s)
    /\ \A s \in cmd.todo : SameType(s) \/ (s = Current /\ cmd.at \in {"render", "rmtree"})

StageOK ==
    /\ cmd.at \in {"merge", "copy", "save", "render", "rmtree"} => cmd.kind = "retype"
    /\ cmd.at = "follow" => cmd.kind = "protect" /\ Rel(Image) \in files
    /\ cmd.at = "copy" => Target.path \in files
    /\ cmd.at = "save" => Target.path \in files /\ Kept = {}
    /\ cmd.at = "rmtree" => \A i \in DOMAIN images : images[i].type = From => i \in late

\* The row a merge goes into is as it was read, but for fresh keys and those
\* a sync took away.
MergeOK ==
    cmd.at = "merge" =>
        /\ cmd.into \in DOMAIN images
        /\ images[cmd.into].type = To
        /\ images[cmd.into].owner = Image.owner
        /\ \A key \in images[cmd.into].refs : key \in cmd.seen \/ <<cmd.into, key>> \in fresh

CommandInv ==
    /\ RetypingTypeOK
    /\ TypeDirectories
    /\ OriginalsRecoverable
    /\ cmd # Idle => TodoOK /\ StageOK /\ MergeOK

-----------------------------------------------------------------------------
LEMMA LeastNumber ==
    ASSUME NEW S \in SUBSET Nat, S # {}
    PROVE  \E m \in S : \A q \in S : m <= q
<1> DEFINE R == OpToRel(<, Nat)
<1>1. IsWellFoundedOn(R, Nat)
  BY NatLessThanWellFounded
<1>2. \A x, y \in Nat : x < y => <<x, y>> \in R
  BY DEF OpToRel
<1> HIDE DEF R
<1>3. PICK m \in S : \A q \in S : <<q, m>> \notin R
  BY <1>1, WFMin
<1>4. \A q \in S : ~(q < m)
  BY <1>2, <1>3
<1> QED  BY <1>4

LEMMA MinIsLeastNumber ==
    ASSUME NEW S \in SUBSET Nat, S # {}
    PROVE  Min(S) \in S /\ \A q \in S : Min(S) <= q
BY LeastNumber DEF Min

\* The snapshot whose turn it is is one of those left.
LEMMA CurrentIsLeft ==
    ASSUME cmd.todo # {}, cmd.todo \subseteq Snapshot
    PROVE  Current \in cmd.todo
<1> DEFINE Ids == {s.id : s \in cmd.todo}
<1>1. Ids \in SUBSET Nat /\ Ids # {}
  BY DEF Snapshot
<1>2. PICK m \in Ids : \A q \in Ids : m <= q
  BY <1>1, LeastNumber
<1>3. \E s \in cmd.todo : \A t \in cmd.todo : s.id <= t.id
  BY <1>2
<1> QED  BY <1>3 DEF Current

\* Rows there are, by their primary keys.
LEMMA TypedElement ==
    ASSUME RetypingTypeOK, NEW i \in DOMAIN images
    PROVE  images[i] \in ImageRow /\ i \in Nat
BY DEF RetypingTypeOK

LEMMA Busy ==
    ASSUME CommandInv, cmd # Idle
    PROVE  /\ cmd \in Working \/ cmd \in Merging
           /\ TodoOK /\ StageOK /\ MergeOK
           /\ Current \in cmd.todo /\ Current \in Snapshot
           /\ Image \in ImageRow
           /\ Image.path.type = Image.type
<1>1. (cmd \in Working \/ cmd \in Merging) /\ TodoOK /\ StageOK /\ MergeOK
  BY DEF CommandInv, RetypingTypeOK
<1>2. Current \in cmd.todo
  BY <1>1, CurrentIsLeft DEF TodoOK
<1>3. Current \in Snapshot /\ Image.path.type = Image.type
  BY <1>1, <1>2 DEF TodoOK, Image
<1>4. Image \in ImageRow
  BY <1>3 DEF Snapshot, Image
<1> QED  BY <1>1, <1>2, <1>3, <1>4


-----------------------------------------------------------------------------
(* What a step leaves of the list of snapshots.                             *)

LEMMA SameCurrent ==
    ASSUME cmd'.todo = cmd.todo
    PROVE  /\ Current' = Current /\ Image' = Image /\ ImageId' = ImageId
           /\ Target' = Target /\ Kept' = Kept /\ Claimed' = Claimed
<1>1. Current' = Current
  BY DEF Current
<1> HIDE DEF Current
<1>2. Image' = Image /\ ImageId' = ImageId
  BY <1>1 DEF Image, ImageId
<1>3. Kept' = Kept /\ Claimed' = Claimed
  BY <1>2 DEF Kept, Claimed
<1>4. Target' = Target
  BY <1>2, <1>3 DEF Target
<1> QED  BY <1>1, <1>2, <1>3, <1>4

LEMMA StillKnown ==
    ASSUME TodoOK, DOMAIN images \subseteq DOMAIN images', fresh \subseteq fresh',
           \A s \in cmd.todo : images'[s.id].owner = images[s.id].owner,
           \A s \in cmd.todo : \A key \in images'[s.id].refs :
               key \in images[s.id].refs \/ <<s.id, key>> \in fresh'
    PROVE  \A s \in cmd.todo : Known(s)'
<1> SUFFICES ASSUME NEW s \in cmd.todo PROVE Known(s)'
  OBVIOUS
<1>1. Known(s)
  BY DEF TodoOK
<1> QED  BY <1>1 DEF Known

LEMMA TodoStays ==
    ASSUME TodoOK, cmd'.todo = cmd.todo, cmd'.kind = cmd.kind,
           \A s \in cmd.todo : Known(s)',
           \A s \in cmd.todo : SameType(s)' \/ (s = Current /\ cmd'.at \in {"render", "rmtree"})
    PROVE  TodoOK'
<1>1. Current' = Current
  BY SameCurrent
<1> QED  BY <1>1 DEF TodoOK

LEMMA TodoGoesOn ==
    ASSUME CommandInv, cmd # Idle, NextImage,
           \A s \in cmd.todo : Known(s)',
           \A s \in cmd.todo : s # Current => SameType(s)'
    PROVE  /\ cmd' = Idle \/ cmd' \in Working
           /\ cmd' # Idle => (TodoOK /\ StageOK /\ MergeOK)'
<1> DEFINE left == cmd.todo \ {Current}
<1>1. /\ cmd \in Working \/ cmd \in Merging
      /\ TodoOK
  BY Busy
<1>2. CASE left = {}
  BY <1>2 DEF NextImage
<1>3. CASE left # {}
  <2>1. cmd' = Turning(cmd.kind, left)
    BY <1>3 DEF NextImage
  <2>2. /\ cmd' \in Working /\ cmd'.todo = left /\ cmd'.kind = cmd.kind /\ cmd'.at = "turn"
    <3>1. cmd.kind \in {"retype", "protect"} /\ cmd.todo \in SUBSET Snapshot
      BY <1>1 DEF Working, Merging
    <3> QED  BY <2>1, <3>1 DEF Turning, Working
  <2>3. TodoOK'
    <3>1. \A s \in cmd'.todo : s \in cmd.todo /\ s # Current
      BY <2>2
    <3> HIDE DEF left
    <3>2. /\ cmd'.todo # {} /\ cmd'.todo \subseteq Snapshot
          /\ \A s, t \in cmd'.todo : s.id = t.id => s = t
      BY <1>1, <1>3, <2>2, <3>1 DEF TodoOK
    <3>3. /\ \A s \in cmd'.todo : s.row.path.type = s.row.type
          /\ cmd'.kind = "retype" => \A s \in cmd'.todo : s.row.type = From
      BY <1>1, <2>2, <3>1 DEF TodoOK
    <3>4. \A s \in cmd'.todo : Known(s)' /\ SameType(s)'
      BY <3>1
    <3> QED  BY <3>2, <3>3, <3>4 DEF TodoOK
  <2>4. StageOK' /\ MergeOK'
    BY <2>2 DEF StageOK, MergeOK
  <2> QED  BY <2>2, <2>3, <2>4
<1> QED  BY <1>2, <1>3

LEMMA Kinds ==
    ASSUME CommandInv, cmd # Idle
    PROVE  /\ cmd.at \in {"turn", "copy", "save", "render", "rmtree", "follow"} => cmd \in Working
           /\ cmd.at = "merge" => cmd \in Merging
           /\ cmd.at # "idle"
BY Busy DEF Working, Merging

LEMMA TargetIsRow ==
    ASSUME CommandInv, cmd # Idle
    PROVE  /\ Target \in ImageRow
           /\ Target.path.type = Target.type /\ Target.type = To
           /\ Target.owner = Image.owner
           /\ Target.refs = IF Kept # {} THEN Claimed ELSE Image.refs
<1>1. Image \in ImageRow
  BY Busy
<1> DEFINE site == IF Image.site = NoSite THEN SiteKey ELSE Image.site
           refs == IF Kept # {} THEN Claimed ELSE Image.refs
           path == ImageUploadPath(To, site, Image.path.name)
<1>2. site \in Sites /\ Image.owner \in Owners
  BY <1>1 DEF ImageRow, Sites
<1>3. refs \in SUBSET Keys
  BY <1>1 DEF ImageRow, Claimed, Kept
<1>4. path \in StoredPath /\ path.type = To
  <2>1. Image.path.name \in Names
    BY <1>1 DEF ImageRow, StoredPath
  <2> QED  BY <2>1 DEF ImageUploadPath, At, StoredPath, Types
<1>5. Target = [type |-> To, owner |-> Image.owner, site |-> site, refs |-> refs, path |-> path]
  BY DEF Target, NewRow
<1> HIDE DEF site, refs, path
<1>6. Target \in ImageRow
  BY <1>2, <1>3, <1>4, <1>5 DEF ImageRow, Types
<1>7. Target.path.type = Target.type /\ Target.type = To /\ Target.owner = Image.owner
  BY <1>4, <1>5
<1>8. Target.refs = refs
  BY <1>5
<1> QED  BY <1>6, <1>7, <1>8 DEF refs

LEMMA RecoverableStays ==
    ASSUME OriginalsRecoverable, files \subseteq files', late \subseteq late',
           \A i \in DOMAIN images' \ late' :
               \/ i \in DOMAIN images /\ images'[i].path = images[i].path
                                      /\ images'[i].type = images[i].type
               \/ images'[i].path \in files'
    PROVE  OriginalsRecoverable'
<1> SUFFICES ASSUME NEW i \in DOMAIN images' \ late'
             PROVE  images'[i].path \in files' \/ Rel(images'[i]) \in files'
  BY DEF OriginalsRecoverable
<1>1. CASE i \in DOMAIN images /\ images'[i].path = images[i].path
                               /\ images'[i].type = images[i].type
  <2>1. images[i].path \in files \/ Rel(images[i]) \in files
    BY <1>1 DEF OriginalsRecoverable
  <2>2. Rel(images'[i]) = Rel(images[i])
    BY <1>1 DEF Rel
  <2> QED  BY <1>1, <2>1, <2>2
<1> QED  BY <1>1

-----------------------------------------------------------------------------
LEMMA CommandInvInit == RetypingInit => CommandInv
<1> SUFFICES ASSUME RetypingInit PROVE CommandInv
  OBVIOUS
<1>1. /\ images \in Seq(ImageRow)
      /\ TypeDirectories
  BY ImageTablesAssumption DEF RetypingInit, TypeDirectories
<1>2. \A i \in DOMAIN images : images[i].path \in files /\ images[i] \in ImageRow
  BY <1>1 DEF RetypingInit
<1>3. files \subseteq StoredPath
  BY <1>2 DEF RetypingInit, ImageRow
<1>4. RetypingTypeOK
  BY <1>1, <1>3 DEF RetypingInit, RetypingTypeOK
<1>5. OriginalsRecoverable
  BY <1>2 DEF OriginalsRecoverable
<1>6. cmd = Idle
  BY DEF RetypingInit
<1> QED  BY <1>1, <1>4, <1>5, <1>6 DEF CommandInv

LEMMA UploadStep ==
    ASSUME CommandInv, NEW owner \in Owners, NEW type \in Types, NEW site \in Sites,
           NEW name \in Names, Upload(owner, type, site, name)
    PROVE  CommandInv'
<1> DEFINE row == NewRow(type, owner, site, {}, name)
<1>1. /\ images' = Append(images, row)
      /\ files' = files \cup {row.path}
      /\ UNCHANGED <<cmd, fresh>>
      /\ late' = IF cmd.at = "rmtree" /\ type = From THEN late \cup {Len(images')} ELSE late
  BY DEF Upload
<1>2. /\ row \in ImageRow /\ row.path \in StoredPath /\ row.path.type = type /\ row.type = type
  BY DEF NewRow, ImageUploadPath, At, ImageRow, StoredPath, Types
<1> HIDE DEF row
<1>3. images \in Seq(ImageRow)
  BY DEF CommandInv, RetypingTypeOK
<1>4. /\ images' \in Seq(ImageRow) /\ Len(images') = Len(images) + 1
      /\ DOMAIN images = 1..Len(images) /\ DOMAIN images' = 1..Len(images) + 1
      /\ \A i \in DOMAIN images : images'[i] = images[i]
      /\ images'[Len(images) + 1] = row
  BY <1>1, <1>2, <1>3, AppendProperties
<1>5. /\ DOMAIN images \subseteq DOMAIN images' /\ late \subseteq late' /\ late' \subseteq DOMAIN images'
  BY <1>1, <1>4 DEF CommandInv, RetypingTypeOK
<1>6. RetypingTypeOK'
  BY <1>1, <1>2, <1>4, <1>5 DEF CommandInv, RetypingTypeOK
<1>7. TypeDirectories'
  <2> SUFFICES ASSUME NEW i \in DOMAIN images' PROVE images'[i].path.type = images'[i].type
    BY DEF TypeDirectories
  <2>1. i \in DOMAIN images \/ i = Len(images) + 1
    BY <1>4
  <2> QED  BY <2>1, <1>2, <1>4 DEF CommandInv, TypeDirectories
<1>8. OriginalsRecoverable'
  <2>1. \A i \in DOMAIN images' : i \in DOMAIN images \/ i = Len(images) + 1
    BY <1>4
  <2>2. \A i \in DOMAIN images' :
            \/ i \in DOMAIN images /\ images'[i].path = images[i].path
                                   /\ images'[i].type = images[i].type
            \/ images'[i].path \in files'
    BY <2>1, <1>1, <1>4
  <2> QED  BY <1>1, <1>5, <2>2, RecoverableStays DEF CommandInv
<1>9. ASSUME cmd # Idle PROVE TodoOK' /\ StageOK' /\ MergeOK'
  <2>1. TodoOK /\ StageOK /\ MergeOK
    BY <1>9 DEF CommandInv
  <2>2. \A s \in cmd.todo : s.id \in DOMAIN images /\ images'[s.id] = images[s.id]
    BY <1>4, <2>1 DEF TodoOK, Known
  <2>3. \A s \in cmd.todo : Known(s)'
    BY <1>1, <1>5, <2>1, <2>2, StillKnown
  <2>4. TodoOK'
    BY <1>1, <2>1, <2>2, <2>3, TodoStays DEF TodoOK, SameType
  <2>5. Image' = Image /\ Target' = Target /\ Kept' = Kept
    BY <1>1, SameCurrent
  <2>6. StageOK'
    <3>1. Rel(Image)' = Rel(Image)
      BY <2>5 DEF Rel
    <3>2. (cmd.at = "rmtree" => \A i \in DOMAIN images : images[i].type = From => i \in late)'
      <4> SUFFICES ASSUME cmd.at = "rmtree", NEW i \in DOMAIN images', images'[i].type = From
                   PROVE  i \in late'
        BY <1>1
      <4>1. CASE i \in DOMAIN images
        BY <4>1, <1>4, <1>5, <2>1 DEF StageOK
      <4>2. CASE i = Len(images) + 1
        BY <4>2, <1>1, <1>2, <1>4
      <4> QED  BY <4>1, <4>2, <1>4
    <3> QED  BY <1>1, <2>1, <2>5, <3>1, <3>2 DEF StageOK
  <2>7. MergeOK'
    BY <1>1, <1>4, <2>1, <2>5 DEF MergeOK
  <2> QED  BY <2>4, <2>6, <2>7
<1> QED  BY <1>1, <1>6, <1>7, <1>8, <1>9 DEF CommandInv

LEMMA SyncStep ==
    ASSUME CommandInv, NEW type \in Types, NEW key \in Keys, Sync(type, key)
    PROVE  CommandInv'
<1> DEFINE i == Carrier(type)
           attach == key \notin images[i].refs
           refs == IF attach THEN images[i].refs \cup {key} ELSE images[i].refs \ {key}
<1>1. /\ images' = [images EXCEPT ![i].refs = refs]
      /\ UNCHANGED <<files, cmd, late>>
      /\ fresh' = IF cmd = Idle THEN {} ELSE IF attach THEN fresh \cup {<<i, key>>} ELSE fresh
  BY DEF Sync
<1>2. i \in DOMAIN images
  <2> DEFINE S == {j \in DOMAIN images : images[j].type = type}
  <2>1. S \in SUBSET Nat /\ S # {}
    BY DEF Sync, CommandInv, RetypingTypeOK
  <2> HIDE DEF S
  <2>2. Min(S) \in S
    BY <2>1, MinIsLeastNumber
  <2> QED  BY <2>2 DEF S, Carrier
<1> HIDE DEF i
<1>3. images \in Seq(ImageRow) /\ images[i] \in ImageRow
  BY <1>2 DEF CommandInv, RetypingTypeOK
<1>4. refs \in SUBSET Keys
  BY <1>3 DEF ImageRow
<1>5. \A k \in refs : k \in images[i].refs \/ (attach /\ k = key)
  OBVIOUS
<1> HIDE DEF refs
<1>6. /\ DOMAIN images' = DOMAIN images
      /\ \A j \in DOMAIN images : /\ images'[j].owner = images[j].owner
                                  /\ images'[j].type = images[j].type
                                  /\ images'[j].path = images[j].path
                                  /\ images'[j].refs = IF j = i THEN refs ELSE images[j].refs
  BY <1>1, <1>2, <1>3 DEF ImageRow
<1>7. images' \in Seq(ImageRow)
  <2>1. [images[i] EXCEPT !.refs = refs] \in ImageRow
    BY <1>3, <1>4 DEF ImageRow
  <2> QED  BY <1>1, <1>2, <1>3, <2>1
<1>8. RetypingTypeOK'
  <2>1. fresh' \subseteq (DOMAIN images') \X Keys
    BY <1>1, <1>2, <1>6 DEF CommandInv, RetypingTypeOK
  <2> QED  BY <1>1, <1>6, <1>7, <2>1 DEF CommandInv, RetypingTypeOK
<1>9. TypeDirectories'
  BY <1>6 DEF CommandInv, TypeDirectories
<1>10. OriginalsRecoverable'
  BY <1>1, <1>6, RecoverableStays DEF CommandInv
<1>11. ASSUME cmd # Idle PROVE TodoOK' /\ StageOK' /\ MergeOK'
  <2>1. TodoOK /\ StageOK /\ MergeOK
    BY <1>11 DEF CommandInv
  <2>2. fresh \subseteq fresh' /\ (attach => <<i, key>> \in fresh')
    BY <1>1, <1>11
  <2> HIDE DEF attach
  <2>3. \A j \in DOMAIN images : \A k \in images'[j].refs :
            k \in images[j].refs \/ <<j, k>> \in fresh'
    BY <1>5, <1>6, <2>2
  <2>4. \A s \in cmd.todo : s.id \in DOMAIN images
    BY <2>1 DEF TodoOK, Known
  <2>5. \A s \in cmd.todo : Known(s)'
    BY <1>6, <2>1, <2>2, <2>3, <2>4, StillKnown
  <2>6. TodoOK'
    BY <1>1, <1>6, <2>1, <2>4, <2>5, TodoStays DEF TodoOK, SameType
  <2>7. Image' = Image /\ Target' = Target /\ Kept' = Kept
    BY <1>1, SameCurrent
  <2>8. StageOK'
    <3>1. Rel(Image)' = Rel(Image)
      BY <2>7 DEF Rel
    <3> QED  BY <1>1, <1>6, <2>1, <2>7, <3>1 DEF StageOK
  <2>9. MergeOK'
    BY <1>1, <1>6, <2>1, <2>2, <2>3, <2>7 DEF MergeOK
  <2> QED  BY <2>6, <2>8, <2>9
<1> QED  BY <1>1, <1>8, <1>9, <1>10, <1>11 DEF CommandInv

LEMMA CommandBeginStep ==
    ASSUME CommandInv, NEW kind \in {"retype", "protect"}, NEW ids \in SUBSET DOMAIN images,
           kind = "retype" => \A i \in ids : images[i].type = From,
           Begin(kind, ids)
    PROVE  CommandInv'
<1>1. /\ ids # {} /\ cmd' = Turning(kind, Snapshots(ids))
      /\ UNCHANGED <<images, files, late>> /\ fresh' = {}
  BY DEF Begin
<1> DEFINE read == Snapshots(ids)
<1>2. \A s \in read : s.id \in ids /\ s.row = images[s.id] /\ s = [id |-> s.id, row |-> images[s.id]]
  BY DEF Snapshots
<1>3. read # {}
  BY <1>1 DEF Snapshots
<1>4. \A i \in DOMAIN images : images[i] \in ImageRow /\ i \in Nat
  BY TypedElement DEF CommandInv
<1>5. read \subseteq Snapshot
  BY <1>4 DEF Snapshots, Snapshot
<1> HIDE DEF read
<1>6. /\ cmd' \in Working /\ cmd'.todo = read /\ cmd'.kind = kind /\ cmd'.at = "turn"
  BY <1>1, <1>5 DEF Turning, Working, read
<1>7. RetypingTypeOK'
  BY <1>1, <1>6 DEF CommandInv, RetypingTypeOK
<1>8. TypeDirectories' /\ OriginalsRecoverable'
  BY <1>1 DEF CommandInv, TypeDirectories, OriginalsRecoverable
<1>9. TodoOK'
  <2>1. \A s \in read : Known(s)' /\ SameType(s)'
    BY <1>1, <1>2 DEF Known, SameType
  <2>2. \A s, t \in read : s.id = t.id => s = t
    BY <1>2
  <2>3. \A s \in read : s.row.path.type = s.row.type
    BY <1>2 DEF CommandInv, TypeDirectories
  <2>4. kind = "retype" => \A s \in read : s.row.type = From
    BY <1>2
  <2> QED  BY <1>3, <1>5, <1>6, <2>1, <2>2, <2>3, <2>4 DEF TodoOK
<1>10. StageOK' /\ MergeOK'
  BY <1>6 DEF StageOK, MergeOK
<1> QED  BY <1>7, <1>8, <1>9, <1>10 DEF CommandInv

\* A step that leaves rows, keys and history alone.
LEMMA RowsStand ==
    ASSUME TodoOK, UNCHANGED <<images, fresh>>
    PROVE  /\ \A s \in cmd.todo : Known(s)'
           /\ \A s \in cmd.todo : SameType(s) => SameType(s)'
           /\ TypeDirectories => TypeDirectories'
BY StillKnown DEF SameType, TypeDirectories

\* The command goes on with the next row and leaves all else alone, but for
\* files it may have added.
LEMMA SkipStep ==
    ASSUME CommandInv, cmd # Idle, NextImage, UNCHANGED <<images, fresh, late>>,
           files \subseteq files', files' \subseteq StoredPath
    PROVE  CommandInv'
<1>1. TodoOK
  BY Busy
<1>2. /\ \A s \in cmd.todo : Known(s)'
      /\ \A s \in cmd.todo : s # Current => SameType(s)'
      /\ TypeDirectories'
  BY <1>1, RowsStand DEF TodoOK, CommandInv
<1>3. /\ cmd' = Idle \/ cmd' \in Working
      /\ cmd' # Idle => (TodoOK /\ StageOK /\ MergeOK)'
  BY <1>2, TodoGoesOn
<1>4. RetypingTypeOK'
  BY <1>3 DEF CommandInv, RetypingTypeOK
<1>5. OriginalsRecoverable'
  BY RecoverableStays DEF CommandInv
<1> QED  BY <1>2, <1>3, <1>4, <1>5 DEF CommandInv

\* The command goes to another stage of the same row.
LEMMA StageOfWorking ==
    ASSUME cmd \in Working, NEW stage \in {"turn", "copy", "save", "render", "rmtree", "follow"},
           cmd' = [cmd EXCEPT !.at = stage]
    PROVE  /\ cmd' \in Working /\ cmd'.at = stage
           /\ cmd'.todo = cmd.todo /\ cmd'.kind = cmd.kind
BY DEF Working

LEMMA TurnStep ==
    ASSUME CommandInv, Turn
    PROVE  CommandInv'
<1>1. cmd.at = "turn" /\ cmd.kind = "retype" /\ UNCHANGED <<fresh, late>>
  BY DEF Turn
<1>2. cmd # Idle
  BY <1>1 DEF Idle
<1>3. cmd \in Working /\ TodoOK /\ Current \in cmd.todo /\ Image \in ImageRow
  BY <1>1, <1>2, Busy, Kinds
<1>4. Target \in ImageRow /\ Target.path \in StoredPath
  BY <1>2, TargetIsRow DEF ImageRow
<1>5. CASE /\ Existing # {}
           /\ \E i \in Existing :
                 cmd' = [at |-> "merge", kind |-> "retype", todo |-> cmd.todo,
                         into |-> i, seen |-> images[i].refs]
           /\ UNCHANGED <<images, files>>
  <2>1. PICK i \in Existing :
                 cmd' = [at |-> "merge", kind |-> "retype", todo |-> cmd.todo,
                         into |-> i, seen |-> images[i].refs]
    BY <1>5
  <2>2. i \in DOMAIN images /\ images[i].type = To /\ images[i].owner = Image.owner
    BY DEF Existing, RowsOf
  <2>3. images[i] \in ImageRow /\ i \in Nat
    BY <2>2, TypedElement DEF CommandInv
  <2>4. /\ cmd' \in Merging /\ cmd'.todo = cmd.todo /\ cmd'.kind = cmd.kind
        /\ cmd'.at = "merge" /\ cmd'.into = i /\ cmd'.seen = images[i].refs
    BY <1>1, <1>3, <2>1, <2>3 DEF Merging, Working, ImageRow
  <2>5. /\ \A s \in cmd.todo : Known(s)'
        /\ \A s \in cmd.todo : SameType(s)'
        /\ TypeDirectories'
    BY <1>1, <1>3, <1>5, RowsStand DEF TodoOK, CommandInv
  <2>6. TodoOK'
    BY <1>3, <2>4, <2>5, TodoStays
  <2>7. Image' = Image
    BY <2>4, SameCurrent
  <2>8. StageOK' /\ MergeOK'
    BY <1>1, <1>5, <2>2, <2>4, <2>7 DEF StageOK, MergeOK
  <2>9. RetypingTypeOK' /\ OriginalsRecoverable'
    BY <1>1, <1>5, <2>4 DEF CommandInv, RetypingTypeOK, OriginalsRecoverable
  <2> QED  BY <2>5, <2>6, <2>8, <2>9 DEF CommandInv
<1>6. CASE /\ Existing = {} /\ Image.path \in files
           /\ files' = files \cup {Target.path}
           /\ cmd' = [cmd EXCEPT !.at = IF Kept # {} THEN "copy" ELSE "save"]
           /\ UNCHANGED images
  <2>1. /\ cmd' \in Working /\ cmd'.at = IF Kept # {} THEN "copy" ELSE "save"
        /\ cmd'.todo = cmd.todo /\ cmd'.kind = cmd.kind
    BY <1>3, <1>6, StageOfWorking
  <2>2. /\ \A s \in cmd.todo : Known(s)'
        /\ \A s \in cmd.todo : SameType(s)'
        /\ TypeDirectories'
    BY <1>1, <1>3, <1>6, RowsStand DEF TodoOK, CommandInv
  <2>3. TodoOK'
    BY <1>3, <2>1, <2>2, TodoStays
  <2>4. Target' = Target /\ Kept' = Kept
    BY <2>1, SameCurrent
  <2>5. StageOK' /\ MergeOK'
    BY <1>1, <1>6, <2>1, <2>4 DEF StageOK, MergeOK
  <2>6. RetypingTypeOK'
    BY <1>1, <1>4, <1>6, <2>1 DEF CommandInv, RetypingTypeOK
  <2>7. OriginalsRecoverable'
    BY <1>1, <1>6, RecoverableStays DEF CommandInv
  <2> QED  BY <2>2, <2>3, <2>5, <2>6, <2>7 DEF CommandInv
<1>7. CASE Skip
  BY <1>1, <1>2, <1>7, SkipStep DEF Skip, CommandInv, RetypingTypeOK
<1> QED  BY <1>5, <1>6, <1>7 DEF Turn

LEMMA MergeStep ==
    ASSUME CommandInv, Merge
    PROVE  CommandInv'
<1>1. /\ cmd.at = "merge" /\ NextImage /\ UNCHANGED <<files, fresh, late>>
      /\ images' = [images EXCEPT ![cmd.into].refs = cmd.seen \cup Claimed, ![ImageId].refs = Kept]
  BY DEF Merge
<1>2. cmd # Idle
  BY <1>1 DEF Idle
<1>3. cmd \in Merging /\ TodoOK /\ MergeOK /\ Current \in cmd.todo /\ Image \in ImageRow
  BY <1>1, <1>2, Busy, Kinds
<1>4. \A s \in cmd.todo : Known(s) /\ images[s.id].type = From
  BY <1>1, <1>3 DEF TodoOK, Merging, SameType
<1>5. /\ ImageId \in DOMAIN images /\ cmd.into \in DOMAIN images
      /\ \A s \in cmd.todo : s.id # cmd.into
      /\ ImageId # cmd.into
  BY <1>1, <1>3, <1>4, RetypeAssumption DEF MergeOK, Known, ImageId
<1>6. /\ Kept \subseteq Image.refs /\ Kept \in SUBSET Keys
      /\ (cmd.seen \cup Claimed) \in SUBSET Keys
  BY <1>3 DEF Kept, Claimed, ImageRow, Merging
<1> HIDE DEF Kept, Claimed
<1>7. images \in Seq(ImageRow) /\ images[ImageId] \in ImageRow /\ images[cmd.into] \in ImageRow
  BY <1>5 DEF CommandInv, RetypingTypeOK
<1>8. /\ DOMAIN images' = DOMAIN images
      /\ \A j \in DOMAIN images :
            /\ images'[j].owner = images[j].owner
            /\ images'[j].type = images[j].type
            /\ images'[j].path = images[j].path
            /\ images'[j].refs = IF j = ImageId THEN Kept
                                 ELSE IF j = cmd.into THEN cmd.seen \cup Claimed
                                 ELSE images[j].refs
  BY <1>1, <1>5, <1>7 DEF ImageRow
<1>9. images' \in Seq(ImageRow)
  <2>1. /\ [images[cmd.into] EXCEPT !.refs = cmd.seen \cup Claimed] \in ImageRow
        /\ [images[ImageId] EXCEPT !.refs = Kept] \in ImageRow
    BY <1>6, <1>7 DEF ImageRow
  <2> QED  BY <1>1, <1>5, <1>7, <2>1
<1>10. \A s \in cmd.todo : Known(s)'
  <2>1. \A s \in cmd.todo : s.id = ImageId => s = Current
    BY <1>3 DEF TodoOK, ImageId
  <2> SUFFICES ASSUME NEW s \in cmd.todo PROVE Known(s)'
    OBVIOUS
  <2>2. s.id \in DOMAIN images /\ Known(s)
    BY <1>4 DEF Known
  <2>3. \A key \in images'[s.id].refs : key \in s.row.refs \/ <<s.id, key>> \in fresh'
    <3>1. CASE s.id = ImageId
      <4>1. s.row.refs = Image.refs
        BY <2>1, <3>1 DEF Image
      <4> QED  BY <3>1, <4>1, <1>6, <1>8, <2>2
    <3>2. CASE s.id # ImageId
      BY <3>2, <1>1, <1>5, <1>8, <2>2 DEF Known
    <3> QED  BY <3>1, <3>2
  <2> QED  BY <1>8, <2>2, <2>3 DEF Known
<1>11. \A s \in cmd.todo : SameType(s)'
  BY <1>1, <1>3, <1>4, <1>8 DEF TodoOK, SameType, Known
<1>12. /\ cmd' = Idle \/ cmd' \in Working
       /\ cmd' # Idle => (TodoOK /\ StageOK /\ MergeOK)'
  BY <1>1, <1>2, <1>10, <1>11, TodoGoesOn
<1>13. RetypingTypeOK'
  BY <1>1, <1>8, <1>9, <1>12 DEF CommandInv, RetypingTypeOK
<1>14. TypeDirectories'
  BY <1>8 DEF CommandInv, TypeDirectories
<1>15. OriginalsRecoverable'
  BY <1>1, <1>8, RecoverableStays DEF CommandInv
<1> QED  BY <1>12, <1>13, <1>14, <1>15 DEF CommandInv

LEMMA CopyStep ==
    ASSUME CommandInv, CopyInsert
    PROVE  CommandInv'
<1>1. cmd.at = "copy" /\ UNCHANGED <<files, fresh, late>>
  BY DEF CopyInsert, Skip
<1>2. cmd # Idle
  BY <1>1 DEF Idle
<1>3. /\ cmd \in Working /\ TodoOK /\ StageOK
      /\ Current \in cmd.todo /\ Current \in Snapshot /\ Image \in ImageRow
  BY <1>1, <1>2, Busy, Kinds
<1>4. CASE Skip
  BY <1>1, <1>2, <1>4, SkipStep DEF Skip, CommandInv, RetypingTypeOK
<1>5. CASE /\ images' = Append([images EXCEPT ![ImageId].refs = Kept], Target)
           /\ cmd' = [cmd EXCEPT !.at = "render"]
  <2>1. /\ cmd' \in Working /\ cmd'.at = "render" /\ cmd'.todo = cmd.todo /\ cmd'.kind = cmd.kind
    BY <1>3, <1>5, StageOfWorking
  <2>2. /\ Kept \subseteq Image.refs /\ Kept \in SUBSET Keys
    BY <1>3 DEF Kept, ImageRow
  <2>3. Target \in ImageRow /\ Target.path.type = Target.type /\ Target.path \in files
    BY <1>1, <1>2, <1>3, TargetIsRow DEF StageOK
  <2>4. ImageId \in DOMAIN images
    BY <1>3 DEF TodoOK, Known, ImageId
  <2>5. images \in Seq(ImageRow) /\ images[ImageId] \in ImageRow
    BY <2>4 DEF CommandInv, RetypingTypeOK
  <2> HIDE DEF Kept, Target
  <2> DEFINE left == [images EXCEPT ![ImageId].refs = Kept]
  <2>6. /\ left \in Seq(ImageRow) /\ DOMAIN left = DOMAIN images /\ Len(left) = Len(images)
        /\ \A j \in DOMAIN images :
              /\ left[j].owner = images[j].owner
              /\ left[j].type = images[j].type
              /\ left[j].path = images[j].path
              /\ left[j].refs = IF j = ImageId THEN Kept ELSE images[j].refs
    <3>1. [images[ImageId] EXCEPT !.refs = Kept] \in ImageRow
      BY <2>2, <2>5 DEF ImageRow
    <3> QED  BY <2>4, <2>5, <3>1 DEF ImageRow
  <2>7. images' = Append(left, Target)
    BY <1>5
  <2> HIDE DEF left
  <2>8. /\ images' \in Seq(ImageRow) /\ Len(images') = Len(images) + 1
        /\ DOMAIN images = 1..Len(images) /\ DOMAIN images' = 1..Len(images) + 1
        /\ \A j \in DOMAIN images : images'[j] = left[j]
        /\ images'[Len(images) + 1] = Target
    BY <2>3, <2>5, <2>6, <2>7, AppendProperties
  <2>9. DOMAIN images \subseteq DOMAIN images' /\ (\A j \in DOMAIN images' : j \in DOMAIN images \/ j = Len(images) + 1)
    BY <2>8
  <2>10. \A s \in cmd.todo : Known(s)'
    <3>1. \A s \in cmd.todo : s.id \in DOMAIN images /\ Known(s)
      BY <1>3 DEF TodoOK, Known
    <3>2. \A s \in cmd.todo : s.id = ImageId => s.row.refs = Image.refs
      BY <1>3 DEF TodoOK, ImageId, Image
    <3> SUFFICES ASSUME NEW s \in cmd.todo PROVE Known(s)'
      OBVIOUS
    <3>3. images'[s.id].owner = images[s.id].owner
      BY <2>6, <2>8, <3>1
    <3>4. \A key \in images'[s.id].refs : key \in s.row.refs \/ <<s.id, key>> \in fresh'
      <4>1. images'[s.id].refs = IF s.id = ImageId THEN Kept ELSE images[s.id].refs
        BY <2>6, <2>8, <3>1
      <4>2. \A key \in images[s.id].refs : key \in s.row.refs \/ <<s.id, key>> \in fresh
        BY <3>1 DEF Known
      <4> QED  BY <1>1, <2>2, <3>2, <4>1, <4>2
    <3> QED  BY <2>9, <3>1, <3>3, <3>4 DEF Known
  <2>11. \A s \in cmd.todo : SameType(s)'
    BY <1>1, <1>3, <2>6, <2>8 DEF TodoOK, SameType, Known
  <2>12. TodoOK'
    BY <1>3, <2>1, <2>10, <2>11, TodoStays
  <2>13. StageOK' /\ MergeOK'
    BY <1>1, <1>3, <2>1 DEF StageOK, MergeOK
  <2>14. RetypingTypeOK'
    BY <1>1, <2>1, <2>8, <2>9 DEF CommandInv, RetypingTypeOK
  <2>15. TypeDirectories'
    <3>1. \A j \in DOMAIN images' : images'[j].path.type = images'[j].type
      BY <2>3, <2>6, <2>8, <2>9 DEF CommandInv, TypeDirectories
    <3> QED  BY <3>1 DEF TypeDirectories
  <2>16. OriginalsRecoverable'
    <3>1. \A j \in DOMAIN images' :
               \/ j \in DOMAIN images /\ images'[j].path = images[j].path
                                      /\ images'[j].type = images[j].type
               \/ images'[j].path \in files'
      BY <1>1, <2>3, <2>6, <2>8, <2>9
    <3> QED  BY <1>1, <3>1, RecoverableStays DEF CommandInv
  <2> QED  BY <2>12, <2>13, <2>14, <2>15, <2>16 DEF CommandInv
<1> QED  BY <1>4, <1>5 DEF CopyInsert

LEMMA SaveStageStep ==
    ASSUME CommandInv, RetypeSave
    PROVE  CommandInv'
<1>1. cmd.at = "save" /\ UNCHANGED <<files, fresh, late>>
  BY DEF RetypeSave, Skip
<1>2. cmd # Idle
  BY <1>1 DEF Idle
<1>3. /\ cmd \in Working /\ TodoOK /\ StageOK
      /\ Current \in cmd.todo /\ Current \in Snapshot /\ Image \in ImageRow
  BY <1>1, <1>2, Busy, Kinds
<1>4. CASE Skip
  BY <1>1, <1>2, <1>4, SkipStep DEF Skip, CommandInv, RetypingTypeOK
<1>5. CASE /\ images' = [images EXCEPT ![ImageId] = Target]
           /\ cmd' = [cmd EXCEPT !.at = "render"]
  <2>1. /\ cmd' \in Working /\ cmd'.at = "render" /\ cmd'.todo = cmd.todo /\ cmd'.kind = cmd.kind
    BY <1>3, <1>5, StageOfWorking
  <2>2. /\ Target \in ImageRow /\ Target.path.type = Target.type /\ Target.path \in files
        /\ Target.owner = Image.owner /\ Target.refs = Image.refs
    BY <1>1, <1>2, <1>3, TargetIsRow DEF StageOK
  <2>3. ImageId \in DOMAIN images /\ images \in Seq(ImageRow)
    BY <1>3 DEF TodoOK, Known, ImageId, CommandInv, RetypingTypeOK
  <2> HIDE DEF Target
  <2>4. /\ images' \in Seq(ImageRow) /\ DOMAIN images' = DOMAIN images
        /\ \A j \in DOMAIN images : images'[j] = IF j = ImageId THEN Target ELSE images[j]
    BY <1>5, <2>2, <2>3
  <2>5. \A s \in cmd.todo : s.id \in DOMAIN images /\ Known(s) /\ (s # Current => s.id # ImageId)
    BY <1>3 DEF TodoOK, Known, ImageId
  <2>6. \A s \in cmd.todo : Known(s)'
    <3> SUFFICES ASSUME NEW s \in cmd.todo PROVE Known(s)'
      OBVIOUS
    <3>1. CASE s = Current
      BY <1>1, <2>2, <2>4, <2>5, <3>1 DEF Known, Image, ImageId
    <3>2. CASE s # Current
      BY <1>1, <2>4, <2>5, <3>2 DEF Known
    <3> QED  BY <3>1, <3>2
  <2>7. \A s \in cmd.todo : s # Current => SameType(s)'
    <3>1. \A s \in cmd.todo : SameType(s)
      BY <1>1, <1>3 DEF TodoOK
    <3> QED  BY <2>4, <2>5, <3>1 DEF SameType
  <2>8. TodoOK'
    BY <1>3, <2>1, <2>6, <2>7, TodoStays
  <2>9. StageOK' /\ MergeOK'
    BY <1>1, <1>3, <2>1 DEF StageOK, MergeOK
  <2>10. RetypingTypeOK'
    BY <1>1, <2>1, <2>4 DEF CommandInv, RetypingTypeOK
  <2>11. TypeDirectories'
    BY <2>2, <2>4 DEF CommandInv, TypeDirectories
  <2>12. OriginalsRecoverable'
    <3>1. \A j \in DOMAIN images' :
               \/ j \in DOMAIN images /\ images'[j].path = images[j].path
                                      /\ images'[j].type = images[j].type
               \/ images'[j].path \in files'
      BY <1>1, <2>2, <2>4
    <3> QED  BY <1>1, <3>1, RecoverableStays DEF CommandInv
  <2> QED  BY <2>8, <2>9, <2>10, <2>11, <2>12 DEF CommandInv
<1> QED  BY <1>4, <1>5 DEF RetypeSave

LEMMA RenderStep ==
    ASSUME CommandInv, Render
    PROVE  CommandInv'
<1>1. cmd.at = "render" /\ UNCHANGED <<images, files, fresh, late>>
  BY DEF Render
<1>2. cmd # Idle
  BY <1>1 DEF Idle
<1>3. cmd \in Working /\ TodoOK /\ StageOK /\ Current \in cmd.todo
  BY <1>1, <1>2, Busy, Kinds
<1>4. CASE NextImage
  BY <1>1, <1>2, <1>4, SkipStep DEF CommandInv, RetypingTypeOK
<1>5. CASE ~OldTypeHeld /\ cmd' = [cmd EXCEPT !.at = "rmtree"]
  <2>1. /\ cmd' \in Working /\ cmd'.at = "rmtree" /\ cmd'.todo = cmd.todo /\ cmd'.kind = cmd.kind
    BY <1>3, <1>5, StageOfWorking
  <2>2. /\ \A s \in cmd.todo : Known(s)'
        /\ \A s \in cmd.todo : SameType(s)' \/ s = Current
        /\ TypeDirectories'
    BY <1>1, <1>3, RowsStand DEF TodoOK, CommandInv
  <2>3. TodoOK'
    BY <1>3, <2>1, <2>2, TodoStays
  <2>4. StageOK' /\ MergeOK'
    BY <1>1, <1>3, <1>5, <2>1 DEF StageOK, MergeOK, OldTypeHeld
  <2>5. RetypingTypeOK' /\ OriginalsRecoverable'
    BY <1>1, <2>1 DEF CommandInv, RetypingTypeOK, OriginalsRecoverable
  <2> QED  BY <2>2, <2>3, <2>4, <2>5 DEF CommandInv
<1> QED  BY <1>4, <1>5 DEF Render

LEMMA RmtreeStep ==
    ASSUME CommandInv, Rmtree
    PROVE  CommandInv'
<1>1. /\ cmd.at = "rmtree" /\ NextImage /\ UNCHANGED <<images, fresh, late>>
      /\ files' = {f \in files : f.type # From}
  BY DEF Rmtree
<1>2. cmd # Idle
  BY <1>1 DEF Idle
<1>3. TodoOK /\ StageOK
  BY <1>2, Busy
<1>4. /\ \A s \in cmd.todo : Known(s)'
      /\ \A s \in cmd.todo : s # Current => SameType(s)'
      /\ TypeDirectories'
  BY <1>1, <1>3, RowsStand DEF TodoOK, CommandInv
<1>5. /\ cmd' = Idle \/ cmd' \in Working
      /\ cmd' # Idle => (TodoOK /\ StageOK /\ MergeOK)'
  BY <1>1, <1>2, <1>4, TodoGoesOn
<1>6. RetypingTypeOK'
  BY <1>1, <1>5 DEF CommandInv, RetypingTypeOK
<1>7. OriginalsRecoverable'
  <2> SUFFICES ASSUME NEW i \in DOMAIN images \ late
               PROVE  images[i].path \in files' \/ Rel(images[i]) \in files'
    BY <1>1 DEF OriginalsRecoverable
  <2>1. images[i].type # From
    BY <1>1, <1>3 DEF StageOK
  <2>2. images[i].path.type = images[i].type /\ Rel(images[i]).type = images[i].type
    BY DEF CommandInv, TypeDirectories, Rel, At
  <2>3. images[i].path \in files \/ Rel(images[i]) \in files
    BY DEF CommandInv, OriginalsRecoverable
  <2> QED  BY <1>1, <2>1, <2>2, <2>3
<1> QED  BY <1>4, <1>5, <1>6, <1>7 DEF CommandInv

LEMMA ProtectStep ==
    ASSUME CommandInv, Protect
    PROVE  CommandInv'
<1> DEFINE rel == Rel(Image)
           due == WatermarkSpecFor(Image.type, Image.site) /\ Image.path.tree = "public"
<1>1. cmd.at = "turn" /\ cmd.kind = "protect" /\ UNCHANGED <<fresh, late>>
  BY DEF Protect
<1>2. cmd # Idle
  BY <1>1 DEF Idle
<1>3. /\ cmd \in Working /\ TodoOK /\ StageOK
      /\ Current \in cmd.todo /\ Image \in ImageRow /\ Image.path.type = Image.type
  BY <1>1, <1>2, Busy, Kinds
<1>4. rel \in StoredPath /\ rel.type = Image.type /\ rel.tree = "protected" /\ rel.name = Image.path.name
  BY <1>3 DEF Rel, At, StoredPath, ImageRow
<1> HIDE DEF rel
<1>5. /\ images \in Seq(ImageRow)
      /\ \A i \in DOMAIN images : images[i].path.type = images[i].type
  BY DEF CommandInv, RetypingTypeOK, TypeDirectories
<1>6. CASE /\ due
           /\ files' = (files \ {Image.path}) \cup {rel}
           /\ cmd' = [cmd EXCEPT !.at = "follow"]
           /\ UNCHANGED images
  <2>1. /\ cmd' \in Working /\ cmd'.at = "follow" /\ cmd'.todo = cmd.todo /\ cmd'.kind = cmd.kind
    BY <1>3, <1>6, StageOfWorking
  <2>2. /\ \A s \in cmd.todo : Known(s)'
        /\ \A s \in cmd.todo : SameType(s)'
        /\ TypeDirectories'
    BY <1>1, <1>3, <1>6, RowsStand DEF TodoOK, CommandInv
  <2>3. TodoOK'
    BY <1>3, <2>1, <2>2, TodoStays
  <2>4. Rel(Image)' = rel
    BY <2>1, SameCurrent DEF Rel, rel
  <2>5. StageOK' /\ MergeOK'
    BY <1>1, <1>6, <2>1, <2>4 DEF StageOK, MergeOK
  <2>6. RetypingTypeOK'
    BY <1>1, <1>4, <1>6, <2>1 DEF CommandInv, RetypingTypeOK
  <2>7. OriginalsRecoverable'
    <3> SUFFICES ASSUME NEW i \in DOMAIN images \ late
                 PROVE  images[i].path \in files' \/ Rel(images[i]) \in files'
      BY <1>1, <1>6 DEF OriginalsRecoverable
    <3>1. CASE images[i].path = Image.path
      <4>1. Rel(images[i]) = rel
        BY <1>3, <1>5, <3>1 DEF Rel, rel
      <4> QED  BY <1>6, <4>1
    <3>2. CASE images[i].path # Image.path
      <4>1. images[i].path \in files \/ Rel(images[i]) \in files
        BY DEF CommandInv, OriginalsRecoverable
      <4>2. Rel(images[i]).tree = "protected"
        BY DEF Rel, At
      <4> QED  BY <1>6, <3>2, <4>1, <4>2
    <3> QED  BY <3>1, <3>2
  <2> QED  BY <2>2, <2>3, <2>5, <2>6, <2>7 DEF CommandInv
<1>7. CASE /\ rel \in files
           /\ images' = [images EXCEPT ![ImageId].path = rel]
           /\ NextImage
           /\ UNCHANGED files
  <2>1. /\ ImageId \in DOMAIN images
        /\ \A s \in cmd.todo : s.id \in DOMAIN images /\ SameType(s)
        /\ images[ImageId].type = Image.type
    BY <1>1, <1>3 DEF TodoOK, Known, ImageId, Image, SameType
  <2>2. images[ImageId] \in ImageRow
    BY <1>5, <2>1
  <2>3. /\ DOMAIN images' = DOMAIN images
        /\ \A j \in DOMAIN images :
              /\ images'[j].owner = images[j].owner
              /\ images'[j].type = images[j].type
              /\ images'[j].refs = images[j].refs
              /\ images'[j].path = IF j = ImageId THEN rel ELSE images[j].path
    BY <1>5, <1>7, <2>1, <2>2 DEF ImageRow
  <2>4. images' \in Seq(ImageRow)
    <3>1. [images[ImageId] EXCEPT !.path = rel] \in ImageRow
      BY <1>4, <2>2 DEF ImageRow
    <3> QED  BY <1>5, <1>7, <2>1, <3>1
  <2>5. \A s \in cmd.todo : Known(s)' /\ SameType(s)'
    <3>1. \A s \in cmd.todo : Known(s)'
      BY <1>1, <1>3, <2>1, <2>3, StillKnown
    <3>2. \A s \in cmd.todo : SameType(s)'
      BY <2>1, <2>3 DEF SameType
    <3> QED  BY <3>1, <3>2
  <2>6. /\ cmd' = Idle \/ cmd' \in Working
        /\ cmd' # Idle => (TodoOK /\ StageOK /\ MergeOK)'
    BY <1>2, <1>7, <2>5, TodoGoesOn
  <2>7. RetypingTypeOK'
    BY <1>1, <1>7, <2>3, <2>4, <2>6 DEF CommandInv, RetypingTypeOK
  <2>8. TypeDirectories'
    BY <1>4, <1>5, <2>1, <2>3 DEF TypeDirectories
  <2>9. OriginalsRecoverable'
    <3>1. \A j \in DOMAIN images' :
               \/ j \in DOMAIN images /\ images'[j].path = images[j].path
                                      /\ images'[j].type = images[j].type
               \/ images'[j].path \in files'
      BY <1>7, <2>3
    <3> QED  BY <1>1, <1>7, <3>1, RecoverableStays DEF CommandInv
  <2> QED  BY <2>6, <2>7, <2>8, <2>9 DEF CommandInv
<1>8. CASE Skip
  BY <1>1, <1>2, <1>8, SkipStep DEF Skip, CommandInv, RetypingTypeOK
<1> QED  BY <1>6, <1>7, <1>8 DEF Protect, rel

LEMMA FollowStep ==
    ASSUME CommandInv, ProtectFollow
    PROVE  CommandInv'
<1> DEFINE rel == Rel(Image)
<1>1. /\ cmd.at = "follow" /\ NextImage /\ UNCHANGED <<files, fresh, late>>
      /\ images' = [i \in DOMAIN images |->
                    IF images[i].path = Image.path THEN [images[i] EXCEPT !.path = rel] ELSE images[i]]
  BY DEF ProtectFollow
<1>2. cmd # Idle
  BY <1>1 DEF Idle
<1>3. /\ cmd \in Working /\ TodoOK /\ StageOK
      /\ Current \in cmd.todo /\ Image \in ImageRow /\ Image.path.type = Image.type
  BY <1>1, <1>2, Busy, Kinds
<1>4. /\ rel \in StoredPath /\ rel.type = Image.type
      /\ rel \in files /\ cmd.kind = "protect"
  BY <1>1, <1>3 DEF Rel, At, StoredPath, ImageRow, StageOK
<1> HIDE DEF rel
<1>5. /\ images \in Seq(ImageRow) /\ DOMAIN images = 1..Len(images) /\ Len(images) \in Nat
      /\ \A i \in DOMAIN images : images[i].path.type = images[i].type /\ images[i] \in ImageRow
  BY DEF CommandInv, RetypingTypeOK, TypeDirectories
<1>6. /\ DOMAIN images' = DOMAIN images
      /\ \A j \in DOMAIN images :
            /\ images'[j] \in ImageRow
            /\ images'[j].owner = images[j].owner
            /\ images'[j].type = images[j].type
            /\ images'[j].refs = images[j].refs
            /\ images'[j].path = IF images[j].path = Image.path THEN rel ELSE images[j].path
  <2>1. \A j \in DOMAIN images : LET row == [images[j] EXCEPT !.path = rel] IN
            /\ row \in ImageRow /\ row.owner = images[j].owner /\ row.type = images[j].type
            /\ row.refs = images[j].refs /\ row.path = rel
    BY <1>4, <1>5 DEF ImageRow
  <2> QED  BY <1>1, <1>5, <2>1
<1>7. images' \in Seq(ImageRow)
  <2>1. images' = [j \in 1..Len(images) |-> images'[j]]
    BY <1>1, <1>5
  <2> QED  BY <1>5, <1>6, <2>1
<1>8. \A s \in cmd.todo : Known(s)' /\ SameType(s)'
  <2>1. \A s \in cmd.todo : s.id \in DOMAIN images /\ SameType(s)
    BY <1>1, <1>3 DEF TodoOK, Known
  <2>2. \A s \in cmd.todo : Known(s)'
    BY <1>1, <1>3, <1>6, <2>1, StillKnown
  <2>3. \A s \in cmd.todo : SameType(s)'
    BY <1>6, <2>1 DEF SameType
  <2> QED  BY <2>2, <2>3
<1>9. /\ cmd' = Idle \/ cmd' \in Working
      /\ cmd' # Idle => (TodoOK /\ StageOK /\ MergeOK)'
  BY <1>1, <1>2, <1>8, TodoGoesOn
<1>10. RetypingTypeOK'
  BY <1>1, <1>6, <1>7, <1>9 DEF CommandInv, RetypingTypeOK
<1>11. TypeDirectories'
  <2>1. \A j \in DOMAIN images : images'[j].path.type = images'[j].type
    <3> SUFFICES ASSUME NEW j \in DOMAIN images PROVE images'[j].path.type = images'[j].type
      OBVIOUS
    <3>1. CASE images[j].path = Image.path
      BY <1>3, <1>4, <1>5, <1>6, <3>1
    <3>2. CASE images[j].path # Image.path
      BY <1>5, <1>6, <3>2
    <3> QED  BY <3>1, <3>2
  <2> QED  BY <1>6, <2>1 DEF TypeDirectories
<1>12. OriginalsRecoverable'
  <2>1. \A j \in DOMAIN images' :
             \/ j \in DOMAIN images /\ images'[j].path = images[j].path
                                    /\ images'[j].type = images[j].type
             \/ images'[j].path \in files'
    BY <1>1, <1>4, <1>6
  <2> QED  BY <1>1, <2>1, RecoverableStays DEF CommandInv
<1> QED  BY <1>9, <1>10, <1>11, <1>12 DEF CommandInv

LEMMA KillStep ==
    ASSUME CommandInv, Kill
    PROVE  CommandInv'
BY DEF CommandInv, Kill, RetypingTypeOK, TypeDirectories, OriginalsRecoverable

LEMMA CommandInvStep == CommandInv /\ [RetypingNext]_retypingVars => CommandInv'
<1> SUFFICES ASSUME CommandInv, [RetypingNext]_retypingVars PROVE CommandInv'
  OBVIOUS
<1>1. CASE \E owner \in Owners, type \in Types, site \in Sites, name \in Names :
               Upload(owner, type, site, name)
  BY <1>1, UploadStep
<1>2. CASE \E type \in Types, key \in Keys : Sync(type, key)
  BY <1>2, SyncStep
<1>3. CASE RetypeBegin
  <2> DEFINE ids == {i \in DOMAIN images : images[i].type = From /\ images[i].refs \cap Claims # {}}
  <2>1. Begin("retype", ids) /\ ids \in SUBSET DOMAIN images /\ \A i \in ids : images[i].type = From
    BY <1>3 DEF RetypeBegin
  <2> HIDE DEF ids
  <2> QED  BY <2>1, CommandBeginStep
<1>4. CASE ProtectBegin
  <2>1. Begin("protect", DOMAIN images)
    BY <1>4 DEF ProtectBegin
  <2> QED  BY <2>1, CommandBeginStep
<1>5. CASE Command
  BY <1>5, TurnStep, MergeStep, CopyStep, SaveStageStep, RenderStep, RmtreeStep, ProtectStep, FollowStep
     DEF Command
<1>6. CASE Kill
  BY <1>6, KillStep
<1>7. CASE UNCHANGED retypingVars
  <2>1. cmd' = cmd /\ images' = images /\ files' = files /\ fresh' = fresh /\ late' = late
    BY <1>7 DEF retypingVars
  <2>2. RetypingTypeOK' /\ TypeDirectories' /\ OriginalsRecoverable'
    BY <2>1 DEF CommandInv, RetypingTypeOK, TypeDirectories, OriginalsRecoverable
  <2>3. ASSUME cmd # Idle PROVE TodoOK' /\ StageOK' /\ MergeOK'
    <3>1. TodoOK /\ StageOK /\ MergeOK
      BY <2>3 DEF CommandInv
    <3>2. TodoOK'
      BY <2>1, <3>1, RowsStand, TodoStays DEF TodoOK
    <3>3. Image' = Image /\ Target' = Target /\ Kept' = Kept
      BY <2>1, SameCurrent
    <3>4. Rel(Image)' = Rel(Image)
      BY <3>3 DEF Rel
    <3>5. StageOK' /\ MergeOK'
      BY <2>1, <3>1, <3>3, <3>4 DEF StageOK, MergeOK
    <3> QED  BY <3>2, <3>5
  <2> QED  BY <2>1, <2>2, <2>3 DEF CommandInv
<1> QED  BY <1>1, <1>2, <1>3, <1>4, <1>5, <1>6, <1>7 DEF RetypingNext

-----------------------------------------------------------------------------
(* Theorems.                                                                *)

\* The type invariant of rows, files and the command's memory, with what a
\* command keeps of its rows.
THEOREM RetypingTypeCorrect == RetypingSpec => []RetypingTypeOK
<1>1. RetypingSpec => []CommandInv
  BY CommandInvInit, CommandInvStep, PTL DEF RetypingSpec
<1>2. CommandInv => RetypingTypeOK
  BY DEF CommandInv
<1> QED  BY <1>1, <1>2, PTL

\* Whatever is uploaded and synced between the statements of `retype_images`
\* and `protect_original`, and wherever they are killed, the original of every
\* row is in storage: where its row says or where protect_original looks.  The
\* one exception is a row of the old type that came while its directories went.
THEOREM OriginalsAlwaysRecoverable == RetypingSpec => []OriginalsRecoverable
<1>1. RetypingSpec => []CommandInv
  BY CommandInvInit, CommandInvStep, PTL DEF RetypingSpec
<1>2. CommandInv => OriginalsRecoverable
  BY DEF CommandInv
<1> QED  BY <1>1, <1>2, PTL

\* Who holds a key in the rows a step leaves.
LEMMA HoldsAfter ==
    ASSUME NEW owner, NEW key,
           NEW i \in DOMAIN images', images'[i].owner = owner, key \in images'[i].refs
    PROVE  Holds(owner, key)'
BY DEF Holds

LEMMA MergeKeeps ==
    ASSUME CommandInv, Merge, NEW i \in DOMAIN images, NEW key \in images[i].refs, <<i, key>> \notin fresh
    PROVE  Holds(images[i].owner, key)'
<1>1. /\ cmd.at = "merge"
      /\ images' = [images EXCEPT ![cmd.into].refs = cmd.seen \cup Claimed, ![ImageId].refs = Kept]
  BY DEF Merge
<1>2. cmd # Idle
  BY <1>1 DEF Idle
<1>3. cmd \in Merging /\ TodoOK /\ MergeOK /\ Current \in cmd.todo
  BY <1>1, <1>2, Busy, Kinds
<1>4. /\ ImageId \in DOMAIN images /\ cmd.into \in DOMAIN images /\ ImageId # cmd.into
      /\ images[ImageId].owner = Image.owner /\ images[cmd.into].owner = Image.owner
      /\ \A k \in images[ImageId].refs : k \in Image.refs \/ <<ImageId, k>> \in fresh
      /\ \A k \in images[cmd.into].refs : k \in cmd.seen \/ <<cmd.into, k>> \in fresh
  <2>1. Known(Current) /\ images[ImageId].type = From
    BY <1>1, <1>3 DEF TodoOK, Merging, SameType, ImageId
  <2> QED  BY <1>1, <1>3, <2>1, RetypeAssumption DEF MergeOK, Known, ImageId, Image
<1>5. /\ DOMAIN images' = DOMAIN images
      /\ \A j \in DOMAIN images :
            /\ images'[j].owner = images[j].owner
            /\ images'[j].refs = IF j = ImageId THEN Kept
                                 ELSE IF j = cmd.into THEN cmd.seen \cup Claimed
                                 ELSE images[j].refs
  <2>1. images \in Seq(ImageRow) /\ images[ImageId] \in ImageRow /\ images[cmd.into] \in ImageRow
    BY <1>4 DEF CommandInv, RetypingTypeOK
  <2> QED  BY <1>1, <1>4, <2>1 DEF ImageRow
<1>6. CASE i = ImageId
  <2>1. key \in Kept \/ key \in Claimed
    BY <1>4, <1>6 DEF Kept, Claimed
  <2>2. CASE key \in Kept
    BY <1>4, <1>5, <1>6, <2>2, HoldsAfter
  <2>3. CASE key \in Claimed
    <3>1. key \in images'[cmd.into].refs
      BY <1>4, <1>5, <2>3
    <3> QED  BY <1>4, <1>5, <1>6, <3>1, HoldsAfter
  <2> QED  BY <2>1, <2>2, <2>3
<1>7. CASE i = cmd.into
  BY <1>4, <1>5, <1>7, HoldsAfter
<1>8. CASE i # ImageId /\ i # cmd.into
  BY <1>5, <1>8, HoldsAfter
<1> QED  BY <1>6, <1>7, <1>8

LEMMA CopyKeeps ==
    ASSUME CommandInv, CopyInsert, NEW i \in DOMAIN images, NEW key \in images[i].refs, <<i, key>> \notin fresh
    PROVE  Holds(images[i].owner, key)'
<1>1. CASE UNCHANGED images
  BY <1>1, HoldsAfter
<1>2. CASE images' = Append([images EXCEPT ![ImageId].refs = Kept], Target)
  <2>1. cmd.at = "copy" /\ cmd # Idle
    BY DEF CopyInsert, Idle
  <2>2. TodoOK /\ Current \in cmd.todo
    BY <2>1, Busy
  <2>3. /\ ImageId \in DOMAIN images
        /\ images[ImageId].owner = Image.owner
        /\ \A k \in images[ImageId].refs : k \in Image.refs \/ <<ImageId, k>> \in fresh
    BY <2>2 DEF TodoOK, Known, ImageId, Image
  <2>4. /\ Target \in ImageRow /\ Target.owner = Image.owner
        /\ Target.refs = IF Kept # {} THEN Claimed ELSE Image.refs
    BY <2>1, TargetIsRow
  <2>5. images \in Seq(ImageRow) /\ images[ImageId] \in ImageRow
    BY <2>3 DEF CommandInv, RetypingTypeOK
  <2>6. Image \in ImageRow
    BY <2>1, Busy
  <2>7. Kept \in SUBSET Keys
    BY <2>6 DEF Kept, ImageRow
  <2> HIDE DEF Kept, Target
  <2> DEFINE left == [images EXCEPT ![ImageId].refs = Kept]
  <2>8. /\ left \in Seq(ImageRow) /\ Len(left) = Len(images)
        /\ \A j \in DOMAIN images :
              /\ left[j].owner = images[j].owner
              /\ left[j].refs = IF j = ImageId THEN Kept ELSE images[j].refs
    <3>1. [images[ImageId] EXCEPT !.refs = Kept] \in ImageRow
      BY <2>5, <2>7 DEF ImageRow
    <3> QED  BY <2>3, <2>5, <3>1 DEF ImageRow
  <2>9. images' = Append(left, Target)
    BY <1>2
  <2> HIDE DEF left
  <2>10. /\ DOMAIN images = 1..Len(images) /\ DOMAIN images' = 1..Len(images) + 1
         /\ \A j \in DOMAIN images : images'[j] = left[j]
         /\ images'[Len(images) + 1] = Target
    BY <2>4, <2>5, <2>8, <2>9, AppendProperties
  <2>11. /\ i \in DOMAIN images' /\ Len(images) + 1 \in DOMAIN images'
         /\ images'[i].owner = images[i].owner
         /\ images'[i].refs = IF i = ImageId THEN Kept ELSE images[i].refs
    BY <2>5, <2>8, <2>10
  <2>12. CASE i = ImageId
    <3>1. key \in Kept \/ key \in Target.refs
      BY <2>3, <2>4, <2>12 DEF Kept, Claimed
    <3>2. CASE key \in Kept
      BY <2>11, <2>12, <3>2, HoldsAfter
    <3>3. CASE key \in Target.refs
      <4>1. /\ images'[Len(images) + 1].owner = images[i].owner
            /\ key \in images'[Len(images) + 1].refs
        BY <2>3, <2>4, <2>10, <2>12, <3>3
      <4> QED  BY <2>11, <4>1, HoldsAfter
    <3> QED  BY <3>1, <3>2, <3>3
  <2>13. CASE i # ImageId
    BY <2>11, <2>13, HoldsAfter
  <2> QED  BY <2>12, <2>13
<1> QED  BY <1>1, <1>2 DEF CopyInsert, Skip

LEMMA SaveKeeps ==
    ASSUME CommandInv, RetypeSave, NEW i \in DOMAIN images, NEW key \in images[i].refs, <<i, key>> \notin fresh
    PROVE  Holds(images[i].owner, key)'
<1>1. CASE UNCHANGED images
  BY <1>1, HoldsAfter
<1>2. CASE images' = [images EXCEPT ![ImageId] = Target]
  <2>1. cmd.at = "save" /\ cmd # Idle
    BY DEF RetypeSave, Idle
  <2>2. TodoOK /\ StageOK /\ Current \in cmd.todo
    BY <2>1, Busy
  <2>3. /\ ImageId \in DOMAIN images
        /\ images[ImageId].owner = Image.owner
        /\ \A k \in images[ImageId].refs : k \in Image.refs \/ <<ImageId, k>> \in fresh
    BY <2>2 DEF TodoOK, Known, ImageId, Image
  <2>4. Target.owner = Image.owner /\ Target.refs = Image.refs
    BY <2>1, <2>2, TargetIsRow DEF StageOK
  <2>5. images \in Seq(ImageRow)
    BY DEF CommandInv, RetypingTypeOK
  <2> HIDE DEF Target
  <2>6. /\ i \in DOMAIN images'
        /\ images'[i] = IF i = ImageId THEN Target ELSE images[i]
    BY <1>2, <2>3, <2>5
  <2>7. images'[i].owner = images[i].owner /\ key \in images'[i].refs
    BY <2>3, <2>4, <2>6
  <2> QED  BY <2>6, <2>7, HoldsAfter
<1> QED  BY <1>1, <1>2 DEF RetypeSave, Skip

\* Steps that move originals keep every key on its row.
LEMMA PathsKeep ==
    ASSUME CommandInv, NEW i \in DOMAIN images, NEW key \in images[i].refs,
           Turn \/ Render \/ Rmtree \/ Protect \/ ProtectFollow
    PROVE  Holds(images[i].owner, key)'
<1>1. images \in Seq(ImageRow) /\ images[i] \in ImageRow
  BY DEF CommandInv, RetypingTypeOK
<1>2. CASE UNCHANGED images
  BY <1>2, HoldsAfter
<1>3. CASE \E path : images' = [images EXCEPT ![ImageId].path = path]
  <2>1. i \in DOMAIN images' /\ images'[i].owner = images[i].owner /\ images'[i].refs = images[i].refs
    BY <1>1, <1>3 DEF ImageRow
  <2> QED  BY <2>1, HoldsAfter
<1>4. CASE ProtectFollow
  <2>1. i \in DOMAIN images' /\ images'[i].owner = images[i].owner /\ images'[i].refs = images[i].refs
    BY <1>1, <1>4 DEF ProtectFollow, ImageRow
  <2> QED  BY <2>1, HoldsAfter
<1>5. Turn \/ Render \/ Rmtree => UNCHANGED images
  BY DEF Turn, Render, Rmtree, Skip
<1>6. Protect => UNCHANGED images \/ \E path : images' = [images EXCEPT ![ImageId].path = path]
  BY DEF Protect, Skip
<1> QED  BY <1>2, <1>3, <1>4, <1>5, <1>6

\* A command lets no key go: after each of its steps, every key is still held
\* by a row of the owner who held it, but for one attached after the command
\* read its rows.
THEOREM RetypeAlwaysKeepsRead == RetypingSpec => RetypeKeepsRead
<1> DEFINE Step == Command => \A i \in DOMAIN images : \A key \in images[i].refs :
                       <<i, key>> \in fresh \/ Holds(images[i].owner, key)'
<1>1. RetypingSpec => []CommandInv
  BY CommandInvInit, CommandInvStep, PTL DEF RetypingSpec
<1>2. CommandInv /\ [RetypingNext]_retypingVars => [Step]_retypingVars
  <2> SUFFICES ASSUME CommandInv, Command, NEW i \in DOMAIN images, NEW key \in images[i].refs,
                      <<i, key>> \notin fresh
               PROVE  Holds(images[i].owner, key)'
    OBVIOUS
  <2> QED  BY MergeKeeps, CopyKeeps, SaveKeeps, PathsKeep DEF Command
<1>3. RetypingSpec => [][RetypingNext]_retypingVars
  BY PTL DEF RetypingSpec
<1> QED  BY <1>1, <1>2, <1>3, PTL DEF RetypeKeepsRead
=============================================================================
