------------------------------ MODULE Retyping ------------------------------
(***************************************************************************)
(* The rows and files of one image content while an operator moves things  *)
(* about: `retype_images` from one asset type to another, and              *)
(* `regenerate_media --protect-originals`.  Both read their rows first and *)
(* write them one by one, with uploads and reference syncs in between and  *)
(* the process killed anywhere; both are run again.                        *)
(***************************************************************************)
EXTENDS Integers, Sequences, FiniteSetsExt

CONSTANTS Owners, Names,
          From, To,          \* --from and --to
          Claims, OtherKeys, \* keys that start with --claimed-by; other keys
          SiteKey,           \* --site-key, for rows that have none
          Watermarked,       \* <<type, site>> that has a watermark
          ImageTables,       \* tables to begin with
          MaxRows, MaxRuns, MaxSyncs   \* bounds: rows stored, commands run, syncs

VARIABLES images, files, cmd, runs, syncs,
          fresh,    \* history: keys attached to a row since the command began
          late      \* history: rows that came between a check and its rmtree
retypingVars == <<images, files, cmd, runs, syncs, fresh, late>>

Types == {From, To}
Keys == Claims \cup OtherKeys
NoSite == ""
Sites == {NoSite, SiteKey}

\* A stored path: the public or the protected tree, the type's directory (the
\* hash is the same for all), the name.
StoredPath == [tree : {"public", "protected"}, type : Types, name : Names]
At(tree, type, name) == [tree |-> tree, type |-> type, name |-> name]

ImageRow == [type : Types, owner : Owners, site : Sites, refs : SUBSET Keys,
             path : StoredPath]

ASSUME RetypeAssumption == From # To
ASSUME ImageTablesAssumption ==
    \A table \in ImageTables : /\ table \in Seq(ImageRow)
                               /\ \A i \in DOMAIN table : table[i].path.type = table[i].type

\* `watermark_spec_for` and `image_upload_path`.
WatermarkSpecFor(type, site) == <<type, site>> \in Watermarked
ImageUploadPath(type, site, name) ==
    At(IF WatermarkSpecFor(type, site) THEN "protected" ELSE "public", type, name)

NewRow(type, owner, site, refs, name) ==
    [type |-> type, owner |-> owner, site |-> site, refs |-> refs,
     path |-> ImageUploadPath(type, site, name)]

Idle == [at |-> "idle"]

RetypingInit ==
    /\ images \in ImageTables
    /\ files = {images[i].path : i \in DOMAIN images}
    /\ cmd = Idle
    /\ runs = 0
    /\ syncs = 0
    /\ fresh = {}
    /\ late = {}

RowsOf(type, owner) == {i \in DOMAIN images : images[i].type = type /\ images[i].owner = owner}

-----------------------------------------------------------------------------
(* Meanwhile.                                                               *)

\* The row is of the site the request came to, if the deployment knows it; the
\* original of a site with a watermark goes to the protected tree at once.
\* OverwriteStorage: a name there is already is written over.
Upload(owner, type, site, name) ==
    LET row == NewRow(type, owner, site, {}, name)
    IN  /\ RowsOf(type, owner) = {}
        /\ Len(images) < MaxRows
        /\ images' = Append(images, row)
        /\ files' = files \cup {row.path}
        /\ late' = IF cmd.at = "rmtree" /\ type = From THEN late \cup {Len(images')} ELSE late
        /\ UNCHANGED <<cmd, runs, syncs, fresh>>

\* A ref names a type and the hash; the oldest row of the type carries it.
Carrier(type) == Min({i \in DOMAIN images : images[i].type = type})

Sync(type, key) ==
    LET i == Carrier(type)
        attach == key \notin images[i].refs
    IN  /\ syncs < MaxSyncs
        /\ \E j \in DOMAIN images : images[j].type = type
        /\ images' = [images EXCEPT ![i].refs = IF attach THEN @ \cup {key} ELSE @ \ {key}]
        /\ fresh' = IF cmd = Idle THEN {}
                    ELSE IF attach THEN fresh \cup {<<i, key>>} ELSE fresh
        /\ syncs' = syncs + 1
        /\ UNCHANGED <<files, cmd, runs, late>>

-----------------------------------------------------------------------------
(* retype_images                                                            *)

Snapshots(ids) == {[id |-> i, row |-> images[i]] : i \in ids}

\* `todo` holds the snapshots that are left; they are visited by key.
Turning(kind, todo) == [at |-> "turn", kind |-> kind, todo |-> todo]

\* All rows are read before the first is touched.
Begin(kind, ids) ==
    /\ cmd = Idle /\ runs < MaxRuns
    /\ ids # {}
    /\ runs' = runs + 1
    /\ cmd' = Turning(kind, Snapshots(ids))
    /\ fresh' = {}
    /\ UNCHANGED <<images, files, syncs, late>>

RetypeBegin ==
    Begin("retype", {i \in DOMAIN images : images[i].type = From /\ images[i].refs \cap Claims # {}})

Current == CHOOSE s \in cmd.todo : \A t \in cmd.todo : s.id <= t.id
Image   == Current.row
ImageId == Current.id
Claimed == Image.refs \cap Claims
Kept    == Image.refs \ Claims

\* A row done with, or one that failed: the sweep goes on with the next.
NextImage ==
    LET left == cmd.todo \ {Current}
    IN  cmd' = IF left = {} THEN Idle ELSE Turning(cmd.kind, left)
Skip == NextImage /\ UNCHANGED <<images, files>>

Existing == RowsOf(To, Image.owner) \ {ImageId}

\* The row as it will be under the new type; its name is the basename.
Target == NewRow(To, Image.owner, IF Image.site = NoSite THEN SiteKey ELSE Image.site,
                 IF Kept # {} THEN Claimed ELSE Image.refs, Image.path.name)

\* `_mode`; then a merge reads its target, the others copy the original.
Turn ==
    /\ cmd.at = "turn" /\ cmd.kind = "retype"
    /\ \/ /\ Existing # {}
          /\ \E i \in Existing :
                cmd' = [at |-> "merge", kind |-> "retype", todo |-> cmd.todo,
                        into |-> i, seen |-> images[i].refs]
          /\ UNCHANGED <<images, files>>
       \/ /\ Existing = {} /\ Image.path \in files
          /\ files' = files \cup {Target.path}
          /\ cmd' = [cmd EXCEPT !.at = IF Kept # {} THEN "copy" ELSE "save"]
          /\ UNCHANGED images
       \/ /\ Existing = {} /\ Image.path \notin files
          /\ Skip
    /\ UNCHANGED <<runs, syncs, fresh, late>>

\* Mutant of Merge: the target's own refs are left out.
MergeForgetsTarget ==
    /\ cmd.at = "merge"
    /\ images' = [images EXCEPT ![cmd.into].refs = Claimed, ![ImageId].refs = Kept]
    /\ NextImage
    /\ UNCHANGED <<files, runs, syncs, fresh, late>>

\* One transaction, of values read before it.
Merge ==
    /\ cmd.at = "merge"
    /\ images' = [images EXCEPT ![cmd.into].refs = cmd.seen \cup Claimed, ![ImageId].refs = Kept]
    /\ NextImage
    /\ UNCHANGED <<files, runs, syncs, fresh, late>>

\* An upload may have taken the (hash, type, owner) the row is for.
Conflict == RowsOf(To, Image.owner) # {}

CopyInsert ==
    /\ cmd.at = "copy"
    /\ IF Conflict THEN Skip
       ELSE /\ Len(images) < MaxRows
            /\ images' = Append([images EXCEPT ![ImageId].refs = Kept], Target)
            /\ cmd' = [cmd EXCEPT !.at = "render"]
            /\ UNCHANGED files
    /\ UNCHANGED <<runs, syncs, fresh, late>>

\* A save of all columns, the refs among them as they were read.
RetypeSave ==
    /\ cmd.at = "save"
    /\ IF Conflict THEN Skip
       ELSE /\ images' = [images EXCEPT ![ImageId] = Target]
            /\ cmd' = [cmd EXCEPT !.at = "render"]
            /\ UNCHANGED files
    /\ UNCHANGED <<runs, syncs, fresh, late>>

\* Mutant of OldTypeHeld: only the owner's own rows count.
OldTypeHeldByOwner == RowsOf(From, Image.owner) # {}

OldTypeHeld == \E i \in DOMAIN images : images[i].type = From

\* `process_image` reads the copied original, or fails; after a retype the old
\* directories go unless a row of the old type is left.
Render ==
    /\ cmd.at = "render"
    /\ \/ Kept = {} /\ Target.path \in files /\ ~OldTypeHeld
            /\ cmd' = [cmd EXCEPT !.at = "rmtree"]
       \/ NextImage
    /\ UNCHANGED <<images, files, runs, syncs, fresh, late>>

Rmtree ==
    /\ cmd.at = "rmtree"
    /\ files' = {f \in files : f.type # From}
    /\ NextImage
    /\ UNCHANGED <<images, runs, syncs, fresh, late>>

-----------------------------------------------------------------------------
(* protect_original, of every image its site watermarks                     *)

ProtectBegin == Begin("protect", DOMAIN images)

Rel(image) == At("protected", image.type, image.path.name)

Protect ==
    /\ cmd.at = "turn" /\ cmd.kind = "protect"
    /\ LET rel == Rel(Image)
           due == WatermarkSpecFor(Image.type, Image.site) /\ Image.path.tree = "public"
           there == Image.path \in files
       IN  \/ /\ due /\ there
              /\ files' = (files \ {Image.path}) \cup {rel}
              /\ cmd' = [cmd EXCEPT !.at = "follow"]
              /\ UNCHANGED images
           \/ /\ due /\ ~there /\ rel \in files   \* a sibling moved it already
              /\ images' = [images EXCEPT ![ImageId].path = rel]
              /\ NextImage
              /\ UNCHANGED files
           \/ (~due \/ (~there /\ rel \notin files)) /\ Skip
    /\ UNCHANGED <<runs, syncs, fresh, late>>

\* Every row that still names the old path follows.
ProtectFollow ==
    /\ cmd.at = "follow"
    /\ images' = [i \in DOMAIN images |->
                  IF images[i].path = Image.path THEN [images[i] EXCEPT !.path = Rel(Image)] ELSE images[i]]
    /\ NextImage
    /\ UNCHANGED <<files, runs, syncs, fresh, late>>

\* Between any two statements.
Kill == /\ cmd # Idle
        /\ cmd' = Idle
        /\ UNCHANGED <<images, files, runs, syncs, fresh, late>>

Command == Turn \/ Merge \/ CopyInsert \/ RetypeSave \/ Render \/ Rmtree \/ Protect \/ ProtectFollow

RetypingNext ==
    \/ \E owner \in Owners, type \in Types, site \in Sites, name \in Names :
          Upload(owner, type, site, name)
    \/ \E type \in Types, key \in Keys : Sync(type, key)
    \/ RetypeBegin \/ ProtectBegin \/ Command \/ Kill

RetypingSpec == RetypingInit /\ [][RetypingNext]_retypingVars

-----------------------------------------------------------------------------
\* What a command keeps in its memory.
Snapshot == [id : Nat, row : ImageRow]
Working == [at : {"turn", "copy", "save", "render", "rmtree", "follow"},
            kind : {"retype", "protect"}, todo : SUBSET Snapshot]
Merging == [at : {"merge"}, kind : {"retype"}, todo : SUBSET Snapshot,
            into : Nat, seen : SUBSET Keys]

RetypingTypeOK ==
    /\ images \in Seq(ImageRow)
    /\ files \subseteq StoredPath
    /\ cmd = Idle \/ cmd \in Working \/ cmd \in Merging
    /\ fresh \subseteq (DOMAIN images) \X Keys /\ late \subseteq DOMAIN images

Holds(owner, key) == \E i \in DOMAIN images : images[i].owner = owner /\ key \in images[i].refs

\* A command moves keys between an owner's rows of the content but lets none
\* go: every key is still held after its step, but for one attached since the
\* command read its rows, which a stale write may overwrite.
RetypeKeepsRead ==
    [][Command => \A i \in DOMAIN images : \A key \in images[i].refs :
                     <<i, key>> \in fresh \/ Holds(images[i].owner, key)']_retypingVars

\* The original of every row is where the row says, or where protect_original
\* would have moved it to, so that a run of it mends the row (of a row without a
\* site: a run with --assign-site); not so for a row that came after the old type
\* was found empty and before its directories went.
OriginalsRecoverable ==
    \A i \in DOMAIN images \ late : images[i].path \in files \/ Rel(images[i]) \in files
=============================================================================
