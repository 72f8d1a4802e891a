---------------------------- MODULE UploadDoors ----------------------------
(***************************************************************************)
(* Every door by which media comes in (the six upload views and the        *)
(* storing half of cdn.import_from_url), what each asks of the bytes, the  *)
(* row it writes, and the read endpoints that answer about those rows.     *)
(* One request runs at a time: what two do to each other is MediaRaces.    *)
(***************************************************************************)
EXTENDS Integers, Sequences, FiniteSetsExt, NameBounds

CONSTANTS Users, Guests, Pool,      \* owners; Pool is the NULL of imports
          Deployments,              \* settings and builds to look at
          Parts,                    \* file parts a client may send
          Fetched,                  \* bodies an import may bring
          MaxSize, IMPORT_FROM_URL_MAX_BYTES, MAX_IMAGE_PIXELS,
          Allowed, AllowedMime,     \* extensions of each media; types of files
          NameLimit, PathLimit, PrefixLength,   \* columns and path prefixes
          DefaultObjects, DefaultBytes,         \* the shipped ceilings
          DESCRIBE_MANY_LIMIT,
          MaxRows                   \* bound: rows stored

VARIABLES conf, rows, reply
doorsVars == <<conf, rows, reply>>

MediaOf(door) == IF door \in {"image", "typed", "avatar"} THEN "image" ELSE door

\* A body is what the bytes are: the format of their signature, "markup" or
\* "opaque"; size and pixels; whether the pixels decode to the end.  It stands
\* for its own hash.
ImageForms == {".jpg", ".heic", ".bmp"}
Body == [form : ImageForms \cup {"markup", "opaque"},
         size : Nat, pixels : Nat, whole : BOOLEAN]

\* What a client writes beside the bytes: extension, Content-Type, stem.
Part == [body : Body, ext : STRING, mime : STRING, stem : Nat]

\* A deployment: asset types, DEFAULT_UPLOAD_TYPE ("" for none), the formats its
\* libvips reads ({} without libvips), REQUIRE_DECODER, DEDUP_SCOPE and the two
\* ceilings as written: <<>> is "unlimited", <<n>> anything else, 0 for what is
\* not a number.
Owners == Users \cup Guests \cup {Pool}

Limits == (Nat \ {0}) \cup {NoLimit}

\* What the settings, the columns and the callers may be: users, guests and the
\* pool are told apart, sizes and limits are numbers.
ASSUME SettingsAssumption ==
    /\ Users \cap Guests = {} /\ Pool \notin Users \cup Guests
    /\ Parts \subseteq Part /\ Fetched \subseteq Body
    /\ MAX_IMAGE_PIXELS \in Nat /\ IMPORT_FROM_URL_MAX_BYTES \in Nat
    /\ MaxSize \in [{"image", "video", "audio", "file"} -> Nat]
    /\ PrefixLength \in [{"image", "video", "audio", "file"} -> Nat]
    /\ NameLimit \in Limits /\ PathLimit \in Limits
    /\ MaxRows \in Nat /\ DefaultObjects \in Nat /\ DefaultBytes \in Nat
    /\ \A ext \in ImageForms \cup {part.ext : part \in Parts} : Len(ext) \in Nat
    /\ \A d \in Deployments : /\ d.objects \in Seq(Int) /\ Len(d.objects) <= 1
                              /\ d.bytes \in Seq(Int) /\ Len(d.bytes) <= 1

-----------------------------------------------------------------------------
(* The gates.  Each is a list of tests in the order of the code: the first  *)
(* that fires decides.                                                      *)

FirstOf(tests) ==
    LET fired == {i \in DOMAIN tests : tests[i][1]}
    IN  IF fired = {} THEN "ok" ELSE tests[Min(fired)][2]

Sniff(body) == IF body.form \in ImageForms THEN body.form ELSE "none"

SniffIsActiveContent(body) == body.form = "markup"

\* `undecodable_allowed_extensions`: advertised, known, and not in this build.
Undecodable ==
    IF conf.decodes = {} THEN {}
    ELSE (Allowed["image"] \cap ImageForms) \ conf.decodes

DecodeDimensions(body, ext, verify) ==
    FirstOf(<< <<conf.decodes = {},                "no_decoder">>,
               <<ext \in Undecodable,              "unavailable">>,
               <<body.form \notin conf.decodes,    "invalid">>,
               <<body.pixels > MAX_IMAGE_PIXELS,   "invalid">>,
               <<verify /\ ~body.whole,            "invalid">> >>)

ValidateImageFile(body, ext) ==
    LET decoded == DecodeDimensions(body, ext, FALSE)
    IN  FirstOf(<< <<ext \notin Allowed["image"],                     "invalid">>,
                   <<decoded \in {"unavailable", "invalid"},          decoded>>,
                   <<decoded = "no_decoder" /\ conf.require,          "unavailable">>,
                   <<decoded = "no_decoder" /\ Sniff(body) = "none",  "invalid">> >>)

ValidateImageUpload(part) ==
    LET valid == ValidateImageFile(part.body, part.ext)
    IN  FirstOf(<< <<part.body.size > MaxSize["image"],      "413">>,
                   <<part.ext \notin Allowed["image"],       "400 format">>,
                   <<valid = "unavailable",                  "503">>,
                   <<valid = "invalid",                      "400 format">> >>)

\* Mutant of ValidateClipUpload: the bytes are not looked at.
ValidateClipByName(media, part) ==
    FirstOf(<< <<part.body.size > MaxSize[media],   "413">>,
               <<part.ext \notin Allowed[media],    "400 format">> >>)

\* `_validate_video_upload` and `_validate_audio_upload`.
ValidateClipUpload(media, part) ==
    FirstOf(<< <<part.body.size > MaxSize[media],            "413">>,
               <<part.ext \notin Allowed[media],             "400 format">>,
               <<SniffIsActiveContent(part.body),            "400 type">> >>)

ValidateFileUpload(part) ==
    FirstOf(<< <<part.body.size > MaxSize["file"],           "400 format">>,
               <<part.ext \notin Allowed["file"],            "400 format">>,
               <<part.mime \notin AllowedMime,               "400 format">>,
               <<SniffIsActiveContent(part.body),            "400 type">> >>)

Validate(door, part) ==
    CASE MediaOf(door) = "image"  -> ValidateImageUpload(part)
      [] door \in {"video", "audio"} -> ValidateClipUpload(door, part)
      [] door = "file"            -> ValidateFileUpload(part)

\* `detect_image_extension`: the extension comes from the bytes.
DetectImageExtension(body) ==
    FirstOf(<< <<Sniff(body) = "none",                       "not_an_image">>,
               <<Sniff(body) \notin Allowed["image"],        "unsupported">>,
               <<DecodeDimensions(body, Sniff(body), TRUE) = "unavailable", "unsupported">>,
               <<DecodeDimensions(body, Sniff(body), TRUE) = "invalid", "not_an_image">> >>)

-----------------------------------------------------------------------------
(* Whose request, and which type.                                           *)

Permitted(door) == IF door = "avatar" THEN Users \cup Guests ELSE Users

\* The type an image is stored under; the type of other media is its prefix.
DefaultUploadType ==
    IF conf.default # "" THEN conf.default
    ELSE IF Cardinality(conf.types) = 1 THEN CHOOSE t \in conf.types : TRUE ELSE ""

UploadType(door, asked) ==
    CASE door = "image" -> IF asked # "" THEN asked ELSE DefaultUploadType
      [] door = "typed" -> asked
      [] OTHER          -> door

TypeVerdict(door, asked) ==
    FirstOf(<< <<door = "image" /\ UploadType(door, asked) = "", "400 type required">>,
               <<door \in {"image", "typed"} /\ UploadType(door, asked) \notin conf.types,
                 "400 image type">> >>)

-----------------------------------------------------------------------------
(* Dedup and quota.                                                         *)

\* `dedup_scope_q` and `service_scope_q`: the rows an owner's lookup may see.
Visible(owner) ==
    {i \in DOMAIN rows : conf.scope = "global" \/ rows[i].owner = owner}

Existing(owner, type, body) ==
    {i \in Visible(owner) : rows[i].type = type /\ rows[i].body = body}

\* `quota_ceiling`: only "unlimited" lifts it, nonsense falls back.
NoCeiling == -1
QuotaCeiling(raw, default) ==
    IF raw = <<>> THEN NoCeiling ELSE IF raw[1] > 0 THEN raw[1] ELSE default

\* Mutant of OwnerRows: recordings are not counted.
OwnerRowsButAudio(owner) ==
    {i \in DOMAIN rows : rows[i].owner = owner /\ rows[i].media # "audio"}

OwnerRows(owner) == {i \in DOMAIN rows : rows[i].owner = owner}
TotalBytes(stored, S) == SumFunctionOnSet([i \in DOMAIN stored |-> stored[i].body.size], S)
UsedBytes(owner) == TotalBytes(rows, OwnerRows(owner))

Over(ceiling, used) == ceiling # NoCeiling /\ used > ceiling

QuotaExceeded(owner, incoming) ==
    \/ Over(QuotaCeiling(conf.objects, DefaultObjects), Cardinality(OwnerRows(owner)) + 1)
    \/ Over(QuotaCeiling(conf.bytes, DefaultBytes), UsedBytes(owner) + incoming)

-----------------------------------------------------------------------------
(* Writing.                                                                 *)

\* Mutant of Dimensions: the decoder is sent to a path not written yet.
DimensionsOfPath(media, body, ext) == IF media = "image" THEN "placeholder" ELSE "none"

\* `save` of a new image asks the decoder again, for its dimensions.
Dimensions(media, body, ext) ==
    IF media # "image" THEN "none"
    ELSE IF DecodeDimensions(body, ext, FALSE) = "ok" THEN "real" ELSE "placeholder"

NewRow(owner, type, media, body, ext, stem) ==
    LET name == [stem |-> stem, ext |-> Len(ext)]
    IN  [media |-> media, type |-> type, owner |-> owner, body |-> body,
         name |-> FitFilename(NameLimit, name),
         path |-> FitStoredName(PrefixLength[media], PathLimit, name),
         dims |-> Dimensions(media, body, ext)]

Answer(code, row) == reply' = [code |-> code, row |-> row]

Refuse(code) == Answer(code, 0) /\ UNCHANGED rows

\* The row an owner already has (the newest, as the table is ordered), or a
\* refusal, or the row written.
Keep(owner, type, row, over) ==
    LET existing == Existing(owner, type, row.body)
    IN  IF existing # {}
        THEN Answer("200", Max(existing)) /\ UNCHANGED rows
        ELSE IF over THEN Refuse("403 quota")
        ELSE IF NoRoom(PrefixLength[row.media], PathLimit) THEN Refuse("500")
        ELSE /\ Len(rows) < MaxRows
             /\ rows' = Append(rows, row)
             /\ Answer("201", Len(rows) + 1)

-----------------------------------------------------------------------------
NoReply == [code |-> "", row |-> 0]

DoorsInit ==
    /\ conf \in Deployments
    /\ rows = <<>>
    /\ reply = NoReply

\* What `post` does in each of the six upload views.
Post(door, caller, asked, part) ==
    LET type == UploadType(door, asked)
        verdict == FirstOf(<< <<caller \notin Permitted(door), "403">>,
                              <<TypeVerdict(door, asked) # "ok", TypeVerdict(door, asked)>>,
                              <<Validate(door, part) # "ok", Validate(door, part)>> >>)
        row == NewRow(caller, type, MediaOf(door), part.body, part.ext, part.stem)
    IN  /\ UNCHANGED conf
        /\ IF verdict # "ok" THEN Refuse(verdict)
           ELSE Keep(caller, type, row, QuotaExceeded(caller, part.body.size))

ImageUpload(caller, asked, part) == Post("image", caller, asked, part)
TypedUpload(caller, asked, part) == Post("typed", caller, asked, part)
AvatarUpload(caller, part) == Post("avatar", caller, "", part)
VideoUpload(caller, part) == Post("video", caller, "", part)
AudioUpload(caller, part) == Post("audio", caller, "", part)
FileUpload(caller, part) == Post("file", caller, "", part)

\* `import_from_url` once the bytes are fetched; the pool has no quota, and the
\* name is import_<16 of the hash>.
ImportStem == 23

StoreImport(type, body) ==
    LET verdict == FirstOf(<< <<type \notin conf.types, "invalid_image_type">>,
                              <<DetectImageExtension(body) # "ok", DetectImageExtension(body)>> >>)
        ext == Sniff(body)
        row == NewRow(Pool, type, "image", body, ext, ImportStem)
    IN  /\ body.size <= IMPORT_FROM_URL_MAX_BYTES
        /\ UNCHANGED conf
        /\ IF verdict # "ok" THEN Refuse(verdict)
           ELSE IF Existing(Pool, type, body) = {} /\ ValidateImageFile(body, ext) # "ok"
           THEN Refuse("invalid_image_file")
           ELSE Keep(Pool, type, row, FALSE)

\* Mutant of Kinds: recordings are not asked about.
KindsBeforeAudio == <<"image", "video", "file">>

\* `_exists_response`: the kinds are asked in turn, each for the caller's rows.
Kinds == <<"image", "video", "audio", "file">>

Held(caller, media, body) ==
    {i \in DOMAIN rows :
        rows[i].owner = caller /\ rows[i].media = media /\ rows[i].body = body}

ExistsAs(caller, body) ==
    FirstOf([k \in DOMAIN Kinds |-> <<Held(caller, Kinds[k], body) # {}, Kinds[k]>>])

FileExists(caller, body) ==
    LET media == ExistsAs(caller, body)
    IN  /\ Answer(media, IF media = "ok" THEN 0 ELSE Max(Held(caller, media, body)))
        /\ UNCHANGED <<conf, rows>>

\* Mutant of ResolvedMedia: recordings have no prefix (the copy in views.py).
ResolvedMediaOfViews(ref) ==
    CASE ref.type \in conf.types -> "image"
      [] ref.type \in {"video", "file"} -> ref.type
      [] OTHER -> "none"

\* A ref names a type and a content.  `_batch_resolve_media`: the types of the
\* deployment are images, three prefixes are reserved, the oldest row answers.
Ref(row) == [type |-> row.type, body |-> row.body]

ResolvedMedia(ref) ==
    CASE ref.type \in conf.types -> "image"
      [] ref.type \in {"video", "file", "audio"} -> ref.type
      [] OTHER -> "none"

Resolve(ref) ==
    {i \in DOMAIN rows :
        /\ rows[i].media = ResolvedMedia(ref)
        /\ rows[i].type = ref.type
        /\ rows[i].body = ref.body}

\* `describe_refs`: a set has no duplicates; a ref that is missing is data.
DescribeRefs(refs) ==
    LET items == {ref \in refs : Resolve(ref) # {}}
    IN  IF Cardinality(refs) > DESCRIBE_MANY_LIMIT THEN "400 too many"
        ELSE IF items = refs THEN "200" ELSE "200 missing"

Describe(refs) == Answer(DescribeRefs(refs), 0) /\ UNCHANGED <<conf, rows>>

\* `RandomImageView.get`: any image of the type that is processed, or 404.  Which
\* images the passes have processed by now is theirs to say (ImagePipeline).
RandomImage(type, processed) ==
    LET found == {i \in processed : rows[i].type = type /\ rows[i].media = "image"}
    IN  /\ IF type \notin conf.types THEN Answer("400 image type", 0)
           ELSE IF found = {} THEN Answer("404", 0)
           ELSE \E i \in found : Answer("200", i)
        /\ UNCHANGED <<conf, rows>>

NoSuchRef == [type |-> "", body |-> CHOOSE body \in Fetched : TRUE]

AskedTypes == (UNION {d.types : d \in Deployments}) \cup {""}

Handle ==
    \/ \E caller \in Users \cup Guests, part \in Parts, asked \in AskedTypes :
          \/ ImageUpload(caller, asked, part)
          \/ TypedUpload(caller, asked, part)
    \/ \E caller \in Users \cup Guests, part \in Parts :
          \/ AvatarUpload(caller, part)
          \/ VideoUpload(caller, part)
          \/ AudioUpload(caller, part)
          \/ FileUpload(caller, part)
    \/ \E type \in AskedTypes, body \in Fetched : StoreImport(type, body)
    \/ \E caller \in Users \cup Guests, body \in {part.body : part \in Parts} :
          FileExists(caller, body)
    \/ \E refs \in SUBSET ({Ref(rows[i]) : i \in DOMAIN rows} \cup {NoSuchRef}) : Describe(refs)
    \/ \E type \in AskedTypes, processed \in SUBSET (DOMAIN rows) : RandomImage(type, processed)

\* The answer goes out, and the next request comes.
Respond == /\ reply # NoReply
           /\ reply' = NoReply
           /\ UNCHANGED <<conf, rows>>

DoorsNext == (reply = NoReply /\ Handle) \/ Respond

DoorsSpec == DoorsInit /\ [][DoorsNext]_doorsVars

-----------------------------------------------------------------------------
StoredTypes == AskedTypes \cup {"avatar", "video", "audio", "file"}

Row == [media : {"image", "video", "audio", "file"}, owner : Owners,
        type : StoredTypes,
        body : {part.body : part \in Parts} \cup Fetched,
        name : Name, path : Name, dims : {"none", "real", "placeholder"}]

DoorsTypeOK ==
    /\ conf \in Deployments
    /\ Len(rows) <= MaxRows
    /\ \A i \in DOMAIN rows : rows[i] \in Row
    /\ reply.row \in 0..Len(rows)

\* Whichever door bytes came by, the media they are kept as is one they may be:
\* within its size, decoded by this deployment's own decoder or, where it has
\* none and says so, signed as an image; never markup under a media that is
\* served as it is; and a guest owns nothing but avatars.
Vetted(row) ==
    /\ row.body.size <= IF row.owner = Pool THEN IMPORT_FROM_URL_MAX_BYTES ELSE MaxSize[row.media]
    /\ row.media = "image" =>
          IF conf.decodes = {} THEN ~conf.require /\ Sniff(row.body) # "none"
          ELSE row.body.form \in conf.decodes /\ row.body.pixels <= MAX_IMAGE_PIXELS
    /\ row.media # "image" => row.body.form # "markup"
    /\ row.owner = Pool /\ conf.decodes # {} => row.body.whole
    /\ row.owner \in Guests => row.type = "avatar"

StoredIsVetted == \A i \in DOMAIN rows : Vetted(rows[i])

\* The gate and `Image.save` ask the same decoder about the same extension, so
\* the 1x1 placeholder is stored by a deployment without one and by no other.
DimensionsAreReal ==
    \A i \in DOMAIN rows : rows[i].dims = "placeholder" => conf.decodes = {}

\* No owner is ever past a ceiling, whatever the settings say but "unlimited":
\* over all media together, and a duplicate costs nothing.
QuotaHolds ==
    \A owner \in Users \cup Guests :
       LET mine == {i \in DOMAIN rows : rows[i].owner = owner}
       IN  /\ conf.objects # <<>> =>
                 Cardinality(mine) <= IF conf.objects[1] > 0 THEN conf.objects[1]
                                      ELSE DefaultObjects
           /\ conf.bytes # <<>> =>
                 TotalBytes(rows, mine) <= IF conf.bytes[1] > 0 THEN conf.bytes[1]
                                           ELSE DefaultBytes

\* The ref of every row stored is one that describe and ref sync resolve, to a
\* row of the same content, in a deployment whose types have the avatar the
\* avatar door stores and none of the prefixes of other media (no boot check
\* asks for either).
RefPrefixesApart == "avatar" \in conf.types /\ conf.types \cap {"video", "audio", "file"} = {}

RefsResolve ==
    RefPrefixesApart => \A i \in DOMAIN rows : \E j \in Resolve(Ref(rows[i])) : j <= i

\* What an upload would answer "already exists" for, the check that precedes
\* uploads says exists (in the default scope: only there are both about the
\* caller's own rows).
ExistsBeforeUpload ==
    conf.scope = "owner" =>
      \A caller \in Users, type \in StoredTypes, part \in Parts :
         Existing(caller, type, part.body) # {} => ExistsAs(caller, part.body) # "ok"
=============================================================================
