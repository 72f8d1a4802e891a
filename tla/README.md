# Verification of stapel-cdn

TLA+ models of the CDN app (a Django application: media rows, content-addressed
files, reference tracking, erasure, an asynchronous image pipeline), the TLC
instances that check them and the TLAPS proofs about them. Paths and lines are
those of the repository.

## 1. The system

| Part | State it keeps | Operations | Talks to |
|---|---|---|---|
| Media rows (`models.py`) | one table each for Image, Video, File, Audio: `file_hash`, `uploaded_by`, `refs`, `unreferenced_since`, processing columns; two uniqueness constraints per table | create, save, delete, post_save signals | everything below |
| Storage (`storage.py`, paths in `models.py:73-117`) | originals at `<type>/<hash>/<name>`, variants beside them | write (overwrites), unlink | intake, erasure, pipeline |
| Intake (`views.py`, `ownership.py`, `functions.py:203`) | none of its own | six upload views, `cdn.import_from_url`: dedup lookup, quota, create | rows, storage |
| Reference sync (`services.apply_ref_sync`; HTTP, comm function, bus event) | `refs`, `unreferenced_since` | move one `<service>/<type>/<id>` key from old to new media refs, in one transaction with row locks | rows |
| Sweeper (`services.sweep_unclaimed`; beat, command) | none | destroy zero-ref rows past the TTL | rows, storage |
| Erasure (`erasure.py`, `gdpr.py`) | none | account, file, entity; grace-period purge | rows, storage, the receipt transaction of the core |
| Account life cycle (`actions.py`) | none | `user.deletion_initiated`, `user.merged` | rows |
| Image pipeline (`tasks.py`, `services.py:72-480`, `admin.py:243-310`, `regenerate_media`, `backfill.py`) | `is_processed`, `variants_ready_at`, `variants_meta`, the variant files, the Celery queues | enqueue, thumbnails, previews, retry, regenerate | rows, storage, broker |
| Reference events (`intake.py`, `consume_cdn_events`) | the consumer's offset in the bus | apply `cdn.ref.sync`, commit | `apply_ref_sync` |
| Video and audio passes (`services.py:483-760`, `probes.py`, `tasks.py:139-299`, `backfill.py`) | `is_processed`, `duration`, `preview_b64`, `has_poster`, `meta_reason` | one pass each, beat, backfill | ffmpeg, libvips, rows |
| Protected originals, retyping (`protected.py`, `retype_images`, `regenerate_media --protect-originals`) | `original`, `type`, `refs` | move, merge, copy, retype | rows, storage |
| Outbound fetch (`fetch.py`) | a counter per caller in the shared cache | rate limit, resolve, connect, redirect, read | DNS, servers, intake |
| Upload speed limiter (`upload_handlers.py`) | the chunks of the last seconds of one upload | chunk, end of file | the request parser |
| Gates and names (`validators.py`, `decoders.py`, `bounds.py`, `kinds.py`) | none | sniff, decode, fit a name | intake |
| Metadata, watermarks (`metadata.py`, `watermarks.py`) | none | describe a row, choose a mark | rows, passes |
| Settings, checks, serializers, admin forms | none that changes | | |

What is hard in it:

* **Nothing but row locks serialises handlers.** `apply_ref_sync` locks; nothing
  else does. Uploads, sweeps, purges and erasures read, decide and write at
  different moments, and there is no request transaction.
* **Storage is outside every transaction.** An unlink is final, the row delete
  that belongs to it may be rolled back; an unlink may be refused.
* **Several rows share one blob.** Dedup is per owner, files are per content: the
  last row must take the bytes, and no other row may.
* **A ref names content, not a row.** Every handler must agree on the row that
  carries the references of a content.
* **Passes of one image run on different queues at once** and write back columns
  they read before they rendered; messages are lost when the broker is down and
  repeated by the beat.
* **Events are redelivered** (`user.merged` raises until the survivor has landed; a
  consumer that dies before its offset is committed gets the tail of the topic again,
  while the sweeper looks at what it detached).
* **Tools come and go.** A pass without ffmpeg or libvips leaves a row degraded with
  a reason, and three filters (beat, task, backfill) decide who comes back to it.
* **Commands read first and write long after**, row by row, while uploads and syncs
  go on, and may be killed between any two statements.
* **Eight ways in.** Six views, an import and a retype each check types, bytes, quota
  and names in an order of their own, and what they store is served back.
* **The network answers what it likes**: a name resolves differently the second time,
  a server redirects anywhere and for ever.

What makes each part correct: the uniqueness constraints are never tripped;
references are lost by no one but the entity they belong to; every unreferenced
row is within the sweeper's reach and its clock counts from the last detach;
bytes have a row that finds them and rows have the bytes they point at; an image
that says `ready` has its ladder; nothing is pending for ever; the references held
are those the services say they hold; originals are where their rows, or a rerun of
the command that moves them, will find them; what is stored has passed the gates of
its media, within quota and columns; an import reaches public addresses only.

## 2. Modules

| Module | What it is |
|---|---|
| `RefLedger` | Abstract: which key holds which content, and which content is stored. What `cdn.refs_sync`, the collectors and the erasures promise to other services. |
| `MediaRows` | Rows of one media model, their files and owners; every handler one step. |
| `MediaRowsRefinement` | The mapping of rows to the ledger; its theorem is in `MediaRows_proofs`. |
| `MediaRaces` | The same handlers statement by statement, run by interleaving processes with row locks. |
| `ImagePipeline` | Rows over one content, their shared directory, broker, workers, admin and commands. |
| `SpeedLimiter` | The sliding window of one upload's chunks. |
| `ImportFetch` | The network half of `cdn.import_from_url`: quota, hops, redirects. |
| `UploadDoors` | All ways in, with their gates, quotas, rows and answers, and the read endpoints about them. |
| `NameBounds` | The cut of names to columns; `UploadDoors` stores by it. |
| `RefDelivery` | Publishers, topic, consumer and sweeper over the ledger (`INSTANCE RefLedger`). |
| `MediaPasses` | Passes over videos and recordings, their beat and backfill. |
| `Retyping` | `retype_images` and `protect_original` statement by statement, over one content. |
| `*_proofs` | Theorems about the module of that name; `UploadDoors_proofs` also those about `NameBounds` and `SpeedLimiter`; `Intake_proofs` and `Upkeep_proofs` those about `ImportFetch` and `RefDelivery` and about the parts of `MCIntake` and `MCUpkeep` together. |
| `MCMediaRows`, `MCMediaRaces`, `MCImagePipeline` | Symmetry sets, constant definitions and a constraint for TLC. |
| `MCIntake` | Extends `SpeedLimiter`, `ImportFetch` and `UploadDoors` for TLC. |
| `MCUpkeep` | Extends `RefDelivery`, `MediaPasses` and `Retyping` for TLC. |

The modules meet in the rows. `MediaRows` is the table with every handler one step;
`MediaRaces` refines the steps into statements; `RefLedger` is what both promise, and
`RefDelivery` is the ledger seen by the services that use it. The other modules each
take the columns they are about: `ImagePipeline` and `MediaPasses` the processing
columns, `Retyping` type, path and refs, `UploadDoors` what is known at creation.
`MCIntake` and `MCUpkeep` hold three modules each that share no state: the variable
`part` chooses which of them moves in a behaviour, so the state spaces of the three add
up instead of multiplying, and each property is about the part it names. The specifications
of the parts that would share a name have a prefix (`SpeedInit`, `DoorsNext`,
`DeliverySpec`, `RetypingTypeOK`); the third of each module (`ImportFetch`, `MediaPasses`)
has the plain ones.

### MediaRows

`rows` is the table as a function from primary key to row, `nextPk` its sequence,
`files` the originals in storage as pairs of content and name, `accounts` the user
rows there are, `now` the clock. Primary keys grow with `created_at`, so "oldest"
is "smallest key". A row keeps `content` (type and hash), `owner` (`uploaded_by`,
`NoOwner` for NULL), `name`, `refs` and `stamp` (`unreferenced_since`).

| Action | Code |
|---|---|
| `Upload` | the `post` of the upload views: lookup in `dedup_scope_q`, `quota_exceeded`, `objects.create` |
| `ImportFromUrl` | `functions.import_from_url` with the pool of `service_scope_q` |
| `ApplyRefSync` | `services.apply_ref_sync`; `Carrier` is what `_batch_resolve_media` resolves to |
| `Sweep` | `services.sweep_unclaimed` |
| `DeletionInitiated` | `actions.handle_user_deletion_initiated` over `gdpr.purge_unreferenced` |
| `EraseAccount`, `EraseFile`, `EraseEntity` | `gdpr.delete`, `erasure.erase_file`, `erasure.erase_entity` |
| `UserMerged` | `actions.handle_user_merged`, `_carry_media`, `_fold_refs` |
| `UserRowLands`, `UserRowDeleted`, `Tick` | the user table (SET_NULL) and the clock |

`_destroy` is `Destroy(D, F)`: `D` the rows a handler goes for, `F` the contents
whose file storage refuses to unlink. Of the rows of `D` over one content only the
last one taken, the oldest, can find no other row over it (`LastHolders`); a row
whose unlink is refused stays (`Stranded`). The purge finishes its pass and then
raises, the entity erasure stops at the first refusal: both roll rows back and
leave what was unlinked unlinked (`RollBack`).

### MediaRaces

`job[p]` is what a busy process is doing: a sync with the rows it has still to lock
(`todo`) and the refs it read (`mine`); a reaper or a merge with the rows its query
returned, as it read them (`todo`), those it has deleted (`gone`) or rewritten (`mine`)
in its transaction; an upload or import at its quota, file write or insert. A row in
`mine` or `gone` is held against other writers (`Free`); readers see committed rows, as
under READ COMMITTED. The sweeper commits row by row, the other reapers at the end
(`ReapEnd`). Storage may refuse an unlink (`UnlinkRefused`): the sweeper and the purge go
on to the next row, and the purge raises at its end (`stranded`); the other erasures raise
at once. A purge that stranded nothing may be the first half of an account's erasure: then
`DisownRead` queries what the account has left and `DisownSave` saves those rows one by
one, whoever owns them by now. A merge reads what both accounts hold (`MergeBegin`), takes
each of the guest's duplicates (`MergeKeeper`, `MergeSave`, `MergeDelete`) and moves the
rest in one statement (`MergeMove`). Inserts, moves and saves that meet a twin wait for the
transaction it is in and are refused if it stays: the uniqueness constraints. `Crash` is a
process that dies, a failed transaction, or a deadlock that the database ends: rows are
rolled back, files are not. `seen` is a history field: the sequence when
`shared_binary_exists` answered.

### ImagePipeline

`rows` are images over one content (several owners may have one each), so they
share `disk`, the classes of files in `<type>/<hash>/`. `queue` holds messages as a
set: a second copy of a message that waits would be taken by a step that can be had
by sending it again. `job[w]` has the row a process works for, the passes it has
left (`todo`), the `variants_meta` it read (`got`) and how it closes (`end`).
`Take`, `Render`, `Merge` and `Flag` are the four points of `generate_thumbnails`
and `generate_previews` that other processes can tell apart; `process_image`, the
backfill and `regenerate_media` are other plans over the same points. A message is
acknowledged before its task runs (Celery's default), so `Fail` loses it.

### RefDelivery

`claims` is what each entity holds as its service sees it, `topic` what was published,
`next` the consumer's position and `committed` the offset a restart gets. `Publish` is
`sync_cdn_refs` of a service (external), `Handle` is `apply_ref_sync_event`
(`intake.py:17-46`), a step `Sync` of the ledger or nothing for other events and
envelopes without an owner; `Commit` and `Restart` are the loop of
`consume_cdn_events`. `Sweep` collects what nothing has held for longer than a TTL
(`since`). The clock (`Tick`) stops while the consumer is `Lag` behind: the property is
stated for `Lag <= TTL` (`TimelyAssumption`).

### MediaPasses

`media` gives the kind of each row, `lost` the rows whose file is not there, `deploy` the
tools installed. A pass is `Take` (the task with the columns it reads) and `Finish` with
one of `Findings[deploy][kind][read]`: what `process_video` and `extract_metadata`
save with the tools there are, given whether a duration was read before, for each thing
the probe may tell and ffmpeg may draw. A finding is a record of columns; `<<>>` is a
column left out of `update_fields`. `EncodePreview` is the ladder of qualities against the
budget, `RenderWaveform` the ladder of sizes.

| Action | Code |
|---|---|
| `Create` | the post_save signals of Video (synchronous) and Audio (queued) |
| `RetryUnprocessed` | `tasks.retry_unprocessed` |
| `Take`, `Finish`, `Fail` | `process_video_async`, `process_audio_async` and the services they call |
| `BackfillBegin/Page/Visit/End` | `backfill.backfill_media_metadata` with its cursor |
| `Deploy` | a deployment with other tools (external) |

A page (`FirstOnes`, by how many rows come `Before` one) is the set of jobs the query
returned, visited by least row; the query's values are those of the moment it was read.

`tried` (a pass has saved the row) and `pass.steady` (rows that were candidates all
along) are history.

### Retyping

All rows are over one content; `files` are the originals by tree (public, protected), type
and name. `cmd` is the command that runs: the rows as it read them (`todo`, a set of
snapshots taken in the order of their keys), then where it is within the first of them.
`Turn` chooses the mode (`_mode`) and copies the file; `Merge`, `CopyInsert` and
`RetypeSave` write the row or skip it on the constraint; `Render` passes or fails and
looks for other rows of the old type; `Rmtree` removes the directories. `Protect` moves a
file or finds that a sibling did, `ProtectFollow` updates the rows. `Kill` falls between
any two. `Upload` (of a request with a site or without: the path of a row depends on it)
and `Sync` go on meanwhile. `fresh` (keys attached since the command
read its rows) and `late` (rows inserted between the look and the removal) are history for
the two known losses.

### Intake: SpeedLimiter, ImportFetch, UploadDoors

`SpeedLimiter!ReceiveDataChunk` is `receive_data_chunk`: `chunks` are the entries of the
window, `Evict` (the `popleft` loop: a prefix goes) and `TooSlow` its two tests.
`ImportFetch` follows a call from its arrival (`ImportFromUrl`, which reads the clock and
with it the window it belongs to) through each round trip of the quota to the cache
(`CacheAdd`, `CacheIncr`; `IncrTooLate` if the counter has expired in between, added again
once) to the loop of `fetch_image_bytes`, with one action for each thing that may happen
there: `Connect` (validate, then open), `Redirect`, `ReadBody`, `FetchFails`. An address is
how it is written and what it reaches; `Unwrapped` are the forms whose embedded address is
looked at. `granted` is history: when each call that was let in had come, and whether it
was counted within a window of that (`Prompt`).

`UploadDoors!Post` is the `post` of the six views: permission, type, gate, dedup, quota,
row, in the order of the code; `FirstOf` reads a list of tests the way early returns do.
`conf` is a deployment: types, decoder, dedup scope, ceilings as written. `FileExists`,
`Describe` and `RandomImage` (of the processed rows, whichever those are) are the read
endpoints; `StoreImport` is the storing half of an import. A body stands for its own hash; its form, size, pixels and whether it decodes
to the end are all the gates can tell.

## 3. What is checked

| Run | Constants | Shows |
|---|---|---|
| `MediaRows_refs` | 2 contents, 2 users and the pool, 2 keys, 4 rows, TTL 1, clock to 2 | no merges: references on the row their ref resolves to, each handler is a step of the ledger |
| `MediaRows_merge` | the same and a guest who may be merged, any unlink may be refused | one row per owner, the clock counts from the last detach (a fold included), a merge loses no reference and no content, bytes have a row, rows keep their bytes, a failed erasure has unlinked nothing others hold |
| `MediaRaces_sync` | 2 processes that sync or erase contents, or upload beside each other; 2 contents, 3 rows of a user and the pool, 2 keys, a ceiling of 1 | uploads overrun the ceiling by the other process at most, no ring of waits, no lost key, no clock on a row in use, every commit is one step of the ledger |
| `MediaRaces_all` | 2 processes, all handlers with merges, account erasures and refused unlinks, 1 content, 3 rows, 2 users and the pool, 2 keys | every row reapable, an original goes from under no row that the check could have seen, an account erasure saves no refs as it read them |
| `ImagePipeline_ladder` | 2 workers, a web process, admin actions | an image that says `ready` has its ladder |
| `ImagePipeline_live` | 1 worker and 1 shell with the admin actions and the commands, 1 row, fairness | where no two passes of an image ever overlap a ready one has the geometry of its ladder; nothing is pending for ever |
| `Intake_parts` | uploads of up to 10 bytes with silences of up to 3; 2 imports at a time and 2 calls a window, a limit of 1, 6 addresses, 1 redirect; 14 file parts, 6 deployments, 2 rows | who pays for silences finishes and who drips does not; imports stay outside, within their rate, and end; what is stored has passed its gates, its dimensions are real, no ceiling is passed, every ref resolves, file-exists knows what an upload would |
| `Upkeep_parts` | 3 events, 2 contents, clock to 3, TTL 2, Lag 1; 1 or 2 media, 1 worker, 3 sets of tools, 1 backfill of up to 2; 3 tables of 2 or 3 rows, 4 rows, 2 commands, 2 syncs | once caught up the CDN holds what services claim; a reason is named with every degraded row; a backfill skips and repeats nothing; a video is measured once its tools are there; originals can be found; a retype drops no key it read |

Four runs end in a counterexample, each to a sentence of the repository:

| Run | Violated | What happens |
|---|---|---|
| `MediaRows_drift` | `RefsOnCarrier` | guest, third owner and survivor hold one content, the guest's row is the oldest and carries the references; the merge folds them into the survivor's row, which is not the oldest left. A later detach resolves to the other row and finds nothing to remove. |
| `MediaRows_nulling` | `AccountErasable` | `import_from_url` and a user hold the same bytes, the user's row is referenced; erasing the account nulls the owner and trips the pool's constraint, so the erasure fails each time it is tried. |
| `MediaRaces_claim` | `SweepSparesReferenced` | the sweeper has selected a row, a sync attaches to it and commits, the sweeper deletes it with its reference. |
| `ImagePipeline_slices` | `MergeKeepsOtherClass` | both passes of an image read `variants_meta`, both write it back, the later one erases the entries of the other; `ready` then stands beside a ladder without geometry. |

**Bounds.** `MaxPk`, `MaxNow`, `MaxRow` and `Stored` bound what is unbounded in the
code: rows ever created, clock, rows at the start. Three rows over one content are
the most any property relates (guest, survivor, third owner), a second content is
there so that handlers that work on sets meet both a hit and a miss, two keys so
that a row can be held by one and lose the other, two clock ticks so that a stamp
can be before, at and past its TTL. Two processes suffice for every overlap of a
read and a write; that no number of syncs waits in a ring is a theorem
(`NoDeadlockAlways`). In `MediaRaces_sync` an action constraint (`UploadsApart`) lets
uploads overlap each other only: beside syncs they are what section 4 says of `LedgerSteps`,
and `MediaRaces_all` mixes everything. The theorems below carry most of these results to all
bounds.

In the intake two rows are a first upload and a second that meets it; the parts pair
every form of bytes with an extension that tells the truth and one that does not
(`MCIntake!Parts`), the deployments every answer of the decoder gate with both dedup
scopes and each kind of ceiling, and types without the avatar that the avatar door stores
(`RefsResolve` is about the others). Six ticks are three windows of the speed limiter, four
are two windows of the rate limit and the life of a counter, so that one can expire under a
call that is held up. In the upkeep, `Bounds` gives each table of media
what may happen to it: a lone video or recording meets a lost file, two deployments and
a backfill; two recordings meet the paging of the backfill and its races instead. Three
events let an entity attach, detach and attach again around a restart. Two commands let
a retype follow a crash of its first run, two syncs let a key be detached and another
attached while it runs; the tables are shared originals, a claim beside another
service's, a sibling stored under the new type, and rows whose site has a watermark.

**Deadlock** is checked in MediaRows (some handler can always run). The other runs
switch it off: with the bounded supply of rows, events or time gone they may really have
nothing left to do.

**Symmetry** is used for contents, entities or keys, processes, workers and, where nobody is
merged, users; never in the run with fairness.

**Fairness** (`ImagePipeline!Fairness`). The beat fires every few minutes for ever
and the broker is not down each time it does: strong fairness of
`RetryUnprocessed`, whose guard depends on the row still being stuck. A worker ends
its task one way or another: weak fairness of its steps with `Fail` among them. A
message that is put back again and again is taken at last, and the preview task of
a row does not fail at the same point every time: strong fairness of `Take` and of
each of its three steps. An image that can never be decoded violates the last
assumption and is pending for ever, as it is in the code. Without the beat
`PendingEnds` fails at once: a broker that is down at creation loses the message.

**Fairness elsewhere.** `ImportFetch`: weak fairness of each call's next step, since
every socket operation has a timeout (`fetch.py`). `MediaPasses`: the beat fires and a
job ends one way or another (weak); a queued message of the followed row is taken at
last, and not every pass over it dies or is let down by tools that are there (strong).
`MeasuredAtLast` is conditional on the tools and the file staying in the end, so it says
of the code that no reason left by an earlier pass keeps the beat from coming back.

## 4. What is proved

TLAPS proves, for all values of the constants:

| Theorem | States |
|---|---|
| **`MediaRows_proofs`** | handlers in one step |
| `TypeCorrect` | `TypeOK` |
| `OwnersUnique` | `OneRowPerOwner`, merges included |
| `UnclaimedReapable` | `Reapable` |
| `ClockFromLastDetach` | `ClockCountsFromLastDetach` |
| `ReferencesOnCarrier` | `RefsOnCarrier` while merges fold a carrier into the next carrier only; always when nobody is merged |
| `UnlinkSafe` | `UnlinkSparesHolders` |
| `RollbackTakesOnlyItsOwn` | `RollbackTakesOnlyCondemned`, there being an entity |
| `MergeKeepsEverything` | `MergeErasesNothing` |
| `NoStrayBytes` | `BytesNeedARow` when a content has one name |
| `GlobalScopeErasable` | `AccountErasable` under the global scope |
| `RowsImplementLedger` | the ledger, on the same condition |
| **`MediaRaces_proofs`** | handlers statement by statement, any number of processes |
| `TypeCorrect` | `TypeOK` |
| `ReapableAlways` | `Reapable` |
| `UnlinkIsAloneAlways` | `UnlinkIsAlone`: but for rows inserted since the check looked |
| `UnlinkSparesAllAtRest` | without uploads and imports no original is unlinked under another row at all |
| `DisownAlwaysKeepsRefs` | `DisownKeepsRefs` |
| `SyncKeepsOthersAlways` | `SyncKeepsOthers`, beside erasures and merges too |
| `NoDeadlockAlways` | `NoDeadlock` |
| `StampAlways` | `StampMeansUnreferenced` without entity erasures and merges |
| `LedgerStepsAlways` | `LedgerSteps` where syncs and erasures of contents are all that runs |
| `SweepSparesAlone` | `SweepSparesReferenced` if no sync, entity erasure or merge is under way while a sweep is |
| `OverrunAlwaysBounded` | `OverrunIsBounded` without merges |
| **`ImagePipeline_proofs`** | |
| `TypeCorrect` | `TypeOK` and the shape of every plan |
| `ReadyHasLadder` | `ReadyMeansLadder` without commands, any number of workers, shells and rows |
| `AlonePassKeepsOtherClass` | what `MergeKeepsOtherClass` says of a row no two passes of which overlap |
| `GeometryNeedsOverlap` | `GeometryNeedsNoOverlap`, any number of workers, shells and rows |
| **`UploadDoors_proofs`** | names, doors, speed |
| `FilenameFits`, `StoredNameFits` | a cut name, and a path of prefix and cut name, fit their columns |
| `ExtensionSurvives` | the cut keeps an extension that fits beside a marked character |
| `FitIsIdempotent` | a cut name is not cut again |
| `DoorsTypeCorrect` | `DoorsTypeOK` |
| `StoredIsVettedAlways` | `StoredIsVetted` |
| `DimensionsAreRealAlways` | `DimensionsAreReal` |
| `RefsResolveAlways` | `RefsResolve` |
| `ExistsBeforeUploadAlways` | `ExistsBeforeUpload` |
| `QuotaAlwaysHolds` | `QuotaHolds`, ceilings of objects and of bytes |
| `SpeedTypeCorrect` | `SpeedTypeOK` |
| `FastUploadsAlwaysFinish` | `FastUploadsFinish` |
| `SteadyUploadsAlwaysPay` | `SteadyUploadsPay` |
| **`Intake_proofs`** | imports, and the intake as a whole |
| `FetchTypeCorrect` | `TypeOK` |
| `OutsideOnly` | `FetchStaysOutside` |
| `RateAlwaysHolds` | `RateHolds` |
| `RedirectsRunOut` | a call has a bounded number of steps left, each takes one, nobody adds one |
| `IntakeIsItsParts` | in the intake each part behaves as it does alone |
| `IntakeTypeCorrect` | `IntakeTypeOK` |
| **`Upkeep_proofs`** | deliveries, and the upkeep as a whole |
| `DeliveryTypeCorrect` | `DeliveryTypeOK` |
| `CaughtUpAgreesAlways` | `CaughtUpAgrees` |
| `ClaimedIsStored` | what a service claims is in storage |
| `UpkeepIsItsParts` | in the upkeep each part behaves as it does alone |
| `UpkeepTypeCorrect` | `UpkeepTypeOK` |
| **`MediaPasses_proofs`** | |
| `PassesTypeCorrect` | `TypeOK` |
| `NotGeneratedAlwaysMeansUntried` | `NotGeneratedMeansUntried` |
| `BackfillAlwaysCovers` | `BackfillCovers` |
| **`Retyping_proofs`** | |
| `RetypingTypeCorrect` | `RetypingTypeOK` |
| `OriginalsAlwaysRecoverable` | `OriginalsRecoverable` |
| `RetypeAlwaysKeepsRead` | `RetypeKeepsRead` |

They assume what the modules' ASSUMEs say and what the theorem's own ASSUME names.
Those of the modules are facts of the code or the shape of the inputs: the pool is no
user, a stamp is no number, a merge has two ends, addresses and URLs are of the forms
listed; windows and pages are not empty; a retype is from one type to another, as the
command refuses `src == dst`, and starts from rows whose path is in their type's
directory; an encoded picture is not empty; no task worker is the web process
or the backfill. One is about operation: the consumer is never further behind than a TTL
(`TimelyAssumption`).

*Rows.* `TypeOK /\ OneRowPerOwner` is inductive: the intake guards exclude a twin,
a merge folds a duplicate before it moves the rest, and the two ways of nulling an
owner are guarded by the very collision. `Reapable` and the clock follow row by row,
since each handler that empties `refs` stamps. `RefsOnCarrier` is inductive because
a new row is never the oldest over its content and every destroyer takes a carrier
only with its references gone or its content erased whole. A merge keeps it if it folds
a row that carries references into the oldest row left over the content, that is, unless
a third owner's row is older than the survivor's (`MergesKeepCarriers`, which holds where
nobody is merged): what `MediaRows_drift` finds is the only way out of the invariant. The
ledger's step of a handler is found from the same cases: `Collect` for sweep and purge,
`Expunge`, `Release`, `Sync`, `Arrive`; a merge leaves the ledger alone. What a rolled-back erasure has unlinked had, when it came
to it, one holder left, so every row over it was among the condemned.

*Races.* `Inv` is `TypeOK`, that no two transactions hold one row, and for every busy
process what it knows of the table: a sync's copies of `refs` are what the rows hold,
of rows older than those it waits for (`SyncReads`); what erasures and merges write
leaves a row in use (`WritesRefs`); what came over a content since the look before an
unlink has a later key (`SeenStands`). Since a step of one process changes only rows that
it holds or that no one holds, the facts of the others survive it. A sync that waits
for another has for its next row one that the other holds, a smaller key than any the
other waits for: in a set of waiting syncs the one whose next row is the largest waits
for none of them. For the ledger, references are on the oldest row over a content
(`OldestHolds`), a sync comes to every row over the contents it names and an erasure to
every row over its content and no other (`Covers`): the commit of the one is a `Sync` of
the ledger, of the other an `Expunge`, all else a stutter. The sweeper's reads go stale by
what commits references only (`RefsStand`), so without those beside it what it has yet to
come to is unreferenced (`SweepReads`). An account erasure holds the rows it has saved, so
what it commits is what they say (`DisownKeepsRefs`). For the quota, `OverrunIsBounded` is
inductive by itself: each admission finds fewer rows than the ceiling, and the admitted are
never more than the processes, of which one is the upload that is let in.

*Ladder.* `ReadyMeansLadder` alone is not inductive: a task about to flag must have
rendered. `LadderInv` adds that every process past its preview pass (at the merge of
previews, or at the flag) sees previews on disk, and that nobody removes them
without the commands; `PlanOK` says which plans and steps go together. Geometry
(`GeometryInv`) needs more: while no two processes are at work on a row (`Alone`), what one
holds in `got` is what the row says, so no entry is lost between read and write. The
invariant is of one row and inductive along behaviours in which that row is left to one
pass at a time, hence a theorem of the form `[]Alone(i) => []ReadyHasGeometry(i)`; the same
fact makes every merge of such a pass keep the other class's entries, so that
`ImagePipeline_slices` needs an overlap.

*Doors and names.* Every row passed a list of tests; lemmas on `FirstOf` say that the
answer "ok" means that none fired, one per gate. `RowOK` of each row is then inductive,
the deployment being fixed, and the refs follow from the type a row may be stored under.
The theorems on names are cases of `FitFilename`; TLC's bounded names stand for all. The
quota is about sums over the rows of an owner: `SumFunctionOnSet` is unfolded once
(`Adds`), and what it computes for any finite set of numbers follows from a least
counterexample by the size of the set, the library's induction theorems being out of the
provers' reach.

*Speed.* `UploadOK` says of the chunks of the window that they are in order and no
older than it, and, of a client that pays for its silences, that what came after each
makes the minimum from it to now (`Paying`): whatever the window begins with, what it
holds is fast enough. For a steady client `Settled` bounds twice what had come by a chunk,
less the chunk itself, by the minimum since the end of the first window: of windows laid
end to end each shares one chunk with the next, which is where the half comes from. An
eviction takes a prefix and changes no sum of what is left.

*Imports.* `FetchStaysOutside` is inductive: only `Connect` adds a contact, and
`PassedHopIsOutside` reads off `HopVerdict` that the address it connects to is one of
those judged, each by what it reaches (`SeenIsRange`: every form is looked through).
`QuotaInv` counts the prompt grants of each window of the clock against the counter of its
key: a counter lives for two windows, so it is there when the last call of its window that
is prompt is counted (`CounterInv`). Any stretch of a window's length meets at most two
windows, hence twice the limit and no more. `StepsLeft` is what makes `ImportEnds` true under
fairness: two steps for each redirect left, one for the body, and those of the quota.

*Put together.* A step of `MCIntake` or `MCUpkeep` is a step of one part that leaves the
others' variables alone, so a behaviour of the whole is one of each part
(`IntakeIsItsParts`, `UpkeepIsItsParts`), liveness with its fairness included, and what is
proved of a part holds of the whole.

*Deliveries.* With a tail of the topic applied again, the ledger is no state the
services were ever in. What holds is that the last event about a pair of key and content
tells the truth (`LastTold`) and each pair the ledger has wrong is the subject of an event
still to be handled (`WrongIsPending`): with none left there is nothing wrong. The sweeper
is kept off by `ClaimedIsSafe` and `InTime`: what a service holds but nothing in the
ledger does yet has more of its TTL left than the consumer is behind.

*Passes.* Lemmas on `EncodePreview`, `RenderWaveform` and the findings show that a pass
without a preview has a reason; `Tells` of a row is then inductive, each pass saving both
in one write. For the backfill, what was visited and what is left of the page are apart,
each once (`MetOnce`), within the allowance, and include every steady row up to the
cursor (`SteadyMet`): a page is the first candidates past it, and an empty page says there
are none.

*Retyping.* A command works from snapshots: `TodoOK` says how far one may be from its row
(the owner stays, the type until its turn, no new key but a fresh one), `StageOK` what each
statement made sure of for the next (the file is at the target before the row is saved;
no other row of the old type is left, but late ones, when its directories go), `MergeOK`
the same for the row a claim goes into. `OriginalsRecoverable` is part of the invariant:
whether a file may go depends on where the other rows find theirs.

Only model-checked: liveness (`PendingEnds`, `ImportEnds`, `MeasuredAtLast`) and anything
with ENABLED, for which TLAPS has no backend. Every other property of a passing run is a
theorem. Theorems with a hypothesis hold on one side of it and TLC shows the other:
`RefsOnCarrier` and the ledger fail with merges among three owners (`MediaRows_drift`),
`AccountErasable` fails under the owner scope (`MediaRows_nulling`), one pass erases the
other's entries where two overlap on a row (`ImagePipeline_slices`), a sweep takes a
referenced row beside a sync (`MediaRaces_claim`), several names of a content leave files
behind. `LedgerSteps` is about syncs and erasures of contents: beside uploads a content may
arrive between a sync's look and its commit, a sweep or purge takes what it read earlier,
an entity's erasure and a merge write back references they read.
Recursive operators are avoided in all modules with theorems; an induction over data
is out of reach of the provers.

## 5. Known limits seen while modelling

Behaviour of the code that the models reproduce and that no passing property denies:

* `_fold_refs` (`actions.py:114`) saves `refs` only: a zero-ref row of the survivor
  that inherits references keeps `unreferenced_since`. The sweeper's `refs=[]`
  filter keeps it safe (`UserMerged`).
* The file name is part of the path and `shared_binary_exists` compares hashes only:
  two owners with two names leave the first-deleted name's file behind
  (`NoStrayBytes` assumes one name for that reason).
* A rollback restores rows whose files are gone (`RollBack`).
* Two deletions that see each other's row leave the bytes; an upload that dies
  between file and row does too; a row inserted between check and unlink loses its
  bytes (`DestroyBegin`, `Crash`, `UploadInsert`).
* `erase_entity` writes back refs it read without a lock (`EntitySave`).
* Concurrent uploads pass the ceiling together (`UploadQuota`), by fewer than there are
  processes (`OverrunIsBounded`). An upload that loses to a twin of its owner's in between
  is answered 500 (`UploadInsert`).
* A user row deleted before the merge of the account arrives leaves its media to the pool;
  the merge then finds nothing to move (`UserRowDeleted`, `UserMerged`).
* A merge writes the union of refs it read (`MergeSave`): a key a sync attaches to the
  kept row in between is lost. `_carry_media` marks a vanished keeper as unreachable
  "under one transaction" (`actions.py:145`); under READ COMMITTED a sweep can take it
  between the two reads, and the guest's row then simply moves (`MergeKeeper`).
* A merge fails, and is redelivered, if the survivor uploads a duplicate after the merge
  looked (`MergeMove`).
* `gdpr.delete` saves the rows it read whoever owns them by now: one that a merge has moved
  to the survivor in between loses its new owner (`DisownSave`).
* A call to `import_from_url` that is held up for longer than a window between reading the
  clock and counting finds its window's counter gone, starts it again and counts from
  nothing, so it is let in over the limit (`IncrTooLate`; `RateHolds` is about the others).
* Reapers lock newest first, syncs oldest first: the database may have to end one.
* `regenerate_media` removes files before it resets the row (`Purge`, `Reset`);
  `regenerate_variants_async` leaves `variants_ready_at` on a pending image; the
  renditions outlive the last row (`Remove` leaves `disk` alone); thumbnails that
  fail after the previews succeeded are not retried (`Stuck`).

Uploads and reads:

* An upload whose silences all exceed `SPEED_WINDOW` has a single chunk in its window
  each time, and is never cut for speed (`TooSlow`); a steady one pays at least half of
  the minimum, as the chunk at a window's edge counts twice (`SteadyUploadsPay`).
* `QuotaHolds` is about one request at a time; for concurrent ones see `OverrunIsBounded`.
* Under the global dedup scope an upload finds other owners' rows while file-exists looks
  at the caller's only (`ExistsBeforeUpload` is about the owner scope); file-exists
  ignores the type of an image, so it may say "exists" where an upload stores a new row.
* `views._batch_resolve_media` is a dead copy of the resolver without `audio/`.

Reference events:

* An event delivered later than the TTL, or a claim on content that nobody holds and
  whose TTL is nearly over, may find the content swept (`CaughtUpAgrees` assumes
  `Lag <= TTL` and claims in time).
* The erasure of an entity while an attach event of it waits in the topic is undone by
  that event.

Passes:

* A repeated audio pass that fails at the waveform overwrites a good preview with "" and
  a repeated video pass does so with its poster (`ExtractMetadata`, `ProcessVideo`),
  beside "Idempotent" in the docstrings; a video pass writes back the duration it read
  when the file tells none.
* Two video passes at a time may leave all facts beside a named reason.
* Media with all facts but a duration are reported partial without a reason.

Retyping and protecting:

* A retype in copy mode stores its row as processed before it renders: a crash in between
  leaves a `ready` row without variants that nothing comes back to. A crash before
  `Rmtree` leaks the old directories.
* `RetypeSave`, `Merge` and `CopyInsert` write refs read before: a key attached in between
  is lost and one detached comes back (`fresh`). A row inserted between `Render` and
  `Rmtree` loses its file (`late`).
* After a retype a consumer that detaches by the old ref leaves its key on the new row.
* A crash of `protect_original` between move and update leaves rows at a path that is
  gone; a rerun finds the file and mends those it visits, a sibling without a site of its
  own only with `--assign-site`.

## 6. Not modelled

* Settings and boot checks (`conf.py`, `checks.py`, `apps.py`): resolved once per
  process; what decides something is a constant or a deployment of the modules.
* Serializers, DTOs, forms, URLs, error texts, translations, schemas, migrations, the
  code generation helpers: formatting and declarations.
* The GDPR export and the clean-copy and signed-URL views: read-only.
* Pixels: encoding, placing a watermark, which widths a ladder has. A pass writes one
  class of files in `ImagePipeline`; a frame is the sizes it encodes to in `MediaPasses`.
* The poster file and the compression stub of recordings.
* Erasures and merges beside a retype: the commands know uploads and syncs only.
* `benchmark_imgproc`: a timing tool.

## 7. Plan

The plan is carried out: the ledger, rows and refinement, the pipeline, the races,
deliveries, passes, retyping and intake are modelled, and each safety property of a
passing run is a theorem of section 4. What would come next:

1. `LedgerSteps` beside uploads: a content that arrives after a sync looked is stored
   without its reference, so the step needs a ledger whose `Sync` may come early for
   content that is not there yet.
2. An abstract ladder with both passes, to say what becomes of an image whose previews
   succeeded and whose thumbnails failed.
3. Erasures beside a retype.
