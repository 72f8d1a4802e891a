---------------------------- MODULE MediaPasses ----------------------------
(***************************************************************************)
(* The pass that measures a video or a recording and draws its preview:    *)
(* the signal that starts it at creation, the tasks, the beat that starts  *)
(* it again, and the backfill that pages over the table while the others   *)
(* run.  Tools come and go with deployments; a pass that lacks one leaves  *)
(* a named reason.  Images have a pipeline of their own (ImagePipeline).   *)
(***************************************************************************)
EXTENDS Integers, Sequences, FiniteSetsExt, Functions

CONSTANTS Tables,                 \* tables to look at: functions from key to media
          Workers,
          Deployments,            \* tools there may be
          Frames,                 \* what libvips and ffmpeg may make of a picture
          WaveformSizes,          \* how many entries WAVEFORM_SIZES has
          BatchSize, Limits,      \* of the backfill
          Bounds                  \* by table: files lost, new tools, backfills

ASSUME WorkersAssumption  == {"web", "backfill"} \cap Workers = {}
ASSUME TablesAssumption   == \A table \in Tables : table \in Seq({"video", "audio"})
ASSUME FramesAssumption   == \A frame \in Frames :
                                frame.png \in Nat /\ frame.webp \in Seq(Nat \ {0})
ASSUME BackfillAssumption == BatchSize \in Nat \ {0} /\ Limits \subseteq Nat

VARIABLES media,       \* the table: key to "video" or "audio"
          lost,        \* rows whose original is not in storage
          rows,        \* rows there are
          queue, job,
          deploy, deploys,
          pass, passes
vars == <<media, lost, rows, queue, job, deploy, deploys, pass, passes>>

\* Two processes besides the workers: a request that creates a row, and the
\* backfill command.
Processes == Workers \cup {"web", "backfill"}

Blank == [processed |-> FALSE, duration |-> FALSE, preview |-> 0, reason |-> "",
          tried |-> FALSE]   \* tried is history: a pass has saved the row

NoJob == [at |-> "idle"]
Taken(i) == [at |-> "taken", row |-> i,
             duration |-> media[i] = "video" /\ rows[i].duration]   \* as read

NoPass == [at |-> "idle"]

-----------------------------------------------------------------------------
(* What a pass makes of a file.                                             *)

Preview(size, reason) == [preview |-> size, reason |-> reason]
Refusal(reason) == Preview(0, reason)

\* `encode_preview` of a picture: a frame is the size of its PNG and the sizes
\* its WebP has down the quality ladder, none when it does not decode.
EncodePreview(tools, frame) ==
    LET fits == {q \in DOMAIN frame.webp : frame.webp[q] <= tools.budget}
    IN  IF ~tools.libvips
        THEN IF frame.png <= tools.budget THEN Preview(frame.png, "decoder_missing")
             ELSE Refusal("preview_over_budget")
        ELSE IF frame.webp = <<>> THEN Refusal("encode_failed")
        ELSE IF fits = {} THEN Refusal("preview_over_budget")
        ELSE Preview(frame.webp[Min(fits)], "")

\* `probe_media`: a failure, or facts with or without a duration.
Probes(tools) ==
          IF tools.ffmpeg
          THEN [ok : {TRUE}, duration : BOOLEAN] \cup {[ok |-> FALSE, duration |-> FALSE]}
          ELSE {[ok |-> FALSE, duration |-> FALSE]}

\* What ffmpeg draws; NoDrawing stands for any MediaToolUnavailable.
NoDrawing == [png |-> 0, webp |-> <<>>]
Drawings(tools) == {NoDrawing} \cup IF tools.ffmpeg THEN Frames ELSE {}

\* `_render_waveform`: the first size that is not over the budget decides.
RenderWaveform(tools, drawings) ==
    LET encoded == [s \in DOMAIN drawings |->
                      IF drawings[s] = NoDrawing THEN Refusal("tool") ELSE EncodePreview(tools, drawings[s])]
        decides == {s \in DOMAIN encoded : encoded[s].reason # "preview_over_budget"}
    IN  IF decides = {} THEN Refusal("preview_over_budget") ELSE encoded[Min(decides)]

\* `_write_poster` of the frame; without libvips there is no poster, and the
\* reason says so even when the inline PNG fits.
WritePoster(tools, frame) == EncodePreview(tools, frame)

First(r, s) == IF r # "" THEN r ELSE s
ProbeReason(probe) == IF probe.ok THEN "" ELSE "tool"

\* Mutant of ProcessVideo: the reason the poster has is not passed on.
ProcessVideoPosterUnnamed(tools, read, probe, drawing) ==
    [processed |-> probe.ok,
     duration |-> IF probe.ok THEN <<probe.duration \/ read>> ELSE <<>>,
     preview |-> IF drawing = NoDrawing THEN <<>> ELSE <<WritePoster(tools, drawing).preview>>,
     reason |-> ProbeReason(probe)]

\* The columns a pass saves: <<>> is a column left out of update_fields.  The
\* duration written beside measured dimensions is the one read before, when
\* the file does not tell.
ProcessVideo(tools, read, probe, drawing) ==
    LET poster == IF drawing = NoDrawing THEN Refusal("tool") ELSE WritePoster(tools, drawing)
    IN  [processed |-> probe.ok,
         duration |-> IF probe.ok THEN <<probe.duration \/ read>> ELSE <<>>,
         preview |-> IF drawing = NoDrawing THEN <<>> ELSE <<poster.preview>>,
         reason |-> First(ProbeReason(probe), poster.reason)]

ExtractMetadata(tools, probe, drawings) ==
    LET waveform == RenderWaveform(tools, drawings)
    IN  [processed |-> FALSE,
         duration |-> IF probe.duration THEN <<TRUE>> ELSE <<>>,
         preview |-> <<waveform.preview>>,
         reason |-> First(ProbeReason(probe), waveform.reason)]

SourceMissing == [processed |-> FALSE, duration |-> <<>>, preview |-> <<>>,
                  reason |-> "source_missing"]

\* Everything a pass may find worth saving in a file that is there.
Findings == [tools \in Deployments |-> [kind \in {"video", "audio"} |-> [read \in BOOLEAN |->
       IF kind = "video"
       THEN {ProcessVideo(tools, read, probe, drawing) :
                probe \in Probes(tools), drawing \in Drawings(tools)}
       ELSE {ExtractMetadata(tools, probe, drawings) :
                probe \in Probes(tools), drawings \in [1..WaveformSizes -> Drawings(tools)]}]]]

FindingsOf(i, read) == IF i \in lost THEN {SourceMissing} ELSE Findings[deploy][media[i]][read]

Written(column, old) == IF column = <<>> THEN old ELSE column[1]

Saved(row, found) == [processed |-> row.processed \/ found.processed,
                      duration |-> Written(found.duration, row.duration),
                      preview |-> Written(found.preview, row.preview),
                      reason |-> found.reason,
                      tried |-> TRUE]

-----------------------------------------------------------------------------
(* The backfill's view of the table.                                        *)

\* Without --retry-degraded a row that has a named reason is left alone.
Candidate(row, degraded) == row.preview = 0 /\ (degraded \/ row.reason = "")

Candidates(kind, degraded) ==
    {i \in DOMAIN rows : media[i] = kind /\ Candidate(rows[i], degraded)}

Before(i, ids) == Cardinality({j \in ids : j < i})
FirstOnes(n, ids) == {i \in ids : Before(i, ids) < n}

\* Mutant of Page: by OFFSET over what is left of the candidates.
PageByOffset(wanted) ==
    LET ids == Candidates(pass.kind, pass.degraded)
    IN  FirstOnes(Len(pass.visited) + wanted, ids) \ FirstOnes(Len(pass.visited), ids)

\* The candidates past the cursor, the first of them by key.
Page(wanted) ==
    FirstOnes(wanted, {i \in Candidates(pass.kind, pass.degraded) : i > pass.cursor})

-----------------------------------------------------------------------------
Init == /\ media \in Tables
        /\ lost \in {ids \in SUBSET DOMAIN media : Cardinality(ids) <= Bounds[media].lost}
        /\ rows = <<>>
        /\ queue = {}
        /\ job = [p \in Processes |-> NoJob]
        /\ deploy \in Deployments
        /\ deploys = 0
        /\ pass = NoPass
        /\ passes = 0

\* A new video is measured within the request that stores it
\* (`generate_video_variants_on_save`), a recording is queued if the broker is
\* up (`extract_audio_metadata_on_save`).
Create ==
    LET i == Len(rows) + 1
    IN  /\ i \in DOMAIN media
        /\ job["web"] = NoJob
        /\ rows' = Append(rows, Blank)
        /\ IF media[i] = "video"
           THEN /\ job' = [job EXCEPT !["web"] = [at |-> "taken", row |-> i, duration |-> FALSE]]
                /\ UNCHANGED queue
           ELSE /\ queue' \in {queue, queue \cup {i}}
                /\ UNCHANGED job
        /\ UNCHANGED <<media, lost, deploy, deploys, pass, passes>>

Deploy == /\ deploys < Bounds[media].deploys
          /\ deploys' = deploys + 1
          /\ deploy' \in Deployments \ {deploy}
          /\ UNCHANGED <<media, lost, rows, queue, job, pass, passes>>

\* Mutant of Stuck: a video whose pass has named its reason is left alone.
StuckUnnamed(i) == rows[i].reason = "" /\ IF media[i] = "video" THEN ~rows[i].processed
                                          ELSE rows[i].preview = 0

\* Any video never measured; a recording only while nothing has been tried.
Stuck(i) == IF media[i] = "video" THEN ~rows[i].processed
            ELSE rows[i].preview = 0 /\ rows[i].reason = ""

\* Rows are numbered as they came: the first `old` of them are past the beat's
\* five minutes.
RetryUnprocessed(old) ==
    LET stuck == {i \in 1..old : Stuck(i)}
    IN  /\ ~(stuck \subseteq queue)
        /\ queue' = queue \cup stuck
        /\ UNCHANGED <<media, lost, rows, job, deploy, deploys, pass, passes>>

\* `process_video_async` looks at is_processed again, `process_audio_async` at
\* nothing.
Take(w, i) ==
    /\ i \in queue
    /\ job[w] = NoJob
    /\ queue' = queue \ {i}
    /\ job' = IF media[i] = "video" /\ rows[i].processed THEN job
              ELSE [job EXCEPT ![w] = Taken(i)]
    /\ UNCHANGED <<media, lost, rows, deploy, deploys, pass, passes>>

\* The pass has done with a row: the backfill turns to the next of its page.
Visited == [pass EXCEPT !.chunk = @ \ {job["backfill"]},
                        !.visited = Append(@, job["backfill"].row)]

NoLongerNeeding(i, row) ==
    IF pass.at = "idle" \/ Candidate(row, pass.degraded) THEN {} ELSE {i}

\* What the pass found out, in one write.
Save(p, found) ==
    LET i == job[p].row
        row == Saved(rows[i], found)
        turned == IF p = "backfill" THEN Visited ELSE pass
    IN  /\ rows' = [rows EXCEPT ![i] = row]
        /\ job' = [job EXCEPT ![p] = NoJob]
        /\ pass' = IF pass = NoPass THEN pass
                   ELSE [turned EXCEPT !.steady = @ \ NoLongerNeeding(i, row)]
        /\ UNCHANGED <<media, lost, queue, deploy, deploys, passes>>

Finish(p) == \E found \in FindingsOf(job[p].row, job[p].duration) : Save(p, found)

\* An exception of the pass, or a worker that dies: nothing is saved.  The
\* backfill counts it as failed and goes on.
Fail(p) ==
    /\ job' = [job EXCEPT ![p] = NoJob]
    /\ pass' = IF p = "backfill" THEN Visited ELSE pass
    /\ UNCHANGED <<media, lost, rows, queue, deploy, deploys, passes>>

BackfillBegin(kind, degraded, limit) ==
    LET found == Candidates(kind, degraded)
    IN  /\ pass = NoPass
        /\ passes < Bounds[media].passes
        /\ found # {}
        /\ passes' = passes + 1
        /\ pass' = [at |-> "running", kind |-> kind, degraded |-> degraded,
                    total |-> Min({Cardinality(found), limit}),
                    cursor |-> 0, chunk |-> {}, visited |-> <<>>, steady |-> found]
        /\ UNCHANGED <<media, lost, rows, queue, job, deploy, deploys>>

\* The rows of a page are read when it is fetched.
BackfillPage ==
    LET left == pass.total - Len(pass.visited)
        page == Page(Min({BatchSize, left}))
    IN  /\ pass.at = "running"
        /\ pass.chunk = {} /\ job["backfill"] = NoJob
        /\ pass' = IF left = 0 \/ page = {} THEN [pass EXCEPT !.at = "done"]
                   ELSE [pass EXCEPT !.cursor = Max(page), !.chunk = {Taken(i) : i \in page}]
        /\ UNCHANGED <<media, lost, rows, queue, job, deploy, deploys, passes>>

BackfillVisit ==
    /\ pass.at = "running"
    /\ job["backfill"] = NoJob
    /\ \E next \in pass.chunk : /\ \A other \in pass.chunk : next.row <= other.row
                               /\ job' = [job EXCEPT !["backfill"] = next]
    /\ UNCHANGED <<media, lost, rows, queue, deploy, deploys, pass, passes>>

\* The command ends, having reported, or is killed.
BackfillEnd ==
    /\ pass.at \in {"running", "done"} /\ job["backfill"] = NoJob
    /\ pass' = NoPass
    /\ UNCHANGED <<media, lost, rows, queue, job, deploy, deploys, passes>>

Next == \/ Create \/ Deploy
        \/ \E old \in DOMAIN rows : RetryUnprocessed(old)
        \/ \E w \in Workers, i \in queue : Take(w, i)
        \/ \E p \in Processes : job[p] # NoJob /\ (Finish(p) \/ Fail(p))
        \/ \E kind \in {"video", "audio"}, degraded \in BOOLEAN, limit \in Limits :
              BackfillBegin(kind, degraded, limit)
        \/ BackfillPage \/ BackfillVisit \/ BackfillEnd

\* The row liveness is about; queue and workers make no difference between rows.
Followed == 1

\* A pass that measures a video, or ends at all with a recording.
Measures(w, i) ==
    /\ job[w] # NoJob /\ job[w].row = i
    /\ \E found \in FindingsOf(i, job[w].duration) :
          (media[i] = "video" => found.processed) /\ Save(w, found)

\* Beat, broker and workers go on, and not every pass over a row dies or is
\* let down by the tools there are.
Fairness ==
    /\ WF_vars(rows # <<>> /\ RetryUnprocessed(Len(rows)))
    /\ \A w \in Workers : /\ WF_vars(job[w] # NoJob /\ (Finish(w) \/ Fail(w)))
                          /\ SF_vars(Followed \in queue /\ Take(w, Followed))
                          /\ SF_vars(Measures(w, Followed))

Spec == Init /\ [][Next]_vars /\ Fairness

-----------------------------------------------------------------------------
(* What describe tells of a row (metadata.py).                              *)

\* `_preview_for`: a preview over the budget there is now is not shipped.
PreviewFor(row) ==
    IF row.preview = 0 THEN Refusal(First(row.reason, "not_generated"))
    ELSE IF row.preview > deploy.budget THEN Refusal("preview_over_budget")
    ELSE Preview(row.preview, row.reason)

-----------------------------------------------------------------------------
Row == [processed : BOOLEAN, duration : BOOLEAN, preview : Nat, tried : BOOLEAN,
        reason : {"", "source_missing", "tool", "decoder_missing", "encode_failed",
                  "preview_over_budget"}]

Job == [at : {"taken"}, row : Nat, duration : BOOLEAN]

Pass == [at : {"running", "done"}, kind : {"video", "audio"}, degraded : BOOLEAN, total : Nat,
         cursor : Nat, chunk : SUBSET Job, visited : Seq(Nat), steady : SUBSET Nat]

TypeOK ==
    /\ media \in Tables /\ deploy \in Deployments
    /\ rows \in Seq(Row) /\ DOMAIN rows \subseteq DOMAIN media
    /\ queue \subseteq DOMAIN rows
    /\ job \in [Processes -> {NoJob} \cup Job]
    /\ \A p \in Processes : job[p] # NoJob => job[p].row \in DOMAIN rows
    /\ pass = NoPass \/ pass \in Pass

\* "not generated" is told of a row exactly while no pass has finished with it:
\* one that ended without a preview has left the reason in the same write,
\* whichever pass wrote last and whatever it lacked.
NotGeneratedMeansUntried ==
    \A i \in DOMAIN rows :
       PreviewFor(rows[i]).reason = "not_generated" <=> ~rows[i].tried

\* A backfill meets no row twice, and when it ends it has spent its allowance
\* or met every row that needed it all along, although the rows it stamps, and
\* those that others stamp, leave its query under way.
BackfillCovers ==
    pass # NoPass =>
       /\ IsInjective(pass.visited)
       /\ pass.at = "done" => \/ Len(pass.visited) = pass.total
                              \/ pass.steady \subseteq Range(pass.visited)

\* Installing the tools is enough: a video there is gets measured, whatever its
\* earlier passes met and named; a recording gets tried even without them.
MeasuredAtLast ==
    <>[](media[Followed] = "audio" \/ (deploy.ffmpeg /\ Followed \notin lost)) =>
       (Followed \in DOMAIN rows) ~> (Followed \in DOMAIN rows /\
            IF media[Followed] = "video" THEN rows[Followed].processed ELSE rows[Followed].tried)
=============================================================================
