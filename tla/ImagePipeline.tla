---------------------------- MODULE ImagePipeline ----------------------------
(***************************************************************************)
(* How image rows over one content get their variants: the post_save       *)
(* signal and the beat that enqueue work, the Celery tasks that render it, *)
(* the admin's two regenerate actions and the regenerate_media command.    *)
(*                                                                         *)
(* Rows over one content share the directory `<type>/<hash>/`, so their    *)
(* tasks write the same files.  A task reads its row once and writes       *)
(* columns of it later; tasks of two workers interleave at those points.   *)
(***************************************************************************)
EXTENDS Integers, Sequences, FiniteSets, Functions

CONSTANTS
    Workers,      \* Celery workers
    Shells,       \* web processes and operators' shells; a worker that is one
                  \* of these too has the tasks and the commands take turns
    Admins,       \* BOOLEAN: staff use the admin's regenerate actions
    Commands,     \* BOOLEAN: an operator runs regenerate_media
    MaxRow        \* bound: rows ever created

ASSUME SwitchAssumption == Admins \in BOOLEAN /\ Commands \in BOOLEAN
ASSUME BoundAssumption  == MaxRow \in Nat

Pk    == 1..MaxRow
Class == {"thumbs", "previews"}     \* one per generation pass
Row   == [processed : BOOLEAN,      \* is_processed
          stamped   : BOOLEAN,      \* variants_ready_at is not null
          meta      : SUBSET Class] \* classes of the entries of variants_meta

\* A message names a task and the row it is for.
Message == {"process", "thumbs", "previews"} \X Pk

\* What a worker is doing: `todo` is the passes it still has to run, `got` the
\* variants_meta of the object it holds in memory, `end` how it closes: the
\* thumbnail task and two commands just stop after their pass, process_image
\* saves is_processed, generate_previews stamps variants_ready_at too.
Busy == [pk : Pk, step : {"purge", "reset", "render", "merge", "flag"},
         todo : {<<"thumbs">>, <<"previews">>, <<"thumbs", "previews">>, <<>>},
         got : SUBSET Class, end : {"stop", "flag", "stamp"}]
VARIABLES
    rows,     \* pk -> row, for the rows in the table
    born,     \* rows ever created
    aged,     \* rows created more than five minutes ago
    disk,     \* the classes whose files are all in the directory
    queue,    \* messages with the broker; a copy more is never told apart
    job       \* worker or shell -> what it is doing, for the busy ones

vars == <<rows, born, aged, disk, queue, job>>

TypeOK == /\ rows \in [DOMAIN rows -> Row]
          /\ DOMAIN rows \subseteq born
          /\ born \subseteq Pk /\ aged \subseteq born
          /\ disk \subseteq Class
          /\ queue \subseteq Message
          /\ DOMAIN job \subseteq Workers \cup Shells /\ job \in [DOMAIN job -> Busy]

Init == /\ rows = <<>>
        /\ born = {} /\ aged = {}
        /\ disk = {}
        /\ queue = {}
        /\ job = <<>>

-----------------------------------------------------------------------------
(* Rows come, age and go                                                   *)

\* post_save enqueues the processing of a new row; a broker that is down is
\* logged and the row stays for the beat.
Create(i) ==
    /\ i \notin born
    /\ born' = born \cup {i}
    /\ rows' = [j \in DOMAIN rows \cup {i} |->
                  IF j = i THEN [processed |-> FALSE, stamped |-> FALSE,
                                 meta |-> {}]
                           ELSE rows[j]]
    /\ \/ queue' = queue \cup {<<"process", i>>}
       \/ queue' = queue
    /\ UNCHANGED <<aged, disk, job>>

Age(i) == /\ i \in born \ aged
          /\ aged' = aged \cup {i}
          /\ UNCHANGED <<rows, born, disk, queue, job>>

\* A row is erased or swept.  Nothing removes the variants it leaves.
Remove(i) == /\ i \in DOMAIN rows
             /\ rows' = Restrict(rows, DOMAIN rows \ {i})
             /\ UNCHANGED <<born, aged, disk, queue, job>>

-----------------------------------------------------------------------------
(* Enqueuing                                                               *)

\* The preview task is sent under a name no worker has a task for.
PassesUnregistered(i) == {<<"thumbs", i>>, <<"geometry", i>>}

Passes(i) == {<<"thumbs", i>>, <<"previews", i>>}

\* process_image_async: thumbnails are sent first, and a send that fails ends
\* the task.
ProcessImageAsync(i) ==
    /\ <<"process", i>> \in queue
    /\ LET Rest == queue \ {<<"process", i>>}
       IN  IF i \in DOMAIN rows
           THEN \E Sent \in {{}, {<<"thumbs", i>>}, Passes(i)} :
                   queue' = Rest \cup Sent
           ELSE queue' = Rest
    /\ UNCHANGED <<rows, born, aged, disk, job>>

\* The beat looks for rows whose ladder was never finished.
StuckUnstamped == {i \in aged \cap DOMAIN rows : ~rows[i].stamped}

\* The rows the beat re-queues.
Stuck == {i \in aged \cap DOMAIN rows : ~rows[i].processed}

\* retry_unprocessed walks them newest first; a send that fails ends the task,
\* so what was sent is everything before it.
RetryUnprocessed(last, half) ==
    /\ Stuck # {}
    /\ queue' = queue \cup (UNION {Passes(i) : i \in {j \in Stuck : j > last}})
                      \cup (IF half /\ last \in Stuck THEN {<<"thumbs", last>>}
                                                      ELSE {})
    /\ UNCHANGED <<rows, born, aged, disk, job>>

\* regenerate_variants_async resets the flag, then enqueues or reports.
RegenerateAsync(i) ==
    /\ Admins
    /\ i \in DOMAIN rows
    /\ rows' = [rows EXCEPT ![i].processed = FALSE]
    /\ \/ queue' = queue \cup {<<"process", i>>}
       \/ queue' = queue
    /\ UNCHANGED <<born, aged, disk, job>>

-----------------------------------------------------------------------------
(* Rendering                                                               *)

\* A worker reads row i.
Start(w, i, step, todo, end) ==
    /\ w \notin DOMAIN job
    /\ i \in DOMAIN rows
    /\ job' = [v \in DOMAIN job \cup {w} |->
                 IF v = w THEN [pk |-> i, step |-> step, todo |-> todo,
                                got |-> rows[i].meta, end |-> end]
                          ELSE job[v]]

\* generate_thumbnails and generate_previews take their message off the queue
\* before they run; the task of a row that is gone logs and ends.
Take(w, c, i) ==
    /\ <<c, i>> \in queue
    /\ queue' = queue \ {<<c, i>>}
    /\ \/ Start(w, i, "render", <<c>>, IF c = "thumbs" THEN "stop" ELSE "stamp")
       \/ w \notin DOMAIN job /\ i \notin DOMAIN rows /\ UNCHANGED job
    /\ UNCHANGED <<rows, born, aged, disk>>

\* regenerate_sync runs process_image in the web process.
RegenerateSync(w, i) ==
    /\ Admins
    /\ Start(w, i, "render", <<"thumbs", "previews">>, "flag")
    /\ UNCHANGED <<rows, born, aged, disk, queue>>

\* cdn_backfill_media_meta runs the thumbnail pass on rows whose preview_b64 is
\* empty; any row can be one, a placeholder that did not fit leaves it so.
Backfill(w, i) ==
    /\ Commands
    /\ Start(w, i, "render", <<"thumbs">>, "stop")
    /\ UNCHANGED <<rows, born, aged, disk, queue>>

\* regenerate_media --previews-only writes over the files in place; without
\* the option the variant files go first ...
RegenerateMedia(w, i) ==
    /\ Commands
    /\ \/ Start(w, i, "render", <<"previews">>, "stop")
       \/ Start(w, i, "purge", <<"thumbs", "previews">>, "flag")
    /\ UNCHANGED <<rows, born, aged, disk, queue>>

At(w, step) == w \in DOMAIN job /\ job[w].step = step

Purge(w) ==
    /\ At(w, "purge")
    /\ disk' = {}
    /\ job' = [job EXCEPT ![w].step = "reset"]
    /\ UNCHANGED <<rows, born, aged, queue>>

\* A write to a row that is gone raises and ends the task.
Gone(w) == job[w].pk \notin DOMAIN rows

Drop(w) == job' = Restrict(job, DOMAIN job \ {w})

\* ... then the row is reset, then process_image runs.
Reset(w) ==
    /\ At(w, "reset")
    /\ \/ Gone(w) /\ Drop(w) /\ UNCHANGED rows
       \/ /\ ~Gone(w)
          /\ rows' = [rows EXCEPT ![job[w].pk].meta = {},
                                  ![job[w].pk].processed = FALSE]
          /\ job' = [job EXCEPT ![w].step = "render", ![w].got = {}]
    /\ UNCHANGED <<born, aged, disk, queue>>

\* The pass writes all of its files from the original.
Render(w) ==
    /\ At(w, "render")
    /\ disk' = disk \cup {Head(job[w].todo)}
    /\ job' = [job EXCEPT ![w].step = "merge"]
    /\ UNCHANGED <<rows, born, aged, queue>>

\* The pass writes its own entries over everybody's.
MergedOwnOnly(w) == {Head(job[w].todo)}

\* _merge_variants_meta: the entries the object was read with, less those of
\* this pass, and the new ones of this pass.
Merged(w) == job[w].got \cup {Head(job[w].todo)}

\* The thumbnail task closes like the preview task.
ClosesAlways(w) == TRUE

\* The last pass is done and something is left to save.
Closes(w) == job[w].end # "stop"

Merge(w) ==
    /\ At(w, "merge")
    /\ \/ Gone(w) /\ Drop(w) /\ UNCHANGED rows
       \/ LET rest == Tail(job[w].todo)
          IN  /\ ~Gone(w)
              /\ rows' = [rows EXCEPT ![job[w].pk].meta = Merged(w)]
              /\ IF rest = <<>> /\ ~Closes(w)
                 THEN Drop(w)
                 ELSE job' = [job EXCEPT
                        ![w].got = Merged(w), ![w].todo = rest,
                        ![w].step = IF rest = <<>> THEN "flag" ELSE "render"]
    /\ UNCHANGED <<born, aged, disk, queue>>

\* One save closes process_image (is_processed) and generate_previews
\* (is_processed and variants_ready_at).
Flag(w) ==
    /\ At(w, "flag")
    /\ Drop(w)
    /\ \/ Gone(w) /\ UNCHANGED rows
       \/ /\ ~Gone(w)
          /\ rows' = [rows EXCEPT
                 ![job[w].pk].processed = TRUE,
                 ![job[w].pk].stamped = @ \/ job[w].end = "stamp"]
    /\ UNCHANGED <<born, aged, disk, queue>>

\* A pass raises (unreadable original, full disk) or its worker dies; the
\* message is not delivered again.
Fail(w) ==
    /\ w \in DOMAIN job
    /\ Drop(w)
    /\ UNCHANGED <<rows, born, aged, disk, queue>>

-----------------------------------------------------------------------------

Next ==
    \/ \E i \in Pk : \/ Create(i) \/ Age(i) \/ Remove(i)
                    \/ ProcessImageAsync(i) \/ RegenerateAsync(i)
    \/ \E last \in 0..MaxRow, half \in BOOLEAN : RetryUnprocessed(last, half)
    \/ \E w \in Workers, c \in Class, i \in Pk : Take(w, c, i)
    \/ \E w \in Shells, i \in Pk :
          RegenerateSync(w, i) \/ RegenerateMedia(w, i) \/ Backfill(w, i)
    \/ \E w \in Workers \cup Shells : \/ Purge(w) \/ Reset(w) \/ Render(w)
                                    \/ Merge(w) \/ Flag(w) \/ Fail(w)

Spec == Init /\ [][Next]_vars

\* The preview task of row i does a step.
Previews(w, i, step) ==
    /\ w \in DOMAIN job
    /\ job[w].pk = i /\ job[w].end = "stamp"
    /\ step

\* The beat fires again and again, and not every run of it meets a broker that
\* is down; a task ends somehow; a message that keeps coming back is taken at
\* last; no step of the preview task of a row fails every time.
Fairness ==
    /\ \A i \in Pk : WF_vars(Age(i))
    /\ SF_vars(RetryUnprocessed(0, FALSE))
    /\ \A w \in Workers : WF_vars(Render(w) \/ Merge(w) \/ Flag(w) \/ Fail(w))
    /\ \A i \in Pk :
          /\ SF_vars(\E w \in Workers : Take(w, "previews", i))
          /\ SF_vars(\E w \in Workers : Previews(w, i, Render(w)))
          /\ SF_vars(\E w \in Workers : Previews(w, i, Merge(w)))
          /\ SF_vars(\E w \in Workers : Previews(w, i, Flag(w)))

LiveSpec == Spec /\ Fairness

-----------------------------------------------------------------------------
(* Properties                                                              *)

\* An image that answers "ready" has its preview ladder in storage, whatever
\* tasks, retries and admin actions ran over it and its siblings, and in
\* whatever order.
ReadyMeansLadder ==
    \A i \in DOMAIN rows : rows[i].processed => "previews" \in disk

\* No two processes are at work on row i: no thumbnail and preview task, no task
\* and command.
Alone(i) == \A v, w \in DOMAIN job : job[v].pk = i /\ job[w].pk = i => v = w

ReadyHasGeometry(i) ==
    i \in DOMAIN rows /\ rows[i].processed => "previews" \in rows[i].meta

\* Only passes of one row that overlap let it answer "ready" without the geometry
\* of its preview ladder in variants_meta: as long as its tasks and commands happen
\* not to be at work on it at once, no order of them, retry, admin's reset, failure
\* half way or work on other rows leaves the status and the metadata telling two
\* stories.
GeometryNeedsNoOverlap ==
    \A i \in Pk : []Alone(i) => []ReadyHasGeometry(i)

\* A generation pass replaces the entries of its own class and of no other
\* ("each pass replaces its own class wholesale").
MergeKeepsOtherClass ==
    [][\A w \in Workers \cup Shells : Merge(w) =>
          \A i \in DOMAIN rows : rows[i].meta \subseteq rows'[i].meta]_vars

\* A row is not pending for ever: broker outages, lost messages, workers that
\* die half way and admins that reset it end in a ladder or in its removal.
PendingEnds ==
    \A i \in Pk : i \in DOMAIN rows /\ ~rows[i].processed
                    ~> i \notin DOMAIN rows \/ rows[i].processed
=============================================================================
