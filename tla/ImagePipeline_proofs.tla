------------------------ MODULE ImagePipeline_proofs ------------------------
(***************************************************************************)
(* What holds of the image pipeline for any number of workers, shells and  *)
(* rows.                                                                   *)
(***************************************************************************)
EXTENDS ImagePipeline, TLAPS

(***************************************************************************)
(* Type correctness                                                        *)
(***************************************************************************)

\* Starting a job types.
LEMMA StartTypes ==
    ASSUME TypeOK, NEW w \in Workers \cup Shells, NEW i \in Pk,
           NEW step \in {"purge", "reset", "render", "merge", "flag"},
           NEW todo \in {<<"thumbs">>, <<"previews">>, <<"thumbs", "previews">>},
           NEW end \in {"stop", "flag", "stamp"},
           Start(w, i, step, todo, end)
    PROVE  DOMAIN job' \subseteq Workers \cup Shells
           /\ job' \in [DOMAIN job' -> Busy]
  <1>1. rows[i].meta \in SUBSET Class
    BY DEF TypeOK, Row, Start
  <1>2. [pk |-> i, step |-> step, todo |-> todo, got |-> rows[i].meta,
         end |-> end] \in Busy
    BY <1>1 DEF Busy
  <1> QED
    BY <1>2 DEF TypeOK, Start

\* Ending one types.
LEMMA DropTypes ==
    ASSUME TypeOK, NEW w \in DOMAIN job, Drop(w)
    PROVE  /\ DOMAIN job' = DOMAIN job \ {w}
           /\ \A v \in DOMAIN job' : job'[v] = job[v]
           /\ job' \in [DOMAIN job' -> Busy]
  BY DEF TypeOK, Drop, Restrict

\* A job has passes left exactly until it comes to its last save.
PlanOK == \A w \in DOMAIN job : job[w].todo = <<>> <=> job[w].step = "flag"

\* A job that is not at its last save has a pass to run.
LEMMA PassLeft ==
    ASSUME TypeOK, PlanOK, NEW w \in DOMAIN job, job[w].step # "flag"
    PROVE  /\ Head(job[w].todo) \in Class
           /\ \/ job[w].todo = <<"thumbs">> /\ Tail(job[w].todo) = <<>>
              \/ job[w].todo = <<"previews">> /\ Tail(job[w].todo) = <<>>
              \/ /\ job[w].todo = <<"thumbs", "previews">>
                 /\ Tail(job[w].todo) = <<"previews">>
  <1>1. job[w].todo \in {<<"thumbs">>, <<"previews">>, <<"thumbs", "previews">>}
    BY DEF TypeOK, PlanOK, Busy
  <1>2. CASE job[w].todo = <<"thumbs">>
    <2>1. Head(<<"thumbs">>) = "thumbs" /\ Tail(<<"thumbs">>) = <<>>
      OBVIOUS
    <2> QED
      BY <1>2, <2>1 DEF Class
  <1>3. CASE job[w].todo = <<"previews">>
    <2>1. Head(<<"previews">>) = "previews" /\ Tail(<<"previews">>) = <<>>
      OBVIOUS
    <2> QED
      BY <1>3, <2>1 DEF Class
  <1>4. CASE job[w].todo = <<"thumbs", "previews">>
    <2>1. /\ Head(<<"thumbs", "previews">>) = "thumbs"
          /\ Tail(<<"thumbs", "previews">>) = <<"previews">>
      OBVIOUS
    <2> QED
      BY <1>4, <2>1 DEF Class
  <1> QED
    BY <1>1, <1>2, <1>3, <1>4

\* Every step keeps the types.
LEMMA TypeStep ==
    ASSUME TypeOK, PlanOK, [Next]_vars
    PROVE  TypeOK'
  <1>1. ASSUME NEW i \in Pk, Create(i) PROVE TypeOK'
    BY <1>1 DEF TypeOK, Create, Row, Message
  <1>2. ASSUME NEW i \in Pk, Age(i) PROVE TypeOK'
    BY <1>2 DEF TypeOK, Age
  <1>3. ASSUME NEW i \in Pk, Remove(i) PROVE TypeOK'
    BY <1>3 DEF TypeOK, Remove, Restrict
  <1>4. ASSUME NEW i \in Pk, ProcessImageAsync(i) PROVE TypeOK'
    BY <1>4 DEF TypeOK, ProcessImageAsync, Passes, Message
  <1>5. ASSUME NEW i \in Pk, RegenerateAsync(i) PROVE TypeOK'
    <2>1. rows' \in [DOMAIN rows -> Row] /\ DOMAIN rows' = DOMAIN rows
      BY <1>5 DEF TypeOK, RegenerateAsync, Row
    <2>2. queue' \subseteq Message
      BY <1>5 DEF TypeOK, RegenerateAsync, Message
    <2> QED
      BY <1>5, <2>1, <2>2 DEF TypeOK, RegenerateAsync
  <1>6. ASSUME NEW last \in 0..MaxRow, NEW half \in BOOLEAN,
               RetryUnprocessed(last, half)
        PROVE  TypeOK'
    <2>1. Stuck \subseteq Pk
      BY DEF Stuck, TypeOK
    <2>2. \A i \in Pk : Passes(i) \subseteq Message
      BY DEF Passes, Message
    <2>3. UNION {Passes(i) : i \in {j \in Stuck : j > last}} \subseteq Message
      BY <2>1, <2>2
    <2>4. (IF half /\ last \in Stuck THEN {<<"thumbs", last>>} ELSE {})
             \subseteq Message
      BY <2>1 DEF Message
    <2>5. queue' \subseteq Message
      BY <1>6, <2>3, <2>4 DEF RetryUnprocessed, TypeOK
    <2> QED
      BY <1>6, <2>5 DEF RetryUnprocessed, TypeOK
  <1>7. ASSUME NEW w \in Workers, NEW c \in Class, NEW i \in Pk, Take(w, c, i)
        PROVE  TypeOK'
    <2>1. CASE i \notin DOMAIN rows
      BY <1>7, <2>1 DEF TypeOK, Take, Start
    <2>2. CASE Start(w, i, "render", <<c>>,
                     IF c = "thumbs" THEN "stop" ELSE "stamp")
      <3>1. <<c>> \in {<<"thumbs">>, <<"previews">>, <<"thumbs", "previews">>}
        BY DEF Class
      <3>2. DOMAIN job' \subseteq Workers \cup Shells
            /\ job' \in [DOMAIN job' -> Busy]
        BY <2>2, <3>1, StartTypes
      <3> QED
        BY <1>7, <3>2 DEF TypeOK, Take
    <2> QED
      BY <1>7, <2>1, <2>2 DEF Take
  <1>8. ASSUME NEW w \in Shells, NEW i \in Pk,
               \/ RegenerateSync(w, i)
               \/ RegenerateMedia(w, i)
               \/ Backfill(w, i)
        PROVE  TypeOK'
    <2>1. DOMAIN job' \subseteq Workers \cup Shells
          /\ job' \in [DOMAIN job' -> Busy]
      BY <1>8, StartTypes DEF RegenerateSync, RegenerateMedia, Backfill
    <2> QED
      BY <1>8, <2>1 DEF TypeOK, RegenerateSync, RegenerateMedia, Backfill
  <1>9. ASSUME NEW w \in Workers \cup Shells,
               \/ Purge(w) \/ Reset(w) \/ Render(w)
               \/ Merge(w) \/ Flag(w) \/ Fail(w)
        PROVE  TypeOK'
    <2>0. /\ w \in DOMAIN job
          /\ job[w] \in Busy
      BY <1>9 DEF TypeOK, Purge, Reset, Render, Merge, Flag, Fail, At
    <2>1. CASE Purge(w)
      BY <2>0, <2>1 DEF TypeOK, Purge, Busy
    <2>2. CASE Reset(w)
      <3>1. CASE Gone(w)
        BY <2>0, <2>2, <3>1, DropTypes DEF TypeOK, Reset
      <3>2. CASE ~Gone(w)
        <4>1. rows' \in [DOMAIN rows -> Row]
          BY <2>0, <2>2, <3>2 DEF TypeOK, Reset, Gone, Row, Class
        <4>2. job' \in [DOMAIN job -> Busy]
          BY <2>0, <2>2, <3>2 DEF TypeOK, Reset, Busy
        <4> QED
          BY <2>2, <4>1, <4>2 DEF TypeOK, Reset
      <3> QED
        BY <3>1, <3>2
    <2>3. CASE Render(w)
      <3>1. Head(job[w].todo) \in Class
        BY <2>0, <2>3, PassLeft DEF Render, At
      <3>2. job' \in [DOMAIN job -> Busy]
        BY <2>0, <2>3 DEF TypeOK, Render, Busy
      <3> QED
        BY <2>3, <3>1, <3>2 DEF TypeOK, Render
    <2>4. CASE Merge(w)
      <3>1. CASE Gone(w)
        BY <2>0, <2>4, <3>1, DropTypes DEF TypeOK, Merge
      <3>2. CASE ~Gone(w)
        <4> DEFINE rest == Tail(job[w].todo)
        <4>1. Merged(w) \in SUBSET Class
          BY <2>0, <2>4, PassLeft DEF Merge, At, Merged, Busy
        <4>2. rest \in {<<"thumbs">>, <<"previews">>,
                        <<"thumbs", "previews">>, <<>>}
          BY <2>0, <2>4, PassLeft DEF Merge, At
        <4>3. rows' \in [DOMAIN rows -> Row] /\ DOMAIN rows' = DOMAIN rows
          BY <2>4, <3>2, <4>1 DEF Merge, TypeOK, Row, Gone
        <4>4. CASE rest = <<>> /\ ~Closes(w)
          <5>1. Drop(w)
            BY <2>4, <3>2, <4>4 DEF Merge
          <5> QED
            BY <2>0, <2>4, <4>3, <5>1, DropTypes DEF TypeOK, Merge
        <4>5. CASE ~(rest = <<>> /\ ~Closes(w))
          <5>1. job' = [job EXCEPT
                          ![w].got = Merged(w), ![w].todo = rest,
                          ![w].step = IF rest = <<>> THEN "flag" ELSE "render"]
            BY <2>4, <3>2, <4>5 DEF Merge
          <5>2. job' \in [DOMAIN job -> Busy] /\ DOMAIN job' = DOMAIN job
            <6> HIDE DEF rest
            <6> QED
              BY <2>0, <4>1, <4>2, <5>1 DEF TypeOK, Busy
          <5> QED
            BY <2>4, <4>3, <5>2 DEF TypeOK, Merge
        <4> QED
          BY <4>4, <4>5
      <3> QED
        BY <3>1, <3>2
    <2>5. CASE Flag(w)
      <3>1. rows' \in [DOMAIN rows -> Row]
        <4>1. CASE Gone(w)
          BY <2>5, <4>1 DEF TypeOK, Flag
        <4>2. CASE ~Gone(w)
          <5> DEFINE b == rows[job[w].pk].stamped \/ job[w].end = "stamp"
          <5>1. b \in BOOLEAN
            BY Zenon
          <5>2. rows' = [rows EXCEPT ![job[w].pk].processed = TRUE,
                                     ![job[w].pk].stamped = b]
            BY <2>5, <4>2 DEF Flag
          <5>3. job[w].pk \in DOMAIN rows
            BY <4>2 DEF Gone
          <5> HIDE DEF b
          <5> QED
            BY <5>1, <5>2, <5>3 DEF TypeOK, Row
        <4> QED
          BY <4>1, <4>2
      <3> QED
        BY <2>0, <2>5, <3>1, DropTypes DEF TypeOK, Flag
    <2>6. CASE Fail(w)
      BY <2>0, <2>6, DropTypes DEF TypeOK, Fail
    <2> QED
      BY <1>9, <2>1, <2>2, <2>3, <2>4, <2>5, <2>6
  <1>10. CASE UNCHANGED vars
    BY <1>10 DEF TypeOK, vars
  <1> QED
    BY <1>1, <1>2, <1>3, <1>4, <1>5, <1>6, <1>7, <1>8, <1>9, <1>10 DEF Next

\* How each step changes the jobs: one is taken up at its first pass (or at
\* the purge of regenerate_media), one ends, or one goes on.
LEMMA JobStep ==
    ASSUME TypeOK, PlanOK, [Next]_vars
    PROVE  \/ UNCHANGED job
           \/ \E w \in (Workers \cup Shells) \ DOMAIN job :
                 /\ DOMAIN job' = DOMAIN job \cup {w}
                 /\ \A v \in DOMAIN job : job'[v] = job[v]
                 /\ job'[w].step # "flag" /\ job'[w].todo # <<>>
           \/ \E w \in DOMAIN job :
                 /\ DOMAIN job' = DOMAIN job \ {w}
                 /\ \A v \in DOMAIN job' : job'[v] = job[v]
           \/ \E w \in DOMAIN job :
                 /\ DOMAIN job' = DOMAIN job
                 /\ \A v \in DOMAIN job \ {w} : job'[v] = job[v]
                 /\ job'[w].todo = <<>> <=> job'[w].step = "flag"
  <1> DEFINE Goal ==
           \/ UNCHANGED job
           \/ \E w \in (Workers \cup Shells) \ DOMAIN job :
                 /\ DOMAIN job' = DOMAIN job \cup {w}
                 /\ \A v \in DOMAIN job : job'[v] = job[v]
                 /\ job'[w].step # "flag" /\ job'[w].todo # <<>>
           \/ \E w \in DOMAIN job :
                 /\ DOMAIN job' = DOMAIN job \ {w}
                 /\ \A v \in DOMAIN job' : job'[v] = job[v]
           \/ \E w \in DOMAIN job :
                 /\ DOMAIN job' = DOMAIN job
                 /\ \A v \in DOMAIN job \ {w} : job'[v] = job[v]
                 /\ job'[w].todo = <<>> <=> job'[w].step = "flag"
  <1>1. ASSUME NEW i \in Pk, \/ Create(i) \/ Age(i) \/ Remove(i)
                             \/ ProcessImageAsync(i) \/ RegenerateAsync(i)
        PROVE  Goal
    BY <1>1 DEF Create, Age, Remove, ProcessImageAsync, RegenerateAsync
  <1>2. ASSUME NEW last, NEW half, RetryUnprocessed(last, half)
        PROVE  Goal
    BY <1>2 DEF RetryUnprocessed
  <1>3. ASSUME NEW w \in Workers \cup Shells, NEW i, NEW step, NEW todo, NEW end,
               Start(w, i, step, todo, end), step # "flag", todo # <<>>
        PROVE  Goal
    <2>1. /\ w \notin DOMAIN job
          /\ DOMAIN job' = DOMAIN job \cup {w}
          /\ \A v \in DOMAIN job : job'[v] = job[v]
          /\ job'[w].step = step /\ job'[w].todo = todo
      BY <1>3 DEF Start
    <2> QED
      BY <1>3, <2>1
  <1>4. ASSUME NEW w \in Workers, NEW c \in Class, NEW i \in Pk, Take(w, c, i)
        PROVE  Goal
    BY <1>3, <1>4 DEF Take
  <1>5. ASSUME NEW w \in Shells, NEW i \in Pk,
               \/ RegenerateSync(w, i)
               \/ RegenerateMedia(w, i)
               \/ Backfill(w, i)
        PROVE  Goal
    BY <1>3, <1>5 DEF RegenerateSync, RegenerateMedia, Backfill
  <1>6. ASSUME NEW w \in DOMAIN job, Drop(w)
        PROVE  Goal
    BY <1>6, DropTypes
  <1>7. ASSUME NEW w \in DOMAIN job, Purge(w) \/ Render(w)
        PROVE  Goal
    <2>1. job[w].todo # <<>>
      BY <1>7 DEF PlanOK, Purge, Render, At
    <2> QED
      BY <1>7, <2>1 DEF Purge, Render, TypeOK, Busy
  <1>8. ASSUME NEW w \in DOMAIN job, Reset(w)
        PROVE  Goal
    <2>1. job[w].todo # <<>>
      BY <1>8 DEF PlanOK, Reset, At
    <2>2. CASE Drop(w)
      BY <1>6, <2>2
    <2>3. CASE job' = [job EXCEPT ![w].step = "render", ![w].got = {}]
      BY <2>1, <2>3 DEF TypeOK, Busy
    <2> QED
      BY <1>8, <2>2, <2>3 DEF Reset
  <1>9. ASSUME NEW w \in DOMAIN job, Merge(w)
        PROVE  Goal
    <2> DEFINE rest == Tail(job[w].todo)
    <2>1. CASE Drop(w)
      BY <1>6, <2>1
    <2>2. CASE job' = [job EXCEPT
                         ![w].got = Merged(w), ![w].todo = rest,
                         ![w].step = IF rest = <<>> THEN "flag" ELSE "render"]
      <3> HIDE DEF rest
      <3> QED
        BY <2>2 DEF TypeOK, Busy
    <2> QED
      BY <1>9, <2>1, <2>2 DEF Merge
  <1>10. ASSUME NEW w \in Workers \cup Shells,
                \/ Purge(w) \/ Reset(w) \/ Render(w)
                \/ Merge(w) \/ Flag(w) \/ Fail(w)
         PROVE  Goal
    <2>1. w \in DOMAIN job
      BY <1>10 DEF Purge, Reset, Render, Merge, Flag, Fail, At
    <2> QED
      BY <1>6, <1>7, <1>8, <1>9, <1>10, <2>1 DEF Flag, Fail
  <1>11. CASE UNCHANGED vars
    BY <1>11 DEF vars
  <1> QED
    BY <1>1, <1>2, <1>4, <1>5, <1>10, <1>11 DEF Next

LEMMA PlanStep ==
    ASSUME TypeOK, PlanOK, [Next]_vars
    PROVE  PlanOK'
  BY JobStep DEF PlanOK

\* Every state the pipeline reaches is well typed, for any number of workers,
\* shells and rows.
THEOREM TypeCorrect == Spec => [](TypeOK /\ PlanOK)
  <1>1. Init => TypeOK /\ PlanOK
    BY DEF Init, TypeOK, PlanOK
  <1>2. TypeOK /\ PlanOK /\ [Next]_vars => TypeOK' /\ PlanOK'
    BY TypeStep, PlanStep
  <1> QED
    BY <1>1, <1>2, PTL DEF Spec

(***************************************************************************)
(* A ready image has its ladder, as long as no operator purges files.      *)
(***************************************************************************)

\* A job that is about to say "ready" has put the preview files in storage: it
\* comes to its last save only from the merge of a preview pass, and it comes
\* to a merge only from the rendering of that pass.
LadderInv ==
    /\ ReadyMeansLadder
    /\ \A w \in DOMAIN job :
          /\ job[w].step \notin {"purge", "reset"}
          /\ job[w].step = "flag" => "previews" \in disk
          /\ job[w].step = "merge" => Head(job[w].todo) \in disk
          /\ job[w].end # "stop" => job[w].todo # <<"thumbs">>

LEMMA LadderStep ==
    ASSUME ~Commands, TypeOK, PlanOK, LadderInv, [Next]_vars
    PROVE  LadderInv'
  <1>1. ASSUME NEW i \in Pk, \/ Create(i) \/ Age(i) \/ Remove(i)
                             \/ ProcessImageAsync(i) \/ RegenerateAsync(i)
        PROVE  LadderInv'
    <2>1. UNCHANGED <<job, disk>>
      BY <1>1 DEF Create, Age, Remove, ProcessImageAsync, RegenerateAsync
    <2>2. ReadyMeansLadder'
      BY <1>1, <2>1 DEF Create, Age, Remove, ProcessImageAsync,
            RegenerateAsync, Restrict, LadderInv, ReadyMeansLadder, TypeOK, Row
    <2> QED
      BY <2>1, <2>2 DEF LadderInv
  <1>2. ASSUME NEW last, NEW half, RetryUnprocessed(last, half)
        PROVE  LadderInv'
    BY <1>2 DEF RetryUnprocessed, LadderInv, ReadyMeansLadder
  <1>3. ASSUME NEW w, NEW i, NEW todo, NEW end,
               Start(w, i, "render", todo, end), UNCHANGED <<rows, disk>>,
               end # "stop" => todo # <<"thumbs">>
        PROVE  LadderInv'
    <2>1. /\ w \notin DOMAIN job
          /\ DOMAIN job' = DOMAIN job \cup {w}
          /\ \A v \in DOMAIN job : job'[v] = job[v]
          /\ job'[w].step = "render" /\ job'[w].todo = todo
          /\ job'[w].end = end
      BY <1>3 DEF Start
    <2> QED
      BY <1>3, <2>1 DEF LadderInv, ReadyMeansLadder
  <1>4. ASSUME NEW w \in Workers, NEW c \in Class, NEW i \in Pk, Take(w, c, i)
        PROVE  LadderInv'
    <2>1. CASE UNCHANGED job
      BY <1>4, <2>1 DEF Take, LadderInv, ReadyMeansLadder
    <2>2. CASE Start(w, i, "render", <<c>>,
                     IF c = "thumbs" THEN "stop" ELSE "stamp")
      <3>1. (IF c = "thumbs" THEN "stop" ELSE "stamp") # "stop"
               => <<c>> # <<"thumbs">>
        BY DEF Class
      <3> QED
        BY <1>3, <1>4, <2>2, <3>1 DEF Take
    <2> QED
      BY <1>4, <2>1, <2>2 DEF Take
  <1>5. ASSUME NEW w \in Shells, NEW i \in Pk,
               \/ RegenerateSync(w, i)
               \/ RegenerateMedia(w, i)
               \/ Backfill(w, i)
        PROVE  LadderInv'
    <2>1. RegenerateSync(w, i)
      BY <1>5 DEF RegenerateMedia, Backfill
    <2>2. <<"thumbs", "previews">> # <<"thumbs">>
      OBVIOUS
    <2> QED
      BY <1>3, <2>1, <2>2 DEF RegenerateSync
  <1>6. ASSUME NEW w \in DOMAIN job, Drop(w), disk' = disk,
               \A i \in DOMAIN rows' : rows'[i].processed =>
                   "previews" \in disk
        PROVE  LadderInv'
    BY <1>6, DropTypes DEF LadderInv, ReadyMeansLadder
  <1>7. ASSUME NEW w \in DOMAIN job, Render(w)
        PROVE  LadderInv'
    <2>1. /\ DOMAIN job' = DOMAIN job
          /\ \A v \in DOMAIN job \ {w} : job'[v] = job[v]
          /\ job'[w].step = "merge" /\ job'[w].todo = job[w].todo
          /\ job'[w].end = job[w].end
      BY <1>7 DEF Render, TypeOK, Busy
    <2>2. disk \subseteq disk' /\ Head(job[w].todo) \in disk'
      BY <1>7 DEF Render
    <2>3. UNCHANGED rows
      BY <1>7 DEF Render
    <2> QED
      BY <2>1, <2>2, <2>3 DEF LadderInv, ReadyMeansLadder
  <1>8. ASSUME NEW w \in DOMAIN job, Merge(w)
        PROVE  LadderInv'
    <2> DEFINE rest == Tail(job[w].todo)
    <2>1. disk' = disk
      BY <1>8 DEF Merge
    <2>2. \A i \in DOMAIN rows' : rows'[i].processed => "previews" \in disk
      <3>1. CASE UNCHANGED rows
        BY <3>1 DEF LadderInv, ReadyMeansLadder
      <3>2. CASE /\ ~Gone(w)
                 /\ rows' = [rows EXCEPT ![job[w].pk].meta = Merged(w)]
        <4>1. /\ DOMAIN rows' = DOMAIN rows
              /\ \A i \in DOMAIN rows : rows'[i].processed = rows[i].processed
          BY <3>2 DEF TypeOK, Row, Gone
        <4> QED
          BY <4>1 DEF LadderInv, ReadyMeansLadder
      <3> QED
        BY <1>8, <3>1, <3>2 DEF Merge
    <2>3. CASE Drop(w)
      BY <1>6, <2>1, <2>2, <2>3
    <2>4. CASE /\ job' = [job EXCEPT
                         ![w].got = Merged(w), ![w].todo = rest,
                         ![w].step = IF rest = <<>> THEN "flag" ELSE "render"]
               /\ ~(rest = <<>> /\ ~Closes(w))
      <3>1. job[w].step # "flag" /\ job[w].step = "merge"
        BY <1>8 DEF Merge, At
      <3>2. rest = <<>> => job[w].todo = <<"previews">>
        BY <2>4, <3>1, PassLeft DEF LadderInv, Closes
      <3>3. rest = <<>> => "previews" \in disk
        <4>1. Head(<<"previews">>) = "previews"
          OBVIOUS
        <4> QED
          BY <3>1, <3>2, <4>1 DEF LadderInv
      <3>4. rest # <<"thumbs">>
        <4>1. <<"previews">> # <<"thumbs">> /\ <<>> # <<"thumbs">>
          OBVIOUS
        <4> QED
          BY <3>1, <4>1, PassLeft
      <3>5. /\ DOMAIN job' = DOMAIN job
            /\ \A v \in DOMAIN job \ {w} : job'[v] = job[v]
            /\ job'[w].step = IF rest = <<>> THEN "flag" ELSE "render"
            /\ job'[w].todo = rest
        <4> HIDE DEF rest
        <4> QED
          BY <2>4 DEF TypeOK, Busy
      <3> HIDE DEF rest
      <3> QED
        BY <2>1, <2>2, <3>3, <3>4, <3>5 DEF LadderInv, ReadyMeansLadder
    <2> QED
      BY <1>8, <2>3, <2>4 DEF Merge
  <1>9. ASSUME NEW w \in DOMAIN job, Flag(w)
        PROVE  LadderInv'
    <2>1. "previews" \in disk
      BY <1>9 DEF Flag, At, LadderInv
    <2> QED
      BY <1>6, <1>9, <2>1 DEF Flag
  <1>10. ASSUME NEW w \in DOMAIN job, Fail(w)
         PROVE  LadderInv'
    BY <1>6, <1>10 DEF Fail, LadderInv, ReadyMeansLadder
  <1>11. ASSUME NEW w \in Workers \cup Shells,
                \/ Purge(w) \/ Reset(w) \/ Render(w)
                \/ Merge(w) \/ Flag(w) \/ Fail(w)
         PROVE  LadderInv'
    <2>1. w \in DOMAIN job
      BY <1>11 DEF Purge, Reset, Render, Merge, Flag, Fail, At
    <2>2. ~Purge(w) /\ ~Reset(w)
      BY <2>1 DEF Purge, Reset, At, LadderInv
    <2> QED
      BY <1>7, <1>8, <1>9, <1>10, <1>11, <2>1, <2>2
  <1>12. CASE UNCHANGED vars
    BY <1>12 DEF vars, LadderInv, ReadyMeansLadder
  <1> QED
    BY <1>1, <1>2, <1>4, <1>5, <1>11, <1>12 DEF Next

\* An image that answers "ready" has its preview ladder in storage: however
\* many workers and admins there are, whatever fails, as long as no operator
\* runs regenerate_media.
THEOREM ReadyHasLadder ==
    ASSUME ~Commands
    PROVE  Spec => []ReadyMeansLadder
  <1>1. Init => LadderInv
    BY DEF Init, LadderInv, ReadyMeansLadder
  <1>2. TypeOK /\ PlanOK /\ LadderInv /\ [Next]_vars => LadderInv'
    BY LadderStep
  <1>3. LadderInv => ReadyMeansLadder
    BY DEF LadderInv
  <1> QED
    BY <1>1, <1>2, <1>3, TypeCorrect, PTL DEF Spec

(***************************************************************************)
(* Status and metadata of a row agree, as long as no two processes work on *)
(* it at once.                                                             *)
(***************************************************************************)

\* What a job holds in memory is not older than the row it is for, and a job
\* that is about to say "ready" has written the preview entries.
GeometryInv(i) ==
    /\ ReadyHasGeometry(i)
    /\ \A w \in DOMAIN job : job[w].pk = i =>
          /\ i \in born
          /\ job[w].end # "stop" => job[w].todo # <<"thumbs">>
          /\ i \in DOMAIN rows =>
                /\ job[w].step \in {"render", "merge", "flag"} =>
                      rows[i].meta \subseteq job[w].got
                /\ job[w].step = "flag" => "previews" \in rows[i].meta

\* A step of a process that is on another row.
LEMMA OtherRowStep ==
    ASSUME NEW i, NEW w \in DOMAIN job, job[w].pk # i, GeometryInv(i),
           DOMAIN job' \subseteq DOMAIN job,
           \A v \in DOMAIN job' \ {w} : job'[v] = job[v],
           w \in DOMAIN job' => job'[w].pk = job[w].pk,
           DOMAIN rows' = DOMAIN rows, born' = born,
           i \in DOMAIN rows => rows'[i] = rows[i]
    PROVE  GeometryInv(i)'
  BY DEF GeometryInv, ReadyHasGeometry

LEMMA GeometryStep ==
    ASSUME TypeOK, PlanOK, NEW i \in Pk, Alone(i), GeometryInv(i), [Next]_vars
    PROVE  GeometryInv(i)'
  <1>1. ASSUME NEW r \in Pk, \/ Create(r) \/ Age(r) \/ Remove(r)
                             \/ ProcessImageAsync(r) \/ RegenerateAsync(r)
        PROVE  GeometryInv(i)'
    <2>1. /\ UNCHANGED job
          /\ born \subseteq born'
          /\ \A j \in DOMAIN rows' \cap DOMAIN rows :
                /\ rows'[j].meta = rows[j].meta
                /\ rows'[j].processed => rows[j].processed
          /\ \A j \in DOMAIN rows' \ DOMAIN rows :
                j \notin born /\ ~rows'[j].processed
      BY <1>1 DEF Create, Age, Remove, ProcessImageAsync, RegenerateAsync,
            Restrict, TypeOK, Row
    <2> QED
      BY <2>1 DEF GeometryInv, ReadyHasGeometry
  <1>2. ASSUME NEW last, NEW half, RetryUnprocessed(last, half)
        PROVE  GeometryInv(i)'
    BY <1>2 DEF RetryUnprocessed, GeometryInv, ReadyHasGeometry
  <1>3. ASSUME NEW w, NEW r, NEW step, NEW todo, NEW end,
               Start(w, r, step, todo, end), UNCHANGED <<rows, born>>,
               step # "flag", end # "stop" => todo # <<"thumbs">>
        PROVE  GeometryInv(i)'
    <2>1. /\ w \notin DOMAIN job /\ r \in DOMAIN rows
          /\ DOMAIN job' = DOMAIN job \cup {w}
          /\ \A v \in DOMAIN job : job'[v] = job[v]
          /\ job'[w].pk = r /\ job'[w].step = step /\ job'[w].todo = todo
          /\ job'[w].got = rows[r].meta /\ job'[w].end = end
      BY <1>3 DEF Start
    <2> QED
      BY <1>3, <2>1 DEF GeometryInv, ReadyHasGeometry, TypeOK
  <1>4. ASSUME NEW w \in Workers, NEW c \in Class, NEW r \in Pk, Take(w, c, r)
        PROVE  GeometryInv(i)'
    <2>1. CASE UNCHANGED job
      BY <1>4, <2>1 DEF Take, GeometryInv, ReadyHasGeometry
    <2>2. CASE Start(w, r, "render", <<c>>,
                     IF c = "thumbs" THEN "stop" ELSE "stamp")
      <3>1. (IF c = "thumbs" THEN "stop" ELSE "stamp") # "stop"
               => <<c>> # <<"thumbs">>
        BY DEF Class
      <3> QED
        BY <1>3, <1>4, <2>2, <3>1 DEF Take
    <2> QED
      BY <1>4, <2>1, <2>2 DEF Take
  <1>5. ASSUME NEW w \in Shells, NEW r \in Pk,
               \/ RegenerateSync(w, r)
               \/ RegenerateMedia(w, r)
               \/ Backfill(w, r)
        PROVE  GeometryInv(i)'
    <2>1. <<"thumbs", "previews">> # <<"thumbs">>
      OBVIOUS
    <2> QED
      BY <1>3, <1>5, <2>1 DEF RegenerateSync, RegenerateMedia, Backfill
  <1>6. ASSUME NEW w \in DOMAIN job, job[w].pk = i, NEW v \in DOMAIN job \ {w}
        PROVE  job[v].pk # i
    BY <1>6 DEF Alone
  <1>7. ASSUME NEW w \in DOMAIN job, job[w].pk = i, Drop(w),
               DOMAIN rows' = DOMAIN rows,
               i \in DOMAIN rows => (rows'[i].processed => "previews" \in rows'[i].meta)
        PROVE  GeometryInv(i)'
    <2>1. DOMAIN job' = DOMAIN job \ {w} /\ \A v \in DOMAIN job' : job'[v] = job[v]
      BY <1>7 DEF Drop, Restrict
    <2> QED
      BY <1>6, <1>7, <2>1 DEF GeometryInv, ReadyHasGeometry
  <1>8. ASSUME NEW w \in DOMAIN job, Purge(w) \/ Render(w)
        PROVE  GeometryInv(i)'
    <2>1. /\ DOMAIN job' = DOMAIN job
          /\ \A v \in DOMAIN job \ {w} : job'[v] = job[v]
          /\ job'[w].pk = job[w].pk /\ job'[w].got = job[w].got
          /\ job'[w].todo = job[w].todo /\ job'[w].end = job[w].end
          /\ \/ job'[w].step = "reset"
             \/ job'[w].step = "merge" /\ job[w].step = "render"
      <3>1. \/ job' = [job EXCEPT ![w].step = "reset"]
            \/ job' = [job EXCEPT ![w].step = "merge"] /\ job[w].step = "render"
        BY <1>8 DEF Purge, Render, At
      <3>2. ASSUME NEW s, job' = [job EXCEPT ![w].step = s]
            PROVE  /\ DOMAIN job' = DOMAIN job
                   /\ \A v \in DOMAIN job \ {w} : job'[v] = job[v]
                   /\ job'[w].pk = job[w].pk /\ job'[w].got = job[w].got
                   /\ job'[w].todo = job[w].todo /\ job'[w].end = job[w].end
                   /\ job'[w].step = s
        <4>1. job[w] \in Busy /\ job'[w] = [job[w] EXCEPT !.step = s]
          BY <3>2 DEF TypeOK
        <4> QED
          BY <3>2, <4>1 DEF Busy
      <3> QED
        BY <3>1, <3>2
    <2>2. UNCHANGED <<rows, born>>
      BY <1>8 DEF Purge, Render
    <2> QED
      BY <2>1, <2>2 DEF GeometryInv, ReadyHasGeometry
  <1>9. ASSUME NEW w \in DOMAIN job, job[w].pk = i, Reset(w)
        PROVE  GeometryInv(i)'
    <2>1. CASE Drop(w) /\ UNCHANGED rows
      BY <1>7, <1>9, <2>1 DEF GeometryInv, ReadyHasGeometry
    <2>2. CASE /\ ~Gone(w)
               /\ rows' = [rows EXCEPT ![job[w].pk].meta = {},
                                       ![job[w].pk].processed = FALSE]
               /\ job' = [job EXCEPT ![w].step = "render", ![w].got = {}]
      <3>1. /\ DOMAIN rows' = DOMAIN rows
            /\ rows'[i].meta = {} /\ rows'[i].processed = FALSE
        BY <1>9, <2>2 DEF Gone, TypeOK, Row
      <3>2. /\ DOMAIN job' = DOMAIN job
            /\ \A v \in DOMAIN job \ {w} : job'[v] = job[v]
            /\ job'[w].step = "render"
            /\ job'[w].todo = job[w].todo /\ job'[w].end = job[w].end
        <4>1. job[w] \in Busy
              /\ job'[w] = [job[w] EXCEPT !.step = "render", !.got = {}]
          BY <2>2 DEF TypeOK
        <4> QED
          BY <2>2, <4>1 DEF Busy
      <3>3. UNCHANGED born
        BY <1>9 DEF Reset
      <3> QED
        BY <1>6, <1>9, <3>1, <3>2, <3>3 DEF GeometryInv, ReadyHasGeometry
    <2> QED
      BY <1>9, <2>1, <2>2 DEF Reset
  <1>10. ASSUME NEW w \in DOMAIN job, job[w].pk = i, Merge(w)
         PROVE  GeometryInv(i)'
    <2> DEFINE rest == Tail(job[w].todo)
    <2>1. CASE Drop(w) /\ UNCHANGED rows
      BY <1>7, <1>10, <2>1 DEF GeometryInv, ReadyHasGeometry
    <2>2. CASE /\ ~Gone(w)
               /\ rows' = [rows EXCEPT ![job[w].pk].meta = Merged(w)]
      <3>1. job[w].step = "merge"
        BY <1>10 DEF Merge, At
      <3>2. /\ DOMAIN rows' = DOMAIN rows /\ i \in DOMAIN rows
            /\ rows'[i].meta = Merged(w)
            /\ rows'[i].processed = rows[i].processed
        BY <1>10, <2>2 DEF Gone, TypeOK, Row
      <3>3. rows[i].meta \subseteq Merged(w)
        BY <1>10, <3>1, <3>2 DEF GeometryInv, Merged
      <3>4. rows'[i].processed => "previews" \in rows'[i].meta
        BY <3>2, <3>3 DEF GeometryInv, ReadyHasGeometry
      <3>5. CASE Drop(w)
        BY <1>7, <1>10, <3>2, <3>4, <3>5
      <3>6. CASE /\ ~(rest = <<>> /\ ~Closes(w))
                 /\ job' = [job EXCEPT
                         ![w].got = Merged(w), ![w].todo = rest,
                         ![w].step = IF rest = <<>> THEN "flag" ELSE "render"]
        <4>1. rest = <<>> => job[w].todo = <<"previews">>
          BY <1>10, <3>1, <3>6, PassLeft DEF GeometryInv, Closes
        <4>2. rest = <<>> => "previews" \in Merged(w)
          <5>1. Head(<<"previews">>) = "previews"
            OBVIOUS
          <5> QED
            BY <4>1, <5>1 DEF Merged
        <4>3. rest # <<"thumbs">>
          <5>1. <<"previews">> # <<"thumbs">> /\ <<>> # <<"thumbs">>
            OBVIOUS
          <5> QED
            BY <3>1, <5>1, PassLeft
        <4>4. /\ DOMAIN job' = DOMAIN job
              /\ \A v \in DOMAIN job \ {w} : job'[v] = job[v]
              /\ job'[w].got = Merged(w)
              /\ job'[w].step = IF rest = <<>> THEN "flag" ELSE "render"
              /\ job'[w].todo = rest
          <5> DEFINE got  == Merged(w)
                     step == IF rest = <<>> THEN "flag" ELSE "render"
                     next == [job[w] EXCEPT !.got = got, !.todo = rest,
                                            !.step = step]
          <5>1. job[w] \in Busy
            BY DEF TypeOK
          <5>2. job' = [job EXCEPT ![w] = next]
            BY <3>6
          <5> HIDE DEF rest, got, step
          <5>3. next.got = got /\ next.step = step /\ next.todo = rest
            BY <5>1 DEF Busy
          <5> HIDE DEF next
          <5>4. /\ DOMAIN job' = DOMAIN job /\ job'[w] = next
                /\ \A v \in DOMAIN job \ {w} : job'[v] = job[v]
            BY <5>2 DEF TypeOK
          <5> QED
            BY <5>3, <5>4 DEF got, step
        <4>5. UNCHANGED born
          BY <1>10 DEF Merge
        <4>6. rows'[i].meta = job'[w].got
          BY <3>2, <4>4
        <4>7. job'[w].step = "flag" => "previews" \in rows'[i].meta
          BY <3>2, <4>2, <4>4
        <4>8. i \in born' /\ job'[w].todo # <<"thumbs">>
          BY <1>10, <4>3, <4>4, <4>5 DEF GeometryInv
        <4>9. \A v \in DOMAIN job' \ {w} : job'[v].pk # i
          BY <1>6, <1>10, <4>4
        <4>10. ReadyHasGeometry(i)'
          BY <3>4 DEF ReadyHasGeometry
        <4> QED
          BY <4>6, <4>7, <4>8, <4>9, <4>10 DEF GeometryInv
      <3> QED
        BY <1>10, <2>2, <3>5, <3>6 DEF Merge
    <2> QED
      BY <1>10, <2>1, <2>2 DEF Merge
  <1>11. ASSUME NEW w \in DOMAIN job, job[w].pk = i, Flag(w)
         PROVE  GeometryInv(i)'
    <2>1. CASE UNCHANGED rows
      BY <1>7, <1>11, <2>1 DEF Flag, GeometryInv, ReadyHasGeometry
    <2>2. CASE ~Gone(w)
      <3>1. "previews" \in rows[i].meta
        BY <1>11, <2>2 DEF Flag, At, Gone, GeometryInv
      <3>2. DOMAIN rows' = DOMAIN rows /\ rows'[i].meta = rows[i].meta
        BY <1>11, <2>2 DEF Flag, Gone, TypeOK, Row
      <3> QED
        BY <1>7, <1>11, <3>1, <3>2 DEF Flag
    <2> QED
      BY <1>11, <2>1, <2>2 DEF Flag
  <1>12. ASSUME NEW w \in DOMAIN job, job[w].pk = i, Fail(w)
         PROVE  GeometryInv(i)'
    BY <1>7, <1>12 DEF Fail, GeometryInv, ReadyHasGeometry
  <1>13. ASSUME NEW w \in DOMAIN job, job[w].pk # i,
                Reset(w) \/ Merge(w) \/ Flag(w) \/ Fail(w)
         PROVE  GeometryInv(i)'
    <2>1. /\ DOMAIN job' \subseteq DOMAIN job
          /\ \A v \in DOMAIN job' \ {w} : job'[v] = job[v]
          /\ w \in DOMAIN job' => job'[w].pk = job[w].pk
      <3>1. CASE Drop(w)
        BY <3>1 DEF Drop, Restrict
      <3>2. CASE Reset(w) /\ job' = [job EXCEPT ![w].step = "render", ![w].got = {}]
        BY <3>2 DEF TypeOK, Busy
      <3>3. ASSUME NEW got, NEW todo, NEW step,
                   job' = [job EXCEPT ![w].got = got, ![w].todo = todo, ![w].step = step]
            PROVE  /\ DOMAIN job' \subseteq DOMAIN job
                   /\ \A v \in DOMAIN job' \ {w} : job'[v] = job[v]
                   /\ job'[w].pk = job[w].pk
        BY <3>3 DEF TypeOK, Busy
      <3>4. CASE Merge(w)
        <4> DEFINE got  == Merged(w)
                   rest == Tail(job[w].todo)
                   step == IF rest = <<>> THEN "flag" ELSE "render"
        <4>1. \/ Drop(w)
              \/ job' = [job EXCEPT ![w].got = got, ![w].todo = rest,
                                    ![w].step = step]
          BY <3>4 DEF Merge
        <4> HIDE DEF got, rest, step
        <4>2. CASE job' = [job EXCEPT ![w].got = got, ![w].todo = rest,
                                      ![w].step = step]
          BY <3>3, <4>2
        <4> QED
          BY <3>1, <4>1, <4>2
      <3> QED
        BY <1>13, <3>1, <3>2, <3>4 DEF Reset, Flag, Fail
    <2>2. /\ DOMAIN rows' = DOMAIN rows /\ born' = born
          /\ i \in DOMAIN rows => rows'[i] = rows[i]
      <3>1. CASE Reset(w)
        BY <1>13, <3>1 DEF Reset, TypeOK
      <3>2. CASE Merge(w)
        BY <1>13, <3>2 DEF Merge, TypeOK
      <3>3. CASE Flag(w) \/ Fail(w)
        BY <1>13, <3>3 DEF Flag, Fail, TypeOK
      <3> QED
        BY <1>13, <3>1, <3>2, <3>3
    <2> QED
      BY <1>13, <2>1, <2>2, OtherRowStep
  <1>14. ASSUME NEW w \in Workers \cup Shells,
                \/ Purge(w) \/ Reset(w) \/ Render(w)
                \/ Merge(w) \/ Flag(w) \/ Fail(w)
         PROVE  GeometryInv(i)'
    <2>1. w \in DOMAIN job
      BY <1>14 DEF Purge, Reset, Render, Merge, Flag, Fail, At
    <2> QED
      BY <1>8, <1>9, <1>10, <1>11, <1>12, <1>13, <1>14, <2>1
  <1>15. CASE UNCHANGED vars
    BY <1>15 DEF vars, GeometryInv, ReadyHasGeometry
  <1> QED
    BY <1>1, <1>2, <1>4, <1>5, <1>14, <1>15 DEF Next

LEMMA GeometryInit == ASSUME NEW i PROVE Init => GeometryInv(i)
  BY DEF Init, GeometryInv, ReadyHasGeometry

\* As long as no two processes are at work on a row at once, it does not answer
\* "ready" without the geometry of its ladder: whatever tasks, commands and resets
\* follow each other on it, fail half way or run on other rows.
THEOREM GeometryNeedsOverlap == Spec => GeometryNeedsNoOverlap
  <1>1. ASSUME NEW i \in Pk PROVE Spec => ([]Alone(i) => []ReadyHasGeometry(i))
    <2>1. Init => GeometryInv(i)
      BY GeometryInit
    <2>2. TypeOK /\ PlanOK /\ Alone(i) /\ GeometryInv(i) /\ [Next]_vars => GeometryInv(i)'
      BY GeometryStep
    <2>3. GeometryInv(i) => ReadyHasGeometry(i)
      BY DEF GeometryInv
    <2> QED
      BY <2>1, <2>2, <2>3, TypeCorrect, PTL DEF Spec
  <1> QED
    BY <1>1 DEF GeometryNeedsNoOverlap

\* No merge takes an entry of the other class off row i.
OtherClassKept(i) ==
    [][\A w \in Workers \cup Shells : Merge(w) /\ i \in DOMAIN rows =>
          rows[i].meta \subseteq rows'[i].meta]_vars

\* A pass keeps the entries of the other class while it has the row to itself:
\* what it read before it rendered is still what the row says.
THEOREM AlonePassKeepsOtherClass ==
    ASSUME NEW i \in Pk
    PROVE  Spec /\ []Alone(i) => OtherClassKept(i)
  <1>1. Init => GeometryInv(i)
    BY GeometryInit
  <1>2. TypeOK /\ PlanOK /\ Alone(i) /\ GeometryInv(i) /\ [Next]_vars => GeometryInv(i)'
    BY GeometryStep
  <1> DEFINE Keeps == \A w \in Workers \cup Shells : Merge(w) /\ i \in DOMAIN rows =>
                         rows[i].meta \subseteq rows'[i].meta
  <1>3. TypeOK /\ GeometryInv(i) => Keeps
    <2> SUFFICES ASSUME TypeOK, GeometryInv(i), NEW w \in Workers \cup Shells, Merge(w),
                        i \in DOMAIN rows
                 PROVE  rows[i].meta \subseteq rows'[i].meta
      OBVIOUS
    <2>1. w \in DOMAIN job /\ job[w].step = "merge"
      BY DEF Merge, At
    <2>2. CASE UNCHANGED rows
      BY <2>2
    <2>3. CASE ~Gone(w) /\ rows' = [rows EXCEPT ![job[w].pk].meta = Merged(w)]
      <3>1. job[w].pk = i => rows[i].meta \subseteq Merged(w)
        BY <2>1 DEF GeometryInv, Merged
      <3>2. i # job[w].pk => rows'[i] = rows[i]
        BY <2>3
      <3>3. i = job[w].pk => rows'[i].meta = Merged(w)
        BY <2>3 DEF TypeOK, Row
      <3> QED
        BY <3>1, <3>2, <3>3
    <2> QED
      BY <2>2, <2>3 DEF Merge
  <1>4. TypeOK /\ GeometryInv(i) /\ [Next]_vars => [Keeps]_vars
    BY <1>3
  <1> QED
    BY <1>1, <1>2, <1>4, TypeCorrect, PTL DEF Spec, OtherClassKept
=============================================================================
