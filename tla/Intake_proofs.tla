---------------------------- MODULE Intake_proofs ----------------------------
(***************************************************************************)
(* cdn.import_from_url connects to public addresses only, keeps to its     *)
(* callers' quotas and runs out of redirects, for any number of calls, any *)
(* names, answers, redirects and lengths of the window; and the intake as  *)
(* a whole, put together from the upload handler, the import and the       *)
(* doors, keeps what each promises.                                        *)
(***************************************************************************)
EXTENDS MCIntake, UploadDoors_proofs

\* Every form an address can be written in is looked through, so what is
\* judged is what the address reaches.
LEMMA SeenIsRange ==
    ASSUME NEW ip \in Address
    PROVE  Seen(ip) = ip.range
<1>1. ip.form \in {"v4", "v6"} \cup Unwrapped
  BY DEF Address, Forms, Unwrapped
<1> QED
  BY <1>1 DEF Seen

\* What a hop is connected for has passed: https, and a public address.
LEMMA PassedHopIsOutside ==
    ASSUME NEW url, NEW answer \in Answers, HopVerdict(url, answer) = "ok"
    PROVE  url.scheme = "https" /\ answer[1] \in Addresses /\ answer[1].range = "global"
<1>1. url.scheme = "https" /\ ResolvesTo(answer) = "ok"
  BY DEF HopVerdict
<1>2. answer # <<>> /\ \A i \in DOMAIN answer : ~IpIsForbidden(answer[i])
  BY <1>1 DEF ResolvesTo
<1>3. answer \in Addresses \X Addresses
  BY <1>2 DEF Answers
<1>4. 1 \in DOMAIN answer /\ answer[1] \in Addresses
  BY <1>3
<1>5. Seen(answer[1]) = "global"
  BY <1>2, <1>4 DEF IpIsForbidden
<1>6. answer[1] \in Address
  BY <1>4, NetworkAssumption
<1> QED
  BY <1>1, <1>4, <1>5, <1>6, SeenIsRange

\* Only a turn of the loop connects, and it connects to what it validated.
LEMMA StepStaysOutside ==
    ASSUME FetchStaysOutside, [Next]_vars
    PROVE  FetchStaysOutside'
<1>1. CASE contacted' = contacted
  BY <1>1 DEF FetchStaysOutside
<1>2. ASSUME NEW w \in Workers, NEW answer \in Answers, Connect(w, answer)
      PROVE  FetchStaysOutside'
  <2>1. CASE HopVerdict(job[w].url, answer) # "ok"
    BY <1>1, <1>2, <2>1 DEF Connect
  <2>2. CASE HopVerdict(job[w].url, answer) = "ok"
    <3> DEFINE made == [ip |-> answer[1], scheme |-> job[w].url.scheme]
    <3>1. contacted' = contacted \cup {made}
      BY <1>2, <2>2 DEF Connect
    <3>2. made.scheme = "https" /\ made.ip.range = "global"
      BY <2>2, PassedHopIsOutside
    <3> HIDE DEF made
    <3> QED
      BY <3>1, <3>2 DEF FetchStaysOutside
  <2> QED
    BY <2>1, <2>2
<1>3. ASSUME NEW w \in Workers, NEW location \in Locations, Redirect(w, location)
      PROVE  contacted' = contacted
  BY <1>3 DEF Redirect
<1>4. ASSUME NEW w \in Workers, NEW size \in Sizes, ReadBody(w, size)
      PROVE  contacted' = contacted
  BY <1>4 DEF ReadBody
<1>5. ASSUME NEW w \in Workers, FetchFails(w) \/ Store(w)
      PROVE  contacted' = contacted
  BY <1>5 DEF FetchFails, Store
<1>6. ASSUME NEW w \in Workers, NEW k \in Callers, ImportFromUrl(w, k)
      PROVE  contacted' = contacted
  BY <1>6 DEF ImportFromUrl
<1>8. ASSUME NEW w \in Workers, CacheAdd(w) \/ IncrTooLate(w) \/ \E url \in Urls : CacheIncr(w, url)
      PROVE  contacted' = contacted
  BY <1>8 DEF CacheAdd, IncrTooLate, CacheIncr
<1>7. CASE Tick \/ UNCHANGED vars
  BY <1>1, <1>7 DEF Tick, vars
<1> QED
  BY <1>1, <1>2, <1>3, <1>4, <1>5, <1>6, <1>7, <1>8 DEF Next, Step

\* No connection is ever made but over https and to a public address.
THEOREM OutsideOnly == Spec => []FetchStaysOutside
<1>1. Init => FetchStaysOutside
  BY DEF Init, FetchStaysOutside
<1>2. FetchStaysOutside /\ [Next]_vars => FetchStaysOutside'
  BY StepStaysOutside
<1> QED
  BY <1>1, <1>2, PTL DEF Spec

-----------------------------------------------------------------------------
(* Types                                                                   *)

LEMMA Division ==
    ASSUME NEW a \in Nat, NEW w \in Nat \ {0}
    PROVE  /\ a \div w \in Nat /\ a \div w <= a
           /\ w * (a \div w) <= a /\ a < w * (a \div w) + w
OBVIOUS

LEMMA DivisionMonotone ==
    ASSUME NEW a \in Nat, NEW b \in Nat, NEW w \in Nat \ {0}, a <= b
    PROVE  a \div w <= b \div w
<1>1. a \div w \in Nat /\ b \div w \in Nat
  BY Division
<1>2. w * (a \div w) <= a /\ b < w * (b \div w) + w
  BY Division
<1> QED  BY <1>1, <1>2

\* A stretch of one window's length meets two windows at most.
LEMMA TwoWindows ==
    ASSUME NEW t \in Nat, NEW a \in Nat, NEW w \in Nat \ {0}, t <= a, a <= t + w - 1
    PROVE  a \div w = t \div w \/ a \div w = (t \div w) + 1
<1>1. a \div w \in Nat /\ t \div w \in Nat
  BY Division
<1>2. w * (a \div w) <= a /\ a < w * (a \div w) + w
  BY Division
<1>3. w * (t \div w) <= t /\ t < w * (t \div w) + w
  BY Division
<1> QED  BY <1>1, <1>2, <1>3

QuotaCall == [at : {"add", "incr", "readd", "reincr"}, caller : Callers, came : 0..MaxNow]
HopCall == [at : {"hop", "response"}, url : Urls, hops : 0..MaxRedirects]
FetchedCall == [at : {"fetched"}, size : Sizes]

Job == QuotaCall \cup HopCall \cup FetchedCall

CallsType == \A w \in Workers : job[w] = NoJob \/ job[w] \in Job

CountersType == hits \in [Callers -> [0..MaxNow -> [count : Nat, until : Nat]]]

ContactsType == contacted \subseteq [ip : Addresses, scheme : {"https", "http"}]

LEMMA TypesInParts ==
    TypeOK <=> now \in 0..MaxNow /\ CountersType /\ CallsType /\ ContactsType
BY DEF TypeOK, CountersType, CallsType, ContactsType, Job, QuotaCall, HopCall, FetchedCall

LEMMA NextTypesInParts ==
    now' \in 0..MaxNow /\ CountersType' /\ CallsType' /\ ContactsType' => TypeOK'
BY DEF TypeOK, CountersType, CallsType, ContactsType, Job, QuotaCall, HopCall, FetchedCall

\* One worker's job changes, to one that types.
LEMMA MovesTypes ==
    ASSUME CallsType, NEW w \in Workers, NEW next \in Job \cup {NoJob},
           job' = [job EXCEPT ![w] = next]
    PROVE  CallsType'
<1> SUFFICES ASSUME NEW v \in Workers PROVE job'[v] = NoJob \/ job'[v] \in Job
  BY DEF CallsType, Job, QuotaCall, HopCall, FetchedCall
<1>1. v # w => job'[v] = job[v]
  OBVIOUS
<1>2. v = w => job'[v] = next \/ job'[v] = job[v]
  OBVIOUS
<1> QED  BY <1>1, <1>2 DEF CallsType

\* What a call under way is doing.
LEMMA HopTypes ==
    ASSUME TypeOK, NEW w \in Workers, job[w].at \in {"hop", "response"}
    PROVE  job[w] \in HopCall
<1>1. NoJob.at = "idle"
  BY DEF NoJob
<1>2. job[w] \in FetchedCall => job[w].at = "fetched"
  BY DEF FetchedCall
<1>3. job[w] \in QuotaCall => job[w].at \in {"add", "incr", "readd", "reincr"}
  BY DEF QuotaCall
<1>4. job[w] = NoJob \/ job[w] \in Job
  BY TypesInParts DEF CallsType
<1> QED  BY <1>1, <1>2, <1>3, <1>4 DEF Job

LEMMA NowTypes ==
    ASSUME TypeOK
    PROVE  now \in Nat /\ now <= MaxNow
BY BoundAssumption DEF TypeOK

\* A call at the quota, and the counter it counts on.
LEMMA QuotaCallTypes ==
    ASSUME TypeOK, NEW w \in Workers, job[w].at \in {"add", "incr", "readd", "reincr"}
    PROVE  /\ job[w] \in QuotaCall
           /\ job[w].caller \in Callers /\ job[w].came \in Nat
           /\ Bucket(job[w]) \in 0..MaxNow
           /\ Counter(job[w]) = hits[job[w].caller][Bucket(job[w])]
           /\ Counter(job[w]) \in [count : Nat, until : Nat]
<1>1. NoJob.at = "idle"
  BY DEF NoJob
<1>2. job[w] \in FetchedCall => job[w].at = "fetched"
  BY DEF FetchedCall
<1>3. job[w] \in HopCall => job[w].at \in {"hop", "response"}
  BY DEF HopCall
<1>4. job[w] = NoJob \/ job[w] \in Job
  BY TypesInParts DEF CallsType
<1>5. job[w] \in QuotaCall
  BY <1>1, <1>2, <1>3, <1>4 DEF Job
<1>6. job[w].caller \in Callers /\ job[w].came \in Nat /\ job[w].came <= MaxNow
  BY <1>5, BoundAssumption DEF QuotaCall
<1>7. Bucket(job[w]) \in 0..MaxNow
  BY <1>6, RateAssumption, BoundAssumption, Division DEF Bucket
<1>8. Counter(job[w]) \in [count : Nat, until : Nat]
  BY <1>6, <1>7, TypesInParts DEF Counter, CountersType
<1> QED  BY <1>5, <1>6, <1>7, <1>8 DEF Counter

\* A counter of a caller and a bucket changes, to one that types.
LEMMA CountersKept ==
    ASSUME CountersType, NEW k \in Callers, NEW b \in 0..MaxNow,
           NEW next \in [count : Nat, until : Nat],
           hits' = [hits EXCEPT ![k][b] = next]
    PROVE  /\ CountersType'
           /\ hits'[k][b] = next
           /\ \A c \in Callers, d \in 0..MaxNow :
                 c # k \/ d # b => hits'[c][d] = hits[c][d]
<1> DEFINE counters == [hits[k] EXCEPT ![b] = next]
<1>1. hits' = [hits EXCEPT ![k] = counters]
  OBVIOUS
<1>2. hits[k] \in [0..MaxNow -> [count : Nat, until : Nat]]
  BY DEF CountersType
<1>3. /\ counters \in [0..MaxNow -> [count : Nat, until : Nat]]
      /\ counters[b] = next /\ \A d \in 0..MaxNow : d # b => counters[d] = hits[k][d]
  BY <1>2
<1> HIDE DEF counters
<1>4. hits'[k] = counters /\ \A c \in Callers : c # k => hits'[c] = hits[c]
  BY <1>1 DEF CountersType
<1>5. CountersType'
  BY <1>1, <1>3 DEF CountersType
<1> QED  BY <1>3, <1>4, <1>5

\* What the quota's steps do to the counters and the call.
LEMMA AddSteps ==
    ASSUME TypeOK, NEW w \in Workers, CacheAdd(w)
    PROVE  /\ job[w] \in QuotaCall
           /\ \/ hits' = hits
              \/ /\ ~Alive(Counter(job[w]))
                 /\ hits' = [hits EXCEPT ![job[w].caller][Bucket(job[w])] =
                                 [count |-> 0, until |-> now + CounterLife]]
           /\ \E at \in {"incr", "reincr"} :
                 /\ [job[w] EXCEPT !.at = at] \in QuotaCall
                 /\ job' = [job EXCEPT ![w] = [job[w] EXCEPT !.at = at]]
           /\ UNCHANGED <<now, granted, contacted>>
<1>1. job[w] \in QuotaCall
  BY QuotaCallTypes DEF CacheAdd
<1>2. /\ \/ hits' = hits
         \/ /\ ~Alive(Counter(job[w]))
            /\ hits' = [hits EXCEPT ![job[w].caller][Bucket(job[w])] =
                            [count |-> 0, until |-> now + CounterLife]]
      /\ UNCHANGED <<now, granted, contacted>>
  BY DEF CacheAdd
<1> DEFINE at == IF job[w].at = "add" THEN "incr" ELSE "reincr"
<1>3. at \in {"incr", "reincr"} /\ job' = [job EXCEPT ![w].at = at]
  BY DEF CacheAdd
<1> HIDE DEF at
<1>4. [job[w] EXCEPT !.at = at] \in QuotaCall
  BY <1>1, <1>3 DEF QuotaCall
<1> QED  BY <1>1, <1>2, <1>3, <1>4

LEMMA IncrSteps ==
    ASSUME TypeOK, NEW w \in Workers, NEW url \in Urls, CacheIncr(w, url)
    PROVE  LET call == job[w]
               counted == Counter(call).count + 1
               first == [at |-> "hop", url |-> url, hops |-> 0]
           IN  /\ call \in QuotaCall /\ first \in Job
               /\ Alive(Counter(call))
               /\ hits' = [hits EXCEPT ![call.caller][Bucket(call)] =
                               [Counter(call) EXCEPT !.count = counted]]
               /\ \/ job' = [job EXCEPT ![w] = NoJob] /\ granted' = granted
                  \/ /\ counted <= RateLimit
                     /\ job' = [job EXCEPT ![w] = first]
                     /\ granted' = [granted EXCEPT ![call.caller] =
                            Append(@, [came |-> call.came, prompt |-> Prompt(call)])]
               /\ UNCHANGED <<now, contacted>>
<1> DEFINE call == job[w]
           counted == Counter(call).count + 1
           first == [at |-> "hop", url |-> url, hops |-> 0]
<1>1. /\ call \in QuotaCall /\ Counter(call) = hits[call.caller][Bucket(call)]
      /\ Counter(call) \in [count : Nat, until : Nat]
  BY QuotaCallTypes DEF CacheIncr
<1>2. first \in Job
  BY FetchAssumption DEF Job, HopCall
<1>3. /\ Alive(Counter(call)) /\ UNCHANGED <<now, contacted>>
      /\ hits' = [hits EXCEPT ![call.caller][Bucket(call)].count = counted]
      /\ IF counted > RateLimit
         THEN job' = [job EXCEPT ![w] = NoJob] /\ UNCHANGED granted
         ELSE /\ job' = [job EXCEPT ![w] = first]
              /\ granted' = [granted EXCEPT ![call.caller] =
                     Append(@, [came |-> call.came, prompt |-> Prompt(call)])]
  BY DEF CacheIncr
<1>4. hits' = [hits EXCEPT ![call.caller][Bucket(call)] = [Counter(call) EXCEPT !.count = counted]]
  BY <1>1, <1>3
<1>5. counted \in Nat
  BY <1>1
<1>6. counted > RateLimit \/ counted <= RateLimit
  BY <1>5, RateAssumption
<1> QED  BY <1>1, <1>2, <1>3, <1>4, <1>6

\* The quota's steps keep the types.
LEMMA QuotaStepTypes ==
    ASSUME TypeOK, NEW w \in Workers,
           CacheAdd(w) \/ IncrTooLate(w) \/ \E url \in Urls : CacheIncr(w, url)
    PROVE  TypeOK'
<1>1. now \in Nat /\ CountersType /\ CallsType /\ ContactsType /\ NoJob \in Job \cup {NoJob}
  BY TypesInParts, NowTypes
<1>2. ASSUME CountersType', CallsType', UNCHANGED <<now, contacted>>
      PROVE  TypeOK'
  <2>1. now' \in 0..MaxNow /\ ContactsType'
    BY <1>2, TypesInParts DEF ContactsType
  <2> QED  BY <1>2, <2>1, NextTypesInParts
<1>3. ASSUME hits' = hits PROVE CountersType'
  BY <1>1, <1>3 DEF CountersType
<1>4. CASE CacheAdd(w)
  <2>1. PICK at \in {"incr", "reincr"} :
              /\ [job[w] EXCEPT !.at = at] \in QuotaCall
              /\ job' = [job EXCEPT ![w] = [job[w] EXCEPT !.at = at]]
    BY <1>4, AddSteps
  <2>2. CallsType'
    BY <1>1, <2>1, MovesTypes DEF Job
  <2>3. CountersType'
    <3>1. CASE hits' = hits
      BY <1>3, <3>1
    <3>2. CASE hits' = [hits EXCEPT ![job[w].caller][Bucket(job[w])] =
                            [count |-> 0, until |-> now + CounterLife]]
      <4>1. [count |-> 0, until |-> now + CounterLife] \in [count : Nat, until : Nat]
        BY <1>1, RateAssumption DEF CounterLife
      <4>2. job[w].caller \in Callers /\ Bucket(job[w]) \in 0..MaxNow
        BY <1>4, QuotaCallTypes DEF CacheAdd
      <4> QED  BY <1>1, <3>2, <4>1, <4>2, CountersKept
    <3> QED  BY <1>4, <3>1, <3>2, AddSteps
  <2> QED  BY <1>2, <1>4, <2>2, <2>3, AddSteps
<1>5. CASE IncrTooLate(w)
  <2>1. job[w] \in QuotaCall
    BY <1>5, QuotaCallTypes DEF IncrTooLate
  <2>2. [job[w] EXCEPT !.at = "readd"] \in Job \cup {NoJob}
    BY <2>1 DEF QuotaCall, Job
  <2>3. \/ job' = [job EXCEPT ![w] = [job[w] EXCEPT !.at = "readd"]]
        \/ job' = [job EXCEPT ![w] = NoJob]
    BY <1>5 DEF IncrTooLate
  <2>4. CallsType'
    BY <1>1, <2>2, <2>3, MovesTypes
  <2> QED  BY <1>2, <1>3, <1>5, <2>4 DEF IncrTooLate
<1>6. ASSUME NEW url \in Urls, CacheIncr(w, url) PROVE TypeOK'
  <2> DEFINE counter == Counter(job[w])
             next == [counter EXCEPT !.count = counter.count + 1]
             first == [at |-> "hop", url |-> url, hops |-> 0]
  <2>1. /\ job[w].caller \in Callers /\ Bucket(job[w]) \in 0..MaxNow
        /\ counter \in [count : Nat, until : Nat]
    BY <1>6, QuotaCallTypes DEF CacheIncr
  <2>2. next \in [count : Nat, until : Nat]
    BY <2>1
  <2>3. /\ hits' = [hits EXCEPT ![job[w].caller][Bucket(job[w])] = next]
        /\ first \in Job
        /\ job' = [job EXCEPT ![w] = NoJob] \/ job' = [job EXCEPT ![w] = first]
        /\ UNCHANGED <<now, contacted>>
    BY <1>6, IncrSteps
  <2> HIDE DEF next, first
  <2>4. CountersType'
    BY <1>1, <2>1, <2>2, <2>3, CountersKept
  <2>5. CallsType'
    BY <1>1, <2>3, MovesTypes
  <2> QED  BY <1>2, <2>3, <2>4, <2>5
<1> QED  BY <1>4, <1>5, <1>6

LEMMA CallTypes ==
    ASSUME TypeOK, NEW w \in Workers, NEW k \in Callers, ImportFromUrl(w, k)
    PROVE  TypeOK'
<1> DEFINE first == [at |-> "add", caller |-> k, came |-> now]
<1>1. first \in Job \cup {NoJob}
  BY DEF TypeOK, Job, QuotaCall
<1>2. job' = [job EXCEPT ![w] = first] /\ UNCHANGED <<now, hits, contacted>>
  BY DEF ImportFromUrl
<1> HIDE DEF first
<1>3. CallsType'
  BY <1>1, <1>2, TypesInParts, MovesTypes
<1>4. now' \in 0..MaxNow /\ CountersType' /\ ContactsType'
  BY <1>2, TypesInParts DEF CountersType, ContactsType
<1> QED  BY <1>3, <1>4, NextTypesInParts

\* A step of a call that does not connect.
LEMMA MoveTypes ==
    ASSUME TypeOK, NEW w \in Workers, NEW next \in Job \cup {NoJob}, Moves(w, next),
           contacted' \subseteq [ip : Addresses, scheme : {"https", "http"}]
    PROVE  TypeOK'
<1>1. CallsType'
  BY TypesInParts, MovesTypes DEF Moves
<1>2. now' \in 0..MaxNow /\ CountersType' /\ ContactsType'
  BY TypesInParts DEF Moves, CountersType, ContactsType
<1> QED  BY <1>1, <1>2, NextTypesInParts

LEMMA StepTypes ==
    ASSUME TypeOK, NEW w \in Workers, Step(w)
    PROVE  TypeOK'
<1>1. contacted \subseteq [ip : Addresses, scheme : {"https", "http"}]
  BY DEF TypeOK
<1>2. ASSUME NEW answer \in Answers, Connect(w, answer) PROVE TypeOK'
  <2>1. job[w] \in HopCall
    BY <1>2, HopTypes DEF Connect
  <2>2. CASE HopVerdict(job[w].url, answer) # "ok"
    BY <1>1, <1>2, <2>2, MoveTypes DEF Connect
  <2>3. CASE HopVerdict(job[w].url, answer) = "ok"
    <3> DEFINE made == [ip |-> answer[1], scheme |-> job[w].url.scheme]
    <3> DEFINE next == [job[w] EXCEPT !.at = "response"]
    <3>1. next \in Job
      BY <2>1 DEF Job, HopCall
    <3>2. made \in [ip : Addresses, scheme : {"https", "http"}]
      BY <2>3, PassedHopIsOutside
    <3>3. Moves(w, next) /\ contacted' = contacted \cup {made}
      BY <1>2, <2>3 DEF Connect
    <3> HIDE DEF made, next
    <3>4. contacted' \subseteq [ip : Addresses, scheme : {"https", "http"}]
      BY <1>1, <3>2, <3>3
    <3> QED  BY <3>1, <3>3, <3>4, MoveTypes
  <2> QED  BY <2>2, <2>3
<1>3. ASSUME NEW location \in Locations, Redirect(w, location) PROVE TypeOK'
  <2>1. job[w] \in HopCall
    BY <1>3, HopTypes DEF Redirect
  <2>2. CASE location = <<>> \/ job[w].hops + 1 > MaxRedirects
    BY <1>1, <1>3, <2>2, MoveTypes DEF Redirect
  <2>3. CASE ~(location = <<>> \/ job[w].hops + 1 > MaxRedirects)
    <3> DEFINE next == [at |-> "hop", url |-> location[1], hops |-> job[w].hops + 1]
    <3>1. PICK url \in Urls : location = <<url>>
      BY <1>3, <2>3 DEF Locations
    <3>2. job[w].hops + 1 \in 0..MaxRedirects
      BY <2>1, <2>3, FetchAssumption DEF HopCall
    <3>3. next \in Job
      BY <3>1, <3>2 DEF Job, HopCall
    <3>4. Moves(w, next) /\ contacted' = contacted
      BY <1>3, <2>3 DEF Redirect
    <3> HIDE DEF next
    <3> QED  BY <1>1, <3>3, <3>4, MoveTypes
  <2> QED  BY <2>2, <2>3
<1>4. ASSUME NEW size \in Sizes, ReadBody(w, size) PROVE TypeOK'
  <2> DEFINE next == [at |-> "fetched", size |-> size]
  <2>1. next \in Job
    BY DEF Job, FetchedCall
  <2>2. (Moves(w, NoJob) \/ Moves(w, next)) /\ contacted' = contacted
    BY <1>4 DEF ReadBody
  <2> HIDE DEF next
  <2> QED  BY <1>1, <2>1, <2>2, MoveTypes
<1>5. ASSUME FetchFails(w) \/ Store(w) PROVE TypeOK'
  BY <1>1, <1>5, MoveTypes DEF FetchFails, Store
<1> QED  BY <1>2, <1>3, <1>4, <1>5, QuotaStepTypes DEF Step

LEMMA TypesKept == TypeOK /\ [Next]_vars => TypeOK'
<1> SUFFICES ASSUME TypeOK, [Next]_vars PROVE TypeOK'
  OBVIOUS
<1>1. CASE Tick
  BY <1>1, BoundAssumption DEF TypeOK, Tick
<1>2. CASE UNCHANGED vars
  BY <1>2 DEF TypeOK, vars
<1> QED  BY <1>1, <1>2, CallTypes, StepTypes DEF Next

LEMMA InitTypes == Init => TypeOK
BY BoundAssumption DEF Init, TypeOK, NoCounter

\* A counter is a number of calls and a moment; a call is idle, at its quota, on
\* a hop within the allowed redirects, or has a body (fetch.py).
THEOREM FetchTypeCorrect == Spec => []TypeOK
<1>1. Init => TypeOK
  BY InitTypes
<1> QED  BY <1>1, TypesKept, PTL DEF Spec

-----------------------------------------------------------------------------
(* The quota                                                               *)

Grant == [came : Nat, prompt : BOOLEAN]

\* The prompt grants of a history that are of a bucket.
InBucket(grants, b) ==
    {i \in DOMAIN grants : grants[i].prompt /\ grants[i].came \div RateWindow = b}

\* The moment up to which a counter of the bucket is alive once it is there.
EndOf(b) == (b + 2) * RateWindow

\* A counter is there until two windows after the start of its bucket or later;
\* until then it has counted every prompt grant of the bucket.
CounterInv(k, b) ==
    /\ hits[k][b] = NoCounter \/ EndOf(b) <= hits[k][b].until
    /\ now < EndOf(b) => Cardinality(InBucket(granted[k], b)) <= hits[k][b].count
    /\ Cardinality(InBucket(granted[k], b)) <= RateLimit

\* A call at its quota did not come after now.
CameInv == \A w \in Workers : job[w] \in QuotaCall => job[w].came <= now

QuotaInv ==
    /\ granted \in [Callers -> Seq(Grant)]
    /\ \A k \in Callers : \A i \in DOMAIN granted[k] : granted[k][i].came <= now
    /\ CameInv
    /\ \A k \in Callers, b \in 0..MaxNow : CounterInv(k, b)

LEMMA GrantsFinite ==
    ASSUME NEW grants \in Seq(Grant), NEW b
    PROVE  /\ IsFiniteSet(InBucket(grants, b))
           /\ Cardinality(InBucket(grants, b)) \in Nat
<1>1. IsFiniteSet(1..Len(grants)) /\ DOMAIN grants = 1..Len(grants)
  BY FS_Interval
<1>2. InBucket(grants, b) \in SUBSET (1..Len(grants))
  BY <1>1 DEF InBucket
<1> QED  BY <1>1, <1>2, FS_Subset, FS_CardinalityType

\* A prompt grant is counted in the bucket of its coming and in no other.
LEMMA OneMoreGrant ==
    ASSUME NEW grants \in Seq(Grant), NEW grant \in Grant, NEW b
    PROVE  Cardinality(InBucket(Append(grants, grant), b)) =
              Cardinality(InBucket(grants, b))
                + (IF grant.prompt /\ grant.came \div RateWindow = b THEN 1 ELSE 0)
<1> DEFINE n == Len(grants) + 1
           more == Append(grants, grant)
<1>1. /\ DOMAIN grants = 1..Len(grants) /\ DOMAIN more = 1..n /\ Len(grants) \in Nat
      /\ more[n] = grant /\ \A i \in 1..Len(grants) : more[i] = grants[i]
  OBVIOUS
<1>2. 1..n = (1..Len(grants)) \cup {n} /\ n \notin 1..Len(grants)
  BY <1>1
<1> HIDE DEF n, more
<1>3. CASE grant.prompt /\ grant.came \div RateWindow = b
  <2>1. InBucket(more, b) = InBucket(grants, b) \cup {n}
    BY <1>1, <1>2, <1>3 DEF InBucket
  <2>2. n \notin InBucket(grants, b)
    BY <1>1, <1>2 DEF InBucket
  <2> QED  BY <1>3, <2>1, <2>2, GrantsFinite, FS_AddElement DEF more
<1>4. CASE ~(grant.prompt /\ grant.came \div RateWindow = b)
  <2>1. InBucket(more, b) = InBucket(grants, b)
    BY <1>1, <1>2, <1>4 DEF InBucket
  <2> QED  BY <1>4, <2>1, GrantsFinite DEF more
<1> QED  BY <1>3, <1>4

\* The window a call came in: it began before the call, and both the call and a
\* prompt count of it are over before a counter of the bucket can be gone.
LEMMA BucketTimes ==
    ASSUME NEW came \in Nat
    PROVE  LET b == came \div RateWindow
           IN  /\ b \in Nat /\ EndOf(b) \in Nat
               /\ came + RateWindow < EndOf(b)
               /\ EndOf(b) <= came + CounterLife
<1> DEFINE b == came \div RateWindow
<1>1. b \in Nat /\ RateWindow * b <= came /\ came < RateWindow * b + RateWindow
  BY RateAssumption, Division
<1>2. RateWindow \in Nat /\ RateWindow * b \in Nat
  BY <1>1, RateAssumption
<1> HIDE DEF b
<1>3. (b + 2) * RateWindow = RateWindow * b + 2 * RateWindow
  BY <1>1, <1>2
<1> QED  BY <1>1, <1>2, <1>3 DEF EndOf, CounterLife, b

LEMMA EndTypes ==
    ASSUME NEW b \in Nat
    PROVE  EndOf(b) \in Nat /\ EndOf(b) > 0
<1>1. RateWindow \in Nat /\ RateWindow > 0 /\ b + 2 \in Nat /\ b + 2 > 0
  BY RateAssumption
<1>2. \A x, y \in Nat : x > 0 /\ y > 0 => x * y \in Nat /\ x * y > 0
  OBVIOUS
<1> QED  BY <1>1, <1>2 DEF EndOf

\* What leaves the history and the counters alone keeps the invariant, whatever
\* time it is: a later time only asks less of a counter.
LEMMA QuotaRests ==
    ASSUME TypeOK, QuotaInv, hits' = hits, granted' = granted, now' \in Nat, now <= now', CameInv'
    PROVE  QuotaInv'
<1>1. \A k \in Callers : \A i \in DOMAIN granted[k] : granted[k][i].came <= now'
  <2> SUFFICES ASSUME NEW k \in Callers, NEW i \in DOMAIN granted[k]
               PROVE  granted[k][i].came <= now'
    OBVIOUS
  <2>1. granted[k] \in Seq(Grant) /\ granted[k][i].came <= now
    BY DEF QuotaInv
  <2>2. granted[k][i] \in Grant
    BY <2>1
  <2> QED  BY <2>1, <2>2, NowTypes DEF Grant
<1>2. ASSUME NEW k \in Callers, NEW b \in 0..MaxNow PROVE CounterInv(k, b)'
  <2>1. EndOf(b) \in Nat
    BY BoundAssumption, EndTypes
  <2>2. now' < EndOf(b) => now < EndOf(b)
    BY <2>1, NowTypes
  <2> QED  BY <2>2 DEF QuotaInv, CounterInv, EndOf, InBucket
<1> QED  BY <1>1, <1>2 DEF QuotaInv, Grant

\* One call changes, to one that is not at its quota or came when it did.
LEMMA CameKept ==
    ASSUME CameInv, now' = now, NEW w \in Workers, NEW next,
           job' = [job EXCEPT ![w] = next],
           next \in QuotaCall => next.came <= now
    PROVE  CameInv'
<1> SUFFICES ASSUME NEW v \in Workers, job'[v] \in QuotaCall PROVE job'[v].came <= now
  BY DEF CameInv, QuotaCall
<1>1. v # w => job'[v] = job[v]
  OBVIOUS
<1>2. v = w => job'[v] = next \/ job'[v] = job[v]
  OBVIOUS
<1> QED  BY <1>1, <1>2 DEF CameInv

LEMMA AddKeepsQuota ==
    ASSUME TypeOK, QuotaInv, NEW w \in Workers, CacheAdd(w)
    PROVE  QuotaInv'
<1>0. PICK k, b : k = job[w].caller /\ b = Bucket(job[w])
  OBVIOUS
<1>1. /\ job[w] \in QuotaCall /\ k \in Callers /\ b \in 0..MaxNow /\ job[w].came \in Nat
      /\ Counter(job[w]) = hits[k][b] /\ Counter(job[w]) \in [count : Nat, until : Nat]
  BY <1>0, QuotaCallTypes DEF CacheAdd
<1>2. now \in Nat /\ now' = now /\ granted' = granted /\ job[w].came <= now
  BY <1>1, NowTypes DEF CacheAdd, QuotaInv, CameInv
<1>3. CameInv'
  <2>1. PICK at \in {"incr", "reincr"} :
              /\ [job[w] EXCEPT !.at = at] \in QuotaCall
              /\ job' = [job EXCEPT ![w] = [job[w] EXCEPT !.at = at]]
    BY AddSteps
  <2>2. [job[w] EXCEPT !.at = at].came <= now
    BY <1>1, <1>2 DEF QuotaCall
  <2> QED  BY <1>2, <2>1, <2>2, CameKept DEF QuotaInv
<1>4. CASE hits' = hits
  BY <1>2, <1>3, <1>4, QuotaRests
<1>5. CASE /\ ~Alive(Counter(job[w]))
           /\ hits' = [hits EXCEPT ![k][b] = [count |-> 0, until |-> now + CounterLife]]
  <2>0. PICK fresh : fresh = [count |-> 0, until |-> now + CounterLife]
    OBVIOUS
  <2>1. /\ fresh \in [count : Nat, until : Nat] /\ CounterLife \in Nat
        /\ fresh.count = 0 /\ fresh.until = now + CounterLife
    BY <1>2, <2>0, RateAssumption DEF CounterLife
  <2>2. /\ hits'[k][b] = fresh
        /\ \A c \in Callers, d \in 0..MaxNow : c # k \/ d # b => hits'[c][d] = hits[c][d]
    <3>1. hits' = [hits EXCEPT ![k][b] = fresh]
      BY <1>5, <2>0
    <3>2. CountersType
      BY TypesInParts
    <3>3. hits'[k][b] = fresh
      BY <1>1, <3>1, <3>2 DEF CountersType
    <3>4. ASSUME NEW c \in Callers, NEW d \in 0..MaxNow, c # k \/ d # b
          PROVE  hits'[c][d] = hits[c][d]
      BY <1>1, <2>1, <3>1, <3>2, <3>4, CountersKept
    <3> QED  BY <3>3, <3>4
  <2>3. CounterInv(k, b)'
    <3>1. EndOf(b) \in Nat /\ EndOf(b) <= job[w].came + CounterLife
      BY <1>0, <1>1, BucketTimes DEF Bucket
    <3>2. EndOf(b) <= fresh.until
      BY <1>1, <1>2, <2>1, <3>1
    <3>3. CounterInv(k, b)
      BY <1>1 DEF QuotaInv
    <3>4. hits[k][b].until <= now /\ hits[k][b].until \in Nat
      BY <1>1, <1>2, <1>5 DEF Alive
    <3>5. now < EndOf(b) => hits[k][b].count = 0
      BY <1>2, <3>1, <3>3, <3>4 DEF CounterInv, NoCounter
    <3>6. now < EndOf(b) => Cardinality(InBucket(granted[k], b)) <= fresh.count
      BY <2>1, <3>3, <3>5 DEF CounterInv
    <3> QED  BY <1>2, <2>2, <3>2, <3>3, <3>6 DEF CounterInv, EndOf, InBucket
  <2>4. ASSUME NEW c \in Callers, NEW d \in 0..MaxNow, c # k \/ d # b PROVE CounterInv(c, d)'
    BY <1>2, <2>2, <2>4 DEF QuotaInv, CounterInv, EndOf, InBucket
  <2>5. \A c \in Callers, d \in 0..MaxNow : CounterInv(c, d)'
    BY <2>3, <2>4
  <2> QED  BY <1>2, <1>3, <2>5 DEF QuotaInv, CounterInv, EndOf, InBucket, Grant
<1> QED  BY <1>0, <1>4, <1>5, AddSteps

LEMMA IncrKeepsQuota ==
    ASSUME TypeOK, QuotaInv, NEW w \in Workers, NEW url \in Urls, CacheIncr(w, url)
    PROVE  QuotaInv'
<1>0. PICK call, k, b, counted, grant :
             /\ call = job[w] /\ k = call.caller /\ b = Bucket(call)
             /\ counted = Counter(call).count + 1
             /\ grant = [came |-> call.came, prompt |-> Prompt(call)]
  OBVIOUS
<1>1. /\ call \in QuotaCall /\ k \in Callers /\ b \in 0..MaxNow /\ call.came \in Nat
      /\ Counter(call) = hits[k][b] /\ Counter(call) \in [count : Nat, until : Nat]
  BY <1>0, QuotaCallTypes DEF CacheIncr
<1>2. now \in Nat /\ now' = now /\ call.came <= now
  BY <1>0, <1>1, NowTypes DEF CacheIncr, QuotaInv, CameInv
<1>3. /\ hits' = [hits EXCEPT ![k][b] = [Counter(call) EXCEPT !.count = counted]]
      /\ Alive(Counter(call))
      /\ \/ job' = [job EXCEPT ![w] = NoJob] /\ granted' = granted
         \/ /\ counted <= RateLimit
            /\ job' = [job EXCEPT ![w] = [at |-> "hop", url |-> url, hops |-> 0]]
            /\ granted' = [granted EXCEPT ![k] = Append(@, grant)]
  BY <1>0, IncrSteps
<1>4. CameInv'
  <2>1. NoJob \notin QuotaCall /\ [at |-> "hop", url |-> url, hops |-> 0] \notin QuotaCall
    BY DEF NoJob, QuotaCall
  <2> QED  BY <1>2, <1>3, <2>1, CameKept DEF QuotaInv
<1>5. /\ hits'[k][b] = [hits[k][b] EXCEPT !.count = counted]
      /\ counted = hits[k][b].count + 1 /\ hits[k][b].count \in Nat /\ hits[k][b].until \in Nat
      /\ hits'[k][b].count = counted /\ hits'[k][b].until = hits[k][b].until
      /\ \A c \in Callers, d \in 0..MaxNow : c # k \/ d # b => hits'[c][d] = hits[c][d]
  <2>1. [hits[k][b] EXCEPT !.count = counted] \in [count : Nat, until : Nat]
    BY <1>0, <1>1
  <2>5. CountersType
    BY TypesInParts
  <2>2. /\ hits'[k][b] = [hits[k][b] EXCEPT !.count = counted]
        /\ \A c \in Callers, d \in 0..MaxNow : c # k \/ d # b => hits'[c][d] = hits[c][d]
    <3> DEFINE next == [hits[k][b] EXCEPT !.count = counted]
    <3>1. hits' = [hits EXCEPT ![k][b] = next]
      BY <1>1, <1>3
    <3> HIDE DEF next
    <3>2. next \in [count : Nat, until : Nat]
      BY <2>1 DEF next
    <3>3. hits'[k][b] = next
      BY <1>1, <2>5, <3>1 DEF CountersType
    <3>4. ASSUME NEW c \in Callers, NEW d \in 0..MaxNow, c # k \/ d # b
          PROVE  hits'[c][d] = hits[c][d]
      BY <1>1, <2>5, <3>1, <3>2, <3>4, CountersKept
    <3> QED  BY <3>3, <3>4 DEF next
  <2>3. hits[k][b] \in [count : Nat, until : Nat]
    BY <1>1
  <2>4. counted = hits[k][b].count + 1
    BY <1>0, <1>1
  <2> QED  BY <2>2, <2>3, <2>4
<1>6. grant \in Grant
  <2>1. Prompt(call) \in BOOLEAN
    BY DEF Prompt
  <2> QED  BY <1>0, <1>1, <2>1 DEF Grant
<1>7. granted \in [Callers -> Seq(Grant)] /\ granted[k] \in Seq(Grant)
  BY <1>1 DEF QuotaInv
<1>8. /\ b = call.came \div RateWindow /\ b \in Nat /\ EndOf(b) \in Nat
      /\ grant.came = call.came
      /\ grant.prompt => now < EndOf(b)
  <2>1. b = call.came \div RateWindow
    BY <1>0 DEF Bucket
  <2>2. b \in Nat /\ EndOf(b) \in Nat /\ call.came + RateWindow < EndOf(b)
    BY <1>1, <2>1, BucketTimes
  <2>3. Prompt(call) => now < EndOf(b)
    BY <1>1, <1>2, <2>2, RateAssumption DEF Prompt
  <2> QED  BY <1>0, <2>1, <2>2, <2>3
<1>9. /\ CounterInv(k, b) /\ Cardinality(InBucket(granted[k], b)) \in Nat
  BY <1>1, <1>7, GrantsFinite DEF QuotaInv
<1>10. hits'[k][b] = NoCounter \/ EndOf(b) <= hits'[k][b].until
  <2>1. hits[k][b].until # 0
    BY <1>1, <1>2, <1>3, <1>5 DEF Alive
  <2> QED  BY <1>5, <1>9, <2>1 DEF CounterInv, NoCounter
<1>11. CASE granted' = granted
  <2>1. now < EndOf(b) => Cardinality(InBucket(granted[k], b)) <= counted
    BY <1>5, <1>9 DEF CounterInv
  <2>2. CounterInv(k, b)'
    BY <1>2, <1>5, <1>9, <1>10, <1>11, <2>1 DEF CounterInv, EndOf, InBucket
  <2>3. ASSUME NEW c \in Callers, NEW d \in 0..MaxNow, c # k \/ d # b PROVE CounterInv(c, d)'
    BY <1>2, <1>5, <1>11, <2>3 DEF QuotaInv, CounterInv, EndOf, InBucket
  <2>4. \A c \in Callers, d \in 0..MaxNow : CounterInv(c, d)'
    BY <2>2, <2>3
  <2> QED  BY <1>2, <1>4, <1>11, <2>4 DEF QuotaInv, CounterInv, EndOf, InBucket, Grant
<1>12. CASE counted <= RateLimit /\ granted' = [granted EXCEPT ![k] = Append(@, grant)]
  <2>1. /\ granted'[k] = Append(granted[k], grant)
        /\ \A c \in Callers : c # k => granted'[c] = granted[c]
        /\ granted' \in [Callers -> Seq(Grant)]
    BY <1>1, <1>6, <1>7, <1>12
  <2>2. \A c \in Callers : \A i \in DOMAIN granted'[c] : granted'[c][i].came <= now
    <3>1. ASSUME NEW i \in DOMAIN granted'[k] PROVE granted'[k][i].came <= now
      <4>1. granted'[k][i] = grant \/ (i \in DOMAIN granted[k] /\ granted'[k][i] = granted[k][i])
        BY <1>6, <1>7, <2>1
      <4>2. grant.came <= now
        BY <1>2, <1>8
      <4> QED  BY <1>1, <4>1, <4>2 DEF QuotaInv
    <3>2. ASSUME NEW c \in Callers, c # k
          PROVE  \A i \in DOMAIN granted'[c] : granted'[c][i].came <= now
      <4>1. granted'[c] = granted[c]
        BY <2>1, <3>2
      <4> QED  BY <4>1 DEF QuotaInv
    <3> QED  BY <3>1, <3>2
  <2>3. \A d : Cardinality(InBucket(granted'[k], d)) =
            Cardinality(InBucket(granted[k], d))
              + (IF grant.prompt /\ b = d THEN 1 ELSE 0)
    BY <1>6, <1>7, <1>8, <2>1, OneMoreGrant
  <2>4. CounterInv(k, b)'
    <3>1. now < EndOf(b) => Cardinality(InBucket(granted'[k], b)) <= counted
      BY <1>5, <1>9, <2>3 DEF CounterInv
    <3>2. Cardinality(InBucket(granted'[k], b)) <= RateLimit
      <4>1. CASE ~grant.prompt
        BY <1>9, <2>3, <4>1 DEF CounterInv
      <4>2. CASE grant.prompt
        <5>1. Cardinality(InBucket(granted'[k], b)) <= counted
          BY <1>8, <3>1, <4>2
        <5>2. Cardinality(InBucket(granted'[k], b)) \in Nat
          BY <1>9, <2>3
        <5> QED  BY <1>5, <1>12, <5>1, <5>2, RateAssumption
      <4> QED  BY <4>1, <4>2
    <3> QED  BY <1>2, <1>5, <1>10, <3>1, <3>2 DEF CounterInv, EndOf, InBucket
  <2>5. ASSUME NEW c \in Callers, NEW d \in 0..MaxNow, c # k \/ d # b PROVE CounterInv(c, d)'
    <3>1. CounterInv(c, d) /\ hits'[c][d] = hits[c][d]
      BY <1>5, <2>5 DEF QuotaInv
    <3>2. Cardinality(InBucket(granted'[c], d)) = Cardinality(InBucket(granted[c], d))
      <4>1. CASE c # k
        BY <2>1, <4>1
      <4>2. CASE c = k
        <5>1. Cardinality(InBucket(granted[c], d)) \in Nat
          BY <1>7, <4>2, GrantsFinite
        <5> QED  BY <2>3, <2>5, <4>2, <5>1
      <4> QED  BY <4>1, <4>2
    <3> QED  BY <1>2, <3>1, <3>2 DEF CounterInv, EndOf, InBucket
  <2>6. \A c \in Callers, d \in 0..MaxNow : CounterInv(c, d)'
    BY <2>4, <2>5
  <2> QED  BY <1>2, <1>4, <2>1, <2>2, <2>6 DEF QuotaInv, CounterInv, EndOf, InBucket, Grant
<1> QED  BY <1>3, <1>11, <1>12

LEMMA QuotaKept == TypeOK /\ QuotaInv /\ [Next]_vars => QuotaInv'
<1> SUFFICES ASSUME TypeOK, QuotaInv, [Next]_vars PROVE QuotaInv'
  OBVIOUS
<1>1. now \in Nat /\ CameInv
  BY NowTypes DEF QuotaInv
<1>2. ASSUME NEW w \in Workers, NEW next, job' = [job EXCEPT ![w] = next],
             next \in QuotaCall => next.came <= now,
             now' = now, hits' = hits, granted' = granted
      PROVE  QuotaInv'
  <2>1. CameInv'
    BY <1>1, <1>2, CameKept
  <2> QED  BY <1>1, <1>2, <2>1, QuotaRests
<1>3. ASSUME NEW w \in Workers, NEW k \in Callers, ImportFromUrl(w, k)
      PROVE  QuotaInv'
  <2>1. [at |-> "add", caller |-> k, came |-> now].came <= now
    BY <1>1
  <2> QED  BY <1>2, <1>3, <2>1 DEF ImportFromUrl
<1>4. ASSUME NEW w \in Workers, NEW next, Moves(w, next), next \notin QuotaCall
      PROVE  QuotaInv'
  BY <1>2, <1>4 DEF Moves
<1>5. NoJob \notin QuotaCall
  BY DEF NoJob, QuotaCall
<1>6. ASSUME NEW w \in Workers, IncrTooLate(w) PROVE QuotaInv'
  <2>1. job[w] \in QuotaCall
    BY <1>6, QuotaCallTypes DEF IncrTooLate
  <2>2. [job[w] EXCEPT !.at = "readd"].came <= now
    BY <1>1, <2>1 DEF QuotaCall, CameInv
  <2>3. \/ job' = [job EXCEPT ![w] = [job[w] EXCEPT !.at = "readd"]]
        \/ job' = [job EXCEPT ![w] = NoJob]
    BY <1>6 DEF IncrTooLate
  <2>4. now' = now /\ hits' = hits /\ granted' = granted
    BY <1>6 DEF IncrTooLate
  <2> QED  BY <1>2, <1>5, <2>2, <2>3, <2>4
<1>7. ASSUME NEW w \in Workers, NEW answer \in Answers, Connect(w, answer) PROVE QuotaInv'
  <2>1. job[w] \in HopCall
    BY <1>7, HopTypes DEF Connect
  <2>2. [job[w] EXCEPT !.at = "response"] \notin QuotaCall
    BY <2>1 DEF HopCall, QuotaCall
  <2> QED  BY <1>4, <1>5, <1>7, <2>2 DEF Connect
<1>8. ASSUME NEW w \in Workers, NEW location \in Locations, Redirect(w, location) PROVE QuotaInv'
  <2>1. [at |-> "hop", url |-> location[1], hops |-> job[w].hops + 1] \notin QuotaCall
    BY DEF QuotaCall
  <2> QED  BY <1>4, <1>5, <1>8, <2>1 DEF Redirect
<1>9. ASSUME NEW w \in Workers, NEW size \in Sizes, ReadBody(w, size) PROVE QuotaInv'
  <2>1. [at |-> "fetched", size |-> size] \notin QuotaCall
    BY DEF QuotaCall
  <2>2. Moves(w, NoJob) \/ Moves(w, [at |-> "fetched", size |-> size])
    BY <1>9 DEF ReadBody
  <2> QED  BY <1>4, <1>5, <2>1, <2>2
<1>10. ASSUME NEW w \in Workers, FetchFails(w) \/ Store(w) PROVE QuotaInv'
  BY <1>4, <1>5, <1>10 DEF FetchFails, Store
<1>11. CASE Tick
  <2>1. now' = now + 1 /\ hits' = hits /\ granted' = granted /\ job' = job
    BY <1>11 DEF Tick
  <2>2. CameInv'
    <3> SUFFICES ASSUME NEW w \in Workers, job[w] \in QuotaCall PROVE job[w].came <= now + 1
      BY <2>1 DEF CameInv, QuotaCall
    <3>1. job[w].came \in Nat /\ job[w].came <= now
      BY <1>1, BoundAssumption DEF CameInv, QuotaCall
    <3> QED  BY <1>1, <3>1
  <2> QED  BY <1>1, <2>1, <2>2, QuotaRests
<1>12. CASE UNCHANGED vars
  <2>1. CameInv'
    BY <1>1, <1>12 DEF CameInv, QuotaCall, vars
  <2> QED  BY <1>1, <1>12, <2>1, QuotaRests DEF vars
<1> QED  BY <1>3, <1>6, <1>7, <1>8, <1>9, <1>10, <1>11, <1>12,
            AddKeepsQuota, IncrKeepsQuota DEF Next, Step

\* Of the calls that come within one window's length no more than two quotas are
\* let through promptly, for any window, limit, number of callers and of calls at
\* once, however their round trips to the cache mix: the counter of a bucket is
\* there until its last call has been counted, and a stretch of a window's length
\* meets two buckets.
THEOREM RateAlwaysHolds == Spec => []RateHolds
<1>1. Init => QuotaInv
  <2> SUFFICES ASSUME Init PROVE QuotaInv
    OBVIOUS
  <2>1. /\ hits = [k \in Callers |-> [b \in 0..MaxNow |-> NoCounter]]
        /\ granted = [k \in Callers |-> <<>>]
        /\ job = [w \in Workers |-> NoJob]
    BY DEF Init
  <2>2. CameInv
    BY <2>1 DEF CameInv, NoJob, QuotaCall
  <2>3. ASSUME NEW k \in Callers, NEW b \in 0..MaxNow PROVE CounterInv(k, b)
    <3>1. InBucket(<<>>, b) = {}
      BY DEF InBucket
    <3>2. Cardinality(InBucket(granted[k], b)) = 0 /\ hits[k][b] = NoCounter
      BY <2>1, <3>1, FS_EmptySet
    <3> QED  BY <3>2, RateAssumption DEF CounterInv, NoCounter
  <2>4. granted \in [Callers -> Seq(Grant)]
    BY <2>1
  <2>5. \A k \in Callers : DOMAIN granted[k] = {}
    BY <2>1
  <2> QED  BY <2>2, <2>3, <2>4, <2>5 DEF QuotaInv
<1>2. TypeOK /\ QuotaInv => RateHolds
  <2> SUFFICES ASSUME TypeOK, QuotaInv, NEW k \in Callers, NEW t \in 0..now
               PROVE  Cardinality(Recent(k, t)) <= 2 * RateLimit
    BY DEF RateHolds
  <2> DEFINE b == t \div RateWindow
             here == InBucket(granted[k], b)
             there == InBucket(granted[k], b + 1)
  <2>1. t \in Nat /\ t <= MaxNow /\ b \in Nat /\ granted[k] \in Seq(Grant)
    <3>1. t \in Nat /\ t <= MaxNow
      BY NowTypes, BoundAssumption
    <3>2. b \in Nat
      BY <3>1, RateAssumption, Division
    <3> QED  BY <3>1, <3>2 DEF QuotaInv
  <2>2. ASSUME NEW i \in Recent(k, t)
        PROVE  /\ granted[k][i].prompt /\ i \in DOMAIN granted[k]
               /\ granted[k][i].came \in Nat /\ granted[k][i].came <= MaxNow
               /\ granted[k][i].came \div RateWindow \in {b, b + 1}
    <3>1. i \in DOMAIN granted[k] /\ granted[k][i].prompt
          /\ granted[k][i].came \in t..(t + RateWindow - 1)
      BY <2>2 DEF Recent
    <3>2. granted[k][i] \in Grant /\ granted[k][i].came <= now
      BY <2>1, <3>1 DEF QuotaInv
    <3>3. granted[k][i].came \in Nat /\ t <= granted[k][i].came
          /\ granted[k][i].came <= t + RateWindow - 1
      BY <2>1, <3>1, <3>2, RateAssumption DEF Grant
    <3>4. granted[k][i].came <= MaxNow
      BY <3>2, <3>3, NowTypes, BoundAssumption
    <3> QED  BY <2>1, <3>1, <3>3, <3>4, RateAssumption, TwoWindows
  <2>3. /\ IsFiniteSet(here) /\ Cardinality(here) \in Nat /\ Cardinality(here) <= RateLimit
        /\ IsFiniteSet(there) /\ Cardinality(there) \in Nat
        /\ there # {} => Cardinality(there) <= RateLimit
    <3>1. b \in 0..MaxNow
      BY <2>1, BoundAssumption, RateAssumption, Division
    <3>2. there # {} => b + 1 \in 0..MaxNow
      <4> SUFFICES ASSUME NEW i \in there PROVE b + 1 \in 0..MaxNow
        OBVIOUS
      <4>1. i \in DOMAIN granted[k] /\ granted[k][i].came \div RateWindow = b + 1
        BY DEF InBucket
      <4>2. granted[k][i] \in Grant /\ granted[k][i].came <= now
        BY <2>1, <4>1 DEF QuotaInv
      <4>3. granted[k][i].came \in Nat /\ granted[k][i].came <= MaxNow
        BY <4>2, NowTypes, BoundAssumption DEF Grant
      <4>4. granted[k][i].came \div RateWindow <= granted[k][i].came
        BY <4>3, RateAssumption, Division
      <4> QED  BY <2>1, <4>1, <4>3, <4>4, BoundAssumption
    <3> QED  BY <2>1, <3>1, <3>2, GrantsFinite DEF QuotaInv, CounterInv
  <2>4. Recent(k, t) \subseteq here \cup there
    BY <2>2 DEF InBucket
  <2> HIDE DEF b, here, there
  <2>5. /\ IsFiniteSet(here \cup there)
        /\ Cardinality(here \cup there) = Cardinality(here) + Cardinality(there) - Cardinality(here \cap there)
    BY <2>3, FS_Union
  <2>6. Cardinality(here \cap there) \in Nat
    BY <2>3, FS_Intersection, FS_CardinalityType
  <2>7. Cardinality(Recent(k, t)) <= Cardinality(here \cup there)
    BY <2>4, <2>5, FS_Subset
  <2>8. Recent(k, t) \in SUBSET (here \cup there) /\ Cardinality(Recent(k, t)) \in Nat
    BY <2>4, <2>5, FS_Subset, FS_CardinalityType
  <2>9. Cardinality(there) <= RateLimit
    BY <2>3, RateAssumption, FS_EmptySet
  <2> QED  BY <2>3, <2>5, <2>6, <2>7, <2>8, <2>9, RateAssumption
<1> QED  BY <1>1, <1>2, InitTypes, TypesKept, QuotaKept, PTL DEF Spec

-----------------------------------------------------------------------------
(* A call ends                                                             *)

\* The steps a call may still take: its quota is counted, at the second go if not
\* at the first; each hop connects and is answered, and is one of the redirects
\* left; a body is stored.
StepsLeft(call) ==
    CASE call.at = "add"      -> 2 * MaxRedirects + 7
      [] call.at = "incr"     -> 2 * MaxRedirects + 6
      [] call.at = "readd"    -> 2 * MaxRedirects + 5
      [] call.at = "reincr"   -> 2 * MaxRedirects + 4
      [] call.at = "hop"      -> 2 * (MaxRedirects - call.hops) + 3
      [] call.at = "response" -> 2 * (MaxRedirects - call.hops) + 2
      [] call.at = "fetched"  -> 1
      [] OTHER                -> 0

Staffed == DOMAIN job = Workers

LEMMA WorkersHaveJobs == Spec => []Staffed
<1>1. Init => Staffed
  BY DEF Init, Staffed
<1>2. Staffed /\ [Next]_vars => Staffed'
  BY DEF Next, ImportFromUrl, Step, CacheAdd, IncrTooLate, CacheIncr, Connect, Redirect, ReadBody, FetchFails, Store, Moves, Tick,
         Staffed, vars
<1> QED  BY <1>1, <1>2, PTL DEF Spec

\* What a worker is at has a number of steps left, none only when it is idle.
LEMMA StepsLeftTypes ==
    ASSUME TypeOK, NEW w \in Workers
    PROVE  /\ StepsLeft(job[w]) \in 0..(2 * MaxRedirects + 7)
           /\ StepsLeft(job[w]) = 0 <=> job[w] = NoJob
<1>1. CASE job[w] = NoJob
  BY <1>1, FetchAssumption DEF StepsLeft, NoJob
<1>2. CASE job[w] \in HopCall
  <2>1. job[w].at \in {"hop", "response"} /\ job[w].hops \in 0..MaxRedirects
    BY <1>2 DEF HopCall
  <2>2. job[w] # NoJob
    BY <2>1 DEF NoJob
  <2> QED  BY <2>1, <2>2, FetchAssumption DEF StepsLeft
<1>3. CASE job[w] \in FetchedCall
  <2>1. job[w].at = "fetched"
    BY <1>3 DEF FetchedCall
  <2>2. job[w] # NoJob
    BY <2>1 DEF NoJob
  <2> QED  BY <2>1, <2>2, FetchAssumption DEF StepsLeft
<1>4. CASE job[w] \in QuotaCall
  <2>1. job[w].at \in {"add", "incr", "readd", "reincr"}
    BY <1>4 DEF QuotaCall
  <2>2. job[w] # NoJob
    BY <2>1 DEF NoJob
  <2> QED  BY <2>1, <2>2, FetchAssumption DEF StepsLeft
<1> QED  BY <1>1, <1>2, <1>3, <1>4, TypesInParts DEF CallsType, Job

\* A step of a call leaves it fewer.
LEMMA StepTakesOne ==
    ASSUME TypeOK, Staffed, NEW w \in Workers, Step(w)
    PROVE  StepsLeft(job'[w]) < StepsLeft(job[w])
<1>1. ASSUME NEW next, Moves(w, next) PROVE job'[w] = next
  BY <1>1 DEF Moves, Staffed
<1>2. StepsLeft(NoJob) = 0
  BY DEF StepsLeft, NoJob
<1>3. ASSUME Moves(w, NoJob), job[w].at # "idle" PROVE StepsLeft(job'[w]) < StepsLeft(job[w])
  <2>1. job[w] # NoJob
    BY <1>3 DEF NoJob
  <2> QED  BY <1>1, <1>2, <1>3, <2>1, StepsLeftTypes, FetchAssumption
<1>4. job[w].at \in {"hop", "response"} => job[w].hops \in 0..MaxRedirects
  BY HopTypes DEF HopCall
<1>5. ASSUME NEW answer \in Answers, Connect(w, answer)
      PROVE  StepsLeft(job'[w]) < StepsLeft(job[w])
  <2>1. CASE Moves(w, NoJob)
    BY <1>3, <1>5, <2>1 DEF Connect
  <2>2. CASE Moves(w, [job[w] EXCEPT !.at = "response"])
    <3>1. job[w].at = "hop" /\ job[w].hops \in 0..MaxRedirects
      BY <1>4, <1>5 DEF Connect
    <3>2. job'[w].at = "response" /\ job'[w].hops = job[w].hops
      <4>1. job[w] \in HopCall
        BY <3>1, HopTypes
      <4> QED  BY <1>1, <2>2, <4>1 DEF HopCall
    <3> QED  BY <3>1, <3>2, FetchAssumption DEF StepsLeft
  <2> QED  BY <1>5, <2>1, <2>2 DEF Connect
<1>6. ASSUME NEW location \in Locations, Redirect(w, location)
      PROVE  StepsLeft(job'[w]) < StepsLeft(job[w])
  <2>1. job[w].at = "response" /\ job[w].hops \in 0..MaxRedirects
    BY <1>4, <1>6 DEF Redirect
  <2>2. CASE Moves(w, NoJob)
    BY <1>3, <2>1, <2>2
  <2>3. CASE /\ ~(job[w].hops + 1 > MaxRedirects)
             /\ Moves(w, [at |-> "hop", url |-> location[1], hops |-> job[w].hops + 1])
    <3>1. job'[w].at = "hop" /\ job'[w].hops = job[w].hops + 1
      BY <1>1, <2>3
    <3> QED  BY <2>1, <3>1, FetchAssumption DEF StepsLeft
  <2> QED  BY <1>6, <2>2, <2>3 DEF Redirect
<1>7. ASSUME NEW size \in Sizes, ReadBody(w, size)
      PROVE  StepsLeft(job'[w]) < StepsLeft(job[w])
  <2>1. job[w].at = "response" /\ job[w].hops \in 0..MaxRedirects
    BY <1>4, <1>7 DEF ReadBody
  <2>2. CASE Moves(w, NoJob)
    BY <1>3, <2>1, <2>2
  <2>3. CASE Moves(w, [at |-> "fetched", size |-> size])
    <3>1. job'[w].at = "fetched"
      BY <1>1, <2>3
    <3> QED  BY <2>1, <3>1, FetchAssumption DEF StepsLeft
  <2> QED  BY <1>7, <2>2, <2>3 DEF ReadBody
<1>8. CASE FetchFails(w) \/ Store(w)
  BY <1>3, <1>8 DEF FetchFails, Store
<1>9. CASE CacheAdd(w)
  <2>1. job[w] \in QuotaCall
    BY <1>9, QuotaCallTypes DEF CacheAdd
  <2>2. \/ job[w].at = "add" /\ job'[w].at = "incr"
        \/ job[w].at = "readd" /\ job'[w].at = "reincr"
    <3>1. job' = [job EXCEPT ![w] = [job[w] EXCEPT
                      !.at = IF job[w].at = "add" THEN "incr" ELSE "reincr"]]
      BY <1>9 DEF CacheAdd
    <3>2. job'[w] = [job[w] EXCEPT !.at = IF job[w].at = "add" THEN "incr" ELSE "reincr"]
      BY <3>1 DEF Staffed
    <3>3. job'[w].at = IF job[w].at = "add" THEN "incr" ELSE "reincr"
      BY <2>1, <3>2 DEF QuotaCall
    <3>4. job[w].at = "add" \/ job[w].at = "readd"
      BY <1>9 DEF CacheAdd
    <3> QED  BY <3>3, <3>4
  <2> QED  BY <2>2, FetchAssumption DEF StepsLeft
<1>10. CASE IncrTooLate(w)
  <2>1. job[w] \in QuotaCall
    BY <1>10, QuotaCallTypes DEF IncrTooLate
  <2>2. \/ job[w].at = "incr" /\ job'[w].at = "readd"
        \/ job[w].at = "reincr" /\ job'[w] = NoJob
    BY <1>10, <2>1 DEF IncrTooLate, Staffed, QuotaCall
  <2> QED  BY <1>2, <2>2, FetchAssumption DEF StepsLeft
<1>11. ASSUME NEW url \in Urls, CacheIncr(w, url)
       PROVE  StepsLeft(job'[w]) < StepsLeft(job[w])
  <2>1. job[w].at \in {"incr", "reincr"}
    BY <1>11 DEF CacheIncr
  <2>2. job'[w] = NoJob \/ job'[w] = [at |-> "hop", url |-> url, hops |-> 0]
    <3>1. \/ job' = [job EXCEPT ![w] = NoJob]
          \/ job' = [job EXCEPT ![w] = [at |-> "hop", url |-> url, hops |-> 0]]
      BY <1>11 DEF CacheIncr
    <3> QED  BY <3>1 DEF Staffed
  <2>3. StepsLeft([at |-> "hop", url |-> url, hops |-> 0]) = 2 * MaxRedirects + 3
    BY FetchAssumption DEF StepsLeft
  <2>4. StepsLeft(job[w]) >= 2 * MaxRedirects + 4
    BY <2>1, FetchAssumption DEF StepsLeft
  <2>5. StepsLeft(job[w]) \in Nat
    BY StepsLeftTypes, FetchAssumption
  <2> QED  BY <1>2, <2>2, <2>3, <2>4, <2>5, FetchAssumption
<1> QED  BY <1>5, <1>6, <1>7, <1>8, <1>9, <1>10, <1>11 DEF Step

\* A call under way has at most four steps for its quota, two for each hop it is
\* allowed and one for its body, every step it takes leaves it fewer, and nobody else's step
\* gives it any (fetch.py's loop).
StepsRunOut ==
    \A w \in Workers : job[w] # NoJob =>
        /\ StepsLeft(job[w]) \in 1..(2 * MaxRedirects + 7)
        /\ Step(w) => StepsLeft(job'[w]) < StepsLeft(job[w])
        /\ ~Step(w) => job'[w] = job[w]

\* No server holds a call by redirecting it: its steps run out.  That they are
\* taken is the fairness of ImportEnds.
THEOREM RedirectsRunOut == Spec => [][StepsRunOut]_vars
<1>1. TypeOK /\ Staffed /\ [Next]_vars => [StepsRunOut]_vars
  <2> SUFFICES ASSUME TypeOK, Staffed, Next,
                      NEW w \in Workers, job[w] # NoJob
               PROVE  /\ StepsLeft(job[w]) \in 1..(2 * MaxRedirects + 7)
                      /\ Step(w) => StepsLeft(job'[w]) < StepsLeft(job[w])
                      /\ ~Step(w) => job'[w] = job[w]
    BY DEF StepsRunOut
  <2>1. StepsLeft(job[w]) \in 1..(2 * MaxRedirects + 7)
    BY StepsLeftTypes, FetchAssumption
  <2>2. ASSUME ~Step(w) PROVE job'[w] = job[w]
    <3>1. ASSUME NEW v \in Workers, Step(v) PROVE job'[w] = job[w]
      <4>1. v # w
        BY <2>2, <3>1
      <4>2. \E next : job' = [job EXCEPT ![v] = next]
        BY <3>1 DEF Step, CacheAdd, IncrTooLate, CacheIncr, Connect, Redirect, ReadBody, FetchFails, Store, Moves
      <4> QED  BY <4>1, <4>2 DEF Staffed
    <3>2. ASSUME NEW v \in Workers, NEW k \in Callers, ImportFromUrl(v, k)
          PROVE  job'[w] = job[w]
      <4>1. v # w
        BY <3>2 DEF ImportFromUrl
      <4>2. job' = job \/ \E next : job' = [job EXCEPT ![v] = next]
        BY <3>2 DEF ImportFromUrl
      <4> QED  BY <4>1, <4>2 DEF Staffed
    <3> QED  BY <3>1, <3>2 DEF Next, Tick
  <2> QED  BY <2>1, <2>2, StepTakesOne
<1> QED  BY <1>1, FetchTypeCorrect, WorkersHaveJobs, PTL DEF Spec

(***************************************************************************)
(* The intake put together                                                 *)
(***************************************************************************)

\* A step of the intake is a step of one part and leaves the others alone.
LEMMA IntakeStepIsOneParts ==
    ASSUME [IntakeNext]_<<part, speedVars, vars, doorsVars>>
    PROVE  [SpeedNext]_speedVars /\ [Next]_vars /\ [DoorsNext]_doorsVars
<1>1. CASE IntakeNext
  BY <1>1 DEF IntakeNext
<1>2. CASE UNCHANGED <<part, speedVars, vars, doorsVars>>
  BY <1>2
<1> QED  BY <1>1, <1>2

\* The upload handler, the import and the doors behave in the intake as each of
\* them does alone: the one process that serves a request takes nothing from the
\* others, and what is proved of a part is true of the whole.
THEOREM IntakeIsItsParts ==
    ASSUME Deployments # {}
    PROVE  IntakeSpec => SpeedSpec /\ Spec /\ DoorsSpec
<1>1. IntakeInit => SpeedInit /\ Init /\ DoorsInit
  <2>1. (CHOOSE d \in Deployments : TRUE) \in Deployments
    OBVIOUS
  <2> QED  BY <2>1 DEF IntakeInit, DoorsInit
<1>2. [IntakeNext]_<<part, speedVars, vars, doorsVars>>
        => [SpeedNext]_speedVars /\ [Next]_vars /\ [DoorsNext]_doorsVars
  BY IntakeStepIsOneParts
<1> QED  BY <1>1, <1>2, PTL DEF IntakeSpec, SpeedSpec, Spec, DoorsSpec

\* The intake keeps its types.
THEOREM IntakeTypeCorrect ==
    ASSUME Deployments # {}
    PROVE  IntakeSpec => []IntakeTypeOK
<1>1. SpeedTypeOK /\ TypeOK /\ DoorsTypeOK <=> IntakeTypeOK
  BY DEF IntakeTypeOK
<1> QED
  BY <1>1, IntakeIsItsParts, SpeedTypeCorrect, FetchTypeCorrect, DoorsTypeCorrect, PTL
=============================================================================
