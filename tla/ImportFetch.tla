---------------------------- MODULE ImportFetch ----------------------------
(***************************************************************************)
(* The outbound half of cdn.import_from_url (fetch.py): the per-caller     *)
(* quota on the shared cache, and the loop that validates, connects and    *)
(* follows redirects.  What the network answers at each hop is arbitrary:  *)
(* a name may resolve to something else the second time.                   *)
(***************************************************************************)
EXTENDS Integers, Sequences, FiniteSets

CONSTANTS Workers,                  \* calls that may be under way at once
          Callers,                  \* quota keys: caller ids, "-" for calls without one
          Addresses, Urls,
          RateLimit, RateWindow,    \* IMPORT_FROM_URL_RATE, parsed
          MaxRedirects, MaxBytes,   \* IMPORT_FROM_URL_MAX_*
          Sizes,                    \* sizes of the bodies a server may send
          MaxNow, MaxCalls          \* bounds: the clock, the calls of a bucket

ASSUME RateAssumption == RateLimit \in Nat /\ RateWindow \in Nat \ {0}
ASSUME FetchAssumption == MaxRedirects \in Nat /\ MaxBytes \in Nat
ASSUME BoundAssumption == MaxNow \in Nat /\ MaxCalls \in Nat

\* `hits` are the counters of the cache.  `granted` and `contacted` are history:
\* when the calls let through came and whether they were counted promptly, and
\* every address a connection was made to with the scheme it was made for.
VARIABLES now, hits, job, granted, contacted
vars == <<now, hits, job, granted, contacted>>

NoJob == [at |-> "idle"]

\* An address: how it is written (`form`) and what it reaches (`range`).
Forms == {"v4", "v6", "mapped", "sixtofour", "nat64"}
Ranges == {"global", "private", "loopback", "link_local", "multicast",
           "reserved", "unspecified", "cgnat"}
Address == [form : Forms, range : Ranges]

\* A URL: its scheme, and whether it names a host.
Url == [scheme : {"https", "http"}, host : BOOLEAN]

ASSUME NetworkAssumption == Addresses \subseteq Address /\ Urls \subseteq Url

-----------------------------------------------------------------------------
(* Validation *)

\* Mutant of Unwrapped: only the forms the standard library knows.
UnwrappedByLibrary == {"mapped", "sixtofour"}

\* The forms whose embedded IPv4 address is looked at instead of their own:
\* the standard library knows two of them, `_nat64_embedded_ipv4` the third.
Unwrapped == {"mapped", "sixtofour", "nat64"}

\* An IPv6 address that embeds another is global as far as it goes itself.
Seen(ip) == IF ip.form \in {"v4", "v6"} \cup Unwrapped THEN ip.range ELSE "global"

IpIsForbidden(ip) == Seen(ip) # "global"

\* `_resolve_validated`: every address of the answer has to be allowed.
ResolvesTo(answer) ==
    IF answer = <<>> THEN "dns_resolution_failed"
    ELSE IF \E i \in DOMAIN answer : IpIsForbidden(answer[i]) THEN "blocked_ip"
    ELSE "ok"

\* What a hop is refused for before it connects.
HopVerdict(url, answer) ==
    IF url.scheme # "https" THEN "scheme_not_https"
    ELSE IF ~url.host THEN "no_host" ELSE ResolvesTo(answer)

Answers == {<<>>} \cup (Addresses \X Addresses)

\* What a Location header may say: nothing, or a URL.
Locations == {<<>>} \cup {<<url>> : url \in Urls}

-----------------------------------------------------------------------------
(* The quota: one counter for a caller and a bucket of time, on the shared  *)
(* cache.  A call tells its bucket by the clock once and then makes one     *)
(* round trip after another: the clock runs on between them, and so do the  *)
(* other calls.                                                             *)

NoCounter == [count |-> 0, until |-> 0]

\* Mutant of CounterLife: a counter lives as long as its bucket.
CounterLifeOfBucket == RateWindow

\* The timeout of a counter.
CounterLife == 2 * RateWindow

Bucket(call) == call.came \div RateWindow

Counter(call) == hits[call.caller][Bucket(call)]

Alive(counter) == now < counter.until

-----------------------------------------------------------------------------
Init == /\ now = 0
        /\ hits = [k \in Callers |-> [b \in 0..MaxNow |-> NoCounter]]
        /\ job = [w \in Workers |-> NoJob]
        /\ granted = [k \in Callers |-> <<>>]
        /\ contacted = {}

\* The quota is counted before any network work.
ImportFromUrl(w, k) ==
    LET call == [at |-> "add", caller |-> k, came |-> now]
    IN  /\ job[w] = NoJob
        /\ Counter(call).count < MaxCalls
        /\ job' = [job EXCEPT ![w] = call]
        /\ UNCHANGED <<now, hits, granted, contacted>>

\* `cache.add` starts a counter only when there is none alive.
CacheAdd(w) ==
    LET call == job[w]
    IN  /\ call.at \in {"add", "readd"}
        /\ hits' = IF Alive(Counter(call)) THEN hits
                   ELSE [hits EXCEPT ![call.caller][Bucket(call)] =
                             [count |-> 0, until |-> now + CounterLife]]
        /\ job' = [job EXCEPT ![w].at = IF @ = "add" THEN "incr" ELSE "reincr"]
        /\ UNCHANGED <<now, granted, contacted>>

\* `cache.incr` finds the counter gone: added again, once.
IncrTooLate(w) ==
    /\ job[w].at \in {"incr", "reincr"}
    /\ ~Alive(Counter(job[w]))
    /\ job' = [job EXCEPT ![w] = IF @.at = "incr" THEN [@ EXCEPT !.at = "readd"] ELSE NoJob]
    /\ UNCHANGED <<now, hits, granted, contacted>>

\* A call is counted within the length of a window after it came.
Prompt(call) == now <= call.came + RateWindow

\* `cache.incr` counts; within the limit the URL of the payload is the first hop.
CacheIncr(w, url) ==
    LET call    == job[w]
        counted == Counter(call).count + 1
    IN  /\ call.at \in {"incr", "reincr"}
        /\ Alive(Counter(call))
        /\ hits' = [hits EXCEPT ![call.caller][Bucket(call)].count = counted]
        /\ IF counted > RateLimit
           THEN job' = [job EXCEPT ![w] = NoJob] /\ UNCHANGED granted    \* rate_limited
           ELSE /\ job' = [job EXCEPT ![w] = [at |-> "hop", url |-> url, hops |-> 0]]
                /\ granted' = [granted EXCEPT ![call.caller] =
                                   Append(@, [came |-> call.came, prompt |-> Prompt(call)])]
        /\ UNCHANGED <<now, contacted>>

Moves(w, next) ==
    /\ job' = [job EXCEPT ![w] = next]
    /\ UNCHANGED <<now, hits, granted>>

\* One turn of the loop up to the response line: the connection is made to the
\* address that was validated, not to a second answer.
Connect(w, answer) ==
    /\ job[w].at = "hop"
    /\ IF HopVerdict(job[w].url, answer) # "ok"
       THEN Moves(w, NoJob) /\ UNCHANGED contacted
       ELSE /\ Moves(w, [job[w] EXCEPT !.at = "response"])
            /\ contacted' = contacted \cup {[ip |-> answer[1], scheme |-> job[w].url.scheme]}

\* Mutant of Redirect: the hop is not counted.
RedirectUncounted(w, location) ==
    /\ job[w].at = "response"
    /\ Moves(w, IF location = <<>> THEN NoJob
                ELSE [at |-> "hop", url |-> location[1], hops |-> job[w].hops])
    /\ UNCHANGED contacted

\* The server redirects: nowhere, once too often, or to another URL.
Redirect(w, location) ==
    /\ job[w].at = "response"
    /\ IF location = <<>> \/ job[w].hops + 1 > MaxRedirects
       THEN Moves(w, NoJob)
       ELSE Moves(w, [at |-> "hop", url |-> location[1], hops |-> job[w].hops + 1])
    /\ UNCHANGED contacted

\* A body arrives in chunks and is given up at the chunk that passes the cap.
ReadBody(w, size) ==
    /\ job[w].at = "response"
    /\ Moves(w, IF size > MaxBytes THEN NoJob ELSE [at |-> "fetched", size |-> size])
    /\ UNCHANGED contacted

\* bad_status, not_image_content_type, a timeout, a broken connection.
FetchFails(w) ==
    /\ job[w].at = "response"
    /\ Moves(w, NoJob)
    /\ UNCHANGED contacted

\* The bytes go to the gates and the table (UploadDoors); the call ends.
Store(w) ==
    /\ job[w].at = "fetched"
    /\ Moves(w, NoJob)
    /\ UNCHANGED contacted

Tick == /\ now < MaxNow
        /\ now' = now + 1
        /\ UNCHANGED <<hits, job, granted, contacted>>

\* What a call does next; every step of it has a timeout of its own.
Step(w) == \/ CacheAdd(w)
           \/ IncrTooLate(w)
           \/ \E url \in Urls : CacheIncr(w, url)
           \/ \E answer \in Answers : Connect(w, answer)
           \/ \E location \in Locations : Redirect(w, location)
           \/ \E size \in Sizes : ReadBody(w, size)
           \/ FetchFails(w)
           \/ Store(w)

Next == \/ \E w \in Workers, k \in Callers : ImportFromUrl(w, k)
        \/ \E w \in Workers : Step(w)
        \/ Tick

Fairness == \A w \in Workers : WF_vars(Step(w))

Spec == Init /\ [][Next]_vars /\ Fairness

-----------------------------------------------------------------------------
TypeOK ==
    /\ now \in 0..MaxNow
    /\ hits \in [Callers -> [0..MaxNow -> [count : Nat, until : Nat]]]
    /\ \A w \in Workers :
          \/ job[w] = NoJob
          \/ job[w] \in [at : {"add", "incr", "readd", "reincr"},
                          caller : Callers, came : 0..MaxNow]
          \/ job[w] \in [at : {"hop", "response"}, url : Urls, hops : 0..MaxRedirects]
          \/ job[w] \in [at : {"fetched"}, size : Sizes]
    /\ contacted \subseteq [ip : Addresses, scheme : {"https", "http"}]

\* Whatever names resolve to and wherever servers redirect, no connection is
\* made but over https and to a public address (`_open` after
\* `_resolve_validated`, on every hop).
FetchStaysOutside ==
    \A contact \in contacted : contact.scheme = "https" /\ contact.ip.range = "global"

Recent(k, t) == {i \in DOMAIN granted[k] :
                     granted[k][i].prompt /\ granted[k][i].came \in t..(t + RateWindow - 1)}

\* Of the calls that come within the length of one window, wherever that stretch
\* begins, no more than two quotas are let through: windows are fixed, so two may
\* meet in it, and however the calls' round trips to the cache mix with each other
\* and with the end of the window, a counter outlives every call of its bucket that
\* is counted within a window of its coming.  (A call held up for longer finds the
\* counter gone, starts it again and counts from nothing: fetch.py:380-382.)
RateHolds ==
    \A k \in Callers, t \in 0..now : Cardinality(Recent(k, t)) <= 2 * RateLimit

\* No server can hold a call by redirecting it for ever.
ImportEnds == \A w \in Workers : job[w] # NoJob ~> job[w] = NoJob
=============================================================================
