----------------------------- MODULE RefDelivery -----------------------------
(***************************************************************************)
(* How reference changes reach the CDN by the bus: services publish what   *)
(* their entities hold, `consume_cdn_events` reads the topic in order and  *)
(* commits its offset after an event, so a crash hands the tail out again. *)
(* Meanwhile the sweeper collects what nothing has held for a TTL.  Each   *)
(* event is a Sync of the ledger.                                          *)
(***************************************************************************)
EXTENDS Integers, Sequences, FiniteSets

CONSTANTS Content, Services, Entities,
          TTL, Lag,             \* in ticks: the sweeper's patience; how late claims may be
          MaxEvents, MaxNow     \* bounds

Key == Services \X Entities

VARIABLES
    held, present,      \* the ledger
    claims,             \* what each entity holds, as its service sees it
    topic,              \* the events published
    next, committed,    \* the consumer's position; the offset a restart gets
    since,              \* when stored content was last held, or came
    behind,             \* since when the consumer has events to handle
    now
deliveryVars == <<held, present, claims, topic, next, committed, since, behind, now>>

\* How late the consumer and a claim may be is no more than the sweeper waits.
ASSUME TimelyAssumption == TTL \in Nat /\ Lag \in Nat /\ Lag <= TTL

Ledger == INSTANCE RefLedger

\* The topic carries other events, and envelopes that do not say whose they are.
Event == [type : {"cdn.ref.sync", "other"}, named : BOOLEAN, key : Key,
          old_hashes : SUBSET Content, new_hashes : SUBSET Content]

DeliveryInit ==
    /\ Ledger!Init
    /\ claims = [k \in Key |-> {}]
    /\ topic = <<>>
    /\ next = 0 /\ committed = 0
    /\ since = [c \in Content |-> 0]
    /\ behind = 0
    /\ now = 0

CaughtUp == next = Len(topic)

Arrive(c) ==
    /\ c \notin present
    /\ Ledger!Arrive(c)
    /\ since' = [since EXCEPT ![c] = now]
    /\ UNCHANGED <<claims, topic, next, committed, behind, now>>

\* `sync_cdn_refs`: an entity claims content somebody holds or that is still
\* new, and says what it held before.
Publish(k, new) ==
    /\ Len(topic) < MaxEvents
    /\ new # claims[k]
    /\ \A c \in new \ claims[k] :
          c \in present /\ (Ledger!Holders(c) # {} \/ now <= since[c] + TTL - Lag)
    /\ topic' = Append(topic, [type |-> "cdn.ref.sync", named |-> TRUE, key |-> k,
                               old_hashes |-> claims[k], new_hashes |-> new])
    /\ claims' = [claims EXCEPT ![k] = new]
    /\ behind' = IF CaughtUp THEN now ELSE behind
    /\ UNCHANGED <<held, present, next, committed, since, now>>

Noise(type, k) ==
    /\ Len(topic) < MaxEvents
    /\ topic' = Append(topic, [type |-> type, named |-> FALSE, key |-> k,
                               old_hashes |-> {}, new_hashes |-> Content])
    /\ behind' = IF CaughtUp THEN now ELSE behind
    /\ UNCHANGED <<held, present, claims, next, committed, since, now>>

\* Content whose last holder just went gets the full TTL again.
Restarted == [c \in Content |->
    IF Ledger!Holders(c) # {} /\ Ledger!Holders(c)' = {} THEN now ELSE since[c]]

\* Mutant of ApplyRefSyncEvent: an entity left with nothing is not worth a sync.
ApplyUnlessEmpty(event) ==
    IF event.type # "cdn.ref.sync" \/ ~event.named \/ event.new_hashes = {}
    THEN UNCHANGED <<held, present>>
    ELSE Ledger!Sync(event.key, event.old_hashes, event.new_hashes)

ApplyRefSyncEvent(event) ==
    IF event.type # "cdn.ref.sync" \/ ~event.named
    THEN UNCHANGED <<held, present>>
    ELSE Ledger!Sync(event.key, event.old_hashes, event.new_hashes)

Handle ==
    /\ ~CaughtUp
    /\ ApplyRefSyncEvent(topic[next + 1])
    /\ next' = next + 1
    /\ since' = Restarted
    /\ UNCHANGED <<claims, topic, committed, behind, now>>

Commit == /\ committed # next
          /\ committed' = next
          /\ UNCHANGED <<held, present, claims, topic, next, since, behind, now>>

\* Mutant of Restart: from the beginning of the topic.
RestartAtZero == /\ next # committed
                 /\ next' = 0
                 /\ behind' = IF CaughtUp THEN now ELSE behind
                 /\ UNCHANGED <<held, present, claims, topic, committed, since, now>>

\* The consumer dies, or the database refuses an event: it begins again at the
\* offset.
Restart == /\ next # committed
           /\ next' = committed
           /\ behind' = IF CaughtUp THEN now ELSE behind
           /\ UNCHANGED <<held, present, claims, topic, committed, since, now>>

\* `sweep_unclaimed`: what nothing holds and nothing has held for a TTL.
Sweep ==
    LET C == {c \in present : Ledger!Holders(c) = {} /\ now > since[c] + TTL}
    IN  /\ C # {}
        /\ Ledger!Collect(C)
        /\ UNCHANGED <<claims, topic, next, committed, since, behind, now>>

\* The consumer is never behind for longer than Lag.
Tick == /\ now < MaxNow
        /\ CaughtUp \/ now < behind + Lag
        /\ now' = now + 1
        /\ UNCHANGED <<held, present, claims, topic, next, committed, since, behind>>

DeliveryNext ==
    \/ \E c \in Content : Arrive(c)
    \/ \E k \in Key : (\E new \in SUBSET Content : Publish(k, new))
                        \/ (\E type \in {"cdn.ref.sync", "other"} : Noise(type, k))
    \/ Handle \/ Commit \/ Restart \/ Sweep \/ Tick

DeliverySpec == DeliveryInit /\ [][DeliveryNext]_deliveryVars

-----------------------------------------------------------------------------
DeliveryTypeOK ==
    /\ Ledger!TypeOK
    /\ claims \in [Key -> SUBSET Content]
    /\ topic \in Seq(Event)
    /\ committed \in 0..next /\ next \in 0..Len(topic)
    /\ since \in [Content -> 0..now] /\ behind \in 0..now

\* Once the consumer has caught up, however often it had to begin again, the
\* CDN holds what the services say they hold, neither a key too many nor one
\* too few, and has swept nothing of it in the meantime.
CaughtUpAgrees ==
    CaughtUp => held = {p \in Key \X Content : p[2] \in claims[p[1]]}
=============================================================================
