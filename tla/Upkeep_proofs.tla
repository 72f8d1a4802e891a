---------------------------- MODULE Upkeep_proofs ----------------------------
(***************************************************************************)
(* Theorems about the delivery of reference changes by the bus, for any    *)
(* number of events, crashes and clock values.                             *)
(*                                                                         *)
(* The consumer may begin again at an old offset and apply a tail of the   *)
(* topic to a ledger that has seen it.  What holds all the while is not    *)
(* that the ledger is some earlier state of the services, but that each    *)
(* pair of key and content it has wrong is the subject of an event yet to  *)
(* be handled, and that the last event about a pair tells the truth.       *)
(*                                                                         *)
(* Last, the upkeep as a whole: the bus, the passes and the commands, put  *)
(* together, keep what each of them promises.                              *)
(***************************************************************************)
EXTENDS MCUpkeep, MediaPasses_proofs, Retyping_proofs

\* An event adds c to what k holds or takes it away.
Reports(event, k, c) ==
    /\ event.type = "cdn.ref.sync" /\ event.named = TRUE /\ event.key = k
    /\ \/ c \in event.old_hashes /\ c \notin event.new_hashes
       \/ c \in event.new_hashes /\ c \notin event.old_hashes

HasClaimed(k, c) == c \in claims[k]

\* The last event about a pair says what its service holds.
LastTold ==
    \A i \in 1..Len(topic), k \in Key, c \in Content :
        Reports(topic[i], k, c) /\ (\A j \in i + 1..Len(topic) : ~Reports(topic[j], k, c)) =>
            (c \in topic[i].new_hashes <=> HasClaimed(k, c))

\* What the ledger has wrong is about to be told.
WrongIsPending ==
    \A k \in Key, c \in Content :
        ~(<<k, c>> \in held <=> HasClaimed(k, c)) =>
            \E i \in next + 1..Len(topic) : Reports(topic[i], k, c)

\* HasClaimed content is stored; where nothing holds it yet, the consumer is to
\* catch up before the sweeper may take it.
ClaimedIsSafe ==
    \A k \in Key, c \in Content : HasClaimed(k, c) =>
        /\ c \in present
        /\ Ledger!Holders(c) = {} => behind + Lag <= since[c] + TTL

InTime == ~CaughtUp => now <= behind + Lag

DeliveryInv == DeliveryTypeOK /\ now \in Nat /\ LastTold /\ WrongIsPending /\ ClaimedIsSafe /\ InTime

-----------------------------------------------------------------------------

LEMMA DeliveryInvInit == DeliveryInit => DeliveryInv
<1> SUFFICES ASSUME DeliveryInit PROVE DeliveryInv
  OBVIOUS
<1>1. /\ held = {} /\ present = {} /\ claims = [k \in Key |-> {}] /\ topic = <<>>
      /\ next = 0 /\ committed = 0 /\ since = [c \in Content |-> 0]
      /\ behind = 0 /\ now = 0 /\ Len(topic) = 0
  BY DEF DeliveryInit, Ledger!Init
<1>2. DeliveryTypeOK /\ now \in Nat
  BY <1>1 DEF DeliveryTypeOK, Ledger!TypeOK
<1>3. LastTold /\ WrongIsPending /\ ClaimedIsSafe /\ InTime
  BY <1>1 DEF LastTold, WrongIsPending, ClaimedIsSafe, InTime, CaughtUp, HasClaimed
<1> QED  BY <1>2, <1>3 DEF DeliveryInv

LEMMA Unpacked ==
    ASSUME DeliveryInv
    PROVE  /\ held \subseteq Key \X Content /\ present \subseteq Content
           /\ claims \in [Key -> SUBSET Content] /\ topic \in Seq(Event)
           /\ committed \in Nat /\ next \in Nat /\ committed <= next
           /\ next <= Len(topic) /\ Len(topic) \in Nat
           /\ since \in [Content -> 0..now] /\ behind \in Nat /\ behind <= now
           /\ now \in Nat
<1>1. DeliveryTypeOK /\ now \in Nat
  BY DEF DeliveryInv
<1>2. topic \in Seq(Event) /\ Len(topic) \in Nat
  BY <1>1 DEF DeliveryTypeOK
<1> QED  BY <1>1, <1>2 DEF DeliveryTypeOK, Ledger!TypeOK, Ledger!Key, Key

LEMMA Packed ==
    ASSUME held' \subseteq Key \X Content, present' \subseteq Content,
           claims' \in [Key -> SUBSET Content], topic' \in Seq(Event),
           committed' \in Nat, next' \in Nat, committed' <= next', next' <= Len(topic'),
           since' \in [Content -> 0..now'], behind' \in Nat, behind' <= now', now' \in Nat
    PROVE  DeliveryTypeOK'
<1>1. Len(topic') \in Nat
  OBVIOUS
<1> QED  BY <1>1 DEF DeliveryTypeOK, Ledger!TypeOK, Ledger!Key, Key

LEMMA HoldersAre ==
    ASSUME NEW c \in Content
    PROVE  \A k \in Key : k \in Ledger!Holders(c) <=> <<k, c>> \in held
  BY DEF Ledger!Holders, Ledger!Key, Key

\* While the ledger is wrong about a pair the consumer is behind.
LEMMA UnheldIsBehind ==
    ASSUME DeliveryInv, NEW k \in Key, NEW c \in Content, HasClaimed(k, c), Ledger!Holders(c) = {}
    PROVE  ~CaughtUp
<1>1. <<k, c>> \notin held
  BY HoldersAre
<1>2. \E i \in next + 1..Len(topic) : Reports(topic[i], k, c)
  BY <1>1 DEF DeliveryInv, WrongIsPending
<1> QED  BY <1>2, Unpacked DEF CaughtUp

\* An event put at the end of the topic leaves the others where they are.
LEMMA Appended ==
    ASSUME DeliveryInv, NEW e \in Event, topic' = Append(topic, e)
    PROVE  /\ topic' \in Seq(Event) /\ Len(topic') = Len(topic) + 1
           /\ topic'[Len(topic) + 1] = e
           /\ \A i \in 1..Len(topic) : topic'[i] = topic[i]
  BY Unpacked

LEMMA NoiseStep ==
    ASSUME DeliveryInv, NEW k \in Key, NEW type \in {"cdn.ref.sync", "other"}, Noise(type, k)
    PROVE  DeliveryInv'
<1> DEFINE e == [type |-> type, named |-> FALSE, key |-> k,
                 old_hashes |-> {}, new_hashes |-> Content]
<1>1. e \in Event /\ \A x, c : ~Reports(e, x, c)
  BY DEF Event, Reports
<1>2. /\ topic' = Append(topic, e) /\ behind' = IF CaughtUp THEN now ELSE behind
      /\ UNCHANGED <<held, present, claims, next, committed, since, now>>
  BY DEF Noise
<1> HIDE DEF e
<1>3. /\ topic' \in Seq(Event) /\ Len(topic') = Len(topic) + 1
      /\ \A i \in 1..Len(topic) : topic'[i] = topic[i]
      /\ \A x \in Key, c \in Content : ~Reports(topic'[Len(topic) + 1], x, c)
  BY <1>1, <1>2, Appended
<1>5. /\ next \in Nat /\ Len(topic) \in Nat /\ behind \in Nat /\ now \in Nat
      /\ behind <= now /\ next <= Len(topic)
  BY Unpacked
<1>6. DeliveryTypeOK' /\ now' \in Nat
  <2>1. behind' \in Nat /\ behind' <= now
    BY <1>2, <1>5
  <2>2. next <= Len(topic')
    BY <1>3, <1>5
  <2> QED  BY <1>2, <1>3, <2>1, <2>2, Unpacked, Packed
<1>7. LastTold'
  <2> SUFFICES ASSUME NEW i \in 1..Len(topic) + 1, NEW x \in Key, NEW c \in Content,
                      Reports(topic'[i], x, c),
                      \A j \in i + 1..Len(topic) + 1 : ~Reports(topic'[j], x, c)
               PROVE  c \in topic'[i].new_hashes <=> HasClaimed(x, c)
    BY <1>2, <1>3 DEF LastTold, HasClaimed
  <2>1. i \in 1..Len(topic)
    BY <1>3, <1>5
  <2>2. Reports(topic[i], x, c) /\ \A j \in i + 1..Len(topic) : ~Reports(topic[j], x, c)
    BY <1>3, <1>5, <2>1
  <2> QED  BY <1>3, <2>1, <2>2 DEF DeliveryInv, LastTold
<1>8. WrongIsPending'
  <2> SUFFICES ASSUME NEW x \in Key, NEW c \in Content, ~(<<x, c>> \in held <=> HasClaimed(x, c))
               PROVE  \E i \in next + 1..Len(topic) + 1 : Reports(topic'[i], x, c)
    BY <1>2, <1>3 DEF WrongIsPending, HasClaimed
  <2>1. PICK i \in next + 1..Len(topic) : Reports(topic[i], x, c)
    BY DEF DeliveryInv, WrongIsPending
  <2> QED  BY <1>3, <1>5, <2>1
<1>9. ClaimedIsSafe'
  <2>1. \A c : (Ledger!Holders(c))' = Ledger!Holders(c)
    BY <1>2 DEF Ledger!Holders
  <2> SUFFICES ASSUME NEW x \in Key, NEW c \in Content, HasClaimed(x, c), Ledger!Holders(c) = {}
               PROVE  behind' + Lag <= since[c] + TTL
    BY <1>2, <2>1 DEF DeliveryInv, ClaimedIsSafe, HasClaimed
  <2> QED  BY <1>2, UnheldIsBehind DEF DeliveryInv, ClaimedIsSafe
<1>10. InTime'
  BY <1>2, <1>3, <1>5, TimelyAssumption DEF DeliveryInv, InTime, CaughtUp
<1> QED  BY <1>6, <1>7, <1>8, <1>9, <1>10 DEF DeliveryInv

LEMMA PublishStep ==
    ASSUME DeliveryInv, NEW k \in Key, NEW new \in SUBSET Content, Publish(k, new)
    PROVE  DeliveryInv'
<1> DEFINE e == [type |-> "cdn.ref.sync", named |-> TRUE, key |-> k,
                 old_hashes |-> claims[k], new_hashes |-> new]
<1>1. /\ topic' = Append(topic, e) /\ behind' = IF CaughtUp THEN now ELSE behind
      /\ claims' = [claims EXCEPT ![k] = new]
      /\ \A c \in new \ claims[k] :
            c \in present /\ (Ledger!Holders(c) # {} \/ now <= since[c] + TTL - Lag)
      /\ UNCHANGED <<held, present, next, committed, since, now>>
  BY DEF Publish
<1>2. claims \in [Key -> SUBSET Content] /\ claims[k] \in SUBSET Content
  BY Unpacked
<1>3. e \in Event /\ e.new_hashes = new
  BY <1>2 DEF Event
<1>4. \A x \in Key, c \in Content :
        Reports(e, x, c) <=> x = k /\ (c \in claims[k] <=> c \notin new)
  BY DEF Reports
<1> HIDE DEF e
<1>5. /\ topic' \in Seq(Event) /\ Len(topic') = Len(topic) + 1
      /\ \A i \in 1..Len(topic) : topic'[i] = topic[i]
      /\ topic'[Len(topic) + 1] = e
  BY <1>1, <1>3, Appended
<1>6. /\ next \in Nat /\ Len(topic) \in Nat /\ behind \in Nat /\ now \in Nat
      /\ behind <= now /\ next <= Len(topic) /\ since \in [Content -> 0..now]
  BY Unpacked
<1>7. /\ claims' \in [Key -> SUBSET Content] /\ claims'[k] = new
      /\ \A x \in Key : x # k => claims'[x] = claims[x]
  BY <1>1, <1>2
<1>8. \A x \in Key, c \in Content : ~Reports(e, x, c) => (HasClaimed(x, c)' <=> HasClaimed(x, c))
  BY <1>4, <1>7 DEF HasClaimed
<1>9. DeliveryTypeOK' /\ now' \in Nat
  <2>1. behind' \in Nat /\ behind' <= now
    BY <1>1, <1>6
  <2>2. next <= Len(topic')
    BY <1>5, <1>6
  <2> QED  BY <1>1, <1>5, <1>7, <2>1, <2>2, Unpacked, Packed
<1>10. LastTold'
  <2> SUFFICES ASSUME NEW i \in 1..Len(topic) + 1, NEW x \in Key, NEW c \in Content,
                      Reports(topic'[i], x, c),
                      \A j \in i + 1..Len(topic) + 1 : ~Reports(topic'[j], x, c)
               PROVE  c \in topic'[i].new_hashes <=> HasClaimed(x, c)'
    BY <1>5 DEF LastTold, HasClaimed
  <2>1. CASE i = Len(topic) + 1
    <3>1. Reports(e, x, c) /\ topic'[i].new_hashes = new
      BY <1>3, <1>5, <2>1
    <3>2. x = k
      BY <1>4, <3>1
    <3> QED  BY <1>7, <3>1, <3>2 DEF HasClaimed
  <2>2. CASE i # Len(topic) + 1
    <3>1. i \in 1..Len(topic)
      BY <1>6, <2>2
    <3>2. Reports(topic[i], x, c) /\ \A j \in i + 1..Len(topic) : ~Reports(topic[j], x, c)
      BY <1>5, <1>6, <3>1
    <3>3. ~Reports(e, x, c)
      <4>1. Len(topic) + 1 \in i + 1..Len(topic) + 1
        BY <1>6, <3>1
      <4> QED  BY <1>5, <4>1
    <3> QED  BY <1>5, <1>8, <3>1, <3>2, <3>3 DEF DeliveryInv, LastTold
  <2> QED  BY <2>1, <2>2
<1>11. WrongIsPending'
  <2> SUFFICES ASSUME NEW x \in Key, NEW c \in Content, ~(<<x, c>> \in held <=> HasClaimed(x, c)')
               PROVE  \E i \in next + 1..Len(topic) + 1 : Reports(topic'[i], x, c)
    BY <1>1, <1>5 DEF WrongIsPending, HasClaimed
  <2>1. CASE Reports(e, x, c)
    <3>1. Len(topic) + 1 \in next + 1..Len(topic) + 1
      BY <1>6
    <3> QED  BY <1>5, <2>1, <3>1
  <2>2. CASE ~Reports(e, x, c)
    <3>1. PICK i \in next + 1..Len(topic) : Reports(topic[i], x, c)
      BY <1>8, <2>2 DEF DeliveryInv, WrongIsPending
    <3> QED  BY <1>5, <1>6, <3>1
  <2> QED  BY <2>1, <2>2
<1>12. ClaimedIsSafe'
  <2>1. \A c : (Ledger!Holders(c))' = Ledger!Holders(c)
    BY <1>1 DEF Ledger!Holders
  <2> SUFFICES ASSUME NEW x \in Key, NEW c \in Content, HasClaimed(x, c)'
               PROVE  c \in present /\ (Ledger!Holders(c) = {} => behind' + Lag <= since[c] + TTL)
    BY <1>1, <2>1 DEF ClaimedIsSafe
  <2>2. CASE HasClaimed(x, c)
    <3>1. ASSUME Ledger!Holders(c) = {} PROVE ~CaughtUp
      BY <2>2, <3>1, UnheldIsBehind
    <3> QED  BY <1>1, <2>2, <3>1 DEF DeliveryInv, ClaimedIsSafe
  <2>3. CASE ~HasClaimed(x, c)
    <3>1. x = k /\ c \in new \ claims[k]
      BY <1>7, <2>3 DEF HasClaimed
    <3>2. c \in present /\ (Ledger!Holders(c) # {} \/ now <= since[c] + TTL - Lag)
      BY <1>1, <3>1
    <3>3. behind' \in Nat /\ behind' <= now /\ since[c] \in Nat
      BY <1>1, <1>6
    <3> QED  BY <1>6, <3>2, <3>3, TimelyAssumption
  <2> QED  BY <2>2, <2>3
<1>13. InTime'
  BY <1>1, <1>5, <1>6, TimelyAssumption DEF DeliveryInv, InTime, CaughtUp
<1> QED  BY <1>9, <1>10, <1>11, <1>12, <1>13 DEF DeliveryInv

\* Steps that leave the topic, the claims and the position alone.
LEMMA ToldAsBefore ==
    ASSUME DeliveryInv, UNCHANGED <<claims, topic>>
    PROVE  LastTold'
BY DEF DeliveryInv, LastTold, HasClaimed, Reports

LEMMA ArriveStep ==
    ASSUME DeliveryInv, NEW c \in Content, Arrive(c)
    PROVE  DeliveryInv'
<1>1. /\ c \notin present /\ present' = present \cup {c} /\ held' = held
      /\ since' = [since EXCEPT ![c] = now]
      /\ UNCHANGED <<claims, topic, next, committed, behind, now>>
  BY DEF Arrive, Ledger!Arrive
<1>2. DeliveryTypeOK' /\ now' \in Nat
  <2>1. since' \in [Content -> 0..now]
    BY <1>1, Unpacked
  <2> QED  BY <1>1, <2>1, Unpacked, Packed
<1>3. LastTold'
  BY <1>1, ToldAsBefore
<1>4. WrongIsPending'
  BY <1>1 DEF DeliveryInv, WrongIsPending, HasClaimed, Reports
<1>5. ClaimedIsSafe'
  <2>1. \A d : (Ledger!Holders(d))' = Ledger!Holders(d)
    BY <1>1 DEF Ledger!Holders
  <2>2. \A x \in Key, d \in Content : HasClaimed(x, d) => d # c /\ since'[d] = since[d]
    BY <1>1, Unpacked DEF DeliveryInv, ClaimedIsSafe
  <2> QED  BY <1>1, <2>1, <2>2 DEF DeliveryInv, ClaimedIsSafe, HasClaimed
<1>6. InTime'
  BY <1>1 DEF DeliveryInv, InTime, CaughtUp
<1> QED  BY <1>2, <1>3, <1>4, <1>5, <1>6 DEF DeliveryInv

LEMMA CommitStep ==
    ASSUME DeliveryInv, Commit
    PROVE  DeliveryInv'
<1>1. /\ committed' = next
      /\ UNCHANGED <<held, present, claims, topic, next, since, behind, now>>
  BY DEF Commit
<1>2. DeliveryTypeOK' /\ now' \in Nat
  BY <1>1, Unpacked, Packed
<1>3. LastTold' /\ WrongIsPending' /\ InTime'
  BY <1>1 DEF DeliveryInv, LastTold, WrongIsPending, InTime, HasClaimed, Reports, CaughtUp
<1>4. ClaimedIsSafe'
  BY <1>1 DEF DeliveryInv, ClaimedIsSafe, HasClaimed, Ledger!Holders
<1> QED  BY <1>2, <1>3, <1>4 DEF DeliveryInv

\* Going back to the offset puts events before the consumer, and takes none
\* from it.
LEMMA RestartStep ==
    ASSUME DeliveryInv, Restart
    PROVE  DeliveryInv'
<1>1. /\ next' = committed /\ behind' = IF CaughtUp THEN now ELSE behind
      /\ UNCHANGED <<held, present, claims, topic, committed, since, now>>
  BY DEF Restart
<1>2. /\ next \in Nat /\ committed \in Nat /\ committed <= next /\ next <= Len(topic)
      /\ Len(topic) \in Nat /\ behind \in Nat /\ now \in Nat /\ behind <= now
  BY Unpacked
<1>3. DeliveryTypeOK' /\ now' \in Nat
  <2>1. behind' \in Nat /\ behind' <= now /\ next' <= Len(topic)
    BY <1>1, <1>2
  <2> QED  BY <1>1, <1>2, <2>1, Unpacked, Packed
<1>4. LastTold'
  BY <1>1, ToldAsBefore
<1>5. WrongIsPending'
  <2> SUFFICES ASSUME NEW x \in Key, NEW c \in Content, ~(<<x, c>> \in held <=> HasClaimed(x, c))
               PROVE  \E i \in committed + 1..Len(topic) : Reports(topic[i], x, c)
    BY <1>1 DEF WrongIsPending, HasClaimed, Reports
  <2>1. PICK i \in next + 1..Len(topic) : Reports(topic[i], x, c)
    BY DEF DeliveryInv, WrongIsPending
  <2>2. i \in committed + 1..Len(topic)
    BY <1>2
  <2> QED  BY <2>1, <2>2
<1>6. ClaimedIsSafe'
  <2>1. \A c : (Ledger!Holders(c))' = Ledger!Holders(c)
    BY <1>1 DEF Ledger!Holders
  <2> SUFFICES ASSUME NEW x \in Key, NEW c \in Content, HasClaimed(x, c), Ledger!Holders(c) = {}
               PROVE  behind' + Lag <= since[c] + TTL
    BY <1>1, <2>1 DEF DeliveryInv, ClaimedIsSafe, HasClaimed
  <2> QED  BY <1>1, UnheldIsBehind DEF DeliveryInv, ClaimedIsSafe
<1>7. InTime'
  BY <1>1, <1>2, TimelyAssumption DEF DeliveryInv, InTime, CaughtUp
<1> QED  BY <1>3, <1>4, <1>5, <1>6, <1>7 DEF DeliveryInv

LEMMA TickStep ==
    ASSUME DeliveryInv, Tick
    PROVE  DeliveryInv'
<1>1. /\ CaughtUp \/ now < behind + Lag
      /\ now' = now + 1
      /\ UNCHANGED <<held, present, claims, topic, next, committed, since, behind>>
  BY DEF Tick
<1>2. now \in Nat /\ behind \in Nat /\ behind <= now /\ since \in [Content -> 0..now]
  BY Unpacked
<1>3. DeliveryTypeOK' /\ now' \in Nat
  <2>1. now' = now + 1
    BY DEF Tick
  <2>2. since \in [Content -> 0..now'] /\ behind <= now' /\ now' \in Nat
    BY <1>2, <2>1
  <2> QED  BY <1>1, <2>2, Unpacked, Packed
<1>4. LastTold' /\ WrongIsPending'
  BY <1>1 DEF DeliveryInv, LastTold, WrongIsPending, HasClaimed, Reports
<1>5. ClaimedIsSafe'
  BY <1>1 DEF DeliveryInv, ClaimedIsSafe, HasClaimed, Ledger!Holders
<1>6. InTime'
  BY <1>2, TimelyAssumption DEF Tick, InTime, CaughtUp
<1> QED  BY <1>3, <1>4, <1>5, <1>6 DEF DeliveryInv

\* What is old enough to sweep and unheld is claimed by nobody: the consumer
\* would have had to be behind for longer than it ever is.
LEMMA SweepStep ==
    ASSUME DeliveryInv, Sweep
    PROVE  DeliveryInv'
<1> DEFINE C == {c \in present : Ledger!Holders(c) = {} /\ now > since[c] + TTL}
<1>1. /\ present' = present \ C /\ held' = held
      /\ UNCHANGED <<claims, topic, next, committed, since, behind, now>>
  BY DEF Sweep, Ledger!Collect
<1>2. DeliveryTypeOK' /\ now' \in Nat
  <2>1. present' \subseteq Content
    BY <1>1, Unpacked
  <2> QED  BY <1>1, <2>1, Unpacked, Packed
<1>3. LastTold' /\ WrongIsPending' /\ InTime'
  BY <1>1 DEF DeliveryInv, LastTold, WrongIsPending, InTime, HasClaimed, Reports, CaughtUp
<1>4. ASSUME NEW x \in Key, NEW c \in Content, HasClaimed(x, c) PROVE c \notin C
  <2> SUFFICES ASSUME Ledger!Holders(c) = {} PROVE now <= since[c] + TTL
    BY Unpacked, TimelyAssumption
  <2>1. ~CaughtUp
    BY <1>4, UnheldIsBehind
  <2>2. now <= behind + Lag /\ behind + Lag <= since[c] + TTL
    BY <1>4, <2>1 DEF DeliveryInv, InTime, ClaimedIsSafe
  <2>3. now \in Nat /\ behind \in Nat /\ since[c] \in Nat
    BY Unpacked
  <2> QED  BY <2>2, <2>3, TimelyAssumption
<1> HIDE DEF C
<1>5. ClaimedIsSafe'
  BY <1>1, <1>4 DEF DeliveryInv, ClaimedIsSafe, HasClaimed, Ledger!Holders
<1> QED  BY <1>2, <1>3, <1>5 DEF DeliveryInv

\* What handling an event does to the ledger: only the pairs it tells of
\* change, those it takes away are gone and those it adds are there if their
\* content is stored.
LEMMA AppliedEvent ==
    ASSUME NEW e \in Event, held \subseteq Key \X Content, ApplyRefSyncEvent(e)
    PROVE  /\ present' = present /\ held' \subseteq Key \X Content
           /\ \A x \in Key, c \in Content :
                /\ ~Reports(e, x, c) => (<<x, c>> \in held' <=> <<x, c>> \in held)
                /\ Reports(e, x, c) /\ c \notin e.new_hashes => <<x, c>> \notin held'
                /\ Reports(e, x, c) /\ c \in e.new_hashes /\ c \in present => <<x, c>> \in held'
<1>1. /\ e.type \in {"cdn.ref.sync", "other"} /\ e.named \in BOOLEAN /\ e.key \in Key
      /\ e.old_hashes \subseteq Content /\ e.new_hashes \subseteq Content
  BY DEF Event
<1>2. CASE e.type # "cdn.ref.sync" \/ ~e.named
  <2>1. UNCHANGED <<held, present>>
    BY <1>2 DEF ApplyRefSyncEvent
  <2>2. \A x, c : ~Reports(e, x, c)
    BY <1>2 DEF Reports
  <2> QED  BY <2>1, <2>2
<1>3. CASE ~(e.type # "cdn.ref.sync" \/ ~e.named)
  <2>1. /\ held' = (held \ ({e.key} \X (e.old_hashes \ e.new_hashes)))
                     \cup ({e.key} \X ((e.new_hashes \ e.old_hashes) \cap present))
        /\ present' = present
    BY <1>3 DEF ApplyRefSyncEvent, Ledger!Sync
  <2>2. held' \subseteq Key \X Content
    BY <1>1, <2>1
  <2>3. \A x \in Key, c \in Content : Reports(e, x, c) <=>
            x = e.key /\ (c \in e.old_hashes <=> c \notin e.new_hashes)
    BY <1>1, <1>3 DEF Reports
  <2>4. \A x \in Key, c \in Content : <<x, c>> \in held' <=>
            \/ <<x, c>> \in held /\ ~(x = e.key /\ c \in e.old_hashes \ e.new_hashes)
            \/ x = e.key /\ c \in (e.new_hashes \ e.old_hashes) \cap present
    BY <2>1
  <2> QED  BY <2>1, <2>2, <2>3, <2>4
<1> QED  BY <1>2, <1>3

LEMMA HandleStep ==
    ASSUME DeliveryInv, Handle
    PROVE  DeliveryInv'
<1> DEFINE i == next + 1
<1>1. /\ ~CaughtUp /\ ApplyRefSyncEvent(topic[i]) /\ next' = i /\ since' = Restarted
      /\ UNCHANGED <<claims, topic, committed, behind, now>>
  BY DEF Handle
<1>2. /\ next \in Nat /\ committed \in Nat /\ committed <= next /\ next <= Len(topic)
      /\ Len(topic) \in Nat /\ behind \in Nat /\ now \in Nat /\ behind <= now
      /\ topic \in Seq(Event) /\ since \in [Content -> 0..now]
      /\ held \subseteq Key \X Content
  BY Unpacked
<1>3. i \in 1..Len(topic) /\ topic[i] \in Event
  BY <1>1, <1>2 DEF CaughtUp
<1>4. /\ present' = present /\ held' \subseteq Key \X Content
      /\ \A x \in Key, c \in Content :
            /\ ~Reports(topic[i], x, c) => (<<x, c>> \in held' <=> <<x, c>> \in held)
            /\ Reports(topic[i], x, c) /\ c \notin topic[i].new_hashes => <<x, c>> \notin held'
            /\ Reports(topic[i], x, c) /\ c \in topic[i].new_hashes /\ c \in present =>
                  <<x, c>> \in held'
  BY <1>1, <1>2, <1>3, AppliedEvent
<1>5. DeliveryTypeOK' /\ now' \in Nat
  <2>1. since' \in [Content -> 0..now]
    BY <1>1, <1>2 DEF Restarted
  <2>2. i \in Nat /\ i <= Len(topic) /\ committed <= i
    BY <1>2, <1>3
  <2> QED  BY <1>1, <1>4, <2>1, <2>2, Unpacked, Packed
<1>6. LastTold'
  BY <1>1, ToldAsBefore
<1>7. WrongIsPending'
  <2> SUFFICES ASSUME NEW x \in Key, NEW c \in Content, ~(<<x, c>> \in held' <=> HasClaimed(x, c)),
                      \A j \in i + 1..Len(topic) : ~Reports(topic[j], x, c)
               PROVE  FALSE
    BY <1>1 DEF WrongIsPending, HasClaimed, Reports
  <2>1. CASE Reports(topic[i], x, c)
    <3>1. c \in topic[i].new_hashes <=> HasClaimed(x, c)
      BY <1>3, <2>1 DEF DeliveryInv, LastTold
    <3>2. HasClaimed(x, c) => c \in present
      BY DEF DeliveryInv, ClaimedIsSafe
    <3> QED  BY <1>4, <2>1, <3>1, <3>2
  <2>2. CASE ~Reports(topic[i], x, c)
    <3>1. PICK j \in next + 1..Len(topic) : Reports(topic[j], x, c)
      BY <1>4, <2>2 DEF DeliveryInv, WrongIsPending
    <3>2. j \in i + 1..Len(topic)
      BY <1>2, <2>2, <3>1
    <3> QED  BY <3>1, <3>2
  <2> QED  BY <2>1, <2>2
<1>8. ClaimedIsSafe'
  <2> SUFFICES ASSUME NEW x \in Key, NEW c \in Content, HasClaimed(x, c)
               PROVE  c \in present /\ ((Ledger!Holders(c))' = {} => behind + Lag <= since'[c] + TTL)
    BY <1>1, <1>4 DEF ClaimedIsSafe, HasClaimed
  <2>1. c \in present /\ (Ledger!Holders(c) = {} => behind + Lag <= since[c] + TTL)
    BY DEF DeliveryInv, ClaimedIsSafe
  <2>2. since'[c] = IF Ledger!Holders(c) # {} /\ (Ledger!Holders(c))' = {} THEN now ELSE since[c]
    BY <1>1 DEF Restarted
  <2> QED  BY <1>2, <2>1, <2>2, TimelyAssumption
<1>9. InTime'
  BY <1>1 DEF DeliveryInv, InTime
<1> QED  BY <1>5, <1>6, <1>7, <1>8, <1>9 DEF DeliveryInv

LEMMA InvNext ==
    DeliveryInv /\ [DeliveryNext]_deliveryVars => DeliveryInv'
<1> SUFFICES ASSUME DeliveryInv, [DeliveryNext]_deliveryVars PROVE DeliveryInv'
  OBVIOUS
<1>1. ASSUME NEW c \in Content, Arrive(c) PROVE DeliveryInv'
  BY <1>1, ArriveStep
<1>2. ASSUME NEW k \in Key, NEW new \in SUBSET Content, Publish(k, new) PROVE DeliveryInv'
  BY <1>2, PublishStep
<1>3. ASSUME NEW k \in Key, NEW type \in {"cdn.ref.sync", "other"}, Noise(type, k) PROVE DeliveryInv'
  BY <1>3, NoiseStep
<1>4. CASE Handle
  BY <1>4, HandleStep
<1>5. CASE Commit
  BY <1>5, CommitStep
<1>6. CASE Restart
  BY <1>6, RestartStep
<1>7. CASE Sweep
  BY <1>7, SweepStep
<1>8. CASE Tick
  BY <1>8, TickStep
<1>9. CASE UNCHANGED deliveryVars
  <2>1. DeliveryTypeOK' /\ now' \in Nat
    BY <1>9, Unpacked, Packed DEF deliveryVars
  <2>2. LastTold' /\ WrongIsPending' /\ ClaimedIsSafe' /\ InTime'
    BY <1>9 DEF deliveryVars, DeliveryInv, LastTold, WrongIsPending, ClaimedIsSafe, InTime, HasClaimed, Reports,
                CaughtUp, Ledger!Holders
  <2> QED  BY <2>1, <2>2 DEF DeliveryInv
<1> QED  BY <1>1, <1>2, <1>3, <1>4, <1>5, <1>6, <1>7, <1>8, <1>9 DEF DeliveryNext

-----------------------------------------------------------------------------

\* The ledger, the topic and the consumer's positions keep their shape, and the
\* offset never passes the position (bus.py, services.apply_ref_sync).
THEOREM DeliveryTypeCorrect == DeliverySpec => []DeliveryTypeOK
<1>1. DeliveryInit => DeliveryInv
  BY DeliveryInvInit
<1>2. DeliveryInv /\ [DeliveryNext]_deliveryVars => DeliveryInv'
  BY InvNext
<1>3. DeliveryInv => DeliveryTypeOK
  BY DEF DeliveryInv
<1> QED  BY <1>1, <1>2, <1>3, PTL DEF DeliverySpec

\* However often the consumer dies and begins again at an old offset, and
\* whatever the sweeper collects meanwhile: once it has caught up, the CDN
\* records exactly what the services say they hold.
THEOREM CaughtUpAgreesAlways == DeliverySpec => []CaughtUpAgrees
<1>1. DeliveryInit => DeliveryInv
  BY DeliveryInvInit
<1>2. DeliveryInv /\ [DeliveryNext]_deliveryVars => DeliveryInv'
  BY InvNext
<1>3. DeliveryInv => CaughtUpAgrees
  <2> SUFFICES ASSUME DeliveryInv, CaughtUp
               PROVE  held = {p \in Key \X Content : p[2] \in claims[p[1]]}
    BY DEF CaughtUpAgrees
  <2>1. held \subseteq Key \X Content /\ next \in Nat /\ next = Len(topic)
    BY Unpacked DEF CaughtUp
  <2>2. \A i : i \notin next + 1..Len(topic)
    BY <2>1
  <2>3. ASSUME NEW k \in Key, NEW c \in Content PROVE <<k, c>> \in held <=> c \in claims[k]
    <3>1. <<k, c>> \in held <=> HasClaimed(k, c)
      BY <2>2 DEF DeliveryInv, WrongIsPending
    <3> QED  BY <3>1 DEF HasClaimed
  <2> QED  BY <2>1, <2>3
<1> QED  BY <1>1, <1>2, <1>3, PTL DEF DeliverySpec

\* The sweeper never takes what a service says it holds, though the event that
\* says so may still be on its way (tasks.sweep_unclaimed).
THEOREM ClaimedIsStored ==
    DeliverySpec => [](\A k \in Key : claims[k] \subseteq present)
<1>1. DeliveryInit => DeliveryInv
  BY DeliveryInvInit
<1>2. DeliveryInv /\ [DeliveryNext]_deliveryVars => DeliveryInv'
  BY InvNext
<1>3. DeliveryInv => \A k \in Key : claims[k] \subseteq present
  <2> SUFFICES ASSUME DeliveryInv, NEW k \in Key, NEW c \in claims[k] PROVE c \in present
    OBVIOUS
  <2>1. c \in Content
    BY Unpacked
  <2> QED  BY <2>1 DEF DeliveryInv, ClaimedIsSafe, HasClaimed
<1> QED  BY <1>1, <1>2, <1>3, PTL DEF DeliverySpec

(***************************************************************************)
(* The upkeep put together                                                 *)
(***************************************************************************)

\* A step of the upkeep is a step of one part and leaves the others alone.
LEMMA UpkeepStepIsOneParts ==
    ASSUME [UpkeepNext]_<<part, vars, deliveryVars, retypingVars>>
    PROVE  [DeliveryNext]_deliveryVars /\ [Next]_vars /\ [RetypingNext]_retypingVars
<1>1. CASE UpkeepNext
  BY <1>1 DEF UpkeepNext
<1>2. CASE UNCHANGED <<part, vars, deliveryVars, retypingVars>>
  BY <1>2
<1> QED  BY <1>1, <1>2

\* The consumer of the bus, the workers with the backfill, and the commands that
\* move originals behave in the upkeep as each of them does alone, so that what is
\* proved of a part is true of the whole.
THEOREM UpkeepIsItsParts == UpkeepSpec => DeliverySpec /\ Spec /\ RetypingSpec
<1>1. UpkeepInit => DeliveryInit /\ Init /\ RetypingInit
  BY DEF UpkeepInit
<1>2. [UpkeepNext]_<<part, vars, deliveryVars, retypingVars>>
        => [DeliveryNext]_deliveryVars /\ [Next]_vars /\ [RetypingNext]_retypingVars
  BY UpkeepStepIsOneParts
<1> QED  BY <1>1, <1>2, PTL DEF UpkeepSpec, DeliverySpec, Spec, RetypingSpec

\* The upkeep keeps its types.
THEOREM UpkeepTypeCorrect == UpkeepSpec => []UpkeepTypeOK
<1>1. DeliveryTypeOK /\ TypeOK /\ RetypingTypeOK <=> UpkeepTypeOK
  BY DEF UpkeepTypeOK
<1> QED
  BY <1>1, UpkeepIsItsParts, DeliveryTypeCorrect, PassesTypeCorrect, RetypingTypeCorrect, PTL
=============================================================================
