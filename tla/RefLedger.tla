------------------------------ MODULE RefLedger ------------------------------
(***************************************************************************)
(* What the CDN's reference tracking promises to the services that use it, *)
(* with no rows, owners, clocks or files in sight: a ledger of which key   *)
(* (a service's entity) holds which content, and the set of contents that  *)
(* are stored at all.  `cdn.refs_sync` moves a key from one set of contents*)
(* to another; stored content that nothing holds may be collected; held    *)
(* content goes away only when an erasure names it, or names the entity    *)
(* that is its last holder.                                                *)
(*                                                                         *)
(* MediaRows implements this ledger (MediaRowsRefinement).                 *)
(***************************************************************************)

CONSTANTS
    Content,     \* `<prefix>/<hash>` media refs
    Services,    \* the first segment of a ref key
    Entities     \* the `<entity_type>/<entity_id>` rest of a ref key

Key == Services \X Entities

VARIABLES
    held,        \* pairs <<key, content>>: the reference key is recorded
    present      \* contents some object of the CDN stores

vars == <<held, present>>

TypeOK == /\ held \subseteq Key \X Content
          /\ present \subseteq Content

Holders(c) == {k \in Key : <<k, c>> \in held}

KeysOf(e) == {k \in Key : k[2] = e}

Init == held = {} /\ present = {}

\* An upload or an import stores content nobody had stored.
Arrive(c) ==
    /\ present' = present \cup {c}
    /\ UNCHANGED held

\* One reference event of key k.  Attaching content that is not stored is an
\* error the answer reports; it records nothing.
Sync(k, old, new) ==
    /\ held' = (held \ ({k} \X (old \ new)))
                    \cup ({k} \X ((new \ old) \cap present))
    /\ UNCHANGED present

\* A collector takes a set of contents that nothing holds.
Collect(C) ==
    /\ \A c \in C : Holders(c) = {}
    /\ present' = present \ C
    /\ UNCHANGED held

\* The erasure of a `file` subject: the content goes, with whoever holds it.
Expunge(c) ==
    /\ present' = present \ {c}
    /\ held' = held \ (Key \X {c})

\* The erasure of an entity: it lets go of everything, and content of which it
\* was the last holder may go with it.
Release(e, C) ==
    /\ \A c \in C : Holders(c) # {} /\ Holders(c) \subseteq KeysOf(e)
    /\ held' = held \ (KeysOf(e) \X Content)
    /\ present' = present \ C

Next ==
    \/ \E c \in Content : Arrive(c) \/ Expunge(c)
    \/ \E k \in Key, old \in SUBSET Content, new \in SUBSET Content :
            Sync(k, old, new)
    \/ \E C \in SUBSET Content : Collect(C)
    \/ \E e \in Entities, C \in SUBSET Content : Release(e, C)

Spec == Init /\ [][Next]_vars

-----------------------------------------------------------------------------

\* Nothing is recorded as holding content that is not stored: a reference key
\* never outlives the object it names (services.apply_ref_sync, erasure.py).
NoDanglingReference == \A p \in held : p[2] \in present
=============================================================================
