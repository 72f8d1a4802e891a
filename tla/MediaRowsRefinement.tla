------------------------- MODULE MediaRowsRefinement -------------------------
(***************************************************************************)
(* The rows implement the ledger of references: a reference is held when   *)
(* some row over the content records its key, content is present when some *)
(* row is over it.                                                         *)
(***************************************************************************)
EXTENDS MediaRows

Present == {c \in Content : Over(c) # {}}

Ledger == INSTANCE RefLedger WITH held <- Held, present <- Present

LedgerSpec == Ledger!Spec

\* No reference key is recorded for content nobody stores.
NoDanglingReference == Ledger!NoDanglingReference
=============================================================================
