----------------------------- MODULE MCMediaRows -----------------------------
(* Instances of MediaRows for TLC. *)
EXTENDS MediaRowsRefinement, TLC

CONSTANTS u1, u2      \* the users of MergePairs below

NoMerges      == {}
GuestIntoUser == {<<u1, u2>>}

\* Contents and entities are interchangeable; users are when nobody merges.
SymContent == Permutations(Content)
SymData  == SymContent \cup Permutations(Entities)
SymUsers == SymData \cup Permutations(Users)
=============================================================================
