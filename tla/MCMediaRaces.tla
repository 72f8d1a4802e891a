---------------------------- MODULE MCMediaRaces ----------------------------
(* Instances of MediaRaces for TLC. *)
EXTENDS MediaRaces, TLC

\* Processes, contents, owners and entities are interchangeable.
SymAll == Permutations(Procs) \cup Permutations(Content) \cup Permutations(Owners)
             \cup Permutations(Entities)

\* Uploads overlap each other only.
UploadsApart ==
    \A p, q \in DOMAIN job' : job'[p].op = "upload" => job'[q].op = "upload"
=============================================================================
