--------------------------- MODULE MCImagePipeline ---------------------------
(* Instances of ImagePipeline for TLC. *)
EXTENDS ImagePipeline, TLC

\* Workers are interchangeable.
SymWorkers == Permutations(Workers)
=============================================================================
