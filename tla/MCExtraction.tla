---------------------------- MODULE MCExtraction ----------------------------
(* Instances of Extraction for TLC. *)
EXTENDS Extraction, TLC

\* Nothing tells credentials, requests or job slots apart.
Symmetry == Permutations(Creds) \cup Permutations(Requests) \cup Permutations(Jobs)
=============================================================================
