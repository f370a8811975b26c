----------------------------- MODULE MCSessions -----------------------------
(* Instances of Sessions for TLC. *)
EXTENDS Sessions, TLC

\* Nothing tells calls, users or addresses apart.
Symmetry == Permutations(Calls) \cup Permutations(Users) \cup Permutations(Emails)
=============================================================================
