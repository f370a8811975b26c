---------------------------- MODULE MCUserRoles ----------------------------
(* Instances of UserRoles for TLC. *)
EXTENDS UserRoles, TLC

\* Requests are interchangeable, and so are all users but the first.
Symmetry == Permutations(Requests) \cup Permutations(Users \ {Root})
=============================================================================
