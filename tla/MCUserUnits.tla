---------------------------- MODULE MCUserUnits ----------------------------
(* Three units are enough for a unit, its parent and its child. *)
EXTENDS UserUnits
CONSTANTS x1, c1, c2
=============================================================================
