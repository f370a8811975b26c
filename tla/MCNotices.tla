----------------------------- MODULE MCNotices -----------------------------
(* Instances of Notices for TLC. *)
EXTENDS Notices, TLC

\* The first two are created in one instant; the last repeats the first.
Times == <<1, 1, 2>>
Keys == <<"k1", "k2", "k1">>
=============================================================================
