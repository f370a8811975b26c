--------------------------- MODULE MCVerification ---------------------------
(* Instances of Verification for TLC. *)
EXTENDS Verification, TLC

CONSTANTS c1, c2, f1, f2

\* One file, registered again after a revocation, and one that never is.
SameFile == (c1 :> f1 @@ c2 :> f1)
=============================================================================
