----------------------- MODULE MCCredentialLifecycle -----------------------
(* Instances of CredentialLifecycle for TLC. *)
EXTENDS CredentialLifecycleInvariant, TLC

CONSTANTS c1, c2, h1, h2

OneFile  == (c1 :> h1 @@ c2 :> h1)
TwoFiles == (c1 :> h1 @@ c2 :> h2)

\* Requests are interchangeable.
Symmetry == Permutations(Requests)
=============================================================================
