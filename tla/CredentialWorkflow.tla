------------------------- MODULE CredentialWorkflow -------------------------
(***************************************************************************)
(* What the credential service promises of each credential, without its    *)
(* transactions, locks and retries: a credential is submitted or directly  *)
(* registered, a submission is approved or rejected once and for all, and  *)
(* an approved credential may be revoked.  Approval follows the mint of    *)
(* the credential on chain, and revocation follows that of its token.      *)
(***************************************************************************)
CONSTANT Creds

VARIABLES status,    \* status[c]: where credential c is in the workflow
          anchored,  \* credentials the registry has minted a token for
          withdrawn  \* those it has revoked a token of

wvars == <<status, anchored, withdrawn>>

Statuses == {"none", "pending", "approved", "rejected", "revoked"}

WorkflowTypeOK == /\ status \in [Creds -> Statuses]
                  /\ anchored \subseteq Creds
                  /\ withdrawn \subseteq anchored

WInit == /\ status = [c \in Creds |-> "none"]
         /\ anchored = {}
         /\ withdrawn = {}

(* A batch moves together from one status to another. *)
Decide(S, from, to) ==
    /\ \A c \in S : status[c] = from
    /\ status' = [c \in Creds |-> IF c \in S THEN to ELSE status[c]]
    /\ UNCHANGED <<anchored, withdrawn>>

Submitted(S)  == Decide(S, "none", "pending")
Registered(S) == S \subseteq anchored /\ Decide(S, "none", "approved")
Approved(S)   == S \subseteq anchored /\ Decide(S, "pending", "approved")
Rejected(S)   == Decide(S, "pending", "rejected")
Revoked(S)    == S \subseteq withdrawn /\ Decide(S, "approved", "revoked")

Anchor(S) == /\ anchored' = anchored \cup S
             /\ UNCHANGED <<status, withdrawn>>

Withdraw(S) == /\ S \subseteq anchored
               /\ withdrawn' = withdrawn \cup S
               /\ UNCHANGED <<status, anchored>>

WNext == \E S \in SUBSET Creds :
            \/ Submitted(S) \/ Registered(S) \/ Approved(S) \/ Rejected(S)
            \/ Revoked(S) \/ Anchor(S) \/ Withdraw(S)

WSpec == WInit /\ [][WNext]_wvars
=============================================================================
