--------------------------- MODULE UserDirectory ---------------------------
(***************************************************************************)
(* What the user service promises of the accounts in Postgres, without the *)
(* chain, transactions and races: an account is enrolled with a role below *)
(* super administrator, its role changes only while it is not in the       *)
(* trash, the trash keeps the role, and the one super administrator hands  *)
(* the office over.                                                        *)
(***************************************************************************)
CONSTANTS Users, Root

VARIABLE accounts   \* accounts[u]: whether u is stored or trashed, and its role

Offices == {"holder", "issuer", "admin"}

Account == [state: {"absent", "live", "trashed"},
            role: Offices \cup {"super_admin"}]

AllAre(S, state) == \A u \in S : accounts[u].state = state

DInit == accounts = [u \in Users |->
                        IF u = Root THEN [state |-> "live", role |-> "super_admin"]
                        ELSE [state |-> "absent", role |-> "holder"]]

Become(S, account(_)) ==
    accounts' = [u \in Users |-> IF u \in S THEN account(u) ELSE accounts[u]]

Enrol(S, role) ==
    /\ AllAre(S, "absent")
    /\ Become(S, LAMBDA u : [state |-> "live", role |-> role])

Assign(S, role) ==
    /\ AllAre(S, "live")
    /\ Become(S, LAMBDA u : [accounts[u] EXCEPT !.role = role])

Trash(S) ==
    /\ AllAre(S, "live")
    /\ Become(S, LAMBDA u : [accounts[u] EXCEPT !.state = "trashed"])

Reinstate(S) ==
    /\ AllAre(S, "trashed")
    /\ Become(S, LAMBDA u : [accounts[u] EXCEPT !.state = "live"])

HandOver(from, to) ==
    /\ from # to
    /\ AllAre({from, to}, "live")
    /\ accounts[from].role = "super_admin"
    /\ Become({from, to}, LAMBDA u : [accounts[u] EXCEPT !.role =
                              IF u = from THEN "admin" ELSE "super_admin"])

DNext == \/ \E S \in SUBSET Users :
                \/ \E role \in Offices : Enrol(S, role) \/ Assign(S, role)
                \/ Trash(S) \/ Reinstate(S)
         \/ \E from, to \in Users : HandOver(from, to)

DSpec == DInit /\ [][DNext]_accounts
=============================================================================
