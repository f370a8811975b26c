----------------------------- MODULE UserRoles -----------------------------
(***************************************************************************)
(* The roles of the users, kept twice: in the users table and in the       *)
(* CredentialAuthority contract.  Store, Update, UpdateRole, Delete,       *)
(* Restore and TransferSuperAdmin of feature/user/user_service.go read     *)
(* their targets without locks, write the rows in a READ COMMITTED         *)
(* transaction and send one signed role update to the contract before they *)
(* commit; TransferSuperAdmin alone goes to the contract first.            *)
(*                                                                         *)
(* A request is a slot that serves one call after another.  An account is  *)
(* identified with its wallet; e-mail addresses, profile fields and units  *)
(* are left out, and so are the calls that change nothing else.            *)
(***************************************************************************)
EXTENDS Naturals, FiniteSets

CONSTANTS Users,       \* accounts
          Root,        \* the one that init-super-admin stored
          Requests,    \* the calls that may be served at the same time
          Operations,  \* the handlers these calls may reach
          Exclusive,   \* those that are only called while no other call runs
          MaxBatch,    \* the largest batch of a call
          PostSendFaults \* may a call fail once its transaction is sent?

Handlers == {"store", "update", "updateRole", "delete", "restore", "transfer"}

ASSUME RootAssumption == Root \in Users
ASSUME OperationsAssumption == Operations \subseteq Handlers
ASSUME ExclusiveAssumption == Exclusive \subseteq Operations
ASSUME BatchAssumption == MaxBatch \in Nat
ASSUME FaultsAssumption == PostSendFaults \in BOOLEAN

Roles == {"holder", "issuer", "admin", "super_admin"}

\* Role.Rank() and ToUint8(): "none" exists on chain only.
Rank == [none |-> 0, holder |-> 1, issuer |-> 2, admin |-> 3, super_admin |-> 4]

ChainRoles == Roles \cup {"none"}

\* A row of the users table.
Row == [state: {"absent", "live", "trashed"}, role: Roles]

\* rank is the role of the caller's row when the middleware loaded it, and
\* targets are the users whose role the call will send to the contract.
Request == [phase: {"idle", "admitted", "read", "written", "sent"},
            op: Handlers, by: Users, rank: Roles, batch: SUBSET Users,
            role: Roles, targets: SUBSET Users]

\* fresh: the nonce the transaction carries is still the signer's.
ChainTx == [status: {"none", "pending", "mined", "reverted"}, by: Users,
            transfer: BOOLEAN, fresh: BOOLEAN,
            grant: UNION {[S -> ChainRoles] : S \in SUBSET Users}]

VARIABLES rows,      \* committed rows of the users table
          req,       \* what each request is doing
          chainTx,   \* the transaction each request sent
          onchain    \* userToRole of the contract

vars == <<rows, req, chainTx, onchain>>

Idle == [phase |-> "idle", op |-> "store", by |-> Root, rank |-> "holder",
         batch |-> {}, role |-> "holder", targets |-> {}]

NoTx == [status |-> "none", by |-> Root, transfer |-> FALSE, fresh |-> FALSE,
         grant |-> [u \in {} |-> "none"]]

Init ==
    /\ rows = [u \in Users |->
                  IF u = Root THEN [state |-> "live", role |-> "super_admin"]
                  ELSE [state |-> "absent", role |-> "holder"]]
    /\ req = [r \in Requests |-> Idle]
    /\ chainTx = [r \in Requests |-> NoTx]
    /\ onchain = [u \in Users |-> IF u = Root THEN "super_admin" ELSE "none"]
-----------------------------------------------------------------------------
Live(u)    == rows[u].state = "live"
Trashed(u) == rows[u].state = "trashed"
AdminPlus(role) == Rank[role] >= Rank["admin"]

\* Store draws a new id and generates a new wallet.
Unused(u) == /\ rows[u].state = "absent"
             /\ onchain[u] = "none"
             /\ \A r \in Requests : /\ u \notin req[r].batch
                                    /\ u \notin DOMAIN chainTx[r].grant

\* The rows a request has written and not committed are locked; transfer writes
\* and commits after its receipt, in a single step.
Holds(r, u) == /\ req[r].phase \in {"written", "sent"}
               /\ req[r].op # "transfer"
               /\ u \in req[r].batch

\* Variant: the statement does not wait for the locks of others.
Free_NoLock(r, S) == TRUE

Free(r, S) == \A q \in Requests \ {r} : \A u \in S : ~Holds(q, u)

Begin(r, phase) == req' = [req EXCEPT ![r].phase = phase]

\* The transaction rolls back or has committed; a relayed transaction remains.
Finish(r) ==
    /\ req' = [req EXCEPT ![r] = Idle]
    /\ chainTx' = [chainTx EXCEPT ![r] =
                      IF @.status = "pending" THEN @ ELSE NoTx]
-----------------------------------------------------------------------------
(* The contract.                                                            *)

HierarchyAllows(signer, from, to) ==
    signer = "admin" => ~AdminPlus(from) /\ ~AdminPlus(to)

Valid(tx) ==
    /\ tx.fresh
    /\ IF tx.transfer THEN onchain[tx.by] = "super_admin"
       ELSE /\ AdminPlus(onchain[tx.by])
            /\ \A u \in DOMAIN tx.grant :
                  /\ tx.grant[u] # "super_admin"
                  /\ tx.grant[u] # onchain[u]
                  /\ HierarchyAllows(onchain[tx.by], onchain[u], tx.grant[u])

Granted(tx) == [u \in Users |-> IF u \in DOMAIN tx.grant THEN tx.grant[u]
                                ELSE onchain[u]]

\* A block includes the transaction, wherever its sender is by now; a success
\* uses up the signer's nonce.
Mine(r) ==
    LET tx == chainTx[r]
        mined == [tx EXCEPT !.status = "mined"]
        after(status) == IF req[r].phase = "idle" THEN NoTx
                         ELSE [tx EXCEPT !.status = status]
    IN  /\ tx.status = "pending"
        /\ IF Valid(tx)
           THEN /\ onchain' = Granted(tx)
                /\ chainTx' = [q \in Requests |->
                      IF q = r THEN after("mined")
                      ELSE [chainTx[q] EXCEPT !.fresh = @ /\ chainTx[q].by # tx.by]]
           ELSE /\ chainTx' = [chainTx EXCEPT ![r] = after("reverted")]
                /\ UNCHANGED onchain
        /\ UNCHANGED <<rows, req>>
-----------------------------------------------------------------------------
(* The middleware loads the caller's row and asks the contract for its role; *)
(* the policies that need no target run next.                                *)

PolicyStore(by, role) ==
    /\ role # "super_admin"
    /\ rows[by].role = "admin" => ~AdminPlus(role)

\* The request's validation leaves super_admin out of a batch update.
UpdatePreFetch(by, batch, role) ==
    /\ role # "super_admin"
    /\ by \in batch => rows[by].role = "super_admin"

UpdateRolePreFetch(by, batch, role) == role # "super_admin" /\ by \notin batch

\* DeletePreFetch, RestorePreFetch and TransferSuperAdminPreFetch.
OthersOnly(by, batch) == by \notin batch

\* The role of a call that names none is a fixed one.
MayAsk(by, op, batch, role) ==
    \/ /\ op = "store" /\ \A u \in batch : Unused(u)
       /\ PolicyStore(by, role)
    \/ op = "update" /\ UpdatePreFetch(by, batch, role)
    \/ op = "updateRole" /\ UpdateRolePreFetch(by, batch, role)
    \/ op \in {"delete", "restore"} /\ role = "holder" /\ OthersOnly(by, batch)
    \/ /\ op = "transfer" /\ role = "super_admin" /\ \E to \in Users : batch = {to}
       /\ OthersOnly(by, batch)

Guarded(op) == IF op = "transfer" THEN "super_admin" ELSE "admin"

\* What the clients are assumed to do, not a guard of the code.
Alone(r, op) ==
    \A q \in Requests \ {r} : req[q].phase # "idle" => {op, req[q].op} \cap Exclusive = {}

Admit(r, by, op, batch, role) ==
    /\ req[r].phase = "idle" /\ chainTx[r].status # "pending"
    /\ op \in Operations /\ Alone(r, op)
    /\ Live(by) /\ Rank[onchain[by]] >= Rank[Guarded(op)]
    /\ MayAsk(by, op, batch, role)
    /\ req' = [req EXCEPT ![r] = [phase |-> "admitted", op |-> op, by |-> by,
                                  rank |-> rows[by].role, batch |-> batch,
                                  role |-> role, targets |-> batch]]
    /\ UNCHANGED <<rows, chainTx, onchain>>
-----------------------------------------------------------------------------
(* FindByIds in the transaction, then the policies that look at the targets. *)

\* FindByIds leaves out the ids of nobody, and so do the statements that follow.
Found(r) == {u \in req[r].batch : req[r].op # "store" => rows[u].state # "absent"}

\* An administrator may not touch administrators.
BelowAdmins(r) ==
    req[r].rank = "admin" => \A u \in Found(r) : ~AdminPlus(rows[u].role)

BelowAdminsTo(r) == req[r].rank = "admin" => ~AdminPlus(req[r].role)

\* Variant: nobody asks whether a target is in the trash.
Allowed_TrashToo(r) == BelowAdmins(r) /\ BelowAdminsTo(r)

UpdatePostFetch(r) ==
    /\ \A u \in req[r].batch : /\ Live(u)
                               /\ rows[u].role = "super_admin" => u = req[r].by
    /\ BelowAdmins(r) /\ BelowAdminsTo(r)

UpdateRolePostFetch(r) ==
    /\ \A u \in req[r].batch : Live(u) /\ rows[u].role # req[r].role
    /\ BelowAdmins(r) /\ BelowAdminsTo(r)

RestorePostFetch(r) ==
    \A u \in Found(r) : Trashed(u) /\ rows[u].role # "super_admin"

Allowed(r) ==
    \/ req[r].op = "store"
    \/ req[r].op = "update" /\ UpdatePostFetch(r)
    \/ req[r].op = "updateRole" /\ UpdateRolePostFetch(r)
    \/ req[r].op = "delete" /\ BelowAdmins(r)
    \/ req[r].op = "restore" /\ RestorePostFetch(r)
    \/ req[r].op = "transfer" /\ \A u \in req[r].batch : Live(u)

\* Variant: only live users are sent, whatever the handler.
ToSync_LiveOnly(r) == {u \in Found(r) : Live(u)}

\* Update leaves out the roles that do not change, Delete who is deleted already.
ChangedRoles(r) == {u \in Found(r) : rows[u].role # req[r].role}
LiveTargets(r)  == {u \in Found(r) : Live(u)}

ToSync(r) == CASE req[r].op = "update" -> ChangedRoles(r)
               [] req[r].op = "delete" -> LiveTargets(r)
               [] OTHER -> Found(r)

Read(r) ==
    /\ req[r].phase = "admitted"
    /\ Allowed(r)
    /\ req' = [req EXCEPT ![r].phase = "read", ![r].batch = Found(r),
                             ![r].targets = ToSync(r)]
    /\ UNCHANGED <<rows, chainTx, onchain>>

Deny(r) ==
    /\ req[r].phase = "admitted"
    /\ ~Allowed(r)
    /\ Finish(r)
    /\ UNCHANGED <<rows, onchain>>
-----------------------------------------------------------------------------
\* A soft delete skips the rows that are deleted.
Claimed(r) == IF req[r].op = "delete" THEN {u \in req[r].batch : Live(u)}
              ELSE req[r].batch

\* The UPDATE or INSERT waits for the rows.
Write(r) ==
    /\ req[r].phase = "read" /\ req[r].op # "transfer"
    /\ Free(r, req[r].batch)
    /\ req' = [req EXCEPT ![r].phase = "written", ![r].batch = Claimed(r)]
    /\ UNCHANGED <<rows, chainTx, onchain>>

\* The role a request sends to the contract for u.
NewRole(r, u) ==
    CASE req[r].op = "delete"   -> "none"
      [] req[r].op = "restore"  -> rows[u].role
      [] req[r].op = "transfer" -> IF u = req[r].by THEN "admin" ELSE "super_admin"
      [] OTHER -> req[r].role

\* The users whose role on chain the request changes.
Parties(r) == req[r].targets \cup
                  (IF req[r].op = "transfer" THEN {req[r].by} ELSE {})

TxOf(r) ==
    [status |-> "pending", by |-> req[r].by, transfer |-> (req[r].op = "transfer"),
     fresh |-> TRUE, grant |-> [u \in Parties(r) |-> NewRole(r, u)]]

ReadyToSend(r) ==
    \/ req[r].phase = "written" /\ req[r].targets # {}
    \/ req[r].phase = "read" /\ req[r].op = "transfer"

\* The nonce is fetched, and the relayer's gas estimate finds the call valid.
Send(r) ==
    /\ ReadyToSend(r)
    /\ Valid(TxOf(r))
    /\ Begin(r, "sent")
    /\ chainTx' = [chainTx EXCEPT ![r] = TxOf(r)]
    /\ UNCHANGED <<rows, onchain>>

\* Variant: the status of the receipt is not looked at.
Refused_StatusIgnored(r) ==
    /\ ReadyToSend(r) /\ ~Valid(TxOf(r))
    /\ Finish(r)
    /\ UNCHANGED <<rows, onchain>>

\* The relayer refuses a call that would revert, or it reverted when mined.
Refused(r) ==
    /\ \/ ReadyToSend(r) /\ ~Valid(TxOf(r))
       \/ req[r].phase = "sent" /\ chainTx[r].status = "reverted"
    /\ Finish(r)
    /\ UNCHANGED <<rows, onchain>>

Stored(role)      == [state |-> "live", role |-> role]
Deleted(u)        == [rows[u] EXCEPT !.state = "trashed"]
Restored(u)       == [rows[u] EXCEPT !.state = "live"]
WithRole(u, role) == [rows[u] EXCEPT !.role = role]

\* The row as the request's statement leaves it.
Written(r, u) ==
    CASE req[r].op = "store"   -> Stored(req[r].role)
      [] req[r].op = "delete"  -> Deleted(u)
      [] req[r].op = "restore" -> Restored(u)
      [] OTHER -> WithRole(u, NewRole(r, u))

\* Update changes the roles it sends, transfer both parties.
Touched(r) == IF req[r].op \in {"update", "transfer"} THEN Parties(r)
              ELSE req[r].batch

\* Variant: whatever the receipt says.
Confirmed_AnyReceipt(r) == chainTx[r].status \in {"mined", "reverted"}

\* WaitMined returned a receipt with status 1.
Confirmed(r) == chainTx[r].status = "mined"

\* The receipt is there and the transaction commits; transfer writes its rows
\* only now, when nobody else holds them.  (That it signs both parties out is in
\* Sessions.)
Commit(r) ==
    /\ req[r].phase = "sent"
    /\ Confirmed(r)
    /\ req[r].op = "transfer" => Free(r, Touched(r))
    /\ rows' = [u \in Users |-> IF u \in Touched(r) THEN Written(r, u) ELSE rows[u]]
    /\ Finish(r)
    /\ UNCHANGED onchain

\* Nothing to tell the contract: Delete of users that were deleted when they
\* were read, Update of roles that do not change, ids of nobody.
CommitUnsynced(r) ==
    /\ req[r].phase = "written" /\ req[r].targets = {}
    /\ rows' = [u \in Users |-> IF req[r].op = "delete" /\ u \in req[r].batch
                                THEN Written(r, u) ELSE rows[u]]
    /\ Finish(r)
    /\ UNCHANGED onchain

\* The caller's context ends, or Postgres or the node cannot be reached.
Fail(r) ==
    /\ \/ req[r].phase \in {"admitted", "read", "written"}
       \/ /\ PostSendFaults
          /\ req[r].phase = "sent" /\ chainTx[r].status # "reverted"
    /\ Finish(r)
    /\ UNCHANGED <<rows, onchain>>
-----------------------------------------------------------------------------
Calls == {S \in SUBSET Users : S # {} /\ Cardinality(S) <= MaxBatch}

Start(r) == \E by \in Users, op \in Handlers, batch \in Calls, role \in Roles :
                Admit(r, by, op, batch, role)

Step(r) == Read(r) \/ Deny(r) \/ Send(r) \/ Refused(r) \/ CommitUnsynced(r)

Next == \E r \in Requests : \/ Start(r) \/ Step(r) \/ Write(r) \/ Commit(r)
                            \/ Fail(r) \/ Mine(r)

Spec == Init /\ [][Next]_vars

\* A handler that can go on does, a relayed transaction is mined, and Postgres
\* grants row locks in the order they were asked for.
FairSpec == /\ Spec
            /\ \A r \in Requests : /\ WF_vars(Step(r))
                                   /\ WF_vars(Mine(r))
                                   /\ SF_vars(Write(r))
                                   /\ SF_vars(Commit(r))
-----------------------------------------------------------------------------
(* Properties.                                                              *)

TypeOK == /\ rows \in [Users -> Row]
          /\ req \in [Requests -> Request]
          /\ chainTx \in [Requests -> ChainTx]
          /\ onchain \in [Users -> ChainRoles]

\* What the contract should say of a user: nothing of one in the trash.
Effective(u) == IF Live(u) THEN rows[u].role ELSE "none"

\* No transaction about u is waiting for a block or for its caller.
Quiet(u) == \A r \in Requests : chainTx[r].status \in {"pending", "mined"}
                                    => u \notin DOMAIN chainTx[r].grant

\* "syncBlockchainRoles keeps both sources in sync on every mutation": whenever
\* nothing is under way for a user, the contract has the role of the row of a
\* live user and none for a trashed one.
RolesAgree == \A u \in Users : Quiet(u) => onchain[u] = Effective(u)

\* The denied operation "Transfer SuperAdmin to trashed user": whoever the
\* contract takes for the super administrator is live, and so can sign in.
OfficeIsLive == \A u \in Users : onchain[u] = "super_admin" => Live(u)

\* A row has one writer between its statement and its commit.
OneWriter == \A r, q \in Requests : \A u \in Users : Holds(r, u) /\ Holds(q, u) => r = q

\* A request sends to the contract what it will commit: its targets, with the
\* role the row will have, even if others wanted to change the row meanwhile.
SendsWhatItWrites ==
    \A r \in Requests :
       /\ (req[r].phase \in {"read", "written", "sent"} /\ req[r].op # "delete") =>
             /\ req[r].targets \subseteq req[r].batch
             /\ req[r].op # "update" => req[r].targets = req[r].batch
       /\ req[r].phase = "sent" =>
             /\ DOMAIN chainTx[r].grant = Parties(r)
             /\ \A u \in Parties(r) : chainTx[r].grant[u] = NewRole(r, u)

\* A user who is live with a role that is new to it got that role from a mined
\* transaction of the request that commits it: the row never runs ahead.
RowsFollowChain ==
    [][\A u \in Users :
          Effective(u)' \notin {"none", Effective(u)} =>
              \E r \in Requests : /\ chainTx[r].status = "mined"
                                  /\ u \in DOMAIN chainTx[r].grant
                                  /\ chainTx[r].grant[u] = Effective(u)']_vars

\* "There is no read-then-write race window" in UpdateRole, whose policy forbids
\* trashed targets: the role of a trashed user stays what it was.
TrashKeepsRole ==
    [][\A u \in Users : Trashed(u) /\ Trashed(u)' => rows'[u].role = rows[u].role]_vars

\* The table goes through the steps of the directory.
Directory == INSTANCE UserDirectory WITH accounts <- rows
ImplementsDirectory == Directory!DSpec

\* Every call is answered, whatever locks and blocks it has to wait for.
RequestsEnd == \A r \in Requests : req[r].phase # "idle" ~> req[r].phase = "idle"
=============================================================================
