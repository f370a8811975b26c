------------------------- MODULE CredentialLifecycle -------------------------
(***************************************************************************)
(* The lifecycle of credentials: Submit, Issue, Approve, Reject, Update    *)
(* and Revoke of feature/credential/credential_service.go, over the two    *)
(* stores they keep in step: the Postgres rows, changed in READ COMMITTED  *)
(* transactions, and the CredentialRegistry contract, changed by relayed   *)
(* Ethereum transactions that are mined later, and possibly after the      *)
(* request that sent them has given up and rolled its row changes back.    *)
(*                                                                         *)
(* Each HTTP request is a process that runs its handler once: it reads the *)
(* targets, writes (and so locks) their rows, sends the chain transaction, *)
(* waits for the receipt, stores the token ids and enqueues the extraction *)
(* jobs, commits, and then queues the e-mails.  Any step can fail.         *)
(***************************************************************************)
EXTENDS Naturals, FiniteSets

CONSTANTS Creds,       \* credential ids (ULIDs) that may be drawn
          Hashes,      \* keccak256 hashes of the uploaded files
          HashOf,      \* the file each credential is created with
          Contents,    \* values of the editable minted fields: number, dates
          Officers,    \* wallets that sign chain transactions (Issuer+)
          Requests,    \* the requests of one execution, one per handler call
          Operations,  \* the handlers these requests may call
          PostSendFaults, \* may a request fail once its transaction is sent?
          NoToken      \* token_id IS NULL

Handlers == {"issue", "approve", "reject", "revoke", "update"}

\* The on-chain id of a credential is a hash of the issuer, the issuer's nonce,
\* the holder and the file hash: those inputs stand for it.
Token == [issuer: Officers, nonce: Nat, hash: Hashes]

ASSUME HashOfAssumption == HashOf \in [Creds -> Hashes]
ASSUME OperationsAssumption == Operations \subseteq Handlers
ASSUME FaultsAssumption == PostSendFaults \in BOOLEAN
ASSUME NoTokenAssumption == NoToken \notin Token
ASSUME InhabitedAssumption == Officers # {} /\ Contents # {}

\* What the contract stores for one token (it has the row's id as its URI).
Entry == [id: Token, uri: Creds, content: Contents]

\* A row of the credentials table.
Row == [stored: BOOLEAN, content: Contents, activated: BOOLEAN,
        rejected: BOOLEAN, revoked: BOOLEAN, token: Token \cup {NoToken}]

Phases == {"idle", "read", "written", "sent", "minted", "ready",
           "committed", "done"}

\* The phases in which a transaction holds the locks of the rows it wrote.
Holding == {"written", "sent", "minted", "ready"}

Request == [phase: Phases, op: Handlers, by: Officers, batch: SUBSET Creds,
            content: Contents, seen: SUBSET Token]

ChainTx == [status: {"none", "pending", "mined", "reverted"}, by: Officers,
            nonce: Nat, mint: SUBSET Entry, burn: SUBSET Token]

Notices == {"registered", "approved", "rejected", "revoked"}

VARIABLES
    drawn,    \* ids already given to a prepared credential
    rows,     \* committed rows of the credentials table
    lapsed,   \* credentials whose expires_at is in the past
    inbox,    \* committed rows of credential_notifications
    req,      \* what each request is doing
    chainTx,  \* the chain transaction each request sent
    minted,   \* the registry's tokens
    burnt,    \* the revoked ones
    nonces,   \* the registry's nonce of each signer
    queued,   \* credentials with an extraction job in River's tables
    mailed    \* lifecycle e-mails queued in River's tables

dbVars    == <<drawn, rows, lapsed, inbox>>
chainVars == <<minted, burnt, nonces>>
jobVars   == <<queued, mailed>>
vars      == <<drawn, rows, lapsed, inbox, req, chainTx, minted, burnt,
               nonces, queued, mailed>>
-----------------------------------------------------------------------------
NoRow == [stored |-> FALSE, content |-> CHOOSE v \in Contents : TRUE,
            activated |-> FALSE, rejected |-> FALSE, revoked |-> FALSE,
            token |-> NoToken]

\* A row as Submit stores it.
Pending(v) == [stored |-> TRUE, content |-> v, activated |-> FALSE,
               rejected |-> FALSE, revoked |-> FALSE, token |-> NoToken]

Inactive(phase) == [phase |-> phase, op |-> "reject",
                    by |-> CHOOSE o \in Officers : TRUE, batch |-> {},
                    content |-> CHOOSE v \in Contents : TRUE, seen |-> {}]

NoTx == [status |-> "none", by |-> CHOOSE o \in Officers : TRUE, nonce |-> 0,
         mint |-> {}, burn |-> {}]

\* Credential.Status(): the first of the timestamps that is set, in this order.
Status(c) == IF rows[c].revoked THEN "revoked"
             ELSE IF rows[c].rejected THEN "rejected"
             ELSE IF c \in lapsed THEN "expired"
             ELSE IF rows[c].activated THEN "approved"
             ELSE "pending"

\* The predicate of idx_credentials_file_hash_active.
Active(c) == rows[c].stored /\ ~rows[c].revoked /\ ~rows[c].rejected

\* credentialHashToStatus[h] = Issued.
IssuedOnChain(h) == \E e \in minted : e.id.hash = h /\ e.id \notin burnt

Holds(r, c) == req[r].phase \in Holding /\ c \in req[r].batch
Locked(c)   == \E r \in Requests : Holds(r, c)

\* Variant: the insert looks at committed rows only.
HashInDoubt_NoWait(h) == FALSE

\* An uncommitted transaction has inserted a row with hash h, or is changing
\* one that the index holds.
HashInDoubt(h) ==
    \E c \in Creds : Locked(c) /\ HashOf[c] = h /\ (Active(c) \/ ~rows[c].stored)
HashTaken(h)   == \E c \in Creds : Active(c) /\ HashOf[c] = h

Distinct(S) == \A c, d \in S : HashOf[c] = HashOf[d] => c = d

\* Variant: the nonce is read again once the transaction is mined.
TokenFor_NonceReread(r, c) == [issuer |-> req[r].by, nonce |-> nonces[req[r].by],
                               hash |-> HashOf[c]]

\* The token a request's mint gives one of its credentials.
TokenFor(r, c) == [issuer |-> req[r].by, nonce |-> chainTx[r].nonce,
                   hash |-> HashOf[c]]

\* The contract's checks on a batch: the signer's nonce, then each item.
Valid(tx) ==
    /\ tx.nonce = nonces[tx.by]
    /\ \A e \in tx.mint : ~IssuedOnChain(e.id.hash)
    /\ \A t \in tx.burn : t \notin burnt /\ \E e \in minted : e.id = t

Init ==
    /\ drawn = {}
    /\ rows = [c \in Creds |-> NoRow]
    /\ lapsed = {}
    /\ inbox = {}
    /\ req = [r \in Requests |-> Inactive("idle")]
    /\ chainTx = [r \in Requests |-> NoTx]
    /\ minted = {}
    /\ burnt = {}
    /\ nonces = [o \in Officers |-> 0]
    /\ queued = {}
    /\ mailed = {}
-----------------------------------------------------------------------------
(* Submit: one transaction that calls nothing outside Postgres, so a single *)
(* step.  The insert waits while the hash is in doubt and fails when it is  *)
(* taken, as the count before it does.                                      *)
Submit(S) ==
    /\ S # {} /\ S \cap drawn = {} /\ Distinct(S)
    /\ \A c \in S : ~HashInDoubt(HashOf[c]) /\ ~HashTaken(HashOf[c])
    /\ drawn' = drawn \cup S
    /\ \E v \in Contents :
         rows' = [c \in Creds |-> IF c \in S THEN Pending(v) ELSE rows[c]]
    /\ UNCHANGED <<lapsed, inbox, req, chainTx, chainVars, jobVars>>

(* The clock passes a credential's expires_at. *)
Lapse(c) ==
    /\ rows[c].stored /\ c \notin lapsed
    /\ lapsed' = lapsed \cup {c}
    /\ UNCHANGED <<drawn, rows, inbox, req, chainTx, chainVars, jobVars>>
-----------------------------------------------------------------------------
Start(r, op, by, S, v, seen) ==
    /\ req[r].phase = "idle"
    /\ op \in Operations
    /\ S # {}
    /\ req' = [req EXCEPT ![r] = [phase |-> "read", op |-> op, by |-> by,
                                  batch |-> S, content |-> v, seen |-> seen]]

(* Issue reads the hash statuses on chain, validates, stores the files and *)
(* prepares the entities, with fresh ids.                                  *)
ReadForIssue(r, S) ==
    /\ S \cap drawn = {} /\ Distinct(S)
    /\ \A c \in S : ~IssuedOnChain(HashOf[c])
    /\ \E by \in Officers, v \in Contents : Start(r, "issue", by, S, v, {})
    /\ drawn' = drawn \cup S
    /\ UNCHANGED <<rows, lapsed, inbox, chainTx, chainVars, jobVars>>

(* Approve, Reject and Update require every target to be pending.  Nothing *)
(* locks the rows they have read.                                          *)
ReadPending(r, op, S) ==
    /\ op \in {"approve", "reject", "update"}
    /\ \A c \in S : rows[c].stored /\ Status(c) = "pending"
    /\ \E by \in Officers, v \in Contents : Start(r, op, by, S, v, {})
    /\ UNCHANGED <<dbVars, chainTx, chainVars, jobVars>>

(* Revoke requires activated targets, expired ones included, and remembers *)
(* the token ids it read.                                                  *)
ReadForRevoke(r, S) ==
    /\ \A c \in S : /\ rows[c].stored /\ Status(c) # "revoked"
                    /\ rows[c].activated /\ ~rows[c].rejected
    /\ \E by \in Officers, v \in Contents :
         Start(r, "revoke", by, S, v, {rows[c].token : c \in S} \ {NoToken})
    /\ UNCHANGED <<dbVars, chainTx, chainVars, jobVars>>
-----------------------------------------------------------------------------
Move(r, phase) == req' = [req EXCEPT ![r].phase = phase]
End(r)         == req' = [req EXCEPT ![r] = Inactive("done")]

(* INSERT of the prepared credentials: it waits for a transaction that has *)
(* the hash in doubt, then fails on the unique index or succeeds.          *)
Insert(r) ==
    /\ req[r].phase = "read" /\ req[r].op = "issue"
    /\ \A c \in req[r].batch : ~HashInDoubt(HashOf[c])
    /\ \/ /\ \A c \in req[r].batch : ~HashTaken(HashOf[c])
          /\ Move(r, "written")
       \/ /\ \E c \in req[r].batch : HashTaken(HashOf[c])
          /\ End(r)
    /\ UNCHANGED <<dbVars, chainTx, chainVars, jobVars>>

\* Variant: no CHECK constraint on the table.
Refused_NoCheck(r, c) == FALSE

(* chk_credentials_activated_xor_rejected, on the version being updated. *)
Refused(r, c) == \/ req[r].op = "approve" /\ rows[c].rejected
                 \/ req[r].op = "reject" /\ rows[c].activated

\* Variant: Revoke does not reach the registry.
OnChainToo_ApproveOnly(r) == req[r].op = "approve"

(* Approve mints, and Revoke revokes the token ids it has read. *)
OnChainToo(r) == req[r].op = "approve" \/ req[r].seen # {}

(* UPDATE of the targets: it waits for the row locks and then applies to   *)
(* the latest committed rows, whatever their status has become, unless the *)
(* CHECK refuses.                                                          *)
Write(r) ==
    /\ req[r].phase = "read" /\ req[r].op \in {"approve", "reject", "revoke"}
    /\ \A c \in req[r].batch : ~Locked(c)
    /\ \/ /\ \A c \in req[r].batch : ~Refused(r, c)
          /\ Move(r, IF OnChainToo(r) THEN "written" ELSE "ready")
       \/ /\ \E c \in req[r].batch : Refused(r, c)
          /\ End(r)
    /\ UNCHANGED <<dbVars, chainTx, chainVars, jobVars>>

(* The UPDATE of the Update handler, a transaction of its own: no status   *)
(* is checked again once the locks are free.  It may set a new expires_at. *)
Edit(r) ==
    /\ req[r].phase = "read" /\ req[r].op = "update"
    /\ \A c \in req[r].batch : ~Locked(c)
    /\ rows' = [c \in Creds |-> IF c \in req[r].batch
                                THEN [rows[c] EXCEPT !.content = req[r].content]
                                ELSE rows[c]]
    /\ lapsed' \in {lapsed, lapsed \ req[r].batch}
    /\ End(r)
    /\ UNCHANGED <<drawn, inbox, chainTx, chainVars, jobVars>>
-----------------------------------------------------------------------------
\* Variant: the fields come from the call instead of the stored row.
MintedContent_OfCall(r, c) == req[r].content

(* The fields a mint copies: the prepared entity's or the updated row's. *)
MintedContent(r, c) ==
    IF req[r].op = "issue" THEN req[r].content ELSE rows[c].content

(* The chain transaction of a request in its current state. *)
Prepared(r) ==
    LET by == req[r].by
        nonce == nonces[by]
    IN  [status |-> "pending", by |-> by, nonce |-> nonce,
         mint |-> IF req[r].op = "revoke" THEN {}
                  ELSE {[id |-> [issuer |-> by, nonce |-> nonce,
                                 hash |-> HashOf[c]],
                         uri |-> c, content |-> MintedContent(r, c)] :
                           c \in req[r].batch},
         burn |-> IF req[r].op = "revoke" THEN req[r].seen ELSE {}]

(* Fetch the nonce, sign, and relay the transaction.  A call that would    *)
(* revert is refused by the gas estimate, and the request rolls back.      *)
Send(r) ==
    /\ req[r].phase = "written"
    /\ \/ /\ Valid(Prepared(r))
          /\ chainTx' = [chainTx EXCEPT ![r] = Prepared(r)]
          /\ Move(r, "sent")
       \/ /\ ~Valid(Prepared(r))
          /\ End(r)
          /\ UNCHANGED chainTx
    /\ UNCHANGED <<dbVars, chainVars, jobVars>>

(* The network mines a relayed transaction: all of the batch or none. *)
Mine(r) ==
    /\ chainTx[r].status = "pending"
    /\ LET tx == chainTx[r] IN
       \/ /\ Valid(tx)
          /\ minted' = minted \cup tx.mint
          /\ burnt' = burnt \cup tx.burn
          /\ nonces' = [nonces EXCEPT ![tx.by] = @ + 1]
          /\ chainTx' = [chainTx EXCEPT ![r].status = "mined"]
       \/ /\ ~Valid(tx)
          /\ chainTx' = [chainTx EXCEPT ![r].status = "reverted"]
          /\ UNCHANGED chainVars
    /\ UNCHANGED <<dbVars, req, jobVars>>

\* Variant: any receipt counts as success.
Confirmed_AnyReceipt(r) == chainTx[r].status \in {"mined", "reverted"}

\* Variant: the call returns as soon as the transaction is relayed.
Confirmed_OnceRelayed(r) == chainTx[r].status \in {"pending", "mined"}

Confirmed(r) == chainTx[r].status = "mined"

\* Variant: only a successful receipt ends the wait.
Reverted_Ignored(r) == FALSE

Reverted(r) == chainTx[r].status = "reverted"

(* The receipt: a revert rolls the rows back; a mint goes on to store the  *)
(* token ids in the same transaction.                                      *)
Receipt(r) ==
    /\ req[r].phase = "sent"
    /\ \/ Confirmed(r) /\ Move(r, IF req[r].op = "revoke" THEN "ready" ELSE "minted")
       \/ Reverted(r) /\ End(r)
    /\ UNCHANGED <<dbVars, chainTx, chainVars, jobVars>>

\* Variant: a failed insert is logged and ignored.
EnqueueExtract_Ignored(r) ==
    /\ req[r].phase = "minted"
    /\ \E S \in SUBSET req[r].batch : queued' = queued \cup S
    /\ Move(r, "ready")
    /\ UNCHANGED <<dbVars, chainTx, chainVars, mailed>>

(* The extraction jobs are inserted over River's own connection pool, so   *)
(* they are visible at once; when one insert fails those before it stay    *)
(* and the rows roll back.                                                 *)
EnqueueExtract(r) ==
    /\ req[r].phase = "minted"
    /\ \/ /\ queued' = queued \cup req[r].batch
          /\ Move(r, "ready")
       \/ /\ PostSendFaults
          /\ \E S \in SUBSET req[r].batch :
               S # req[r].batch /\ queued' = queued \cup S
          /\ End(r)
    /\ UNCHANGED <<dbVars, chainTx, chainVars, mailed>>

(* The row version a request commits for one of its credentials. *)
NewRow(r, c) ==
    LET op == req[r].op
        mints == op \in {"issue", "approve"}
    IN  [stored    |-> TRUE,
         content   |-> IF op = "issue" THEN req[r].content ELSE rows[c].content,
         activated |-> rows[c].activated \/ mints,
         rejected  |-> rows[c].rejected \/ op = "reject",
         revoked   |-> rows[c].revoked \/ op = "revoke",
         token     |-> IF mints THEN TokenFor(r, c) ELSE rows[c].token]

\* Variant: the notice carries the name of the e-mail's event.
Notice_OfOperation(r) == req[r].op

(* The type of the notice that announces a request's change. *)
Notice(r) == CASE req[r].op = "issue"   -> "registered"
               [] req[r].op = "approve" -> "approved"
               [] req[r].op = "reject"  -> "rejected"
               [] OTHER -> "revoked"

NoticesOf(r) == {<<c, Notice(r)>> : c \in req[r].batch}

(* COMMIT: the rows and their in-app notices become visible together. *)
Commit(r) ==
    /\ req[r].phase = "ready"
    /\ rows' = [c \in Creds |-> IF c \in req[r].batch THEN NewRow(r, c)
                                ELSE rows[c]]
    /\ inbox' = inbox \cup NoticesOf(r)
    /\ Move(r, "committed")
    /\ UNCHANGED <<drawn, lapsed, chainTx, chainVars, jobVars>>

(* After the commit the e-mails are queued, on a best-effort basis. *)
QueueMail(r) ==
    /\ req[r].phase = "committed"
    /\ mailed' \in {mailed, mailed \cup NoticesOf(r)}
    /\ End(r)
    /\ UNCHANGED <<dbVars, chainTx, chainVars, queued>>

(* Where a request can fail.  Without PostSendFaults it survives from the  *)
(* moment its transaction is sent to its commit.                           *)
CanFail(r) == \/ req[r].phase \in {"read", "written"}
              \/ req[r].phase = "ready" /\ chainTx[r].status = "none"
              \/ PostSendFaults /\ req[r].phase \in {"sent", "minted", "ready"}

\* Variant: the notices are written outside the transaction.
Fail_KeepsNotices(r) ==
    /\ CanFail(r)
    /\ inbox' = IF req[r].phase \in Holding THEN inbox \cup NoticesOf(r) ELSE inbox
    /\ End(r)
    /\ UNCHANGED <<drawn, rows, lapsed, chainTx, chainVars, jobVars>>

\* Variant: the e-mails are queued whether or not the transaction commits.
Fail_Mails(r) ==
    /\ CanFail(r)
    /\ mailed' = mailed \cup NoticesOf(r)
    /\ End(r)
    /\ UNCHANGED <<dbVars, chainTx, chainVars, queued>>

(* The request fails: a database or network error, a wait cut short with   *)
(* the client's connection, a crash of the server.  Its rows roll back; a  *)
(* transaction it has sent stays with the network.                         *)
Fail(r) ==
    /\ CanFail(r)
    /\ End(r)
    /\ UNCHANGED <<dbVars, chainTx, chainVars, jobVars>>
-----------------------------------------------------------------------------
Begin(r) == \E S \in SUBSET Creds :
               \/ ReadForIssue(r, S)
               \/ \E op \in Handlers : ReadPending(r, op, S)
               \/ ReadForRevoke(r, S)

Step(r) == \/ Insert(r) \/ Write(r) \/ Edit(r) \/ Send(r) \/ Receipt(r)
           \/ EnqueueExtract(r) \/ Commit(r) \/ QueueMail(r)

(* No request is under way and the network has nothing to mine: the service *)
(* may stay idle.                                                          *)
Quiet == /\ \A r \in Requests : /\ req[r].phase \in {"idle", "done"}
                                /\ chainTx[r].status # "pending"
         /\ UNCHANGED vars

Next == \/ \E S \in SUBSET Creds : Submit(S)
        \/ \E c \in Creds : Lapse(c)
        \/ \E r \in Requests : Begin(r) \/ Step(r) \/ Mine(r) \/ Fail(r)
        \/ Quiet

Spec == Init /\ [][Next]_vars

(* A handler runs on unless it has to wait, and the network mines what it  *)
(* has accepted.  Nothing makes a client call, a document lapse or a       *)
(* request fail.                                                           *)
FairSpec == Spec /\ \A r \in Requests : WF_vars(Step(r)) /\ WF_vars(Mine(r))
-----------------------------------------------------------------------------
(* Every variable has its type. *)
TypeOK ==
    /\ drawn \subseteq Creds
    /\ rows \in [Creds -> Row]
    /\ lapsed \subseteq Creds
    /\ inbox \subseteq Creds \X Notices
    /\ req \in [Requests -> Request]
    /\ chainTx \in [Requests -> ChainTx]
    /\ minted \subseteq Entry
    /\ burnt \subseteq Token
    /\ nonces \in [Officers -> Nat]
    /\ queued \subseteq Creds
    /\ mailed \subseteq Creds \X Notices

(* At most one row per file is neither revoked nor rejected, although the  *)
(* checks of Issue and Submit read before they insert.                     *)
ActiveFilesDistinct ==
    \A c, d \in Creds : Active(c) /\ Active(d) /\ HashOf[c] = HashOf[d] => c = d

(* A token id in a committed row is the id of a token that the registry    *)
(* has minted for that row and its file: no rollback, revert or abandoned  *)
(* transaction leaves a row with a token that does not exist.              *)
TokensExist ==
    \A c \in Creds : rows[c].token # NoToken =>
        \E e \in minted : /\ e.id = rows[c].token /\ e.uri = c
                          /\ e.id.hash = HashOf[c]

(* The holder's in-app notices tell the committed history of each row: the *)
(* notice is there exactly when the change it announces is.                *)
InboxTellsHistory ==
    \A c \in Creds :
        /\ rows[c].activated <=> \E n \in {"registered", "approved"} : <<c, n>> \in inbox
        /\ rows[c].rejected <=> <<c, "rejected">> \in inbox
        /\ rows[c].revoked <=> <<c, "revoked">> \in inbox

(* No credential is activated without its extraction job, wherever the     *)
(* server stops between the enqueue and the commit.                        *)
ActivatedIsQueued == \A c \in Creds : rows[c].activated => c \in queued

(* An e-mail is queued only for a change that was committed. *)
MailFollowsCommit == mailed \subseteq inbox

(* A row becomes activated only in a commit whose token is live on chain. *)
ActivationIsBacked ==
    [][\A c \in Creds : ~rows[c].activated /\ rows'[c].activated =>
          \E e \in minted : e.id = rows'[c].token /\ e.id \notin burnt]_vars

(* A row becomes revoked only after its token is revoked on chain. *)
RevocationIsOnChain ==
    [][\A c \in Creds : ~rows[c].revoked /\ rows'[c].revoked =>
          rows[c].token \in burnt]_vars

(* What no request may leave behind when receipts always arrive: a live    *)
(* token is claimed by its committed, activated row, or by the request     *)
(* that is about to commit it.                                             *)
LiveTokensClaimed ==
    \A e \in minted : e.id \notin burnt =>
        \/ rows[e.uri].activated /\ rows[e.uri].token = e.id
        \/ \E r \in Requests : /\ req[r].phase \in Holding
                              /\ e \in chainTx[r].mint

(* Without concurrent edits, an activated row and its token agree on the   *)
(* fields the mint copied.                                                 *)
ChainMirrorsRow ==
    \A c \in Creds : \A e \in minted :
        rows[c].token = e.id => e.content = rows[c].content

(* The workflow each committed row has reached. *)
Reached(c) == IF rows[c].revoked THEN "revoked"
              ELSE IF rows[c].rejected THEN "rejected"
              ELSE IF rows[c].activated THEN "approved"
              ELSE IF rows[c].stored THEN "pending"
              ELSE "none"

Workflow == INSTANCE CredentialWorkflow
            WITH status <- [c \in Creds |-> Reached(c)],
                 anchored <- {e.uri : e \in minted},
                 withdrawn <- {e.uri : e \in {f \in minted : f.id \in burnt}}

(* The service keeps the promise of CredentialWorkflow: decisions are      *)
(* final and exclusive, an activation follows the mint and a revocation    *)
(* the revocation on chain, whatever fails or interleaves.                 *)
ImplementsWorkflow == Workflow!WSpec

(* Every request that starts is answered: no wait for a row lock, an index *)
(* entry or a receipt lasts for ever.                                      *)
RequestsEnd ==
    \A r \in Requests : req[r].phase = "read" ~> req[r].phase = "done"
=============================================================================
