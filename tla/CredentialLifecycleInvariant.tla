-------------------- MODULE CredentialLifecycleInvariant --------------------
(***************************************************************************)
(* The inductive invariant of CredentialLifecycle: what its safety         *)
(* properties rest on, about requests that are still running.              *)
(***************************************************************************)
EXTENDS CredentialLifecycle

Working == {"read"} \cup Holding
Sent    == {"sent", "minted", "ready"}

Mints(r)   == req[r].op \in {"issue", "approve"}
OnChain(r) == req[r].op \in {"issue", "approve", "revoke"}

MintedIds == {e.id : e \in minted}

(* Ids are drawn before they are stored, and a row goes from pending to    *)
(* activated or rejected, and from activated to revoked.                   *)
RowsWellFormed ==
    \A c \in Creds :
        /\ rows[c].stored => c \in drawn
        /\ ~rows[c].stored => rows[c] = NoRow
        /\ ~(rows[c].activated /\ rows[c].rejected)
        /\ rows[c].revoked => rows[c].activated
        /\ rows[c].activated => rows[c].token # NoToken

(* What a handler has read of its targets stays true until its commit. *)
TargetsStand ==
    \A r \in Requests : req[r].phase \in Working =>
        /\ req[r].batch # {}
        /\ req[r].op = "issue" =>
             /\ req[r].batch \subseteq drawn /\ Distinct(req[r].batch)
             /\ \A c \in req[r].batch : ~rows[c].stored
        /\ req[r].op # "issue" => \A c \in req[r].batch : rows[c].stored
        /\ req[r].op = "revoke" =>
             \A c \in req[r].batch :
                rows[c].activated /\ \E e \in minted : e.uri = c /\ e.id \in req[r].seen

(* Two requests that prepare credentials draw different ids. *)
IdsApart ==
    \A r, q \in Requests :
        /\ r # q
        /\ req[r].phase \in Working /\ req[r].op = "issue"
        /\ req[q].phase \in Working /\ req[q].op = "issue"
        => req[r].batch \cap req[q].batch = {}

(* Where each handler can be. *)
PhasesMatch ==
    \A r \in Requests :
        /\ req[r].phase \in {"written", "sent"} => OnChain(r)
        /\ req[r].phase = "minted" => Mints(r)
        /\ req[r].phase \in {"ready", "committed"} => req[r].op # "update"
        /\ req[r].op # "revoke" => req[r].seen = {}

(* The locks exclude each other, and what the CHECK and the unique index   *)
(* saw stays true while they are held.                                     *)
LocksHold ==
    \A r \in Requests : req[r].phase \in Holding =>
        /\ \A c \in req[r].batch :
             /\ req[r].op = "approve" => ~rows[c].rejected
             /\ req[r].op = "reject" => ~rows[c].activated
             /\ req[r].op = "issue" => ~HashTaken(HashOf[c])
        /\ \A q \in Requests : q # r /\ req[q].phase \in Holding =>
             /\ req[r].batch \cap req[q].batch = {}
             /\ req[r].op = "issue" /\ req[q].op = "issue" =>
                  \A c \in req[r].batch, d \in req[q].batch : HashOf[c] # HashOf[d]

(* A request waits for the transaction it has built, and goes on once the  *)
(* transaction is mined.                                                   *)
SentIsBuilt ==
    \A r \in Requests : req[r].phase \in Sent /\ OnChain(r) =>
        /\ chainTx[r].status # "none"
        /\ chainTx[r].by = req[r].by
        /\ req[r].op = "revoke" => chainTx[r].burn = req[r].seen
        /\ Mints(r) => \A c \in req[r].batch : \E e \in chainTx[r].mint :
                                e.id = TokenFor(r, c) /\ e.uri = c
        /\ req[r].phase # "sent" => chainTx[r].status = "mined"

(* The registry: nonces only grow, each mined call has its own, its tokens *)
(* exist, and only existing tokens are revoked.                            *)
ChainConsistent ==
    /\ burnt \subseteq MintedIds
    /\ \A e \in minted : e.id.nonce < nonces[e.id.issuer]
    /\ \A r \in Requests :
         /\ chainTx[r].burn \subseteq MintedIds
         /\ \A e \in chainTx[r].mint : /\ e.id.issuer = chainTx[r].by
                                       /\ e.id.nonce = chainTx[r].nonce
         /\ chainTx[r].status = "mined" =>
              /\ chainTx[r].mint \subseteq minted
              /\ chainTx[r].burn \subseteq burnt
              /\ chainTx[r].nonce < nonces[chainTx[r].by]
    /\ \A r, q \in Requests :
         /\ r # q /\ chainTx[r].by = chainTx[q].by
         /\ chainTx[r].status = "mined" /\ chainTx[q].status = "mined"
         => chainTx[r].nonce # chainTx[q].nonce

(* A token that is minted and not committed yet is known to its request    *)
(* alone: nobody can have revoked it.                                      *)
TokensFresh ==
    /\ \A r \in Requests : req[r].seen \subseteq MintedIds
    /\ \A r \in Requests :
         req[r].phase \in Sent /\ Mints(r) /\ chainTx[r].status = "mined" =>
            \A c \in req[r].batch :
                /\ TokenFor(r, c) \notin burnt
                /\ \A d \in Creds : rows[d].token # TokenFor(r, c)
                /\ \A q \in Requests : /\ TokenFor(r, c) \notin req[q].seen
                                       /\ TokenFor(r, c) \notin chainTx[q].burn

(* What is done outside the transaction precedes or follows its commit. *)
JobsInOrder ==
    \A r \in Requests :
        /\ req[r].phase = "ready" /\ Mints(r) => req[r].batch \subseteq queued
        /\ req[r].phase = "committed" => NoticesOf(r) \subseteq inbox

IInv == /\ TypeOK /\ RowsWellFormed /\ TargetsStand /\ IdsApart /\ PhasesMatch
        /\ LocksHold /\ SentIsBuilt /\ ChainConsistent /\ TokensFresh
        /\ JobsInOrder
        /\ ActiveFilesDistinct /\ TokensExist /\ InboxTellsHistory
        /\ ActivatedIsQueued /\ MailFollowsCommit
-----------------------------------------------------------------------------
(* A call mints or revokes, never both.                                    *)
MintOrBurn ==
    \A r \in Requests : chainTx[r].mint = {} \/ chainTx[r].burn = {}

(* A mint over a row that already has a token is mined only once that      *)
(* token is revoked: the file has one live token.                          *)
MintReplacesBurnt ==
    \A r \in Requests :
        req[r].phase \in Sent /\ Mints(r) /\ chainTx[r].status = "mined" =>
            \A c \in req[r].batch : rows[c].token \in burnt \cup {NoToken}

(* A revocation still has the token of each of its rows, or one it has     *)
(* read is revoked already and the contract will refuse the call.          *)
SeenStands ==
    \A r \in Requests : req[r].phase \in Working /\ req[r].op = "revoke" =>
        \A c \in req[r].batch :
            \/ rows[c].token \in req[r].seen
            \/ /\ req[r].seen \cap burnt # {}
               /\ ~(req[r].phase \in Sent /\ chainTx[r].status = "mined")

RInv == IInv /\ MintOrBurn /\ MintReplacesBurnt /\ SeenStands
-----------------------------------------------------------------------------
(* As long as a request survives from its send to its commit, it waits for *)
(* its transaction until the network has mined or reverted it.             *)
PendingIsAwaited ==
    \A r \in Requests : chainTx[r].status = "pending" => req[r].phase = "sent"

(* What the transaction of a running request mints is its batch's.         *)
MintIsOfBatch ==
    \A r \in Requests : req[r].phase \in {"idle"} \cup Working =>
        \A e \in chainTx[r].mint :
            /\ req[r].phase \in Sent /\ Mints(r)
            /\ e.uri \in req[r].batch /\ e.id = TokenFor(r, e.uri)

(* LiveTokensClaimed, with the request whose call was mined as the one     *)
(* that is about to commit.                                                *)
Claimed(e) ==
    \/ rows[e.uri].activated /\ rows[e.uri].token = e.id
    \/ \E r \in Requests : /\ req[r].phase \in Holding
                          /\ chainTx[r].status = "mined" /\ e \in chainTx[r].mint

LiveAreClaimed == \A e \in minted : e.id \in burnt \/ Claimed(e)

LInv == RInv /\ PendingIsAwaited /\ MintIsOfBatch /\ LiveAreClaimed
-----------------------------------------------------------------------------
(* The targets of a mint have different files.                             *)
BatchDistinct ==
    \A r \in Requests : req[r].phase \in Working /\ Mints(r) => Distinct(req[r].batch)

(* No two tokens share their id, in the registry or in a call.             *)
IdsDistinct ==
    /\ \A e, f \in minted : e.id = f.id => e = f
    /\ \A r \in Requests : \A e, f \in chainTx[r].mint : e.id = f.id => e = f

(* The content a mint copied is the one its request will commit.           *)
ContentStands ==
    \A r \in Requests : req[r].phase \in Sent /\ Mints(r) =>
        \A c \in req[r].batch : \E e \in chainTx[r].mint :
            e.id = TokenFor(r, c) /\ e.content = MintedContent(r, c)

MInv == /\ IInv /\ BatchDistinct /\ IdsDistinct /\ ContentStands /\ ChainMirrorsRow
        /\ \A r \in Requests : req[r].phase = "read" => req[r].op \in Operations
=============================================================================
