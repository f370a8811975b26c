---------------------- MODULE CredentialLifecycleProofs ----------------------
(***************************************************************************)
(* Proofs about CredentialLifecycle, for every set of credentials, files,  *)
(* officers and requests, and whatever handlers they call: its types; the  *)
(* inductive invariant IInv, one lemma per action, and the safety          *)
(* properties it contains; RInv, which adds what revocations know, and the *)
(* refinement of CredentialWorkflow; LInv, for tokens that no request      *)
(* orphans; and MInv, for the content that tokens copy.                    *)
(***************************************************************************)
EXTENDS CredentialLifecycleInvariant, TLAPS

LEMMA ConstantTypes ==
    /\ NoRow \in Row
    /\ NoTx \in ChainTx
    /\ \A p \in Phases : Inactive(p) \in Request
<1>1. (CHOOSE v \in Contents : TRUE) \in Contents
  BY InhabitedAssumption
<1>2. (CHOOSE o \in Officers : TRUE) \in Officers
  BY InhabitedAssumption
<1> QED
  BY <1>1, <1>2 DEF NoRow, Row, NoTx, ChainTx, Inactive, Request, Handlers

(* Ending a request or moving it to another phase keeps req well typed. *)
LEMMA EndType ==
    ASSUME TypeOK, NEW r \in Requests, End(r)
    PROVE  req' \in [Requests -> Request]
BY ConstantTypes DEF TypeOK, End, Phases

LEMMA MoveType ==
    ASSUME TypeOK, NEW r \in Requests, NEW p \in Phases, Move(r, p)
    PROVE  req' \in [Requests -> Request]
BY DEF TypeOK, Move, Request

LEMMA StartType ==
    ASSUME TypeOK, NEW r \in Requests, NEW op, NEW by \in Officers,
           NEW S \in SUBSET Creds, NEW v \in Contents, NEW seen \in SUBSET Token,
           Start(r, op, by, S, v, seen)
    PROVE  req' \in [Requests -> Request]
<1>1. op \in Handlers
  BY OperationsAssumption DEF Start
<1> QED
  BY <1>1 DEF TypeOK, Start, Request, Phases

(* The token of a request's mint is a token, and what it sends is typed. *)
LEMMA TokenForType ==
    ASSUME TypeOK, NEW r \in Requests, NEW c \in Creds
    PROVE  TokenFor(r, c) \in Token
BY HashOfAssumption DEF TypeOK, TokenFor, Token, Request, ChainTx

LEMMA PreparedType ==
    ASSUME TypeOK, NEW r \in Requests
    PROVE  Prepared(r) \in ChainTx
<1>1. /\ req[r] \in Request
      /\ req[r].by \in Officers
      /\ nonces[req[r].by] \in Nat
      /\ req[r].batch \subseteq Creds
      /\ req[r].seen \subseteq Token
  BY DEF TypeOK, Request
<1>2. ASSUME NEW c \in Creds
      PROVE  MintedContent(r, c) \in Contents
  BY <1>1 DEF TypeOK, MintedContent, Request, Row
<1>3. ASSUME NEW c \in Creds
      PROVE  [id |-> [issuer |-> req[r].by, nonce |-> nonces[req[r].by],
                      hash |-> HashOf[c]],
              uri |-> c, content |-> MintedContent(r, c)] \in Entry
  BY <1>1, <1>2, HashOfAssumption DEF Entry, Token
<1> QED
  BY <1>1, <1>3 DEF Prepared, ChainTx

LEMMA NewRowType ==
    ASSUME TypeOK, NEW r \in Requests, NEW c \in Creds
    PROVE  NewRow(r, c) \in Row
<1>1. /\ req[r].content \in Contents
      /\ rows[c] \in Row
      /\ TokenFor(r, c) \in Token
  BY TokenForType DEF TypeOK, Request
<1> QED
  BY <1>1, ConstantTypes DEF NewRow, Row

LEMMA NoticesOfType ==
    ASSUME TypeOK, NEW r \in Requests
    PROVE  NoticesOf(r) \subseteq Creds \X Notices
<1>1. Notice(r) \in Notices
  BY DEF Notice, Notices
<1> QED
  BY <1>1 DEF TypeOK, NoticesOf, Request

LEMMA InitType == Init => TypeOK
BY ConstantTypes DEF Init, TypeOK, Phases

LEMMA BeginType ==
    ASSUME TypeOK, NEW r \in Requests, Begin(r)
    PROVE  TypeOK'
<1> USE DEF dbVars, chainVars, jobVars
<1>1. PICK S \in SUBSET Creds : \/ ReadForIssue(r, S)
                                \/ \E op \in Handlers : ReadPending(r, op, S)
                                \/ ReadForRevoke(r, S)
  BY DEF Begin
<1>2. CASE ReadForIssue(r, S)
  <2>1. req' \in [Requests -> Request]
    BY <1>2, StartType DEF ReadForIssue
  <2> QED
    BY <1>2, <2>1 DEF TypeOK, ReadForIssue
<1>3. CASE \E op \in Handlers : ReadPending(r, op, S)
  <2>1. req' \in [Requests -> Request]
    BY <1>3, StartType DEF ReadPending
  <2> QED
    BY <1>3, <2>1 DEF TypeOK, ReadPending
<1>4. CASE ReadForRevoke(r, S)
  <2>1. {rows[c].token : c \in S} \ {NoToken} \in SUBSET Token
    BY DEF TypeOK, Row
  <2>2. req' \in [Requests -> Request]
    BY <1>4, <2>1, StartType DEF ReadForRevoke
  <2> QED
    BY <1>4, <2>2 DEF TypeOK, ReadForRevoke
<1> QED
  BY <1>1, <1>2, <1>3, <1>4

LEMMA StepType ==
    ASSUME TypeOK, NEW r \in Requests, Step(r)
    PROVE  TypeOK'
<1> USE DEF dbVars, chainVars, jobVars
<1>0. req[r].batch \subseteq Creds /\ req[r].content \in Contents
  BY DEF TypeOK, Request
<1>1. CASE Insert(r)
  <2>1. req' \in [Requests -> Request]
    BY <1>1, EndType, MoveType DEF Insert, Phases
  <2> QED
    BY <1>1, <2>1 DEF TypeOK, Insert
<1>2. CASE Write(r)
  <2>1. req' \in [Requests -> Request]
    BY <1>2, EndType, MoveType DEF Write, Phases
  <2> QED
    BY <1>2, <2>1 DEF TypeOK, Write
<1>3. CASE Edit(r)
  <2>1. req' \in [Requests -> Request]
    BY <1>3, EndType DEF Edit
  <2>2. rows' \in [Creds -> Row]
    BY <1>0, <1>3 DEF TypeOK, Edit, Row
  <2> QED
    BY <1>3, <2>1, <2>2 DEF TypeOK, Edit
<1>4. CASE Send(r)
  <2>1. req' \in [Requests -> Request]
    BY <1>4, EndType, MoveType DEF Send, Phases
  <2>2. chainTx' \in [Requests -> ChainTx]
    BY <1>4, PreparedType DEF TypeOK, Send
  <2> QED
    BY <1>4, <2>1, <2>2 DEF TypeOK, Send
<1>5. CASE Receipt(r)
  <2>1. req' \in [Requests -> Request]
    BY <1>5, EndType, MoveType DEF Receipt, Phases
  <2> QED
    BY <1>5, <2>1 DEF TypeOK, Receipt
<1>6. CASE EnqueueExtract(r)
  <2>1. req' \in [Requests -> Request]
    BY <1>6, EndType, MoveType DEF EnqueueExtract, Phases
  <2> QED
    BY <1>0, <1>6, <2>1 DEF TypeOK, EnqueueExtract
<1>7. CASE Commit(r)
  <2>1. req' \in [Requests -> Request]
    BY <1>7, MoveType DEF Commit, Phases
  <2>2. rows' \in [Creds -> Row]
    BY <1>7, NewRowType DEF TypeOK, Commit
  <2> QED
    BY <1>7, <2>1, <2>2, NoticesOfType DEF TypeOK, Commit
<1>8. CASE QueueMail(r)
  <2>1. req' \in [Requests -> Request]
    BY <1>8, EndType DEF QueueMail
  <2> QED
    BY <1>8, <2>1, NoticesOfType DEF TypeOK, QueueMail
<1> QED
  BY <1>1, <1>2, <1>3, <1>4, <1>5, <1>6, <1>7, <1>8 DEF Step

LEMMA MineType ==
    ASSUME TypeOK, NEW r \in Requests, Mine(r)
    PROVE  TypeOK'
<1>1. /\ chainTx[r] \in ChainTx
      /\ chainTx[r].mint \subseteq Entry
      /\ chainTx[r].burn \subseteq Token
      /\ chainTx[r].by \in Officers
  BY DEF TypeOK, ChainTx
<1>2. /\ [chainTx[r] EXCEPT !.status = "mined"] \in ChainTx
      /\ [chainTx[r] EXCEPT !.status = "reverted"] \in ChainTx
  BY <1>1 DEF ChainTx
<1>3. chainTx' \in [Requests -> ChainTx]
  BY <1>2 DEF TypeOK, Mine
<1>4. nonces' \in [Officers -> Nat]
  BY <1>1 DEF TypeOK, Mine, chainVars
<1>5. minted' \subseteq Entry /\ burnt' \subseteq Token
  BY <1>1 DEF TypeOK, Mine, chainVars
<1> QED
  BY <1>3, <1>4, <1>5 DEF TypeOK, Mine, dbVars, jobVars

LEMMA NextType == TypeOK /\ [Next]_vars => TypeOK'
<1> SUFFICES ASSUME TypeOK, [Next]_vars
             PROVE  TypeOK'
  OBVIOUS
<1> USE DEF dbVars, chainVars, jobVars
<1>1. ASSUME NEW S \in SUBSET Creds, Submit(S)
      PROVE  TypeOK'
  <2>1. \A v \in Contents : Pending(v) \in Row
    BY DEF Pending, Row
  <2> QED
    BY <1>1, <2>1 DEF TypeOK, Submit
<1>2. ASSUME NEW c \in Creds, Lapse(c)
      PROVE  TypeOK'
  BY <1>2 DEF TypeOK, Lapse
<1>3. ASSUME NEW r \in Requests, Fail(r)
      PROVE  TypeOK'
  <2>1. req' \in [Requests -> Request]
    BY <1>3, EndType DEF Fail
  <2> QED
    BY <1>3, <2>1 DEF TypeOK, Fail
<1>4. ASSUME UNCHANGED vars
      PROVE  TypeOK'
  BY <1>4 DEF TypeOK, vars
<1> QED
  BY <1>1, <1>2, <1>3, <1>4, BeginType, StepType, MineType DEF Next, Quiet

(* Type correctness of the whole lifecycle. *)
THEOREM TypeCorrect == Spec => []TypeOK
BY InitType, NextType, PTL DEF Spec
-----------------------------------------------------------------------------
(* The safety properties: IInv is inductive.                               *)

(* What ending, moving and starting a request does to req. *)
LEMMA EndFacts ==
    ASSUME TypeOK, NEW r \in Requests, End(r)
    PROVE  /\ req'[r].phase = "done" /\ req'[r].seen = {} /\ req'[r].op = "reject"
           /\ \A q \in Requests : q # r => req'[q] = req[q]
BY DEF TypeOK, End, Inactive

LEMMA MoveFacts ==
    ASSUME TypeOK, NEW r \in Requests, NEW p, Move(r, p)
    PROVE  /\ req'[r].phase = p /\ req'[r].op = req[r].op
           /\ req'[r].by = req[r].by /\ req'[r].batch = req[r].batch
           /\ req'[r].content = req[r].content /\ req'[r].seen = req[r].seen
           /\ \A q \in Requests : q # r => req'[q] = req[q]
BY DEF TypeOK, Move, Request

LEMMA StartFacts ==
    ASSUME TypeOK, NEW r \in Requests, NEW op, NEW by, NEW S, NEW v, NEW seen,
           Start(r, op, by, S, v, seen)
    PROVE  /\ req[r].phase = "idle" /\ S # {}
           /\ req'[r].phase = "read" /\ req'[r].op = op /\ req'[r].by = by
           /\ req'[r].batch = S /\ req'[r].seen = seen
           /\ \A q \in Requests : q # r => req'[q] = req[q]
BY DEF TypeOK, Start

LEMMA IInvInit == Init => IInv
<1> SUFFICES ASSUME Init
             PROVE  IInv
  OBVIOUS
<1>1. TypeOK
  BY InitType
<1>2. \A r \in Requests : req[r].phase = "idle" /\ req[r].seen = {}
  BY DEF Init, Inactive
<1>3. \A r \in Requests : chainTx[r].status = "none" /\ chainTx[r].mint = {}
                          /\ chainTx[r].burn = {}
  BY DEF Init, NoTx
<1>4. \A c \in Creds : /\ rows[c] = NoRow /\ ~rows[c].stored
                       /\ ~rows[c].activated /\ ~rows[c].rejected
                       /\ ~rows[c].revoked /\ rows[c].token = NoToken
  BY DEF Init, NoRow
<1>5. RowsWellFormed /\ ActiveFilesDistinct /\ TokensExist
  BY <1>4 DEF RowsWellFormed, ActiveFilesDistinct, Active, TokensExist
<1>6. /\ TargetsStand /\ IdsApart /\ PhasesMatch /\ LocksHold /\ SentIsBuilt
      /\ JobsInOrder
  BY <1>2 DEF TargetsStand, IdsApart, PhasesMatch, LocksHold, SentIsBuilt,
             JobsInOrder, Working, Holding, Sent
<1>7. ChainConsistent /\ TokensFresh
  BY <1>2, <1>3 DEF Init, ChainConsistent, TokensFresh, Sent
<1>8. InboxTellsHistory /\ ActivatedIsQueued /\ MailFollowsCommit
  BY <1>4 DEF Init, InboxTellsHistory, ActivatedIsQueued, MailFollowsCommit
<1> QED
  BY <1>1, <1>5, <1>6, <1>7, <1>8 DEF IInv

(* A request that ends, and at most queues jobs or e-mails that may be     *)
(* queued, disturbs nothing.                                               *)
LEMMA EndSafe ==
    ASSUME IInv, TypeOK', NEW r \in Requests, End(r),
           UNCHANGED <<drawn, rows, lapsed, inbox, chainTx, chainVars>>,
           queued \subseteq queued', mailed' \subseteq inbox
    PROVE  IInv'
<1> USE DEF chainVars, Working, Holding, Sent
<1>1. /\ req'[r].phase = "done" /\ req'[r].seen = {}
      /\ \A q \in Requests : q # r => req'[q] = req[q]
  BY EndFacts DEF IInv
<1>2. RowsWellFormed' /\ ActiveFilesDistinct' /\ TokensExist' /\ InboxTellsHistory'
  BY DEF IInv, RowsWellFormed, ActiveFilesDistinct, Active, TokensExist, InboxTellsHistory
<1>3. TargetsStand'
  BY <1>1 DEF IInv, TargetsStand
<1>4. IdsApart' /\ PhasesMatch'
  BY <1>1 DEF IInv, IdsApart, PhasesMatch, OnChain, Mints
<1>5. LocksHold'
  BY <1>1 DEF IInv, LocksHold, HashTaken, Active
<1>6. SentIsBuilt'
  BY <1>1 DEF IInv, SentIsBuilt, OnChain, Mints, TokenFor
<1>7. ChainConsistent'
  BY DEF IInv, ChainConsistent, MintedIds
<1>8. TokensFresh'
  BY <1>1 DEF IInv, TokensFresh, Mints, TokenFor, MintedIds
<1>9. JobsInOrder' /\ ActivatedIsQueued' /\ MailFollowsCommit'
  BY <1>1 DEF IInv, JobsInOrder, Mints, NoticesOf, Notice, ActivatedIsQueued,
              MailFollowsCommit
<1> QED
  BY <1>2, <1>3, <1>4, <1>5, <1>6, <1>7, <1>8, <1>9 DEF IInv

(* A request that has read its targets, or starts to. *)
LEMMA SubmitSafe ==
    ASSUME IInv, TypeOK', NEW S \in SUBSET Creds, Submit(S)
    PROVE  IInv'
<1> USE DEF chainVars, jobVars, Working, Holding, Sent
<1>0. PICK v \in Contents :
         rows' = [c \in Creds |-> IF c \in S THEN Pending(v) ELSE rows[c]]
  BY DEF Submit
<1>1. \A c \in S :
         /\ c \in Creds /\ c \notin drawn /\ ~rows[c].stored /\ rows[c] = NoRow
         /\ ~rows[c].activated /\ ~rows[c].rejected /\ ~rows[c].revoked
         /\ rows[c].token = NoToken
  BY DEF Submit, IInv, RowsWellFormed, NoRow
<1>2. \A c \in S :
         /\ rows'[c].stored /\ ~rows'[c].activated
         /\ ~rows'[c].rejected /\ ~rows'[c].revoked
         /\ rows'[c].token = NoToken
  BY <1>0 DEF Pending
<1>3. \A c \in Creds : c \notin S => rows'[c] = rows[c]
  BY <1>0
<1>4. /\ drawn' = drawn \cup S
      /\ UNCHANGED <<lapsed, inbox, req, chainTx, minted, burnt, nonces, queued, mailed>>
  BY DEF Submit
<1>5. \A c \in Creds :
         /\ rows'[c].activated <=> rows[c].activated
         /\ rows'[c].rejected <=> rows[c].rejected
         /\ rows'[c].revoked <=> rows[c].revoked
         /\ rows'[c].token = rows[c].token
         /\ rows[c].stored => rows'[c].stored
  BY <1>1, <1>2, <1>3
<1>6. RowsWellFormed'
  BY <1>1, <1>2, <1>3, <1>4 DEF IInv, RowsWellFormed
<1>7. ActiveFilesDistinct'
  <2> SUFFICES ASSUME NEW c \in Creds, NEW d \in Creds, Active(c)', Active(d)',
                      HashOf[c] = HashOf[d]
               PROVE  c = d
    BY DEF ActiveFilesDistinct
  <2>1. \A e \in S : ~HashTaken(HashOf[e])
    BY DEF Submit
  <2>2. \A e \in Creds : Active(e)' /\ e \notin S => Active(e)
    BY <1>3 DEF Active
  <2>3. CASE c \in S /\ d \in S
    BY <2>3 DEF Submit, Distinct
  <2>4. CASE c \notin S /\ d \notin S
    BY <2>2, <2>4 DEF IInv, ActiveFilesDistinct
  <2>5. CASE (c \in S /\ d \notin S) \/ (c \notin S /\ d \in S)
    BY <2>1, <2>2, <2>5 DEF HashTaken
  <2> QED
    BY <2>3, <2>4, <2>5
<1>8. TokensExist' /\ InboxTellsHistory'
  BY <1>4, <1>5 DEF IInv, TokensExist, InboxTellsHistory
<1>9. TargetsStand'
  <2>1. ASSUME NEW r \in Requests, NEW c \in req[r].batch
        PROVE  /\ c \in Creds
               /\ c \in drawn /\ ~rows[c].stored => ~rows'[c].stored
    BY <1>1, <1>3 DEF IInv, TypeOK, Request
  <2> QED
    BY <1>4, <1>5, <2>1 DEF IInv, TargetsStand, Distinct
<1>10. IdsApart' /\ PhasesMatch' /\ SentIsBuilt'
  BY <1>4 DEF IInv, IdsApart, PhasesMatch, SentIsBuilt, OnChain, Mints, TokenFor
<1>11. LocksHold'
  <2>1. ASSUME NEW r \in Requests, req[r].phase \in Holding, req[r].op = "issue",
               NEW c \in req[r].batch
        PROVE  ~HashTaken(HashOf[c])'
    <3>1. c \in Creds /\ ~rows[c].stored /\ Locked(c) /\ ~HashTaken(HashOf[c])
      BY <2>1 DEF IInv, TypeOK, Request, TargetsStand, LocksHold, Locked, Holds
    <3>2. HashInDoubt(HashOf[c])
      BY <3>1 DEF HashInDoubt
    <3>3. \A d \in S : HashOf[d] # HashOf[c]
      BY <3>2 DEF Submit
    <3> QED
      BY <1>3, <3>1, <3>3 DEF HashTaken, Active
  <2> QED
    BY <1>4, <1>5, <2>1 DEF IInv, LocksHold, TypeOK, Request
<1>12. ChainConsistent' /\ TokensFresh'
  BY <1>4, <1>5 DEF IInv, ChainConsistent, TokensFresh, MintedIds, Mints, TokenFor
<1>13. JobsInOrder' /\ ActivatedIsQueued' /\ MailFollowsCommit'
  BY <1>4, <1>5 DEF IInv, JobsInOrder, Mints, NoticesOf, Notice, ActivatedIsQueued,
                    MailFollowsCommit
<1> QED
  BY <1>6, <1>7, <1>8, <1>9, <1>10, <1>11, <1>12, <1>13 DEF IInv

LEMMA StartSafe ==
    ASSUME IInv, TypeOK', NEW r \in Requests, NEW op \in Handlers, NEW by \in Officers,
           NEW S \in SUBSET Creds, NEW v \in Contents, NEW seen \in SUBSET MintedIds,
           Start(r, op, by, S, v, seen),
           drawn \subseteq drawn',
           UNCHANGED <<rows, lapsed, inbox, chainTx, chainVars, jobVars>>,
           op = "issue" => /\ S \subseteq drawn' /\ S \cap drawn = {} /\ Distinct(S),
           op # "issue" => \A c \in S : rows[c].stored,
           op # "revoke" => seen = {},
           op = "revoke" => \A c \in S : /\ rows[c].activated
                                         /\ \E e \in minted : e.uri = c /\ e.id \in seen,
           \A q \in Requests : req[q].phase \in Sent /\ Mints(q) /\ chainTx[q].status = "mined"
               => \A c \in req[q].batch : TokenFor(q, c) \notin seen
    PROVE  IInv'
<1> USE DEF chainVars, jobVars, Working, Holding, Sent
<1>1. /\ req[r].phase = "idle" /\ S # {}
      /\ req'[r].phase = "read" /\ req'[r].op = op
      /\ req'[r].batch = S /\ req'[r].seen = seen
      /\ \A q \in Requests : q # r => req'[q] = req[q]
  BY StartFacts DEF IInv
<1>2. ActiveFilesDistinct' /\ TokensExist' /\ InboxTellsHistory' /\ RowsWellFormed'
  BY DEF IInv, RowsWellFormed, ActiveFilesDistinct, Active, TokensExist, InboxTellsHistory
<1>3. TargetsStand'
  BY <1>1 DEF IInv, TargetsStand, RowsWellFormed
<1>4. IdsApart'
  BY <1>1 DEF IInv, IdsApart, TargetsStand
<1>5. PhasesMatch'
  BY <1>1 DEF IInv, PhasesMatch, OnChain, Mints
<1>6. LocksHold'
  BY <1>1 DEF IInv, LocksHold, HashTaken, Active
<1>7. SentIsBuilt'
  BY <1>1 DEF IInv, SentIsBuilt, OnChain, Mints, TokenFor
<1>8. ChainConsistent'
  BY DEF IInv, ChainConsistent, MintedIds
<1>9. TokensFresh'
  <2>1. \A q \in Requests : req'[q].seen \subseteq MintedIds'
    BY <1>1 DEF IInv, TokensFresh, MintedIds
  <2>2. ASSUME NEW q \in Requests, req'[q].phase \in Sent, Mints(q)',
               chainTx'[q].status = "mined", NEW c \in req'[q].batch
        PROVE  /\ TokenFor(q, c)' \notin burnt'
               /\ \A d \in Creds : rows'[d].token # TokenFor(q, c)'
               /\ \A p \in Requests : /\ TokenFor(q, c)' \notin req'[p].seen
                                      /\ TokenFor(q, c)' \notin chainTx'[p].burn
    <3>1. /\ q # r /\ req'[q] = req[q] /\ Mints(q) /\ chainTx[q].status = "mined"
          /\ TokenFor(q, c)' = TokenFor(q, c)
      BY <1>1, <2>2 DEF Mints, TokenFor
    <3>2. TokenFor(q, c) \notin seen
      BY <2>2, <3>1
    <3> QED
      BY <1>1, <2>2, <3>1, <3>2 DEF IInv, TokensFresh
  <2> QED
    BY <2>1, <2>2 DEF TokensFresh
<1>10. JobsInOrder' /\ ActivatedIsQueued' /\ MailFollowsCommit'
  BY <1>1 DEF IInv, JobsInOrder, Mints, NoticesOf, Notice, ActivatedIsQueued,
              MailFollowsCommit
<1> QED
  BY <1>2, <1>3, <1>4, <1>5, <1>6, <1>7, <1>8, <1>9, <1>10 DEF IInv

(* The three ways a request starts. *)
LEMMA BeginSafe ==
    ASSUME IInv, TypeOK', NEW r \in Requests, Begin(r)
    PROVE  IInv'
<1> USE DEF dbVars, chainVars, jobVars
<1>1. PICK S \in SUBSET Creds : \/ ReadForIssue(r, S)
                                \/ \E op \in Handlers : ReadPending(r, op, S)
                                \/ ReadForRevoke(r, S)
  BY DEF Begin
<1>2. CASE ReadForIssue(r, S)
  <2>1. PICK by \in Officers, v \in Contents : Start(r, "issue", by, S, v, {})
    BY <1>2 DEF ReadForIssue
  <2> QED
    BY <1>2, <2>1, StartSafe DEF ReadForIssue, Handlers
<1>3. CASE \E op \in Handlers : ReadPending(r, op, S)
  <2>1. PICK op \in Handlers : ReadPending(r, op, S)
    BY <1>3
  <2>2. PICK by \in Officers, v \in Contents : Start(r, op, by, S, v, {})
    BY <2>1 DEF ReadPending
  <2>3. /\ op # "issue" /\ op # "revoke"
        /\ \A c \in S : rows[c].stored
        /\ drawn \subseteq drawn'
        /\ UNCHANGED <<rows, lapsed, inbox, chainTx, chainVars, jobVars>>
    BY <2>1 DEF ReadPending
  <2>4. \A q \in Requests : \A c \in req[q].batch : TokenFor(q, c) \notin {}
    OBVIOUS
  <2>5. {} \in SUBSET MintedIds
    OBVIOUS
  <2> QED
    BY <2>2, <2>3, <2>4, <2>5, StartSafe
<1>4. CASE ReadForRevoke(r, S)
  <2> DEFINE seen == {rows[c].token : c \in S} \ {NoToken}
  <2>1. PICK by \in Officers, v \in Contents : Start(r, "revoke", by, S, v, seen)
    BY <1>4 DEF ReadForRevoke
  <2>2. ASSUME NEW c \in S
        PROVE  /\ rows[c].stored /\ rows[c].activated /\ rows[c].token # NoToken
               /\ rows[c].token \in seen
               /\ \E e \in minted : e.uri = c /\ e.id = rows[c].token
    BY <1>4 DEF ReadForRevoke, IInv, RowsWellFormed, TokensExist
  <2>3. seen \in SUBSET MintedIds
    BY <2>2 DEF MintedIds
  <2>4. ASSUME NEW q \in Requests, req[q].phase \in Sent, Mints(q),
               chainTx[q].status = "mined", NEW c \in req[q].batch
        PROVE  TokenFor(q, c) \notin seen
    BY <2>4 DEF IInv, TokensFresh
  <2>5. \A c \in S : rows[c].stored /\ rows[c].activated
                     /\ \E e \in minted : e.uri = c /\ e.id \in seen
    BY <2>2
  <2> HIDE DEF seen
  <2>6. UNCHANGED <<drawn, rows, lapsed, inbox, chainTx, chainVars, jobVars>>
    BY <1>4 DEF ReadForRevoke
  <2> QED
    BY <2>1, <2>3, <2>4, <2>5, <2>6, StartSafe DEF Handlers
<1> QED
  BY <1>1, <1>2, <1>3, <1>4

(* A request moves on: what has to hold of it in its new phase. *)
LEMMA MoveSafe ==
    ASSUME IInv, TypeOK', NEW r \in Requests, NEW p \in Holding, Move(r, p),
           req[r].phase \in Working,
           UNCHANGED <<drawn, rows, lapsed, inbox, chainTx, chainVars, mailed>>,
           queued \subseteq queued',
           \A c \in req[r].batch :
              /\ req[r].op = "approve" => ~rows[c].rejected
              /\ req[r].op = "reject" => ~rows[c].activated
              /\ req[r].op = "issue" => ~HashTaken(HashOf[c]),
           \A q \in Requests : q # r /\ req[q].phase \in Holding =>
              /\ req[r].batch \cap req[q].batch = {}
              /\ req[r].op = "issue" /\ req[q].op = "issue" =>
                   \A c \in req[r].batch, d \in req[q].batch : HashOf[c] # HashOf[d],
           p \in {"written", "sent"} => OnChain(r),
           p = "minted" => Mints(r),
           p = "ready" => req[r].op # "update",
           p \in Sent /\ OnChain(r) => req[r].phase \in Sent,
           p \in {"minted", "ready"} /\ OnChain(r) => chainTx[r].status = "mined",
           p = "ready" /\ Mints(r) => req[r].batch \subseteq queued'
    PROVE  IInv'
<1> USE DEF chainVars, Working, Holding, Sent
<1>1. /\ req'[r].phase = p /\ req'[r].op = req[r].op
      /\ req'[r].by = req[r].by /\ req'[r].batch = req[r].batch
      /\ req'[r].seen = req[r].seen
      /\ \A q \in Requests : q # r => req'[q] = req[q]
  BY MoveFacts DEF IInv
<1>2. RowsWellFormed' /\ ActiveFilesDistinct' /\ TokensExist' /\ InboxTellsHistory'
  BY DEF IInv, RowsWellFormed, ActiveFilesDistinct, Active, TokensExist, InboxTellsHistory
<1>3. TargetsStand'
  BY <1>1 DEF IInv, TargetsStand
<1>4. IdsApart'
  BY <1>1 DEF IInv, IdsApart
<1>5. PhasesMatch'
  BY <1>1 DEF IInv, PhasesMatch, OnChain, Mints
<1>6. LocksHold'
  BY <1>1 DEF IInv, LocksHold, HashTaken, Active
<1>7. SentIsBuilt'
  <2>1. \A q \in Requests, c \in Creds : TokenFor(q, c)' = TokenFor(q, c)
    BY <1>1 DEF TokenFor
  <2>2. \A q \in Requests : (Mints(q)' <=> Mints(q)) /\ (OnChain(q)' <=> OnChain(q))
    BY <1>1 DEF Mints, OnChain
  <2>3. \A q \in Requests : /\ req'[q].batch = req[q].batch /\ req'[q].op = req[q].op
                            /\ req'[q].by = req[q].by /\ req'[q].seen = req[q].seen
                            /\ req[q].batch \subseteq Creds
    BY <1>1 DEF IInv, TypeOK, Request
  <2>4. ASSUME NEW q \in Requests, req'[q].phase \in Sent, OnChain(q)'
        PROVE  /\ req[q].phase \in Sent /\ OnChain(q)
               /\ req'[q].phase # "sent" => chainTx[q].status = "mined"
    BY <1>1, <2>2, <2>4 DEF IInv, SentIsBuilt
  <2> QED
    BY <2>1, <2>2, <2>3, <2>4 DEF IInv, SentIsBuilt
<1>8. ChainConsistent'
  BY DEF IInv, ChainConsistent, MintedIds
<1>9. TokensFresh'
  <2>1. \A q \in Requests : req'[q].seen = req[q].seen /\ req'[q].batch = req[q].batch
    BY <1>1
  <2>2. \A q \in Requests, c \in Creds : TokenFor(q, c)' = TokenFor(q, c)
    BY <1>1 DEF TokenFor
  <2>3. \A q \in Requests : req'[q].phase \in Sent /\ Mints(q)' =>
                              req[q].phase \in Sent /\ Mints(q)
    BY <1>1 DEF Mints, OnChain
  <2> QED
    BY <2>1, <2>2, <2>3 DEF IInv, TypeOK, Request, TokensFresh, MintedIds
<1>10. JobsInOrder' /\ ActivatedIsQueued' /\ MailFollowsCommit'
  BY <1>1 DEF IInv, JobsInOrder, Mints, NoticesOf, Notice, ActivatedIsQueued,
              MailFollowsCommit
<1> QED
  BY <1>2, <1>3, <1>4, <1>5, <1>6, <1>7, <1>8, <1>9, <1>10 DEF IInv

(* Time alone changes nothing that matters. *)
LEMMA LapseSafe ==
    ASSUME IInv, TypeOK', NEW c \in Creds, Lapse(c)
    PROVE  IInv'
<1>1. UNCHANGED <<drawn, rows, inbox, req, chainTx, minted, burnt, nonces, queued, mailed>>
  BY DEF Lapse, chainVars, jobVars
<1>2. RowsWellFormed' /\ ActiveFilesDistinct' /\ TokensExist' /\ InboxTellsHistory'
  BY <1>1 DEF IInv, RowsWellFormed, ActiveFilesDistinct, Active, TokensExist, InboxTellsHistory
<1>3. TargetsStand' /\ IdsApart' /\ PhasesMatch' /\ LocksHold'
  BY <1>1 DEF IInv, TargetsStand, IdsApart, PhasesMatch, LocksHold, OnChain, Mints,
              HashTaken, Active
<1>4. /\ SentIsBuilt'
      /\ ChainConsistent'
      /\ TokensFresh'
  <2>1. SentIsBuilt'
    BY <1>1 DEF IInv, SentIsBuilt, OnChain, Mints, TokenFor
  <2>2. ChainConsistent'
    BY <1>1 DEF IInv, ChainConsistent, MintedIds
  <2>3. TokensFresh'
    BY <1>1 DEF IInv, TokensFresh, Mints, TokenFor, MintedIds
  <2> QED
    BY <2>1, <2>2, <2>3
<1>5. JobsInOrder' /\ ActivatedIsQueued' /\ MailFollowsCommit'
  BY <1>1 DEF IInv, JobsInOrder, Mints, NoticesOf, Notice, ActivatedIsQueued,
              MailFollowsCommit
<1> QED
  BY <1>2, <1>3, <1>4, <1>5 DEF IInv

(* An edit touches the content of its rows only. *)
LEMMA EditSafe ==
    ASSUME IInv, TypeOK', NEW r \in Requests, Edit(r)
    PROVE  IInv'
<1> USE DEF Working, Holding, Sent
<1>1. /\ req[r].phase = "read" /\ req[r].op = "update" /\ End(r)
      /\ UNCHANGED <<drawn, inbox, chainTx, minted, burnt, nonces, queued, mailed>>
  BY DEF Edit, chainVars, jobVars
<1>2. /\ req'[r].phase = "done" /\ req'[r].seen = {}
      /\ \A q \in Requests : q # r => req'[q] = req[q]
  BY <1>1, EndFacts DEF IInv
<1>3. \A c \in Creds :
         /\ rows'[c].stored <=> rows[c].stored
         /\ rows'[c].activated <=> rows[c].activated
         /\ rows'[c].rejected <=> rows[c].rejected
         /\ rows'[c].revoked <=> rows[c].revoked
         /\ rows'[c].token = rows[c].token
         /\ ~rows[c].stored => rows'[c] = rows[c]
  <2>1. \A c \in req[r].batch : rows[c].stored
    BY <1>1 DEF IInv, TargetsStand
  <2> QED
    BY <2>1 DEF Edit, IInv, TypeOK, Row
<1>4. RowsWellFormed' /\ TokensExist' /\ InboxTellsHistory'
  BY <1>1, <1>3 DEF IInv, RowsWellFormed, TokensExist, InboxTellsHistory
<1>5. \A c \in Creds : Active(c)' <=> Active(c)
  BY <1>3 DEF Active
<1>6. ActiveFilesDistinct'
  BY <1>5 DEF IInv, ActiveFilesDistinct
<1>7. TargetsStand'
  BY <1>1, <1>2, <1>3 DEF IInv, TypeOK, Request, TargetsStand
<1>8. IdsApart' /\ PhasesMatch'
  BY <1>2 DEF IInv, IdsApart, PhasesMatch, OnChain, Mints
<1>9. LocksHold'
  <2>1. \A c \in Creds : HashTaken(HashOf[c])' <=> HashTaken(HashOf[c])
    BY <1>5 DEF HashTaken
  <2>2. \A q \in Requests : /\ req'[q].phase \in Holding => req'[q] = req[q]
                            /\ req[q].batch \subseteq Creds
    BY <1>2 DEF IInv, TypeOK, Request
  <2> QED
    BY <1>3, <2>1, <2>2 DEF IInv, LocksHold
<1>10. SentIsBuilt' /\ ChainConsistent'
  BY SMTT(30), <1>1, <1>2 DEF IInv, SentIsBuilt, ChainConsistent, OnChain, Mints, TokenFor, MintedIds
<1>11. TokensFresh'
  BY SMTT(30), <1>1, <1>2, <1>3 DEF IInv, TokensFresh, Mints, TokenFor, MintedIds
<1>12. JobsInOrder' /\ ActivatedIsQueued' /\ MailFollowsCommit'
  BY <1>1, <1>2, <1>3 DEF IInv, JobsInOrder, Mints, NoticesOf, Notice, ActivatedIsQueued,
              MailFollowsCommit
<1> QED
  BY <1>4, <1>6, <1>7, <1>8, <1>9, <1>10, <1>11, <1>12 DEF IInv

(* The index entries and row locks that Insert and Write take. *)
LEMMA InsertSafe ==
    ASSUME IInv, TypeOK', NEW r \in Requests, Insert(r)
    PROVE  IInv'
<1> USE DEF Working, Holding, Sent
<1>0. /\ req[r].phase = "read" /\ req[r].op = "issue"
      /\ \A c \in req[r].batch : ~HashInDoubt(HashOf[c])
      /\ req[r].batch \subseteq Creds
      /\ UNCHANGED <<drawn, rows, lapsed, inbox, chainTx, minted, burnt, nonces, queued, mailed>>
  BY DEF Insert, dbVars, chainVars, jobVars, IInv, TypeOK, Request
<1>1. CASE End(r)
  BY <1>0, <1>1, EndSafe DEF chainVars, IInv, MailFollowsCommit
<1>2. CASE Move(r, "written") /\ \A c \in req[r].batch : ~HashTaken(HashOf[c])
  <2>1. ASSUME NEW q \in Requests, q # r, req[q].phase \in Holding
        PROVE  /\ req[r].batch \cap req[q].batch = {}
               /\ req[q].op = "issue" =>
                    \A c \in req[r].batch, d \in req[q].batch : HashOf[c] # HashOf[d]
    <3>1. req[q].batch \subseteq Creds
      BY DEF IInv, TypeOK, Request
    <3>2. \A d \in req[q].batch : Locked(d)
      BY <2>1 DEF Locked, Holds
    <3>3. CASE req[q].op = "issue"
      <4>1. \A d \in req[q].batch : ~rows[d].stored
        BY <2>1, <3>3 DEF IInv, TargetsStand
      <4> QED
        BY <1>0, <2>1, <3>1, <3>2, <3>3, <4>1 DEF HashInDoubt
    <3>4. CASE req[q].op # "issue"
      BY <1>0, <2>1, <3>4 DEF IInv, TargetsStand
    <3> QED
      BY <3>3, <3>4
  <2> QED
    BY <1>0, <1>2, <2>1, MoveSafe DEF chainVars, OnChain
<1> QED
  BY <1>1, <1>2 DEF Insert

LEMMA WriteSafe ==
    ASSUME IInv, TypeOK', NEW r \in Requests, Write(r)
    PROVE  IInv'
<1> USE DEF Working, Holding, Sent
<1>0. /\ req[r].phase = "read" /\ req[r].op \in {"approve", "reject", "revoke"}
      /\ \A c \in req[r].batch : ~Locked(c)
      /\ req[r].batch \subseteq Creds
      /\ UNCHANGED <<drawn, rows, lapsed, inbox, chainTx, minted, burnt, nonces, queued, mailed>>
  BY DEF Write, dbVars, chainVars, jobVars, IInv, TypeOK, Request
<1>1. CASE End(r)
  BY <1>0, <1>1, EndSafe DEF chainVars, IInv, MailFollowsCommit
<1>2. CASE /\ \A c \in req[r].batch : ~Refused(r, c)
           /\ Move(r, IF OnChainToo(r) THEN "written" ELSE "ready")
  <2>1. \A q \in Requests : q # r /\ req[q].phase \in Holding =>
                              req[r].batch \cap req[q].batch = {}
    BY <1>0 DEF Locked, Holds
  <2>2. ~OnChainToo(r) => req[r].op = "reject"
    <3>1. req[r].op = "revoke" => req[r].seen # {}
      BY <1>0 DEF IInv, TargetsStand
    <3> QED
      BY <1>0, <3>1 DEF OnChainToo
  <2>3. req[r].op = "reject" => ~OnChainToo(r)
    BY <1>0 DEF OnChainToo, IInv, PhasesMatch
  <2>4. CASE OnChainToo(r)
    BY <1>0, <1>2, <2>1, <2>3, <2>4, MoveSafe DEF chainVars, OnChain, Refused
  <2>5. CASE ~OnChainToo(r)
    BY <1>0, <1>2, <2>1, <2>2, <2>5, MoveSafe DEF chainVars, OnChain, Mints, Refused
  <2> QED
    BY <2>4, <2>5
<1> QED
  BY <1>1, <1>2 DEF Write

(* What a request relays is built from its targets and its signer's nonce. *)
LEMMA PreparedFacts ==
    ASSUME IInv, NEW r \in Requests
    PROVE  /\ Prepared(r).status = "pending"
           /\ Prepared(r).by = req[r].by
           /\ Prepared(r).nonce = nonces[req[r].by]
           /\ req[r].op = "revoke" => /\ Prepared(r).burn = req[r].seen
                                      /\ Prepared(r).mint = {}
           /\ req[r].op # "revoke" =>
                /\ Prepared(r).burn = {}
                /\ \A c \in req[r].batch : \E e \in Prepared(r).mint :
                     /\ e.uri = c
                     /\ e.id = [issuer |-> req[r].by, nonce |-> nonces[req[r].by],
                                hash |-> HashOf[c]]
           /\ \A e \in Prepared(r).mint : /\ e.id.issuer = req[r].by
                                          /\ e.id.nonce = nonces[req[r].by]
<1>1. ASSUME req[r].op # "revoke", NEW c \in req[r].batch
      PROVE  [id |-> [issuer |-> req[r].by, nonce |-> nonces[req[r].by],
                      hash |-> HashOf[c]],
              uri |-> c, content |-> MintedContent(r, c)] \in Prepared(r).mint
  BY <1>1 DEF Prepared
<1>2. ASSUME NEW e \in Prepared(r).mint
      PROVE  e.id.issuer = req[r].by /\ e.id.nonce = nonces[req[r].by]
  <2>1. PICK c \in req[r].batch :
           e = [id |-> [issuer |-> req[r].by, nonce |-> nonces[req[r].by],
                        hash |-> HashOf[c]],
                uri |-> c, content |-> MintedContent(r, c)]
    BY <1>2 DEF Prepared
  <2> QED
    BY <2>1
<1>3. /\ Prepared(r).status = "pending"
      /\ Prepared(r).by = req[r].by
      /\ Prepared(r).nonce = nonces[req[r].by]
      /\ req[r].op = "revoke" => Prepared(r).burn = req[r].seen /\ Prepared(r).mint = {}
      /\ req[r].op # "revoke" => Prepared(r).burn = {}
  BY DEF Prepared
<1>4. ASSUME req[r].op # "revoke", NEW c \in req[r].batch
      PROVE  \E e \in Prepared(r).mint :
                /\ e.uri = c
                /\ e.id = [issuer |-> req[r].by, nonce |-> nonces[req[r].by],
                           hash |-> HashOf[c]]
  BY <1>1, <1>4
<1> QED
  BY <1>2, <1>3, <1>4

LEMMA SendSafe ==
    ASSUME IInv, TypeOK', NEW r \in Requests, Send(r)
    PROVE  IInv'
<1> USE DEF Working, Holding, Sent
<1>0. /\ req[r].phase = "written" /\ OnChain(r)
      /\ UNCHANGED <<drawn, rows, lapsed, inbox, minted, burnt, nonces, queued, mailed>>
  BY DEF Send, dbVars, chainVars, jobVars, IInv, PhasesMatch
<1>1. CASE End(r) /\ UNCHANGED chainTx
  BY <1>0, <1>1, EndSafe DEF chainVars, IInv, MailFollowsCommit
<1>2. CASE /\ Valid(Prepared(r)) /\ Move(r, "sent")
           /\ chainTx' = [chainTx EXCEPT ![r] = Prepared(r)]
  <2>1. /\ req'[r].phase = "sent" /\ req'[r].op = req[r].op
        /\ req'[r].by = req[r].by /\ req'[r].batch = req[r].batch
        /\ req'[r].seen = req[r].seen
        /\ \A q \in Requests : q # r => req'[q] = req[q]
    BY <1>2, MoveFacts DEF IInv
  <2>2. /\ chainTx'[r] = Prepared(r)
        /\ \A q \in Requests : q # r => chainTx'[q] = chainTx[q]
    BY <1>2 DEF IInv, TypeOK
  <2>3. Prepared(r).burn \subseteq MintedIds
    BY <1>2, PreparedFacts DEF Valid, MintedIds
  <2>4. RowsWellFormed' /\ ActiveFilesDistinct' /\ TokensExist' /\ InboxTellsHistory'
    BY <1>0 DEF IInv, RowsWellFormed, ActiveFilesDistinct, Active, TokensExist,
                InboxTellsHistory
  <2>5. TargetsStand' /\ IdsApart'
    BY <1>0, <2>1 DEF IInv, TargetsStand, IdsApart
  <2>6. PhasesMatch'
    BY <1>0, <2>1 DEF IInv, PhasesMatch, OnChain, Mints
  <2>7. LocksHold'
    BY <1>0, <2>1 DEF IInv, LocksHold, HashTaken, Active
  <2>8. \A q \in Requests, c \in Creds : q # r => TokenFor(q, c)' = TokenFor(q, c)
    BY <2>1, <2>2 DEF TokenFor
  <2>9. \A c : TokenFor(r, c)' = [issuer |-> req[r].by, nonce |-> nonces[req[r].by],
                                  hash |-> HashOf[c]]
    BY <2>1, <2>2, PreparedFacts DEF TokenFor
  <2>10. SentIsBuilt'
    <3>1. ASSUME NEW q \in Requests, q # r, req'[q].phase \in Sent, OnChain(q)'
          PROVE  /\ chainTx'[q].status # "none"
                 /\ chainTx'[q].by = req'[q].by
                 /\ req'[q].op = "revoke" => chainTx'[q].burn = req'[q].seen
                 /\ Mints(q)' => \A c \in req'[q].batch : \E e \in chainTx'[q].mint :
                                    e.id = TokenFor(q, c)' /\ e.uri = c
                 /\ req'[q].phase # "sent" => chainTx'[q].status = "mined"
      <4>1. req[q].batch \subseteq Creds
        BY DEF IInv, TypeOK, Request
      <4> QED
        BY <2>1, <2>2, <2>8, <3>1, <4>1 DEF IInv, SentIsBuilt, OnChain, Mints
    <3>2. /\ chainTx'[r].status # "none"
          /\ chainTx'[r].by = req'[r].by
          /\ req'[r].op = "revoke" => chainTx'[r].burn = req'[r].seen
          /\ Mints(r)' => \A c \in req'[r].batch : \E e \in chainTx'[r].mint :
                                    e.id = TokenFor(r, c)' /\ e.uri = c
      BY <2>1, <2>2, <2>9, PreparedFacts DEF Mints
    <3> QED
      BY <2>1, <3>1, <3>2 DEF SentIsBuilt
  <2>11. ChainConsistent'
    BY <1>0, <2>2, <2>3, PreparedFacts DEF IInv, ChainConsistent, MintedIds
  <2>12. TokensFresh'
    <3>1. \A q \in Requests : req'[q].seen \subseteq MintedIds'
      BY <1>0, <2>1 DEF IInv, TokensFresh, MintedIds
    <3>2. ASSUME NEW q \in Requests, req'[q].phase \in Sent, Mints(q)',
                 chainTx'[q].status = "mined", NEW c \in req'[q].batch
          PROVE  /\ TokenFor(q, c)' \notin burnt'
                 /\ \A d \in Creds : rows'[d].token # TokenFor(q, c)'
                 /\ \A p \in Requests : /\ TokenFor(q, c)' \notin req'[p].seen
                                        /\ TokenFor(q, c)' \notin chainTx'[p].burn
      <4>1. q # r
        BY <2>2, <3>2, PreparedFacts
      <4>2. /\ req[q].phase \in Sent /\ Mints(q) /\ chainTx[q].status = "mined"
            /\ c \in req[q].batch /\ TokenFor(q, c)' = TokenFor(q, c)
        BY <2>1, <2>2, <2>8, <3>2, <4>1 DEF Mints, IInv, TypeOK, Request
      <4>3. /\ TokenFor(q, c) \notin burnt
            /\ \A d \in Creds : rows[d].token # TokenFor(q, c)
            /\ \A p \in Requests : /\ TokenFor(q, c) \notin req[p].seen
                                   /\ TokenFor(q, c) \notin chainTx[p].burn
        BY <4>2 DEF IInv, TokensFresh
      <4>4. TokenFor(q, c) \notin Prepared(r).burn
        BY <4>3, PreparedFacts
      <4> QED
        BY <1>0, <2>1, <2>2, <4>2, <4>3, <4>4
    <3> QED
      BY <3>1, <3>2 DEF TokensFresh
  <2>13. JobsInOrder' /\ ActivatedIsQueued' /\ MailFollowsCommit'
    BY <1>0, <2>1 DEF IInv, JobsInOrder, Mints, NoticesOf, Notice, ActivatedIsQueued,
                      MailFollowsCommit
  <2> QED
    BY <2>4, <2>5, <2>6, <2>7, <2>10, <2>11, <2>12, <2>13 DEF IInv
<1> QED
  BY <1>1, <1>2 DEF Send

LEMMA ReceiptSafe ==
    ASSUME IInv, TypeOK', NEW r \in Requests, Receipt(r)
    PROVE  IInv'
<1> USE DEF Working, Holding, Sent
<1>0. /\ req[r].phase = "sent" /\ OnChain(r)
      /\ UNCHANGED <<drawn, rows, lapsed, inbox, chainTx, minted, burnt, nonces, queued, mailed>>
  BY DEF Receipt, dbVars, chainVars, jobVars, IInv, PhasesMatch
<1>1. CASE End(r)
  BY <1>0, <1>1, EndSafe DEF chainVars, IInv, MailFollowsCommit
<1>2. CASE Confirmed(r) /\ Move(r, IF req[r].op = "revoke" THEN "ready" ELSE "minted")
  <2>1. /\ \A c \in req[r].batch :
             /\ req[r].op = "approve" => ~rows[c].rejected
             /\ req[r].op = "reject" => ~rows[c].activated
             /\ req[r].op = "issue" => ~HashTaken(HashOf[c])
        /\ \A q \in Requests : q # r /\ req[q].phase \in Holding =>
             /\ req[r].batch \cap req[q].batch = {}
             /\ req[r].op = "issue" /\ req[q].op = "issue" =>
                  \A c \in req[r].batch, d \in req[q].batch : HashOf[c] # HashOf[d]
    BY <1>0 DEF IInv, LocksHold
  <2>2. chainTx[r].status = "mined"
    BY <1>2 DEF Confirmed
  <2>3. CASE req[r].op = "revoke"
    BY <1>0, <1>2, <2>1, <2>2, <2>3, MoveSafe DEF chainVars, Mints
  <2>4. CASE req[r].op # "revoke"
    BY <1>0, <1>2, <2>1, <2>2, <2>4, MoveSafe DEF chainVars, Mints, OnChain
  <2> QED
    BY <2>3, <2>4
<1> QED
  BY <1>1, <1>2 DEF Receipt

LEMMA EnqueueSafe ==
    ASSUME IInv, TypeOK', NEW r \in Requests, EnqueueExtract(r)
    PROVE  IInv'
<1> USE DEF Working, Holding, Sent
<1>0. /\ req[r].phase = "minted" /\ Mints(r) /\ OnChain(r)
      /\ UNCHANGED <<drawn, rows, lapsed, inbox, chainTx, minted, burnt, nonces, mailed>>
  BY DEF EnqueueExtract, dbVars, chainVars, IInv, PhasesMatch, Mints, OnChain
<1>1. CASE End(r) /\ \E S \in SUBSET req[r].batch : queued' = queued \cup S
  BY <1>0, <1>1, EndSafe DEF chainVars, IInv, MailFollowsCommit
<1>2. CASE queued' = queued \cup req[r].batch /\ Move(r, "ready")
  <2>1. /\ \A c \in req[r].batch :
             /\ req[r].op = "approve" => ~rows[c].rejected
             /\ req[r].op = "reject" => ~rows[c].activated
             /\ req[r].op = "issue" => ~HashTaken(HashOf[c])
        /\ \A q \in Requests : q # r /\ req[q].phase \in Holding =>
             /\ req[r].batch \cap req[q].batch = {}
             /\ req[r].op = "issue" /\ req[q].op = "issue" =>
                  \A c \in req[r].batch, d \in req[q].batch : HashOf[c] # HashOf[d]
    BY <1>0 DEF IInv, LocksHold
  <2>2. chainTx[r].status = "mined"
    BY <1>0 DEF IInv, SentIsBuilt
  <2>3. req[r].op # "update"
    BY <1>0 DEF Mints
  <2> QED
    BY <1>0, <1>2, <2>1, <2>2, <2>3, MoveSafe DEF chainVars
<1> QED
  BY <1>1, <1>2 DEF EnqueueExtract

(* A mined transaction adds to the registry; its tokens are new because    *)
(* its nonce is.                                                           *)
LEMMA MineSafe ==
    ASSUME IInv, TypeOK', NEW r \in Requests, Mine(r)
    PROVE  IInv'
<1> USE DEF Working, Holding, Sent
<1>0. /\ chainTx[r].status = "pending"
      /\ UNCHANGED <<drawn, rows, lapsed, inbox, req, queued, mailed>>
  BY DEF Mine, dbVars, jobVars
<1>1. /\ minted \subseteq minted'
      /\ \A q \in Requests : q # r => chainTx'[q] = chainTx[q]
      /\ chainTx'[r].by = chainTx[r].by /\ chainTx'[r].nonce = chainTx[r].nonce
      /\ chainTx'[r].mint = chainTx[r].mint /\ chainTx'[r].burn = chainTx[r].burn
      /\ chainTx'[r].status \in {"mined", "reverted"}
  BY DEF Mine, chainVars, IInv, TypeOK, ChainTx
<1>2. /\ RowsWellFormed' /\ ActiveFilesDistinct' /\ InboxTellsHistory'
      /\ IdsApart' /\ PhasesMatch' /\ LocksHold'
  BY <1>0 DEF IInv, RowsWellFormed, ActiveFilesDistinct, Active, InboxTellsHistory,
              IdsApart, PhasesMatch, OnChain, Mints, LocksHold, HashTaken
<1>3. TokensExist' /\ TargetsStand'
  BY <1>0, <1>1 DEF IInv, TokensExist, TargetsStand, Distinct
<1>4. JobsInOrder' /\ ActivatedIsQueued' /\ MailFollowsCommit'
  BY <1>0 DEF IInv, JobsInOrder, Mints, NoticesOf, Notice, ActivatedIsQueued,
              MailFollowsCommit
<1>5. \A q \in Requests : \A c : TokenFor(q, c)' = TokenFor(q, c)
  BY <1>0, <1>1 DEF TokenFor
<1>6. SentIsBuilt'
  <2>1. \A q \in Requests : chainTx'[q].mint = chainTx[q].mint
                            /\ chainTx'[q].burn = chainTx[q].burn
                            /\ chainTx'[q].by = chainTx[q].by
    BY <1>1
  <2>2. \A q \in Requests : chainTx'[q].status = "none" => chainTx[q].status = "none"
    BY <1>1
  <2>3. \A q \in Requests : chainTx[q].status = "mined" => chainTx'[q].status = "mined"
    BY <1>0, <1>1
  <2> QED
    BY <1>0, <1>5, <2>1, <2>2, <2>3 DEF IInv, SentIsBuilt, OnChain, Mints
<1>7. CASE chainTx'[r].status = "reverted" /\ UNCHANGED <<minted, burnt, nonces>>
  <2>1. ChainConsistent'
    BY <1>1, <1>7 DEF IInv, ChainConsistent, MintedIds
  <2>2. TokensFresh'
    <3>1. \A q \in Requests : req'[q].seen \subseteq MintedIds'
      BY <1>0, <1>7 DEF IInv, TokensFresh, MintedIds
    <3>2. \A q \in Requests : chainTx'[q].burn = chainTx[q].burn
                              /\ (chainTx'[q].status = "mined" => chainTx[q].status = "mined")
      BY <1>1, <1>7
    <3> QED
      BY <1>0, <1>5, <1>7, <3>1, <3>2 DEF IInv, TokensFresh, Mints
  <2> QED
    BY <1>2, <1>3, <1>4, <1>6, <2>1, <2>2 DEF IInv
<1>8. CASE /\ Valid(chainTx[r]) /\ chainTx'[r].status = "mined"
           /\ minted' = minted \cup chainTx[r].mint
           /\ burnt' = burnt \cup chainTx[r].burn
           /\ nonces' = [nonces EXCEPT ![chainTx[r].by] = @ + 1]
  <2> DEFINE by == chainTx[r].by
  <2>1. /\ by \in Officers /\ chainTx[r].nonce = nonces[by] /\ nonces[by] \in Nat
        /\ nonces'[by] = nonces[by] + 1
        /\ \A o \in Officers : nonces[o] \in Nat /\ nonces'[o] \in Nat
                               /\ nonces[o] <= nonces'[o]
    BY <1>8 DEF Valid, IInv, TypeOK, ChainTx
  <2>2. MintedIds \subseteq MintedIds'
    BY <1>1 DEF MintedIds
  <2>3. \A e \in minted : e.id.issuer \in Officers /\ e.id.nonce \in Nat
    BY DEF IInv, TypeOK, Entry, Token
  <2>4. \A q \in Requests : chainTx[q].by \in Officers /\ chainTx[q].nonce \in Nat
    BY DEF IInv, TypeOK, ChainTx
  <2>5. ChainConsistent'
    <3>1. burnt' \subseteq MintedIds'
      BY <1>8, <2>2 DEF IInv, ChainConsistent
    <3>2. \A e \in minted' : e.id.nonce < nonces'[e.id.issuer]
      <4>1. ASSUME NEW e \in minted  PROVE e.id.nonce < nonces'[e.id.issuer]
        BY <2>1, <2>3, <4>1 DEF IInv, ChainConsistent
      <4>2. ASSUME NEW e \in chainTx[r].mint  PROVE e.id.nonce < nonces'[e.id.issuer]
        <5>1. e.id.issuer = by /\ e.id.nonce = nonces[by]
          BY <2>1, <4>2 DEF IInv, ChainConsistent
        <5> QED
          BY <2>1, <5>1
      <4> QED
        BY <1>8, <4>1, <4>2
    <3>3. ASSUME NEW q \in Requests
          PROVE  /\ chainTx'[q].burn \subseteq MintedIds'
                 /\ \A e \in chainTx'[q].mint : /\ e.id.issuer = chainTx'[q].by
                                                /\ e.id.nonce = chainTx'[q].nonce
      BY <1>1, <2>2 DEF IInv, ChainConsistent
    <3>4. ASSUME NEW q \in Requests, chainTx'[q].status = "mined"
          PROVE  /\ chainTx'[q].mint \subseteq minted'
                 /\ chainTx'[q].burn \subseteq burnt'
                 /\ chainTx'[q].nonce < nonces'[chainTx'[q].by]
      <4>1. CASE q = r
        BY <1>1, <1>8, <2>1, <4>1
      <4>2. CASE q # r
        <5>1. chainTx'[q] = chainTx[q]
          BY <1>1, <4>2
        <5>2. /\ chainTx[q].mint \subseteq minted /\ chainTx[q].burn \subseteq burnt
              /\ chainTx[q].nonce < nonces[chainTx[q].by]
          BY <3>4, <5>1 DEF IInv, ChainConsistent
        <5> QED
          BY <1>8, <2>1, <2>4, <5>1, <5>2
      <4> QED
        BY <4>1, <4>2
    <3>5. ASSUME NEW p \in Requests, NEW q \in Requests, p # q,
                 chainTx'[p].by = chainTx'[q].by,
                 chainTx'[p].status = "mined", chainTx'[q].status = "mined"
          PROVE  chainTx'[p].nonce # chainTx'[q].nonce
      <4>1. \A s \in Requests : s # r /\ chainTx'[s].status = "mined" =>
               chainTx[s].status = "mined" /\ chainTx[s].nonce < nonces[chainTx[s].by]
        BY <1>1 DEF IInv, ChainConsistent
      <4>2. CASE p # r /\ q # r
        BY <1>1, <3>5, <4>2 DEF IInv, ChainConsistent
      <4>3. CASE p = r /\ q # r
        BY <1>1, <2>1, <2>4, <3>5, <4>1, <4>3
      <4>4. CASE p # r /\ q = r
        BY <1>1, <2>1, <2>4, <3>5, <4>1, <4>4
      <4> QED
        BY <3>5, <4>2, <4>3, <4>4
    <3> QED
      BY <3>1, <3>2, <3>3, <3>4, <3>5 DEF ChainConsistent
  <2>6. TokensFresh'
    <3>1. \A q \in Requests : req'[q].seen \subseteq MintedIds'
      BY <1>0, <2>2 DEF IInv, TokensFresh
    <3>2. ASSUME NEW q \in Requests, req'[q].phase \in Sent, Mints(q)',
                 chainTx'[q].status = "mined", NEW c \in req'[q].batch
          PROVE  /\ TokenFor(q, c)' \notin burnt'
                 /\ \A d \in Creds : rows'[d].token # TokenFor(q, c)'
                 /\ \A p \in Requests : /\ TokenFor(q, c)' \notin req'[p].seen
                                        /\ TokenFor(q, c)' \notin chainTx'[p].burn
      <4>1. TokenFor(q, c) \notin burnt /\ TokenFor(q, c) \notin chainTx[r].burn
            /\ (\A d \in Creds : rows[d].token # TokenFor(q, c))
            /\ \A p \in Requests : /\ TokenFor(q, c) \notin req[p].seen
                                   /\ TokenFor(q, c) \notin chainTx[p].burn
        <5>1. CASE q # r
          BY <1>0, <1>1, <3>2, <5>1 DEF IInv, TokensFresh, Mints
        <5>2. CASE q = r
          <6>1. req[r].by = by
            BY <1>0, <3>2, <5>2 DEF IInv, SentIsBuilt, OnChain, Mints
          <6>2. TokenFor(q, c).issuer = by /\ TokenFor(q, c).nonce = nonces[by]
            BY <2>1, <5>2, <6>1 DEF TokenFor
          <6>3. TokenFor(q, c) \notin MintedIds
            BY <2>1, <2>3, <6>2 DEF IInv, ChainConsistent, MintedIds
          <6>4. TokenFor(q, c) # NoToken
            <7>1. TokenFor(q, c) \in Token
              BY <1>0, <2>1, <3>2, <5>2, <6>1, HashOfAssumption
                 DEF TokenFor, Token, IInv, TypeOK, Request
            <7> QED
              BY <7>1, NoTokenAssumption
          <6>5. \A d \in Creds : rows[d].token # TokenFor(q, c)
            BY <6>3, <6>4 DEF IInv, TokensExist, MintedIds
          <6> QED
            BY <6>3, <6>5 DEF IInv, ChainConsistent, TokensFresh
        <5> QED
          BY <5>1, <5>2
      <4>2. \A p \in Requests : chainTx'[p].burn = chainTx[p].burn
        BY <1>1
      <4> QED
        BY <1>0, <1>5, <1>8, <4>1, <4>2
    <3> QED
      BY <3>1, <3>2 DEF TokensFresh
  <2> QED
    BY <1>2, <1>3, <1>4, <1>6, <2>5, <2>6 DEF IInv
<1> QED
  <2>1. chainTx' = [chainTx EXCEPT ![r].status = "mined"] => chainTx'[r].status = "mined"
    BY DEF IInv, TypeOK, ChainTx
  <2>2. chainTx' = [chainTx EXCEPT ![r].status = "reverted"] => chainTx'[r].status = "reverted"
    BY DEF IInv, TypeOK, ChainTx
  <2> QED
    BY <1>7, <1>8, <2>1, <2>2 DEF Mine, chainVars

(* The rows that a commit publishes. *)
LEMMA CommitFacts ==
    ASSUME IInv, NEW r \in Requests, Commit(r)
    PROVE  /\ req[r].phase = "ready" /\ req[r].op \in {"issue", "approve", "reject", "revoke"}
           /\ req[r].batch \subseteq Creds
           /\ \A c \in Creds : c \notin req[r].batch => rows'[c] = rows[c]
           /\ \A c \in req[r].batch :
                /\ rows'[c].stored
                /\ rows'[c].activated <=> rows[c].activated \/ Mints(r)
                /\ rows'[c].rejected <=> rows[c].rejected \/ req[r].op = "reject"
                /\ rows'[c].revoked <=> rows[c].revoked \/ req[r].op = "revoke"
                /\ Mints(r) => rows'[c].token = TokenFor(r, c)
                /\ ~Mints(r) => rows'[c].token = rows[c].token
<1>1. /\ req[r].phase = "ready" /\ req[r].op \in {"issue", "approve", "reject", "revoke"}
      /\ req[r].batch \subseteq Creds
  BY DEF Commit, IInv, TypeOK, Request, PhasesMatch, Handlers
<1>2. /\ \A c \in Creds : c \notin req[r].batch => rows'[c] = rows[c]
      /\ \A c \in req[r].batch : rows'[c] = NewRow(r, c)
  BY <1>1 DEF Commit
<1>3. \A c \in req[r].batch :
        /\ NewRow(r, c).stored
        /\ NewRow(r, c).activated <=> rows[c].activated \/ Mints(r)
        /\ NewRow(r, c).rejected <=> rows[c].rejected \/ req[r].op = "reject"
        /\ NewRow(r, c).revoked <=> rows[c].revoked \/ req[r].op = "revoke"
        /\ Mints(r) => NewRow(r, c).token = TokenFor(r, c)
        /\ ~Mints(r) => NewRow(r, c).token = rows[c].token
  BY DEF NewRow, Mints
<1> QED
  BY <1>1, <1>2, <1>3

(* What the handlers have established by the time they commit. *)
LEMMA ReadyFacts ==
    ASSUME IInv, NEW r \in Requests, req[r].phase = "ready", req[r].op # "update"
    PROVE  /\ req[r].op = "issue" => \A c \in req[r].batch :
                /\ ~rows[c].stored /\ rows[c] = NoRow /\ c \in drawn
                /\ ~HashTaken(HashOf[c])
           /\ req[r].op = "approve" => \A c \in req[r].batch :
                rows[c].stored /\ ~rows[c].rejected
           /\ req[r].op = "reject" => \A c \in req[r].batch :
                rows[c].stored /\ ~rows[c].activated
           /\ req[r].op = "revoke" => \A c \in req[r].batch :
                rows[c].stored /\ rows[c].activated
           /\ Mints(r) => /\ chainTx[r].status = "mined" /\ chainTx[r].by = req[r].by
                          /\ chainTx[r].mint \subseteq minted
                          /\ \A c \in req[r].batch : \E e \in minted :
                               e.id = TokenFor(r, c) /\ e.uri = c
                          /\ req[r].batch \subseteq queued
<1> USE DEF Working, Holding, Sent
<1>1. req[r].batch \subseteq Creds
  BY DEF IInv, TypeOK, Request
<1>2. /\ req[r].op = "issue" => \A c \in req[r].batch : ~rows[c].stored /\ c \in drawn
      /\ req[r].op # "issue" => \A c \in req[r].batch : rows[c].stored
      /\ req[r].op = "revoke" => \A c \in req[r].batch : rows[c].activated
  BY DEF IInv, TargetsStand
<1>3. \A c \in req[r].batch : ~rows[c].stored => rows[c] = NoRow
  BY <1>1 DEF IInv, RowsWellFormed
<1>4. \A c \in req[r].batch : /\ req[r].op = "approve" => ~rows[c].rejected
                              /\ req[r].op = "reject" => ~rows[c].activated
                              /\ req[r].op = "issue" => ~HashTaken(HashOf[c])
  BY DEF IInv, LocksHold
<1>5. Mints(r) => /\ chainTx[r].status = "mined" /\ chainTx[r].by = req[r].by
                  /\ \A c \in req[r].batch : \E e \in chainTx[r].mint :
                       e.id = TokenFor(r, c) /\ e.uri = c
  BY DEF IInv, SentIsBuilt, OnChain, Mints
<1>6. Mints(r) => chainTx[r].mint \subseteq minted
  BY <1>5 DEF IInv, ChainConsistent
<1>7. Mints(r) => req[r].batch \subseteq queued
  BY DEF IInv, JobsInOrder
<1> QED
  BY <1>2, <1>3, <1>4, <1>5, <1>6, <1>7

(* A commit publishes rows that the locks, the CHECK, the index and the    *)
(* receipt have vouched for.                                               *)
LEMMA CommitSafe ==
    ASSUME IInv, TypeOK', NEW r \in Requests, Commit(r)
    PROVE  IInv'
<1> USE DEF Working, Holding, Sent
<1> DEFINE S == req[r].batch
           op == req[r].op
<1>1. /\ req[r].phase = "ready" /\ op \in {"issue", "approve", "reject", "revoke"}
      /\ S \subseteq Creds
      /\ \A c \in Creds : c \notin S => rows'[c] = rows[c]
      /\ \A c \in S :
           /\ rows'[c].stored
           /\ rows'[c].activated <=> rows[c].activated \/ Mints(r)
           /\ rows'[c].rejected <=> rows[c].rejected \/ op = "reject"
           /\ rows'[c].revoked <=> rows[c].revoked \/ op = "revoke"
           /\ Mints(r) => rows'[c].token = TokenFor(r, c)
           /\ ~Mints(r) => rows'[c].token = rows[c].token
  BY CommitFacts
<1>2. /\ op = "issue" => \A c \in S : /\ ~rows[c].stored /\ rows[c] = NoRow /\ c \in drawn
                                      /\ ~HashTaken(HashOf[c])
      /\ op = "approve" => \A c \in S : rows[c].stored /\ ~rows[c].rejected
      /\ op = "reject" => \A c \in S : rows[c].stored /\ ~rows[c].activated
      /\ op = "revoke" => \A c \in S : rows[c].stored /\ rows[c].activated
      /\ Mints(r) => /\ chainTx[r].status = "mined" /\ chainTx[r].by = req[r].by
                     /\ chainTx[r].mint \subseteq minted
                     /\ \A c \in S : \E e \in minted : e.id = TokenFor(r, c) /\ e.uri = c
                     /\ S \subseteq queued
  BY <1>1, ReadyFacts
<1>3. /\ req'[r].phase = "committed" /\ req'[r].op = op /\ req'[r].by = req[r].by
      /\ req'[r].batch = S /\ req'[r].seen = req[r].seen
      /\ \A q \in Requests : q # r => req'[q] = req[q]
  BY MoveFacts DEF Commit, IInv
<1>4. /\ inbox' = inbox \cup NoticesOf(r)
      /\ UNCHANGED <<drawn, lapsed, chainTx, minted, burnt, nonces, queued, mailed>>
  BY DEF Commit, chainVars, jobVars
<1>5. NoRow.activated = FALSE /\ NoRow.rejected = FALSE /\ NoRow.revoked = FALSE
  BY DEF NoRow
<1>6. \A c \in Creds : /\ rows[c].stored => rows'[c].stored
                       /\ rows[c].activated => rows'[c].activated
                       /\ rows[c].rejected => rows'[c].rejected
                       /\ rows[c].revoked => rows'[c].revoked
                       /\ op # "issue" /\ Active(c)' => Active(c)
                       /\ c \notin S /\ Active(c)' => Active(c)
  <2>1. op # "issue" => \A c \in S : rows[c].stored
    BY <1>1, <1>2
  <2> QED
    BY <1>1, <2>1 DEF Active
<1>7. RowsWellFormed'
  <2>1. \A c \in S : Mints(r) => rows'[c].token # NoToken
    <3>1. ASSUME NEW c \in S, Mints(r)  PROVE TokenFor(r, c) \in Token
      <4>1. /\ req[r].by \in Officers /\ chainTx[r].nonce \in Nat /\ HashOf[c] \in Hashes
        BY <1>1, HashOfAssumption DEF IInv, TypeOK, Request, ChainTx
      <4> QED
        BY <4>1 DEF TokenFor, Token
    <3> QED
      BY <1>1, <3>1, NoTokenAssumption
  <2>2. ASSUME NEW c \in S
        PROVE  /\ c \in drawn'
               /\ ~(rows'[c].activated /\ rows'[c].rejected)
               /\ rows'[c].revoked => rows'[c].activated
               /\ rows'[c].activated => rows'[c].token # NoToken
    <3>1. c \in Creds
      BY <1>1
    <3>2. CASE op = "issue"
      BY <1>1, <1>2, <1>4, <1>5, <2>1, <3>2 DEF Mints
    <3>3. CASE op = "approve"
      BY <1>1, <1>2, <1>4, <2>1, <3>1, <3>3 DEF Mints, IInv, RowsWellFormed
    <3>4. CASE op = "reject"
      BY <1>1, <1>2, <1>4, <3>1, <3>4 DEF Mints, IInv, RowsWellFormed
    <3>5. CASE op = "revoke"
      BY <1>1, <1>2, <1>4, <3>1, <3>5 DEF Mints, IInv, RowsWellFormed
    <3> QED
      BY <1>1, <3>2, <3>3, <3>4, <3>5
  <2> QED
    BY <1>1, <1>4, <2>2 DEF IInv, RowsWellFormed, NoRow
<1>8. ActiveFilesDistinct'
  <2> SUFFICES ASSUME NEW c \in Creds, NEW d \in Creds, Active(c)', Active(d)',
                      HashOf[c] = HashOf[d]
               PROVE  c = d
    BY DEF ActiveFilesDistinct
  <2>1. CASE Active(c) /\ Active(d)
    BY <2>1 DEF IInv, ActiveFilesDistinct
  <2>2. CASE ~Active(c) \/ ~Active(d)
    <3>1. op = "issue"
      BY <1>6, <2>2
    <3>2. \A e \in S : ~HashTaken(HashOf[e])
      BY <1>2, <3>1
    <3>3. Distinct(S)
      BY <1>1, <3>1 DEF IInv, TargetsStand
    <3>4. CASE c \in S /\ d \in S
      BY <3>3, <3>4 DEF Distinct
    <3>5. CASE (c \in S /\ d \notin S) \/ (c \notin S /\ d \in S)
      BY <1>6, <3>2, <3>5 DEF HashTaken
    <3>6. CASE c \notin S /\ d \notin S
      BY <1>6, <2>2, <3>6
    <3> QED
      BY <3>4, <3>5, <3>6
  <2> QED
    BY <2>1, <2>2
<1>9. TokensExist'
  <2>1. ASSUME NEW c \in Creds, rows'[c].token # NoToken
        PROVE  \E e \in minted : e.id = rows'[c].token /\ e.uri = c /\ e.id.hash = HashOf[c]
    <3>1. CASE c \in S /\ Mints(r)
      <4>1. TokenFor(r, c).hash = HashOf[c]
        BY DEF TokenFor
      <4> QED
        BY <1>1, <1>2, <3>1, <4>1
    <3>2. CASE c \notin S \/ ~Mints(r)
      <4>1. rows'[c].token = rows[c].token
        BY <1>1, <3>2
      <4> QED
        BY <2>1, <4>1 DEF IInv, TokensExist
    <3> QED
      BY <3>1, <3>2
  <2> QED
    BY <1>4, <2>1 DEF TokensExist
<1>10. InboxTellsHistory'
  <2>1. ASSUME NEW c \in Creds, NEW n
        PROVE  <<c, n>> \in inbox' <=> <<c, n>> \in inbox \/ (c \in S /\ n = Notice(r))
    BY <1>4 DEF NoticesOf
  <2>2. Notice(r) = IF op = "issue" THEN "registered"
                    ELSE IF op = "approve" THEN "approved"
                    ELSE IF op = "reject" THEN "rejected" ELSE "revoked"
    BY <1>1 DEF Notice
  <2>3. ASSUME NEW c \in Creds
        PROVE  /\ rows'[c].activated <=> \E n \in {"registered", "approved"} : <<c, n>> \in inbox'
               /\ rows'[c].rejected <=> <<c, "rejected">> \in inbox'
               /\ rows'[c].revoked <=> <<c, "revoked">> \in inbox'
    <3>1. /\ rows[c].activated <=> \E n \in {"registered", "approved"} : <<c, n>> \in inbox
          /\ rows[c].rejected <=> <<c, "rejected">> \in inbox
          /\ rows[c].revoked <=> <<c, "revoked">> \in inbox
      BY DEF IInv, InboxTellsHistory
    <3>2. CASE c \notin S
      BY <1>1, <2>1, <3>1, <3>2
    <3>3. CASE c \in S
      BY <1>1, <2>1, <2>2, <3>1, <3>3 DEF Mints
    <3> QED
      BY <3>2, <3>3
  <2> QED
    BY <2>3 DEF InboxTellsHistory
<1>11. TargetsStand'
  <2>1. ASSUME NEW q \in Requests, req'[q].phase \in Working
        PROVE  /\ q # r /\ req'[q] = req[q] /\ req[q].phase \in Working
               /\ req[q].batch \subseteq Creds
               /\ req[q].op = "issue" => \A c \in req[q].batch : ~rows'[c].stored
    <3>1. q # r /\ req'[q] = req[q] /\ req[q].phase \in Working /\ req[q].batch \subseteq Creds
      BY <1>3, <2>1 DEF IInv, TypeOK, Request
    <3>2. ASSUME req[q].op = "issue", NEW c \in req[q].batch
          PROVE  c \notin S /\ ~rows[c].stored
      <4>1. ~rows[c].stored
        BY <3>1, <3>2 DEF IInv, TargetsStand
      <4>2. op = "issue" => c \notin S
        BY <1>1, <3>1, <3>2 DEF IInv, IdsApart
      <4> QED
        BY <1>1, <1>2, <4>1, <4>2
    <3> QED
      BY <1>1, <3>1, <3>2
  <2> QED
    BY <1>4, <1>6, <2>1 DEF IInv, TargetsStand, Distinct
<1>12. IdsApart' /\ PhasesMatch'
  BY <1>1, <1>3 DEF IInv, IdsApart, PhasesMatch, OnChain, Mints
<1>13. LocksHold'
  <2>1. ASSUME NEW q \in Requests, req'[q].phase \in Holding
        PROVE  /\ q # r /\ req'[q] = req[q] /\ req[q].phase \in Holding
               /\ \A c \in req[q].batch : c \in Creds /\ c \notin S
    <3>1. q # r /\ req'[q] = req[q] /\ req[q].phase \in Holding /\ req[q].batch \subseteq Creds
      BY <1>3, <2>1 DEF IInv, TypeOK, Request
    <3>2. req[q].batch \cap S = {}
      BY <1>1, <3>1 DEF IInv, LocksHold
    <3> QED
      BY <3>1, <3>2
  <2>2. ASSUME NEW q \in Requests, req'[q].phase \in Holding, req[q].op = "issue",
               NEW c \in req[q].batch
        PROVE  ~HashTaken(HashOf[c])'
    <3>1. ~HashTaken(HashOf[c])
      BY <2>1, <2>2 DEF IInv, LocksHold
    <3>2. op = "issue" => \A d \in S : HashOf[d] # HashOf[c]
      BY <1>1, <2>1, <2>2 DEF IInv, LocksHold
    <3> QED
      BY <1>6, <3>1, <3>2 DEF HashTaken
  <2>3. ASSUME NEW q \in Requests, req'[q].phase \in Holding
        PROVE  /\ \A c \in req'[q].batch :
                    /\ req'[q].op = "approve" => ~rows'[c].rejected
                    /\ req'[q].op = "reject" => ~rows'[c].activated
                    /\ req'[q].op = "issue" => ~HashTaken(HashOf[c])'
    <3>1. \A c \in req[q].batch : rows'[c] = rows[c]
      BY <1>1, <2>1, <2>3
    <3> QED
      BY <2>1, <2>2, <2>3, <3>1 DEF IInv, LocksHold
  <2>4. ASSUME NEW q \in Requests, req'[q].phase \in Holding,
               NEW p \in Requests, p # q, req'[p].phase \in Holding
        PROVE  /\ req'[q].batch \cap req'[p].batch = {}
               /\ req'[q].op = "issue" /\ req'[p].op = "issue" =>
                    \A c \in req'[q].batch, d \in req'[p].batch : HashOf[c] # HashOf[d]
    BY <2>1, <2>4 DEF IInv, LocksHold
  <2> QED
    BY <2>3, <2>4 DEF LocksHold
<1>14. \A q \in Requests : \A c : TokenFor(q, c)' = TokenFor(q, c)
  BY <1>3, <1>4 DEF TokenFor
<1>15. SentIsBuilt'
  <2>1. \A q \in Requests : req'[q].phase \in Sent => q # r /\ req'[q] = req[q]
    BY <1>3
  <2> QED
    BY <1>4, <1>14, <2>1 DEF IInv, SentIsBuilt, OnChain, Mints
<1>16. ChainConsistent'
  BY <1>4 DEF IInv, ChainConsistent, MintedIds
<1>17. TokensFresh'
  <2>1. \A q \in Requests : req'[q].seen = req[q].seen
    BY <1>3
  <2>2. \A q \in Requests : req'[q].seen \subseteq MintedIds'
    BY <1>4, <2>1 DEF IInv, TokensFresh, MintedIds
  <2>3. ASSUME NEW q \in Requests, req'[q].phase \in Sent, Mints(q)',
               chainTx'[q].status = "mined", NEW c \in req'[q].batch
        PROVE  /\ TokenFor(q, c)' \notin burnt'
               /\ \A d \in Creds : rows'[d].token # TokenFor(q, c)'
               /\ \A p \in Requests : /\ TokenFor(q, c)' \notin req'[p].seen
                                      /\ TokenFor(q, c)' \notin chainTx'[p].burn
    <3>1. /\ q # r /\ req'[q] = req[q] /\ req[q].phase \in Sent /\ Mints(q)
          /\ chainTx[q].status = "mined" /\ c \in req[q].batch
      BY <1>3, <1>4, <2>3 DEF Mints
    <3>2. /\ TokenFor(q, c) \notin burnt
          /\ \A d \in Creds : rows[d].token # TokenFor(q, c)
          /\ \A p \in Requests : /\ TokenFor(q, c) \notin req[p].seen
                                 /\ TokenFor(q, c) \notin chainTx[p].burn
      BY <3>1 DEF IInv, TokensFresh
    <3>3. ASSUME NEW d \in S, Mints(r)  PROVE TokenFor(r, d) # TokenFor(q, c)
      <4>1. chainTx[q].by = req[q].by
        BY <3>1 DEF IInv, SentIsBuilt, OnChain, Mints
      <4>2. chainTx[r].by = req[r].by /\ chainTx[r].status = "mined"
        BY <1>2, <3>3
      <4>3. CASE req[q].by = req[r].by
        <5>1. chainTx[q].nonce # chainTx[r].nonce
          BY <3>1, <4>1, <4>2, <4>3 DEF IInv, ChainConsistent
        <5> QED
          BY <5>1 DEF TokenFor
      <4>4. CASE req[q].by # req[r].by
        BY <4>4 DEF TokenFor
      <4> QED
        BY <4>3, <4>4
    <3>4. \A d \in Creds : rows'[d].token # TokenFor(q, c)
      BY <1>1, <3>2, <3>3
    <3> QED
      BY <1>4, <1>14, <2>1, <3>2, <3>4
  <2> QED
    BY <2>2, <2>3 DEF TokensFresh
<1>18. ActivatedIsQueued'
  <2>1. \A c \in S : Mints(r) => c \in queued
    BY <1>2
  <2> QED
    BY <1>1, <1>4, <2>1 DEF IInv, ActivatedIsQueued
<1>19. JobsInOrder' /\ MailFollowsCommit'
  <2>1. NoticesOf(r)' = NoticesOf(r)
    BY <1>3 DEF NoticesOf, Notice
  <2>2. \A q \in Requests : q # r => NoticesOf(q)' = NoticesOf(q)
    BY <1>3 DEF NoticesOf, Notice
  <2> QED
    BY <1>3, <1>4, <2>1, <2>2 DEF IInv, JobsInOrder, Mints, MailFollowsCommit
<1> QED
  BY <1>7, <1>8, <1>9, <1>10, <1>11, <1>12, <1>13, <1>15, <1>16, <1>17, <1>18, <1>19
     DEF IInv

LEMMA StepSafe ==
    ASSUME IInv, TypeOK', NEW r \in Requests, Step(r)
    PROVE  IInv'
<1>1. CASE QueueMail(r)
  <2>1. /\ req[r].phase = "committed" /\ End(r)
        /\ mailed' \in {mailed, mailed \cup NoticesOf(r)}
        /\ UNCHANGED <<drawn, rows, lapsed, inbox, chainTx, chainVars, queued>>
    BY <1>1 DEF QueueMail, dbVars
  <2>2. NoticesOf(r) \subseteq inbox /\ mailed \subseteq inbox
    BY <2>1 DEF IInv, JobsInOrder, MailFollowsCommit
  <2> QED
    BY <2>1, <2>2, EndSafe
<1> QED
  BY <1>1, InsertSafe, WriteSafe, EditSafe, SendSafe, ReceiptSafe, EnqueueSafe,
     CommitSafe DEF Step

LEMMA NextSafe == IInv /\ [Next]_vars => IInv'
<1> SUFFICES ASSUME IInv, [Next]_vars
             PROVE  IInv'
  OBVIOUS
<1>0. TypeOK'
  BY NextType DEF IInv
<1>1. ASSUME NEW r \in Requests, Fail(r)
      PROVE  IInv'
  BY <1>0, <1>1, EndSafe DEF Fail, dbVars, chainVars, jobVars, IInv, MailFollowsCommit
<1>2. ASSUME UNCHANGED vars
      PROVE  IInv'
  <2> USE <1>2 DEF vars
  <2>1. RowsWellFormed' /\ TargetsStand' /\ IdsApart' /\ PhasesMatch' /\ LocksHold'
    BY DEF IInv, RowsWellFormed, TargetsStand, IdsApart, PhasesMatch, LocksHold,
           OnChain, Mints, HashTaken, Active
  <2>2. SentIsBuilt' /\ ChainConsistent'
    BY DEF IInv, SentIsBuilt, ChainConsistent, OnChain, Mints, TokenFor, MintedIds
  <2>3. TokensFresh'
    BY DEF IInv, TokensFresh, Mints, TokenFor, MintedIds
  <2>4. JobsInOrder'
    BY DEF IInv, JobsInOrder, Mints, NoticesOf, Notice
  <2>5. /\ ActiveFilesDistinct' /\ TokensExist' /\ InboxTellsHistory'
        /\ ActivatedIsQueued' /\ MailFollowsCommit'
    BY DEF IInv, ActiveFilesDistinct, Active, TokensExist, InboxTellsHistory,
           ActivatedIsQueued, MailFollowsCommit
  <2> QED
    BY <1>0, <2>1, <2>2, <2>3, <2>4, <2>5 DEF IInv
<1> QED
  BY <1>0, <1>1, <1>2, SubmitSafe, LapseSafe, BeginSafe, StepSafe, MineSafe
     DEF Next, Quiet

(* The inductive invariant: the rows, the locks, the transactions under    *)
(* way and the registry stay consistent in every execution.                *)
THEOREM InvariantHolds == Spec => []IInv
BY IInvInit, NextSafe, PTL DEF Spec

(* No two rows that are neither revoked nor rejected have the same file.   *)
THEOREM FilesAreUnique == Spec => []ActiveFilesDistinct
<1>1. IInv => ActiveFilesDistinct
  BY DEF IInv
<1> QED
  BY <1>1, InvariantHolds, PTL

(* A token id in a row is that of a token minted for the row and its file. *)
THEOREM RowsPointToTokens == Spec => []TokensExist
<1>1. IInv => TokensExist
  BY DEF IInv
<1> QED
  BY <1>1, InvariantHolds, PTL

(* The holder's notices and the row's timestamps tell the same history.    *)
THEOREM InboxIsExact == Spec => []InboxTellsHistory
<1>1. IInv => InboxTellsHistory
  BY DEF IInv
<1> QED
  BY <1>1, InvariantHolds, PTL

(* An activated credential's extraction job is in the queue's table.       *)
THEOREM JobsMatchRows == Spec => []ActivatedIsQueued
<1>1. IInv => ActivatedIsQueued
  BY DEF IInv
<1> QED
  BY <1>1, InvariantHolds, PTL

(* An e-mail is queued only for a committed change.                        *)
THEOREM MailIsBacked == Spec => []MailFollowsCommit
<1>1. IInv => MailFollowsCommit
  BY DEF IInv
<1> QED
  BY <1>1, InvariantHolds, PTL
-----------------------------------------------------------------------------
(* Revocations, commits that follow the chain, and the refinement.         *)

Extra == MintOrBurn /\ MintReplacesBurnt /\ SeenStands

(* Steps that leave the chain, the sent transactions and the rows' tokens  *)
(* alone.                                                                  *)
LEMMA ExtraKept ==
    ASSUME RInv,
           UNCHANGED <<chainTx, burnt>>,
           \A c \in Creds : rows'[c].token = rows[c].token,
           \A q \in Requests : req'[q].phase \in Working =>
             /\ req[q].phase \in Working /\ req'[q].op = req[q].op
             /\ req'[q].batch = req[q].batch /\ req'[q].seen = req[q].seen
             /\ req'[q].phase \in Sent /\ OnChain(q) => req[q].phase \in Sent
    PROVE  Extra'
<1> USE DEF Working, Holding, Sent
<1>0. \A q \in Requests : req[q].batch \subseteq Creds
  BY DEF RInv, IInv, TypeOK, Request
<1>1. MintOrBurn'
  BY DEF RInv, MintOrBurn
<1>2. MintReplacesBurnt'
  BY <1>0 DEF RInv, MintReplacesBurnt, Mints, OnChain
<1>3. SeenStands'
  BY <1>0 DEF RInv, SeenStands, OnChain
<1> QED
  BY <1>1, <1>2, <1>3 DEF Extra

LEMMA BeginKeeps ==
    ASSUME RInv, NEW r \in Requests, Begin(r)
    PROVE  Extra'
<1> USE DEF dbVars, chainVars, jobVars, Working, Holding, Sent
<1>1. PICK S \in SUBSET Creds : \/ ReadForIssue(r, S)
                                \/ \E op \in Handlers : ReadPending(r, op, S)
                                \/ ReadForRevoke(r, S)
  BY DEF Begin
<1>2. /\ UNCHANGED <<rows, chainTx, burnt>>
      /\ \E op \in Handlers, by \in Officers, v \in Contents, seen \in SUBSET Token :
           /\ Start(r, op, by, S, v, seen)
           /\ op = "revoke" => /\ \A c \in S : rows[c].activated
                               /\ seen = {rows[c].token : c \in S} \ {NoToken}
  <2>1. CASE ReadForIssue(r, S)
    BY <2>1 DEF ReadForIssue, Handlers
  <2>2. CASE \E op \in Handlers : ReadPending(r, op, S)
    BY <2>2 DEF ReadPending
  <2>3. CASE ReadForRevoke(r, S)
    <3>1. {rows[c].token : c \in S} \ {NoToken} \in SUBSET Token
      BY DEF RInv, IInv, TypeOK, Row
    <3> QED
      BY <2>3, <3>1 DEF ReadForRevoke, Handlers
  <2> QED
    BY <1>1, <2>1, <2>2, <2>3
<1>3. PICK op \in Handlers, by \in Officers, v \in Contents, seen \in SUBSET Token :
        /\ Start(r, op, by, S, v, seen)
        /\ op = "revoke" => /\ \A c \in S : rows[c].activated
                            /\ seen = {rows[c].token : c \in S} \ {NoToken}
  BY <1>2
<1>4. /\ req'[r].phase = "read" /\ req'[r].op = op
      /\ req'[r].batch = S /\ req'[r].seen = seen
      /\ \A q \in Requests : q # r => req'[q] = req[q]
  BY <1>3, StartFacts DEF RInv, IInv
<1>5. op = "revoke" => \A c \in S : rows[c].token \in seen
  BY <1>3 DEF RInv, IInv, RowsWellFormed
<1>6. MintOrBurn' /\ MintReplacesBurnt'
  BY <1>2, <1>4 DEF RInv, MintOrBurn, MintReplacesBurnt, Mints
<1>7. SeenStands'
  BY <1>2, <1>4, <1>5 DEF RInv, SeenStands
<1> QED
  BY <1>6, <1>7 DEF Extra

LEMMA SendKeeps ==
    ASSUME RInv, NEW r \in Requests, Send(r)
    PROVE  Extra'
<1> USE DEF Working, Holding, Sent
<1>0. UNCHANGED <<rows, burnt>> /\ req[r].phase = "written"
  BY DEF Send, dbVars, chainVars
<1>1. CASE End(r) /\ UNCHANGED chainTx
  <2>1. /\ req'[r].phase = "done"
        /\ \A q \in Requests : q # r => req'[q] = req[q]
    BY <1>1, EndFacts DEF RInv, IInv
  <2> QED
    BY <1>0, <1>1, <2>1, ExtraKept
<1>2. CASE Move(r, "sent") /\ chainTx' = [chainTx EXCEPT ![r] = Prepared(r)]
  <2>1. /\ req'[r].phase = "sent" /\ req'[r].op = req[r].op
        /\ req'[r].batch = req[r].batch /\ req'[r].seen = req[r].seen
        /\ \A q \in Requests : q # r => req'[q] = req[q]
    BY <1>2, MoveFacts DEF RInv, IInv
  <2>2. /\ chainTx'[r] = Prepared(r)
        /\ \A q \in Requests : q # r => chainTx'[q] = chainTx[q]
    BY <1>2 DEF RInv, IInv, TypeOK
  <2>3. /\ Prepared(r).status = "pending"
        /\ Prepared(r).mint = {} \/ Prepared(r).burn = {}
    BY PreparedFacts DEF RInv
  <2>4. MintOrBurn' /\ MintReplacesBurnt'
    BY <1>0, <2>1, <2>2, <2>3 DEF RInv, MintOrBurn, MintReplacesBurnt, Mints
  <2>5. SeenStands'
    BY <1>0, <2>1, <2>2, <2>3 DEF RInv, SeenStands
  <2> QED
    BY <2>4, <2>5 DEF Extra
<1> QED
  BY <1>1, <1>2 DEF Send

LEMMA MineKeeps ==
    ASSUME RInv, NEW r \in Requests, Mine(r)
    PROVE  Extra'
<1> USE DEF Working, Holding, Sent
<1>0. /\ chainTx[r].status = "pending" /\ UNCHANGED <<rows, req>>
      /\ \A q \in Requests : q # r => chainTx'[q] = chainTx[q]
      /\ chainTx'[r].mint = chainTx[r].mint /\ chainTx'[r].burn = chainTx[r].burn
      /\ burnt \subseteq burnt'
  BY DEF Mine, dbVars, chainVars, RInv, IInv, TypeOK, ChainTx
<1>1. MintOrBurn'
  BY <1>0 DEF RInv, MintOrBurn
<1>2. chainTx'[r].status = "mined" => Valid(chainTx[r])
  BY DEF Mine, chainVars, RInv, IInv, TypeOK, ChainTx
<1>3. MintReplacesBurnt'
  <2>1. ASSUME NEW q \in Requests, req'[q].phase \in Sent, Mints(q)',
               chainTx'[q].status = "mined", NEW c \in req'[q].batch
        PROVE  rows'[c].token \in burnt' \cup {NoToken}
    <3>1. CASE q # r
      BY <1>0, <2>1, <3>1 DEF RInv, MintReplacesBurnt, Mints
    <3>2. CASE q = r /\ rows[c].token # NoToken
      <4>1. c \in Creds
        BY <1>0, <2>1 DEF RInv, IInv, TypeOK, Request
      <4>2. PICK e \in minted : e.id = rows[c].token /\ e.id.hash = HashOf[c]
        BY <3>2, <4>1 DEF RInv, IInv, TokensExist
      <4>3. PICK n \in chainTx[r].mint : n.id = TokenFor(r, c)
        BY <1>0, <2>1, <3>2 DEF RInv, IInv, SentIsBuilt, OnChain, Mints
      <4>4. n.id.hash = HashOf[c]
        BY <4>3 DEF TokenFor
      <4>5. ~IssuedOnChain(HashOf[c])
        BY <1>2, <2>1, <3>2, <4>4 DEF Valid
      <4> QED
        BY <1>0, <4>2, <4>5 DEF IssuedOnChain
    <3> QED
      BY <1>0, <3>1, <3>2
  <2> QED
    BY <2>1 DEF MintReplacesBurnt
<1>4. SeenStands'
  <2>1. ASSUME NEW q \in Requests, req'[q].phase \in Working, req'[q].op = "revoke",
               NEW c \in req'[q].batch
        PROVE  \/ rows'[c].token \in req'[q].seen
               \/ /\ req'[q].seen \cap burnt' # {}
                  /\ ~(req'[q].phase \in Sent /\ chainTx'[q].status = "mined")
    <3>1. \/ rows[c].token \in req[q].seen
          \/ /\ req[q].seen \cap burnt # {}
             /\ ~(req[q].phase \in Sent /\ chainTx[q].status = "mined")
      BY <1>0, <2>1 DEF RInv, SeenStands
    <3>2. CASE q # r
      BY <1>0, <3>1, <3>2
    <3>3. CASE q = r /\ req[r].phase \in Sent /\ chainTx'[r].status = "mined"
      <4>1. chainTx[r].burn = req[r].seen
        BY <1>0, <2>1, <3>3 DEF RInv, IInv, SentIsBuilt, OnChain
      <4>2. req[r].seen \cap burnt = {}
        BY <1>2, <3>3, <4>1 DEF Valid
      <4> QED
        BY <1>0, <3>1, <3>3, <4>2
    <3>4. CASE q = r /\ ~(req[r].phase \in Sent /\ chainTx'[r].status = "mined")
      BY <1>0, <3>1, <3>4
    <3> QED
      BY <3>2, <3>3, <3>4
  <2> QED
    BY <2>1 DEF SeenStands
<1> QED
  BY <1>1, <1>3, <1>4 DEF Extra

LEMMA CommitKeeps ==
    ASSUME RInv, NEW r \in Requests, Commit(r)
    PROVE  Extra'
<1> USE DEF Working, Holding, Sent
<1>0. IInv
  BY DEF RInv
<1>1. /\ req[r].phase = "ready" /\ req[r].batch \subseteq Creds
      /\ \A c \in Creds : c \notin req[r].batch \/ ~Mints(r) => rows'[c].token = rows[c].token
  BY <1>0, CommitFacts
<1>2. /\ req'[r].phase = "committed"
      /\ \A q \in Requests : q # r => req'[q] = req[q]
      /\ UNCHANGED <<chainTx, burnt>>
  BY <1>0, MoveFacts DEF Commit, IInv, chainVars
<1>3. MintOrBurn'
  BY <1>2 DEF RInv, MintOrBurn
<1>4. ASSUME NEW q \in Requests, req'[q].phase \in Working
      PROVE  /\ q # r /\ req'[q] = req[q] /\ req[q].batch \subseteq Creds
             /\ req[q].phase \in Holding => req[q].batch \cap req[r].batch = {}
  <2>1. q # r /\ req'[q] = req[q] /\ req[q].batch \subseteq Creds
    BY <1>0, <1>2, <1>4 DEF IInv, TypeOK, Request
  <2> QED
    BY <1>0, <1>1, <2>1 DEF IInv, LocksHold
<1>5. MintReplacesBurnt'
  <2>1. ASSUME NEW q \in Requests, req'[q].phase \in Sent, Mints(q)',
               chainTx'[q].status = "mined", NEW c \in req'[q].batch
        PROVE  rows'[c].token \in burnt' \cup {NoToken}
    <3>1. q # r /\ req'[q] = req[q] /\ c \in Creds /\ c \notin req[r].batch
      BY <1>4, <2>1
    <3>2. rows[c].token \in burnt \cup {NoToken}
      BY <1>2, <2>1, <3>1 DEF RInv, MintReplacesBurnt, Mints
    <3> QED
      BY <1>1, <1>2, <3>1, <3>2
  <2> QED
    BY <2>1 DEF MintReplacesBurnt
<1>6. SeenStands'
  <2>1. ASSUME NEW q \in Requests, req'[q].phase \in Working, req'[q].op = "revoke",
               NEW c \in req'[q].batch
        PROVE  \/ rows'[c].token \in req'[q].seen
               \/ /\ req'[q].seen \cap burnt' # {}
                  /\ ~(req'[q].phase \in Sent /\ chainTx'[q].status = "mined")
    <3>1. /\ q # r /\ req'[q] = req[q] /\ c \in Creds
          /\ req[q].phase \in Holding => c \notin req[r].batch
      BY <1>4, <2>1
    <3>2. /\ \/ rows[c].token \in req[q].seen
             \/ /\ req[q].seen \cap burnt # {}
                /\ ~(req[q].phase \in Sent /\ chainTx[q].status = "mined")
          /\ rows[c].activated
      BY <1>0, <2>1, <3>1 DEF RInv, SeenStands, IInv, TargetsStand
    <3>3. CASE c \notin req[r].batch \/ ~Mints(r)
      BY <1>1, <1>2, <3>1, <3>2, <3>3
    <3>4. CASE c \in req[r].batch /\ Mints(r)
      <4>1. req[q].phase \notin Sent
        BY <3>1, <3>4
      <4>2. chainTx[r].status = "mined"
        BY <1>0, <1>1, <3>4 DEF IInv, SentIsBuilt, OnChain, Mints
      <4>3. rows[c].token \in burnt
        BY <1>0, <1>1, <3>1, <3>2, <3>4, <4>2
           DEF RInv, MintReplacesBurnt, IInv, RowsWellFormed
      <4> QED
        BY <1>2, <3>1, <3>2, <4>1, <4>3
    <3> QED
      BY <3>3, <3>4
  <2> QED
    BY <2>1 DEF SeenStands
<1> QED
  BY <1>3, <1>5, <1>6 DEF Extra

LEMMA SubmitRows ==
    ASSUME IInv, NEW S \in SUBSET Creds, Submit(S)
    PROVE  \A c \in Creds :
             /\ rows'[c].activated <=> rows[c].activated
             /\ rows'[c].rejected <=> rows[c].rejected
             /\ rows'[c].revoked <=> rows[c].revoked
             /\ rows'[c].token = rows[c].token
             /\ rows'[c].stored <=> rows[c].stored \/ c \in S
             /\ c \in S => rows[c] = NoRow
<1>1. PICK v \in Contents :
         rows' = [c \in Creds |-> IF c \in S THEN Pending(v) ELSE rows[c]]
  BY DEF Submit
<1>2. \A c \in S : c \notin drawn
  BY DEF Submit
<1>3. \A c \in S : ~rows[c].stored /\ rows[c] = NoRow
  BY <1>2 DEF IInv, RowsWellFormed
<1>4. /\ \A c \in S : rows'[c] = Pending(v)
      /\ \A c \in Creds : c \notin S => rows'[c] = rows[c]
  BY <1>1
<1>5. /\ Pending(v).stored /\ ~Pending(v).activated /\ ~Pending(v).rejected
      /\ ~Pending(v).revoked /\ Pending(v).token = NoToken
  BY DEF Pending
<1>6. /\ ~NoRow.activated /\ ~NoRow.rejected /\ ~NoRow.revoked /\ NoRow.token = NoToken
  BY DEF NoRow
<1> QED
  BY <1>3, <1>4, <1>5, <1>6

LEMMA EditRows ==
    ASSUME IInv, NEW r \in Requests, Edit(r)
    PROVE  \A c \in Creds : /\ rows'[c].stored <=> rows[c].stored
                            /\ rows'[c].activated <=> rows[c].activated
                            /\ rows'[c].rejected <=> rows[c].rejected
                            /\ rows'[c].revoked <=> rows[c].revoked
                            /\ rows'[c].token = rows[c].token
BY DEF Edit, IInv, TypeOK, Row

LEMMA RInvNext == RInv /\ [Next]_vars => RInv'
<1> SUFFICES ASSUME RInv, [Next]_vars
             PROVE  Extra'
  BY NextSafe DEF RInv, Extra
<1> USE DEF dbVars, chainVars, jobVars, Working, Holding, Sent
<1>0. IInv /\ TypeOK
  BY DEF RInv, IInv
<1>1. ASSUME NEW S \in SUBSET Creds, Submit(S)
      PROVE  Extra'
  <2>1. UNCHANGED <<req, chainTx, burnt>>
    BY <1>1 DEF Submit
  <2> QED
    BY <1>0, <1>1, <2>1, SubmitRows, ExtraKept
<1>2. ASSUME NEW c \in Creds, Lapse(c)
      PROVE  Extra'
  BY <1>2, ExtraKept DEF Lapse
<1>3. ASSUME UNCHANGED vars
      PROVE  Extra'
  BY <1>3, ExtraKept DEF vars
<1>4. ASSUME NEW r \in Requests, End(r), UNCHANGED <<chainTx, burnt>>,
             \A c \in Creds : rows'[c].token = rows[c].token
      PROVE  Extra'
  <2>1. req'[r].phase = "done" /\ \A q \in Requests : q # r => req'[q] = req[q]
    BY <1>0, <1>4, EndFacts
  <2> QED
    BY <1>4, <2>1, ExtraKept
<1>5. ASSUME NEW r \in Requests, NEW p, Move(r, p), UNCHANGED <<chainTx, burnt, rows>>,
             req[r].phase \in Working, p \in Sent /\ OnChain(r) => req[r].phase \in Sent
      PROVE  Extra'
  <2>1. /\ req'[r].phase = p /\ req'[r].op = req[r].op
        /\ req'[r].batch = req[r].batch /\ req'[r].seen = req[r].seen
        /\ \A q \in Requests : q # r => req'[q] = req[q]
    BY <1>0, <1>5, MoveFacts
  <2> QED
    BY <1>5, <2>1, ExtraKept
<1>6. ASSUME NEW r \in Requests, Insert(r) \/ Write(r)
      PROVE  Extra'
  <2>1. UNCHANGED <<chainTx, burnt, rows>> /\ req[r].phase = "read"
    BY <1>6 DEF Insert, Write
  <2>2. CASE End(r)
    BY <1>4, <2>1, <2>2
  <2>3. CASE Move(r, "written")
    BY <1>5, <2>1, <2>3
  <2>4. CASE Write(r) /\ ~OnChainToo(r) /\ Move(r, "ready")
    <3>1. req[r].op \in {"approve", "reject", "revoke"}
      BY <2>4 DEF Write
    <3>2. req[r].op = "revoke" => req[r].seen # {}
      BY <1>0, <2>1 DEF IInv, TargetsStand
    <3>3. ~OnChain(r)
      BY <2>4, <3>1, <3>2 DEF OnChainToo, OnChain
    <3> QED
      BY <1>5, <2>1, <2>4, <3>3
  <2> QED
    BY <1>6, <2>2, <2>3, <2>4 DEF Insert, Write
<1>7. ASSUME NEW r \in Requests, Receipt(r) \/ EnqueueExtract(r)
      PROVE  Extra'
  <2>1. UNCHANGED <<chainTx, burnt, rows>> /\ req[r].phase \in Sent
    BY <1>7 DEF Receipt, EnqueueExtract
  <2>2. End(r) \/ \E p : Move(r, p)
    BY <1>7 DEF Receipt, EnqueueExtract
  <2> QED
    BY <1>4, <1>5, <2>1, <2>2
<1>8. ASSUME NEW r \in Requests, QueueMail(r) \/ Fail(r)
      PROVE  Extra'
  BY <1>4, <1>8 DEF QueueMail, Fail
<1>9. ASSUME NEW r \in Requests, Edit(r)
      PROVE  Extra'
  <2>1. End(r) /\ UNCHANGED <<chainTx, burnt>>
    BY <1>9 DEF Edit
  <2> QED
    BY <1>0, <1>4, <1>9, <2>1, EditRows
<1> QED
  BY <1>1, <1>2, <1>3, <1>6, <1>7, <1>8, <1>9, BeginKeeps, SendKeeps, MineKeeps,
     CommitKeeps DEF Next, Step, Quiet

LEMMA RInvInit == Init => RInv
<1> SUFFICES ASSUME Init
             PROVE  Extra
  BY IInvInit DEF RInv, Extra
<1>1. \A r \in Requests : req[r].phase = "idle" /\ chainTx[r].mint = {}
  BY DEF Init, Inactive, NoTx
<1> QED
  BY <1>1 DEF Extra, MintOrBurn, MintReplacesBurnt, SeenStands, Working, Holding, Sent

(* The invariant with what revocations know. *)
THEOREM RevocationsInvariant == Spec => []RInv
BY RInvInit, RInvNext, PTL DEF Spec

-----------------------------------------------------------------------------
(* Only submissions and commits change a row's timestamps. *)
LEMMA RowsMove ==
    ASSUME RInv, [Next]_vars
    PROVE  \/ \E S \in SUBSET Creds : Submit(S)
           \/ \E r \in Requests : Commit(r)
           \/ \A c \in Creds : /\ rows'[c].stored <=> rows[c].stored
                               /\ rows'[c].activated <=> rows[c].activated
                               /\ rows'[c].rejected <=> rows[c].rejected
                               /\ rows'[c].revoked <=> rows[c].revoked
<1> USE DEF dbVars, chainVars, jobVars
<1>0. IInv
  BY DEF RInv
<1>1. ASSUME NEW r \in Requests, Step(r)
      PROVE  Commit(r) \/ Edit(r) \/ rows' = rows
  BY <1>1 DEF Step, Insert, Write, Send, Receipt, EnqueueExtract, QueueMail
<1>2. ASSUME NEW r \in Requests, Begin(r) \/ Mine(r) \/ Fail(r)
      PROVE  rows' = rows
  BY <1>2 DEF Begin, ReadForIssue, ReadPending, ReadForRevoke, Mine, Fail
<1>3. ASSUME NEW c \in Creds, Lapse(c)
      PROVE  rows' = rows
  BY <1>3 DEF Lapse
<1> QED
  BY <1>0, <1>1, <1>2, <1>3, EditRows DEF Next, Quiet, vars

(* A row becomes activated only in a commit whose token is live on chain.  *)
THEOREM ActivationsAreBacked == Spec => ActivationIsBacked
<1>1. ASSUME RInv, [Next]_vars, NEW c \in Creds, ~rows[c].activated, rows'[c].activated
      PROVE  \E e \in minted : e.id = rows'[c].token /\ e.id \notin burnt
  <2>0. IInv
    BY <1>1 DEF RInv
  <2>1. PICK r \in Requests : Commit(r)
    BY <1>1, <2>0, RowsMove, SubmitRows
  <2>2. c \in req[r].batch /\ Mints(r) /\ rows'[c].token = TokenFor(r, c)
    BY <1>1, <2>0, <2>1, CommitFacts
  <2>3. req[r].phase = "ready" /\ req[r].op # "update"
    BY <2>0, <2>1, CommitFacts
  <2>4. /\ chainTx[r].status = "mined"
        /\ \E e \in minted : e.id = TokenFor(r, c) /\ e.uri = c
    BY <2>0, <2>2, <2>3, ReadyFacts
  <2>5. TokenFor(r, c) \notin burnt
    BY <2>0, <2>2, <2>3, <2>4 DEF IInv, TokensFresh, Sent
  <2> QED
    BY <2>2, <2>4, <2>5
<1>2. RInv /\ [Next]_vars =>
        [\A c \in Creds : ~rows[c].activated /\ rows'[c].activated =>
            \E e \in minted : e.id = rows'[c].token /\ e.id \notin burnt]_vars
  BY <1>1
<1> QED
  BY <1>2, RevocationsInvariant, PTL DEF Spec, ActivationIsBacked

(* A row becomes revoked only after its token is revoked on chain.         *)
THEOREM RevocationsAreOnChain == Spec => RevocationIsOnChain
<1>1. ASSUME RInv, [Next]_vars, NEW c \in Creds, ~rows[c].revoked, rows'[c].revoked
      PROVE  rows[c].token \in burnt
  <2>0. IInv
    BY <1>1 DEF RInv
  <2>1. PICK r \in Requests : Commit(r)
    BY <1>1, <2>0, RowsMove, SubmitRows
  <2>2. c \in req[r].batch /\ req[r].op = "revoke" /\ req[r].phase = "ready"
    BY <1>1, <2>0, <2>1, CommitFacts
  <2>3. chainTx[r].status = "mined" /\ chainTx[r].burn = req[r].seen
    BY <2>0, <2>2 DEF IInv, SentIsBuilt, Sent, OnChain
  <2>4. req[r].seen \subseteq burnt
    BY <2>0, <2>3 DEF IInv, ChainConsistent
  <2>5. rows[c].token \in req[r].seen
    BY <1>1, <2>2, <2>3 DEF RInv, SeenStands, Working, Holding, Sent
  <2> QED
    BY <2>4, <2>5
<1>2. RInv /\ [Next]_vars =>
        [\A c \in Creds : ~rows[c].revoked /\ rows'[c].revoked =>
            rows[c].token \in burnt]_vars
  BY <1>1
<1> QED
  BY <1>2, RevocationsInvariant, PTL DEF Spec, RevocationIsOnChain
-----------------------------------------------------------------------------
(* The refinement: a commit decides the rows of its batch that are not     *)
(* decided yet, a mined transaction anchors or withdraws its tokens, and   *)
(* every other step stutters.                                              *)
Anchored  == {e.uri : e \in minted}
Withdrawn == {e.uri : e \in {f \in minted : f.id \in burnt}}

LEMMA CommitDecides ==
    ASSUME RInv, NEW r \in Requests, Commit(r)
    PROVE  Workflow!WNext
<1> DEFINE S == req[r].batch
           op == req[r].op
           T(s) == {c \in S : Reached(c) = s}
<1>0. IInv
  BY DEF RInv
<1>1. /\ req[r].phase = "ready" /\ op \in {"issue", "approve", "reject", "revoke"}
      /\ S \subseteq Creds
      /\ \A c \in Creds : c \notin S => rows'[c] = rows[c]
      /\ \A c \in S :
           /\ rows'[c].stored
           /\ rows'[c].activated <=> rows[c].activated \/ Mints(r)
           /\ rows'[c].rejected <=> rows[c].rejected \/ op = "reject"
           /\ rows'[c].revoked <=> rows[c].revoked \/ op = "revoke"
  BY <1>0, CommitFacts
<1>2. /\ op = "issue" => \A c \in S : ~rows[c].stored /\ rows[c] = NoRow
      /\ op = "approve" => \A c \in S : rows[c].stored /\ ~rows[c].rejected
      /\ op = "reject" => \A c \in S : rows[c].stored /\ ~rows[c].activated
      /\ op = "revoke" => \A c \in S : rows[c].stored /\ rows[c].activated
      /\ Mints(r) => \A c \in S : c \in Anchored
  BY <1>0, <1>1, ReadyFacts DEF Anchored
<1>3. Anchored' = Anchored /\ Withdrawn' = Withdrawn
  BY DEF Commit, chainVars, Anchored, Withdrawn
<1>4. \A c \in Creds : /\ ~(rows[c].activated /\ rows[c].rejected)
                       /\ rows[c].revoked => rows[c].activated
  BY <1>0 DEF IInv, RowsWellFormed
<1>5. \A c \in Creds \ S : Reached(c)' = Reached(c)
  BY <1>1 DEF Reached
<1>6. CASE op = "issue"
  <2>0. ~NoRow.stored /\ ~NoRow.activated /\ ~NoRow.rejected /\ ~NoRow.revoked
    BY DEF NoRow
  <2>1. \A c \in S : Reached(c) = "none" /\ Reached(c)' = "approved"
    BY <1>1, <1>2, <1>6, <2>0 DEF Reached, Mints
  <2>2. Workflow!Registered(S)
    BY <1>1, <1>2, <1>3, <1>5, <1>6, <2>1
       DEF Workflow!Registered, Workflow!Decide, Anchored, Withdrawn, Mints
  <2> QED
    BY <1>1, <2>2 DEF Workflow!WNext
<1>7. CASE op = "approve"
  <2>1. \A c \in S : /\ Reached(c) = "pending" => Reached(c)' = "approved"
                     /\ Reached(c) # "pending" => Reached(c)' = Reached(c)
    BY <1>1, <1>2, <1>4, <1>7 DEF Reached, Mints
  <2>2. Workflow!Approved(T("pending"))
    BY <1>1, <1>2, <1>3, <1>5, <1>7, <2>1
       DEF Workflow!Approved, Workflow!Decide, Anchored, Withdrawn, Mints
  <2> QED
    BY <1>1, <2>2 DEF Workflow!WNext
<1>8. CASE op = "reject"
  <2>1. \A c \in S : /\ Reached(c) = "pending" => Reached(c)' = "rejected"
                     /\ Reached(c) # "pending" => Reached(c)' = Reached(c)
    BY <1>1, <1>2, <1>4, <1>8 DEF Reached, Mints
  <2>2. Workflow!Rejected(T("pending"))
    BY <1>1, <1>3, <1>5, <2>1
       DEF Workflow!Rejected, Workflow!Decide, Anchored, Withdrawn
  <2> QED
    BY <1>1, <2>2 DEF Workflow!WNext
<1>9. CASE op = "revoke"
  <2>1. \A c \in S : /\ Reached(c) = "approved" => Reached(c)' = "revoked"
                     /\ Reached(c) # "approved" => Reached(c)' = Reached(c)
    BY <1>1, <1>2, <1>4, <1>9 DEF Reached, Mints
  <2>2. req[r].seen \subseteq burnt
    BY <1>0, <1>1, <1>9 DEF IInv, SentIsBuilt, Sent, OnChain, ChainConsistent
  <2>3. \A c \in S : c \in Withdrawn
    BY <1>0, <1>1, <1>9, <2>2 DEF IInv, TargetsStand, Working, Holding, Withdrawn
  <2>4. Workflow!Revoked(T("approved"))
    BY <1>1, <1>3, <1>5, <2>1, <2>3
       DEF Workflow!Revoked, Workflow!Decide, Anchored, Withdrawn
  <2> QED
    BY <1>1, <2>4 DEF Workflow!WNext
<1> QED
  BY <1>1, <1>6, <1>7, <1>8, <1>9

LEMMA SubmitSubmits ==
    ASSUME RInv, NEW S \in SUBSET Creds, Submit(S)
    PROVE  Workflow!WNext
<1>0. IInv
  BY DEF RInv
<1>1. \A c \in Creds : /\ rows'[c].activated <=> rows[c].activated
                       /\ rows'[c].rejected <=> rows[c].rejected
                       /\ rows'[c].revoked <=> rows[c].revoked
                       /\ rows'[c].stored <=> rows[c].stored \/ c \in S
                       /\ c \in S => rows[c] = NoRow
  BY <1>0, SubmitRows
<1>2. \A c \in S : Reached(c) = "none" /\ Reached(c)' = "pending"
  <2>1. ~NoRow.stored /\ ~NoRow.activated /\ ~NoRow.rejected /\ ~NoRow.revoked
    BY DEF NoRow
  <2> QED
    BY <1>1, <2>1 DEF Reached
<1>3. \A c \in Creds \ S : Reached(c)' = Reached(c)
  BY <1>1 DEF Reached
<1>4. UNCHANGED <<minted, burnt>>
  BY DEF Submit, chainVars
<1>5. Workflow!Submitted(S)
  BY <1>2, <1>3, <1>4 DEF Workflow!Submitted, Workflow!Decide
<1> QED
  BY <1>5 DEF Workflow!WNext

LEMMA MineAnchors ==
    ASSUME RInv, NEW r \in Requests, Mine(r)
    PROVE  Workflow!WNext \/ UNCHANGED Workflow!wvars
<1> DEFINE tx == chainTx[r]
<1>0. IInv /\ TypeOK
  BY DEF RInv, IInv
<1>1. \A c \in Creds : Reached(c)' = Reached(c)
  BY DEF Mine, dbVars, Reached
<1>2. CASE UNCHANGED chainVars
  <2>1. UNCHANGED <<minted, burnt>>
    BY <1>2 DEF chainVars
  <2> QED
    BY <1>1, <2>1 DEF Workflow!wvars
<1>3. CASE Valid(tx) /\ minted' = minted \cup tx.mint /\ burnt' = burnt \cup tx.burn
  <2>1. tx.mint \subseteq Entry
    BY <1>0 DEF TypeOK, ChainTx
  <2>2. CASE tx.burn = {}
    <3>1. \A e \in tx.mint : e.id \notin MintedIds
      <4>1. ASSUME NEW e \in tx.mint, NEW f \in minted, f.id = e.id
            PROVE  FALSE
        <5>1. e.id.issuer = tx.by /\ e.id.nonce = tx.nonce
          BY <1>0, <4>1 DEF IInv, ChainConsistent
        <5>2. f.id.nonce < nonces[f.id.issuer]
          BY <1>0 DEF IInv, ChainConsistent
        <5>3. tx.nonce = nonces[tx.by] /\ nonces[tx.by] \in Nat
          BY <1>0, <1>3 DEF Valid, TypeOK, ChainTx
        <5> QED
          BY <4>1, <5>1, <5>2, <5>3
      <4> QED
        BY <4>1 DEF MintedIds
    <3>2. \A e \in tx.mint : e.id \notin burnt
      BY <1>0, <3>1 DEF IInv, ChainConsistent
    <3>3. /\ Anchored' = Anchored \cup {e.uri : e \in tx.mint}
          /\ Withdrawn' = Withdrawn
      BY <1>3, <2>2, <3>2 DEF Anchored, Withdrawn
    <3>4. PICK A \in SUBSET Creds : A = {e.uri : e \in tx.mint}
      BY <2>1 DEF Entry
    <3>5. Workflow!Anchor(A)
      BY <1>1, <3>3, <3>4 DEF Workflow!Anchor, Anchored, Withdrawn
    <3> QED
      BY <3>5 DEF Workflow!WNext
  <2>3. CASE tx.mint = {}
    <3>0. PICK W \in SUBSET Creds : W = {e.uri : e \in {f \in minted : f.id \in tx.burn}}
      BY <1>0 DEF TypeOK, Entry
    <3>1. Anchored' = Anchored /\ Withdrawn' = Withdrawn \cup W /\ W \subseteq Anchored
      BY <1>3, <2>3, <3>0 DEF Anchored, Withdrawn
    <3>2. Workflow!Withdraw(W)
      BY <1>1, <3>1 DEF Workflow!Withdraw, Anchored, Withdrawn
    <3> QED
      BY <3>2 DEF Workflow!WNext
  <2> QED
    BY <2>2, <2>3 DEF RInv, MintOrBurn
<1> QED
  BY <1>2, <1>3 DEF Mine

(* The lifecycle implements the abstract workflow: decisions are final and *)
(* exclusive, an activation follows a mint and a revocation a revocation   *)
(* on chain, for all handlers, requests and failures.                      *)
THEOREM WorkflowImplemented == Spec => ImplementsWorkflow
<1>1. Init => Workflow!WInit
  BY DEF Init, Workflow!WInit, Reached, NoRow
<1>2. RInv /\ [Next]_vars => [Workflow!WNext]_(Workflow!wvars)
  <2> SUFFICES ASSUME RInv, [Next]_vars
               PROVE  Workflow!WNext \/ UNCHANGED Workflow!wvars
    OBVIOUS
  <2>1. CASE UNCHANGED <<minted, burnt>> /\ \A c \in Creds :
                /\ rows'[c].stored <=> rows[c].stored
                /\ rows'[c].activated <=> rows[c].activated
                /\ rows'[c].rejected <=> rows[c].rejected
                /\ rows'[c].revoked <=> rows[c].revoked
    BY <2>1 DEF Workflow!wvars, Reached
  <2>2. CASE \E r \in Requests : Mine(r)
    BY <2>2, MineAnchors
  <2>3. CASE (\E S \in SUBSET Creds : Submit(S)) \/ (\E r \in Requests : Commit(r))
    BY <2>3, SubmitSubmits, CommitDecides
  <2>4. (\E r \in Requests : Mine(r)) \/ UNCHANGED <<minted, burnt>>
    <3> USE DEF chainVars
    <3>1. ASSUME NEW r \in Requests, Step(r) \/ Begin(r) \/ Fail(r)
          PROVE  UNCHANGED <<minted, burnt>>
      <4>1. CASE Step(r)
        BY <4>1 DEF Step, Insert, Write, Edit, Send, Receipt, EnqueueExtract, Commit,
                    QueueMail
      <4>2. CASE Begin(r) \/ Fail(r)
        BY <4>2 DEF Begin, ReadForIssue, ReadPending, ReadForRevoke, Fail
      <4> QED
        BY <3>1, <4>1, <4>2
    <3>2. ASSUME (\E S \in SUBSET Creds : Submit(S)) \/ (\E c \in Creds : Lapse(c))
                 \/ UNCHANGED vars
          PROVE  UNCHANGED <<minted, burnt>>
      BY <3>2 DEF Submit, Lapse, vars
    <3> QED
      BY <3>1, <3>2 DEF Next, Quiet
  <2> QED
    BY <2>1, <2>2, <2>3, <2>4, RowsMove
<1> QED
  BY <1>1, <1>2, RevocationsInvariant, PTL DEF Spec, ImplementsWorkflow, Workflow!WSpec
-----------------------------------------------------------------------------
(* LiveTokensClaimed: what has been minted is committed, as long as no     *)
(* request fails between its send and its commit.                          *)
LExtra == PendingIsAwaited /\ MintIsOfBatch /\ LiveAreClaimed

(* What a request relays, entry by entry. *)
LEMMA PreparedEntries ==
    ASSUME NEW r \in Requests
    PROVE  /\ \A e \in Prepared(r).mint :
                /\ req[r].op # "revoke" /\ e.uri \in req[r].batch
                /\ e.id = [issuer |-> req[r].by, nonce |-> nonces[req[r].by],
                           hash |-> HashOf[e.uri]]
                /\ e.content = MintedContent(r, e.uri)
           /\ req[r].op # "revoke" =>
                \A c \in req[r].batch : \E e \in Prepared(r).mint :
                   /\ e.id = [issuer |-> req[r].by, nonce |-> nonces[req[r].by],
                              hash |-> HashOf[c]]
                   /\ e.content = MintedContent(r, c)
<1> DEFINE entry(c) == [id |-> [issuer |-> req[r].by, nonce |-> nonces[req[r].by],
                                hash |-> HashOf[c]],
                        uri |-> c, content |-> MintedContent(r, c)]
<1>1. Prepared(r).mint = IF req[r].op = "revoke" THEN {}
                         ELSE {entry(c) : c \in req[r].batch}
  BY DEF Prepared
<1>2. \A c : /\ entry(c).uri = c /\ entry(c).content = MintedContent(r, c)
             /\ entry(c).id = [issuer |-> req[r].by, nonce |-> nonces[req[r].by],
                               hash |-> HashOf[c]]
  OBVIOUS
<1> HIDE DEF entry
<1>3. ASSUME NEW e \in Prepared(r).mint
      PROVE  /\ req[r].op # "revoke" /\ e.uri \in req[r].batch
             /\ e.id = [issuer |-> req[r].by, nonce |-> nonces[req[r].by],
                        hash |-> HashOf[e.uri]]
             /\ e.content = MintedContent(r, e.uri)
  <2>1. req[r].op # "revoke" /\ \E c \in req[r].batch : e = entry(c)
    BY <1>1, <1>3
  <2> QED
    BY <1>2, <2>1
<1>4. ASSUME req[r].op # "revoke", NEW c \in req[r].batch
      PROVE  \E e \in Prepared(r).mint :
                /\ e.id = [issuer |-> req[r].by, nonce |-> nonces[req[r].by],
                           hash |-> HashOf[c]]
                /\ e.content = MintedContent(r, c)
  <2>1. entry(c) \in Prepared(r).mint
    BY <1>1, <1>4
  <2> QED
    BY <1>2, <2>1
<1> QED
  BY <1>3, <1>4

(* A step that leaves the chain and the transactions alone: its request    *)
(* still waits for what it has sent, and gives up no claim.                *)
LEMMA ClaimsKept ==
    ASSUME LInv, UNCHANGED <<chainTx, minted, burnt>>,
           \A c \in Creds : rows[c].activated =>
              rows'[c].activated /\ rows'[c].token = rows[c].token,
           NEW r \in Requests,
           \A q \in Requests : q # r => req'[q] = req[q],
           chainTx[r].status # "pending" \/ req'[r].phase = "sent",
           \/ chainTx[r].mint = {}
           \/ req'[r].phase \notin {"idle"} \cup Working
           \/ /\ req[r].phase \in Sent /\ req'[r].phase \in Sent
              /\ req'[r].op = req[r].op /\ req'[r].by = req[r].by
              /\ req'[r].batch = req[r].batch,
           \/ chainTx[r].mint = {} \/ chainTx[r].status # "mined"
           \/ req[r].phase \notin Holding \/ req'[r].phase \in Holding
    PROVE  LExtra'
<1>1. PendingIsAwaited'
  BY DEF LInv, PendingIsAwaited
<1>2. ASSUME NEW q \in Requests, req'[q].phase \in {"idle"} \cup Working,
             NEW e \in chainTx[q].mint
      PROVE  /\ req'[q].phase \in Sent /\ Mints(q)'
             /\ e.uri \in req'[q].batch /\ e.id = TokenFor(q, e.uri)'
  <2>1. /\ req[q].phase \in {"idle"} \cup Working
        /\ req'[q].op = req[q].op /\ req'[q].by = req[q].by
        /\ req'[q].batch = req[q].batch
        /\ req[q].phase \in Sent => req'[q].phase \in Sent
    BY <1>2 DEF Working, Holding, Sent
  <2>2. /\ req[q].phase \in Sent /\ Mints(q)
        /\ e.uri \in req[q].batch /\ e.id = TokenFor(q, e.uri)
    BY <1>2, <2>1 DEF LInv, MintIsOfBatch
  <2>3. TokenFor(q, e.uri)' = TokenFor(q, e.uri)
    BY <2>1 DEF TokenFor
  <2>4. Mints(q)'
    BY <2>1, <2>2 DEF Mints
  <2> QED
    BY <2>1, <2>2, <2>3, <2>4
<1>3. MintIsOfBatch'
  BY <1>2 DEF MintIsOfBatch
<1>4. ASSUME NEW e \in minted, Claimed(e)
      PROVE  Claimed(e)'
  <2>1. e.uri \in Creds
    BY DEF LInv, RInv, IInv, TypeOK, Entry
  <2>2. CASE rows[e.uri].activated /\ rows[e.uri].token = e.id
    BY <2>1, <2>2 DEF Claimed
  <2>3. CASE \E q \in Requests : /\ req[q].phase \in Holding
                                 /\ chainTx[q].status = "mined" /\ e \in chainTx[q].mint
    <3>1. PICK q \in Requests : /\ req[q].phase \in Holding
                                /\ chainTx[q].status = "mined" /\ e \in chainTx[q].mint
      BY <2>3
    <3>2. req'[q].phase \in Holding
      BY <3>1
    <3> QED
      BY <3>1, <3>2 DEF Claimed
  <2> QED
    BY <1>4, <2>2, <2>3 DEF Claimed
<1>5. LiveAreClaimed'
  BY <1>4 DEF LInv, LiveAreClaimed
<1> QED
  BY <1>1, <1>3, <1>5 DEF LExtra

LEMMA SendClaims ==
    ASSUME LInv, NEW r \in Requests, Send(r)
    PROVE  LExtra'
<1> USE DEF Working, Holding, Sent
<1>0. /\ IInv /\ TypeOK
      /\ UNCHANGED <<rows, minted, burnt, nonces>> /\ req[r].phase = "written"
      /\ OnChain(r)
  BY DEF Send, dbVars, chainVars, LInv, RInv, IInv, PhasesMatch
<1>1. chainTx[r].mint = {} /\ chainTx[r].status # "pending"
  BY <1>0 DEF LInv, MintIsOfBatch, PendingIsAwaited
<1>2. CASE End(r) /\ UNCHANGED chainTx
  <2>1. /\ req'[r].phase = "done"
        /\ \A q \in Requests : q # r => req'[q] = req[q]
    BY <1>0, <1>2, EndFacts
  <2> QED
    BY <1>0, <1>1, <1>2, <2>1, ClaimsKept
<1>3. CASE Move(r, "sent") /\ chainTx' = [chainTx EXCEPT ![r] = Prepared(r)]
  <2>1. /\ req'[r].phase = "sent" /\ req'[r].op = req[r].op
        /\ req'[r].by = req[r].by /\ req'[r].batch = req[r].batch
        /\ \A q \in Requests : q # r => req'[q] = req[q]
    BY <1>0, <1>3, MoveFacts
  <2>2. /\ chainTx'[r] = Prepared(r)
        /\ \A q \in Requests : q # r => chainTx'[q] = chainTx[q]
    BY <1>0, <1>3 DEF TypeOK
  <2>3. PendingIsAwaited'
    BY <2>1, <2>2 DEF LInv, PendingIsAwaited
  <2>4. ASSUME NEW e \in Prepared(r).mint
        PROVE  Mints(r)' /\ e.uri \in req'[r].batch /\ e.id = TokenFor(r, e.uri)'
    <3>1. /\ req[r].op # "revoke" /\ e.uri \in req[r].batch
          /\ e.id = [issuer |-> req[r].by, nonce |-> nonces[req[r].by],
                     hash |-> HashOf[e.uri]]
      BY <2>4, PreparedEntries
    <3>2. TokenFor(r, e.uri)' = [issuer |-> req[r].by, nonce |-> nonces[req[r].by],
                                 hash |-> HashOf[e.uri]]
      BY <1>0, <2>1, <2>2, PreparedFacts DEF TokenFor
    <3> QED
      BY <1>0, <2>1, <3>1, <3>2 DEF Mints, OnChain
  <2>5. ASSUME NEW q \in Requests, req'[q].phase \in {"idle"} \cup Working,
               NEW e \in chainTx'[q].mint
        PROVE  /\ req'[q].phase \in Sent /\ Mints(q)'
               /\ e.uri \in req'[q].batch /\ e.id = TokenFor(q, e.uri)'
    <3>1. CASE q = r
      BY <2>1, <2>2, <2>4, <2>5, <3>1
    <3>2. CASE q # r
      <4>1. /\ req'[q] = req[q] /\ chainTx'[q] = chainTx[q]
            /\ TokenFor(q, e.uri)' = TokenFor(q, e.uri) /\ (Mints(q)' <=> Mints(q))
        BY <2>1, <2>2, <3>2 DEF TokenFor, Mints
      <4>2. /\ req[q].phase \in Sent /\ Mints(q)
            /\ e.uri \in req[q].batch /\ e.id = TokenFor(q, e.uri)
        BY <2>5, <4>1 DEF LInv, MintIsOfBatch
      <4> QED
        BY <4>1, <4>2
    <3> QED
      BY <3>1, <3>2
  <2>6. MintIsOfBatch'
    BY <2>5 DEF MintIsOfBatch
  <2>7. ASSUME NEW e \in minted, Claimed(e)
        PROVE  Claimed(e)'
    BY <1>0, <1>1, <2>1, <2>2, <2>7 DEF Claimed
  <2>8. LiveAreClaimed'
    BY <1>0, <2>7 DEF LInv, LiveAreClaimed
  <2> QED
    BY <2>3, <2>6, <2>8 DEF LExtra
<1> QED
  BY <1>2, <1>3 DEF Send

(* What Mine does to the registry and to the transactions. *)
LEMMA MineFacts ==
    ASSUME TypeOK, NEW r \in Requests, Mine(r)
    PROVE  /\ chainTx[r].status = "pending" /\ UNCHANGED <<rows, req>>
           /\ \A q \in Requests : q # r => chainTx'[q] = chainTx[q]
           /\ chainTx'[r].mint = chainTx[r].mint
           /\ chainTx'[r].by = chainTx[r].by /\ chainTx'[r].nonce = chainTx[r].nonce
           /\ burnt \subseteq burnt'
           /\ \/ /\ Valid(chainTx[r]) /\ chainTx'[r].status = "mined"
                 /\ minted' = minted \cup chainTx[r].mint
              \/ chainTx'[r].status = "reverted" /\ minted' = minted
BY DEF Mine, dbVars, chainVars, TypeOK, ChainTx

LEMMA MineClaims ==
    ASSUME LInv, NEW r \in Requests, Mine(r)
    PROVE  LExtra'
<1> USE DEF Working, Holding, Sent
<1>0. /\ TypeOK /\ req[r].phase = "sent"
      /\ chainTx[r].status = "pending" /\ UNCHANGED <<rows, req>>
      /\ \A q \in Requests : q # r => chainTx'[q] = chainTx[q]
      /\ chainTx'[r].mint = chainTx[r].mint
      /\ chainTx'[r].by = chainTx[r].by /\ chainTx'[r].nonce = chainTx[r].nonce
      /\ burnt \subseteq burnt' /\ chainTx'[r].status # "pending"
      /\ \/ chainTx'[r].status = "mined" /\ minted' = minted \cup chainTx[r].mint
         \/ minted' = minted
  BY MineFacts DEF LInv, RInv, IInv, PendingIsAwaited
<1>1. PendingIsAwaited'
  BY <1>0 DEF LInv, PendingIsAwaited
<1>2. MintIsOfBatch'
  <2>1. \A q \in Requests : /\ chainTx'[q].mint = chainTx[q].mint
                            /\ \A c : TokenFor(q, c)' = TokenFor(q, c)
                            /\ Mints(q)' <=> Mints(q)
    BY <1>0 DEF TokenFor, Mints
  <2> QED
    BY <1>0, <2>1 DEF LInv, MintIsOfBatch
<1>3. ASSUME NEW e \in minted, Claimed(e)
      PROVE  Claimed(e)'
  BY <1>0, <1>3 DEF Claimed
<1>4. ASSUME chainTx'[r].status = "mined", NEW e \in chainTx[r].mint
      PROVE  Claimed(e)'
  BY <1>0, <1>4 DEF Claimed
<1>5. LiveAreClaimed'
  BY <1>0, <1>3, <1>4 DEF LInv, LiveAreClaimed
<1> QED
  BY <1>1, <1>2, <1>5 DEF LExtra

(* A commit claims what its request has minted, and what the rows claimed  *)
(* before is theirs still, or revoked.                                     *)
LEMMA CommitClaims ==
    ASSUME LInv, NEW r \in Requests, Commit(r)
    PROVE  LExtra'
<1> USE DEF Working, Holding, Sent
<1>0. RInv /\ IInv /\ TypeOK
  BY DEF LInv, RInv, IInv
<1>1. /\ req[r].phase = "ready" /\ req[r].batch \subseteq Creds
      /\ \A c \in Creds : c \notin req[r].batch => rows'[c] = rows[c]
      /\ \A c \in req[r].batch :
           /\ rows'[c].activated <=> rows[c].activated \/ Mints(r)
           /\ Mints(r) => rows'[c].token = TokenFor(r, c)
           /\ ~Mints(r) => rows'[c].token = rows[c].token
  BY <1>0, CommitFacts
<1>2. /\ req'[r].phase = "committed"
      /\ \A q \in Requests : q # r => req'[q] = req[q]
      /\ UNCHANGED <<chainTx, minted, burnt>>
  BY <1>0, MoveFacts DEF Commit, chainVars
<1>3. PendingIsAwaited'
  BY <1>1, <1>2 DEF LInv, PendingIsAwaited
<1>4. MintIsOfBatch'
  <2>1. \A q \in Requests : q # r => /\ \A c : TokenFor(q, c)' = TokenFor(q, c)
                                     /\ Mints(q)' <=> Mints(q)
    BY <1>2 DEF TokenFor, Mints
  <2> QED
    BY <1>2, <2>1 DEF LInv, MintIsOfBatch
<1>5. ASSUME NEW e \in minted, e \notin chainTx[r].mint, Claimed(e), e.id \notin burnt
      PROVE  Claimed(e)'
  <2>1. e.uri \in Creds /\ e.id \in Token
    BY <1>0 DEF TypeOK, Entry
  <2>2. CASE rows[e.uri].activated /\ rows[e.uri].token = e.id
    <3>1. CASE e.uri \in req[r].batch /\ Mints(r)
      <4>1. chainTx[r].status = "mined"
        BY <1>0, <1>1, <3>1 DEF IInv, SentIsBuilt, OnChain, Mints
      <4>2. rows[e.uri].token \in burnt \cup {NoToken}
        BY <1>0, <1>1, <3>1, <4>1 DEF RInv, MintReplacesBurnt
      <4> QED
        BY <1>5, <2>1, <2>2, <4>2, NoTokenAssumption
    <3>2. CASE ~(e.uri \in req[r].batch /\ Mints(r))
      <4>1. rows'[e.uri].activated /\ rows'[e.uri].token = e.id
        BY <1>1, <2>1, <2>2, <3>2
      <4> QED
        BY <4>1 DEF Claimed
    <3> QED
      BY <3>1, <3>2
  <2>3. CASE \E q \in Requests : /\ req[q].phase \in Holding
                                 /\ chainTx[q].status = "mined" /\ e \in chainTx[q].mint
    BY <1>2, <1>5, <2>3 DEF Claimed
  <2> QED
    BY <1>5, <2>2, <2>3 DEF Claimed
<1>6. ASSUME NEW e \in chainTx[r].mint
      PROVE  Claimed(e)'
  <2>1. Mints(r) /\ e.uri \in req[r].batch /\ e.id = TokenFor(r, e.uri)
    BY <1>1, <1>6 DEF LInv, MintIsOfBatch
  <2>2. rows'[e.uri].activated /\ rows'[e.uri].token = e.id
    BY <1>1, <2>1
  <2> QED
    BY <2>2 DEF Claimed
<1>7. LiveAreClaimed'
  BY <1>2, <1>5, <1>6 DEF LInv, LiveAreClaimed
<1> QED
  BY <1>3, <1>4, <1>7 DEF LExtra

LEMMA StepClaims ==
    ASSUME LInv, ~PostSendFaults, NEW r \in Requests,
           \/ Begin(r) \/ Insert(r) \/ Write(r) \/ Edit(r) \/ Receipt(r)
           \/ EnqueueExtract(r) \/ QueueMail(r) \/ Fail(r)
    PROVE  LExtra'
<1> USE DEF dbVars, chainVars, Working, Holding, Sent
<1>0. IInv /\ TypeOK
  BY DEF LInv, RInv, IInv
<1>1. req[r].phase \in {"idle", "read", "written"} => chainTx[r].mint = {}
  BY DEF LInv, MintIsOfBatch
<1>2. chainTx[r].status = "pending" => req[r].phase = "sent"
  BY DEF LInv, PendingIsAwaited
<1>3. ASSUME End(r), UNCHANGED <<chainTx, minted, burnt>>, chainTx[r].status # "pending",
             \A c \in Creds : rows'[c].activated = rows[c].activated
                              /\ rows'[c].token = rows[c].token,
             \/ chainTx[r].mint = {} \/ chainTx[r].status # "mined"
             \/ req[r].phase \notin Holding
      PROVE  LExtra'
  <2>1. /\ req'[r].phase = "done"
        /\ \A q \in Requests : q # r => req'[q] = req[q]
    BY <1>0, <1>3, EndFacts
  <2>2. req'[r].phase \notin {"idle"} \cup Working
    BY <2>1
  <2> QED
    BY <1>3, <2>1, <2>2, ClaimsKept
<1>4. ASSUME NEW p \in Holding, Move(r, p), UNCHANGED <<chainTx, minted, burnt, rows>>,
             chainTx[r].status # "pending",
             chainTx[r].mint = {} \/ (req[r].phase \in Sent /\ p \in Sent)
      PROVE  LExtra'
  <2>1. /\ req'[r].phase = p /\ req'[r].op = req[r].op
        /\ req'[r].by = req[r].by /\ req'[r].batch = req[r].batch
        /\ \A q \in Requests : q # r => req'[q] = req[q]
    BY <1>0, <1>4, MoveFacts
  <2> QED
    BY <1>4, <2>1, ClaimsKept
<1>5. CASE Begin(r)
  <2>1. PICK S \in SUBSET Creds : \/ ReadForIssue(r, S)
                                  \/ \E op \in Handlers : ReadPending(r, op, S)
                                  \/ ReadForRevoke(r, S)
    BY <1>5 DEF Begin
  <2>2. /\ UNCHANGED <<rows, chainTx, minted, burnt>>
        /\ \E op, by, v, seen : Start(r, op, by, S, v, seen)
    BY <2>1 DEF ReadForIssue, ReadPending, ReadForRevoke
  <2>3. PICK op, by, v, seen : Start(r, op, by, S, v, seen)
    BY <2>2
  <2>4. /\ req[r].phase = "idle" /\ req'[r].phase = "read"
        /\ \A q \in Requests : q # r => req'[q] = req[q]
    BY <1>0, <2>3, StartFacts
  <2> QED
    BY <1>1, <1>2, <2>2, <2>4, ClaimsKept
<1>6. CASE Insert(r) \/ Write(r)
  <2>1. UNCHANGED <<chainTx, minted, burnt, rows>> /\ req[r].phase = "read"
    BY <1>6 DEF Insert, Write
  <2>2. chainTx[r].mint = {} /\ chainTx[r].status # "pending"
    BY <1>1, <1>2, <2>1
  <2>3. CASE End(r)
    BY <1>3, <2>1, <2>2, <2>3
  <2>4. CASE Move(r, "written") \/ Move(r, "ready")
    <3>1. PICK p \in Holding : Move(r, p)
      BY <2>4
    <3> QED
      BY <1>4, <2>1, <2>2, <3>1
  <2> QED
    BY <1>6, <2>3, <2>4 DEF Insert, Write
<1>7. CASE Edit(r)
  <2>1. UNCHANGED <<chainTx, minted, burnt>> /\ req[r].phase = "read" /\ End(r)
    BY <1>7 DEF Edit
  <2>2. \A c \in Creds : rows'[c].activated = rows[c].activated
                         /\ rows'[c].token = rows[c].token
    BY <1>0, <1>7 DEF Edit, TypeOK, Row
  <2> QED
    BY <1>1, <1>2, <1>3, <2>1, <2>2
<1>8. CASE Receipt(r)
  <2>1. /\ UNCHANGED <<chainTx, minted, burnt, rows>> /\ req[r].phase = "sent"
        /\ \/ chainTx[r].status = "reverted" /\ End(r)
           \/ chainTx[r].status = "mined" /\ (Move(r, "ready") \/ Move(r, "minted"))
    BY <1>8 DEF Receipt, Confirmed, Reverted
  <2> QED
    BY <1>3, <1>4, <2>1
<1>9. CASE EnqueueExtract(r)
  <2>1. /\ UNCHANGED <<chainTx, minted, burnt, rows>> /\ req[r].phase = "minted"
        /\ Move(r, "ready")
    BY <1>9 DEF EnqueueExtract
  <2> QED
    BY <1>2, <1>4, <2>1
<1>10. CASE QueueMail(r)
  <2>1. /\ UNCHANGED <<chainTx, minted, burnt, rows>> /\ req[r].phase = "committed"
        /\ End(r)
    BY <1>10 DEF QueueMail
  <2> QED
    BY <1>2, <1>3, <2>1
<1>11. CASE Fail(r)
  <2>1. /\ UNCHANGED <<chainTx, minted, burnt, rows>> /\ End(r)
        /\ \/ req[r].phase \in {"read", "written"}
           \/ req[r].phase = "ready" /\ chainTx[r].status = "none"
    BY <1>11 DEF Fail, CanFail
  <2> QED
    BY <1>1, <1>2, <1>3, <2>1
<1> QED
  BY <1>5, <1>6, <1>7, <1>8, <1>9, <1>10, <1>11

LEMMA LInvNext == ~PostSendFaults /\ LInv /\ [Next]_vars => LInv'
<1> SUFFICES ASSUME ~PostSendFaults, LInv, [Next]_vars
             PROVE  LExtra'
  BY RInvNext DEF LInv, LExtra
<1>0. RInv /\ IInv
  BY DEF LInv, RInv
<1>1. ASSUME UNCHANGED <<req, chainTx, minted, burnt>>,
             \A c \in Creds : rows[c].activated =>
                rows'[c].activated /\ rows'[c].token = rows[c].token
      PROVE  LExtra'
  <2>1. PendingIsAwaited'
    BY <1>1 DEF LInv, PendingIsAwaited
  <2>2. MintIsOfBatch'
    BY <1>1 DEF LInv, MintIsOfBatch, TokenFor, Mints
  <2>3. \A e \in minted : e.uri \in Creds
    BY <1>0 DEF IInv, TypeOK, Entry
  <2>4. LiveAreClaimed'
    BY <1>1, <2>3 DEF LInv, LiveAreClaimed, Claimed
  <2> QED
    BY <2>1, <2>2, <2>4 DEF LExtra
<1>2. ASSUME NEW S \in SUBSET Creds, Submit(S)
      PROVE  LExtra'
  <2>1. UNCHANGED <<req, chainTx, minted, burnt>>
    BY <1>2 DEF Submit, chainVars
  <2> QED
    BY <1>0, <1>1, <1>2, <2>1, SubmitRows
<1>3. ASSUME NEW c \in Creds, Lapse(c)
      PROVE  LExtra'
  BY <1>1, <1>3 DEF Lapse, chainVars
<1>4. CASE UNCHANGED vars
  BY <1>1, <1>4 DEF vars
<1> QED
  BY <1>2, <1>3, <1>4, SendClaims, MineClaims, CommitClaims, StepClaims
     DEF Next, Step, Quiet

LEMMA LInvInit == Init => LInv
<1> SUFFICES ASSUME Init
             PROVE  LExtra
  BY RInvInit DEF LInv, LExtra
<1>1. /\ \A r \in Requests : chainTx[r].status = "none" /\ chainTx[r].mint = {}
      /\ minted = {}
  BY DEF Init, NoTx
<1> QED
  BY <1>1 DEF LExtra, PendingIsAwaited, MintIsOfBatch, LiveAreClaimed

(* When a request that has sent its transaction survives until its commit, *)
(* every live token is claimed by its committed row, or by the request     *)
(* that is about to commit it: reverts, refusals, concurrent approvals and *)
(* revocations orphan none.                                                *)
THEOREM NoTokenIsOrphaned ==
    ASSUME ~PostSendFaults
    PROVE  Spec => []LiveTokensClaimed
<1>1. LInv /\ [Next]_vars => LInv'
  BY LInvNext
<1>2. LInv => LiveTokensClaimed
  BY DEF LInv, LiveAreClaimed, Claimed, LiveTokensClaimed
<1> QED
  BY LInvInit, <1>1, <1>2, PTL DEF Spec
-----------------------------------------------------------------------------
(* ChainMirrorsRow: what a token copied from its row, where no call edits. *)
MExtra == /\ BatchDistinct /\ IdsDistinct /\ ContentStands /\ ChainMirrorsRow
          /\ \A r \in Requests : req[r].phase = "read" => req[r].op \in Operations

(* A row that is not stored has no token, so every token's row is stored.  *)
LEMMA TokensAreOfRows ==
    ASSUME IInv, NEW c \in Creds, NEW e \in minted, rows[c].token = e.id
    PROVE  rows[c].stored
<1>1. e.id # NoToken
  BY NoTokenAssumption DEF IInv, TypeOK, Entry
<1>2. NoRow.token = NoToken
  BY DEF NoRow
<1>3. ~rows[c].stored => rows[c] = NoRow
  BY DEF IInv, RowsWellFormed
<1> QED
  BY <1>1, <1>2, <1>3

(* A step that mints nothing and sends nothing, and starts no request.     *)
LEMMA MirrorKept ==
    ASSUME MInv, UNCHANGED <<chainTx, minted>>,
           \A c \in Creds : /\ rows'[c].token = rows[c].token
                            /\ rows[c].stored => rows'[c].content = rows[c].content,
           NEW r \in Requests,
           \A q \in Requests : q # r => req'[q] = req[q],
           \/ req'[r].phase \notin Working
           \/ /\ req[r].phase \in Working
              /\ req'[r].phase = "read" => req[r].phase = "read"
              /\ req'[r].op = req[r].op /\ req'[r].by = req[r].by
              /\ req'[r].batch = req[r].batch /\ req'[r].content = req[r].content
              /\ req'[r].phase \in Sent /\ Mints(r) => req[r].phase \in Sent
    PROVE  MExtra'
<1> USE DEF Working, Holding, Sent
<1>0. IInv /\ \A q \in Requests : req[q].batch \subseteq Creds
  BY DEF MInv, IInv, TypeOK, Request
<1>1. ASSUME NEW q \in Requests, req'[q].phase \in Working
      PROVE  /\ req[q].phase \in Working
             /\ req'[q].phase = "read" => req[q].phase = "read"
             /\ req'[q].op = req[q].op /\ req'[q].by = req[q].by
             /\ req'[q].batch = req[q].batch /\ req'[q].content = req[q].content
             /\ req'[q].phase \in Sent /\ Mints(q) => req[q].phase \in Sent
             /\ Mints(q)' <=> Mints(q)
  BY <1>1 DEF Mints
<1>2. BatchDistinct'
  BY <1>1 DEF MInv, BatchDistinct, Distinct
<1>3. IdsDistinct'
  BY DEF MInv, IdsDistinct
<1>4. ContentStands'
  <2>1. ASSUME NEW q \in Requests, req'[q].phase \in Sent, Mints(q)', NEW c \in req'[q].batch
        PROVE  \E e \in chainTx'[q].mint : e.id = TokenFor(q, c)' /\ e.content = MintedContent(q, c)'
    <3>1. /\ req[q].phase \in Sent /\ Mints(q) /\ c \in req[q].batch /\ c \in Creds
          /\ req'[q].op = req[q].op /\ req'[q].by = req[q].by
          /\ req'[q].content = req[q].content
      BY <1>0, <1>1, <2>1
    <3>2. PICK e \in chainTx[q].mint : e.id = TokenFor(q, c) /\ e.content = MintedContent(q, c)
      BY <3>1 DEF MInv, ContentStands
    <3>3. TokenFor(q, c)' = TokenFor(q, c)
      BY <3>1 DEF TokenFor
    <3>4. req[q].op # "issue" => rows'[c].content = rows[c].content
      BY <1>0, <3>1 DEF IInv, TargetsStand
    <3>5. MintedContent(q, c)' = MintedContent(q, c)
      BY <3>1, <3>4 DEF MintedContent
    <3> QED
      BY <3>2, <3>3, <3>5
  <2> QED
    BY <2>1 DEF ContentStands
<1>5. ChainMirrorsRow'
  <2>1. ASSUME NEW c \in Creds, NEW e \in minted, rows'[c].token = e.id
        PROVE  e.content = rows'[c].content
    <3>1. rows[c].token = e.id /\ rows[c].stored
      BY <1>0, <2>1, TokensAreOfRows
    <3> QED
      BY <3>1 DEF MInv, ChainMirrorsRow
  <2> QED
    BY <2>1 DEF ChainMirrorsRow
<1>6. \A q \in Requests : req'[q].phase = "read" => req'[q].op \in Operations
  BY <1>1 DEF MInv
<1> QED
  BY <1>2, <1>3, <1>4, <1>5, <1>6 DEF MExtra

LEMMA BeginMirrors ==
    ASSUME MInv, NEW r \in Requests, Begin(r)
    PROVE  MExtra'
<1> USE DEF dbVars, chainVars, Working, Holding, Sent
<1>0. IInv /\ TypeOK
  BY DEF MInv, IInv
<1>1. PICK S \in SUBSET Creds : \/ ReadForIssue(r, S)
                                \/ \E op \in Handlers : ReadPending(r, op, S)
                                \/ ReadForRevoke(r, S)
  BY DEF Begin
<1>2. /\ UNCHANGED <<rows, chainTx, minted>>
      /\ \E op, by, v, seen : /\ Start(r, op, by, S, v, seen)
                              /\ op \in {"issue", "approve"} => Distinct(S)
  <2>1. CASE ReadForIssue(r, S)
    BY <2>1 DEF ReadForIssue
  <2>2. CASE \E op \in Handlers : ReadPending(r, op, S)
    <3>1. \A c \in S : Active(c)
      BY <2>2 DEF ReadPending, Status, Active
    <3>2. Distinct(S)
      BY <1>0, <3>1 DEF IInv, ActiveFilesDistinct, Distinct
    <3> QED
      BY <2>2, <3>2 DEF ReadPending
  <2>3. CASE ReadForRevoke(r, S)
    <3>1. /\ UNCHANGED <<rows, chainTx, minted>>
          /\ \E by, v, seen : Start(r, "revoke", by, S, v, seen)
      BY <2>3 DEF ReadForRevoke
    <3>2. "revoke" \notin {"issue", "approve"}
      OBVIOUS
    <3> QED
      BY <3>1, <3>2
  <2> QED
    BY <1>1, <2>1, <2>2, <2>3
<1>3. PICK op, by, v, seen : /\ Start(r, op, by, S, v, seen)
                             /\ op \in {"issue", "approve"} => Distinct(S)
  BY <1>2
<1>4. /\ req'[r].phase = "read" /\ req'[r].op = op /\ req'[r].batch = S
      /\ \A q \in Requests : q # r => req'[q] = req[q]
      /\ op \in Operations
  <2>1. op \in Operations
    BY <1>3 DEF Start
  <2> QED
    BY <1>0, <1>3, <2>1, StartFacts
<1>5. BatchDistinct'
  BY <1>3, <1>4 DEF MInv, BatchDistinct, Distinct, Mints
<1>6. IdsDistinct' /\ ChainMirrorsRow'
  BY <1>2 DEF MInv, IdsDistinct, ChainMirrorsRow
<1>7. ContentStands'
  <2>1. ASSUME NEW q \in Requests, req'[q].phase \in Sent
        PROVE  /\ q # r /\ req'[q] = req[q]
               /\ Mints(q)' <=> Mints(q)
               /\ \A c : /\ TokenFor(q, c)' = TokenFor(q, c)
                         /\ MintedContent(q, c)' = MintedContent(q, c)
    BY <1>2, <1>4, <2>1 DEF Mints, TokenFor, MintedContent
  <2> QED
    BY <1>2, <2>1 DEF MInv, ContentStands
<1>8. \A q \in Requests : req'[q].phase = "read" => req'[q].op \in Operations
  BY <1>4 DEF MInv
<1> QED
  BY <1>5, <1>6, <1>7, <1>8 DEF MExtra

LEMMA SendMirrors ==
    ASSUME MInv, NEW r \in Requests, Send(r)
    PROVE  MExtra'
<1> USE DEF Working, Holding, Sent
<1>0. /\ IInv /\ TypeOK
      /\ UNCHANGED <<rows, minted, nonces>> /\ req[r].phase = "written"
      /\ req[r].batch \subseteq Creds
  BY DEF Send, dbVars, chainVars, MInv, IInv, TypeOK, Request
<1>1. CASE End(r) /\ UNCHANGED chainTx
  <2>1. /\ req'[r].phase = "done"
        /\ \A q \in Requests : q # r => req'[q] = req[q]
    BY <1>0, <1>1, EndFacts
  <2> QED
    BY <1>0, <1>1, <2>1, MirrorKept
<1>2. CASE Move(r, "sent") /\ chainTx' = [chainTx EXCEPT ![r] = Prepared(r)]
  <2>1. /\ req'[r].phase = "sent" /\ req'[r].op = req[r].op
        /\ req'[r].by = req[r].by /\ req'[r].batch = req[r].batch
        /\ req'[r].content = req[r].content
        /\ \A q \in Requests : q # r => req'[q] = req[q]
    BY <1>0, <1>2, MoveFacts
  <2>2. /\ chainTx'[r] = Prepared(r)
        /\ \A q \in Requests : q # r => chainTx'[q] = chainTx[q]
    BY <1>0, <1>2 DEF TypeOK
  <2>3. BatchDistinct'
    BY <1>0, <2>1 DEF MInv, BatchDistinct, Distinct, Mints
  <2>4. ASSUME NEW e \in Prepared(r).mint, NEW f \in Prepared(r).mint, e.id = f.id
        PROVE  e = f
    <3>0. ASSUME NEW x \in Prepared(r).mint
          PROVE  /\ req[r].op # "revoke" /\ x.uri \in req[r].batch
                 /\ x.id.hash = HashOf[x.uri] /\ x.content = MintedContent(r, x.uri)
      <4>1. /\ req[r].op # "revoke" /\ x.uri \in req[r].batch
            /\ x.id = [issuer |-> req[r].by, nonce |-> nonces[req[r].by],
                       hash |-> HashOf[x.uri]]
            /\ x.content = MintedContent(r, x.uri)
        BY PreparedEntries
      <4> QED
        BY <4>1
    <3>1. /\ req[r].op # "revoke"
          /\ e.uri \in req[r].batch /\ f.uri \in req[r].batch
          /\ e.id.hash = HashOf[e.uri] /\ f.id.hash = HashOf[f.uri]
          /\ e.content = MintedContent(r, e.uri) /\ f.content = MintedContent(r, f.uri)
      BY <3>0
    <3>2. Mints(r)
      BY <1>0, <3>1 DEF IInv, PhasesMatch, OnChain, Mints
    <3>3. e.uri = f.uri
      BY <1>0, <2>4, <3>1, <3>2 DEF MInv, BatchDistinct, Distinct
    <3>4. e \in Entry /\ f \in Entry
      BY <1>0, PreparedType DEF ChainTx
    <3> QED
      BY <2>4, <3>1, <3>3, <3>4 DEF Entry
  <2>5. IdsDistinct'
    BY <1>0, <2>2, <2>4 DEF MInv, IdsDistinct
  <2>6. ContentStands'
    <3>1. ASSUME NEW q \in Requests, q # r
          PROVE  /\ req'[q] = req[q] /\ chainTx'[q] = chainTx[q]
                 /\ Mints(q)' <=> Mints(q)
                 /\ \A c : /\ TokenFor(q, c)' = TokenFor(q, c)
                           /\ MintedContent(q, c)' = MintedContent(q, c)
      BY <1>0, <2>1, <2>2, <3>1 DEF Mints, TokenFor, MintedContent
    <3>2. ASSUME Mints(r)', NEW c \in req'[r].batch
          PROVE  \E e \in chainTx'[r].mint : /\ e.id = TokenFor(r, c)'
                                             /\ e.content = MintedContent(r, c)'
      <4>1. req[r].op # "revoke" /\ c \in req[r].batch
        BY <2>1, <3>2 DEF Mints
      <4>2. PICK e \in Prepared(r).mint :
               /\ e.id = [issuer |-> req[r].by, nonce |-> nonces[req[r].by],
                          hash |-> HashOf[c]]
               /\ e.content = MintedContent(r, c)
        BY <4>1, PreparedEntries
      <4>3. TokenFor(r, c)' = [issuer |-> req[r].by, nonce |-> nonces[req[r].by],
                               hash |-> HashOf[c]]
        BY <1>0, <2>1, <2>2, PreparedFacts DEF TokenFor
      <4>4. MintedContent(r, c)' = MintedContent(r, c)
        BY <1>0, <2>1 DEF MintedContent
      <4> QED
        BY <2>2, <4>2, <4>3, <4>4
    <3> QED
      BY <3>1, <3>2 DEF MInv, ContentStands
  <2>7. ChainMirrorsRow'
    BY <1>0 DEF MInv, ChainMirrorsRow
  <2>8. \A q \in Requests : req'[q].phase = "read" => req'[q].op \in Operations
    BY <2>1 DEF MInv
  <2> QED
    BY <2>3, <2>5, <2>6, <2>7, <2>8 DEF MExtra
<1> QED
  BY <1>1, <1>2 DEF Send

(* A mined call brings new ids, because its nonce is new. *)
LEMMA MineMirrors ==
    ASSUME MInv, NEW r \in Requests, Mine(r)
    PROVE  MExtra'
<1>0. /\ IInv /\ TypeOK /\ UNCHANGED <<rows, req>>
      /\ \A q \in Requests : q # r => chainTx'[q] = chainTx[q]
      /\ chainTx'[r].mint = chainTx[r].mint
      /\ chainTx'[r].by = chainTx[r].by /\ chainTx'[r].nonce = chainTx[r].nonce
  BY MineFacts DEF MInv, IInv
<1>1. \/ /\ Valid(chainTx[r]) /\ minted' = minted \cup chainTx[r].mint
      \/ minted' = minted
  BY <1>0, MineFacts
<1>2. BatchDistinct'
  BY <1>0 DEF MInv, BatchDistinct, Distinct, Mints
<1>3. ASSUME Valid(chainTx[r]), NEW e \in minted, NEW f \in chainTx[r].mint
      PROVE  e.id # f.id
  <2>1. /\ e.id.nonce < nonces[e.id.issuer] /\ e.id \in Token
        /\ f.id.issuer = chainTx[r].by /\ f.id.nonce = chainTx[r].nonce
    BY <1>0 DEF IInv, ChainConsistent, TypeOK, Entry
  <2>2. chainTx[r].nonce = nonces[chainTx[r].by]
    BY <1>3 DEF Valid
  <2>3. nonces[e.id.issuer] \in Nat /\ e.id.nonce \in Nat
    BY <1>0, <2>1 DEF TypeOK, Token
  <2> QED
    BY <2>1, <2>2, <2>3
<1>4. \A e, f \in minted' : e.id = f.id => e = f
  <2>1. CASE minted' = minted
    BY <2>1 DEF MInv, IdsDistinct
  <2>2. CASE Valid(chainTx[r]) /\ minted' = minted \cup chainTx[r].mint
    BY <1>3, <2>2 DEF MInv, IdsDistinct
  <2> QED
    BY <1>1, <2>1, <2>2
<1>5. \A q \in Requests : chainTx'[q].mint = chainTx[q].mint
  BY <1>0
<1>6. IdsDistinct'
  BY <1>4, <1>5 DEF MInv, IdsDistinct
<1>7. ContentStands'
  <2>1. \A q \in Requests : /\ Mints(q)' <=> Mints(q)
                            /\ \A c : /\ TokenFor(q, c)' = TokenFor(q, c)
                                      /\ MintedContent(q, c)' = MintedContent(q, c)
    BY <1>0 DEF Mints, TokenFor, MintedContent
  <2> QED
    BY <1>0, <1>5, <2>1 DEF MInv, ContentStands
<1>8. ASSUME NEW c \in Creds, NEW e \in minted', rows'[c].token = e.id
      PROVE  e.content = rows'[c].content
  <2>1. rows[c].token # NoToken
    BY <1>0, <1>8, NextType, NoTokenAssumption DEF Next, TypeOK, Entry
  <2>2. PICK f \in minted : f.id = rows[c].token
    BY <1>0, <2>1 DEF IInv, TokensExist
  <2>3. f \in minted' /\ f.content = rows[c].content
    BY <1>1, <2>2 DEF MInv, ChainMirrorsRow
  <2> QED
    BY <1>0, <1>4, <1>8, <2>2, <2>3
<1>9. ChainMirrorsRow'
  BY <1>8 DEF ChainMirrorsRow
<1>10. \A q \in Requests : req'[q].phase = "read" => req'[q].op \in Operations
  BY <1>0 DEF MInv
<1> QED
  BY <1>2, <1>6, <1>7, <1>9, <1>10 DEF MExtra

(* A commit gives each row the token and the content of its own mint. *)
LEMMA CommitMirrors ==
    ASSUME MInv, NEW r \in Requests, Commit(r)
    PROVE  MExtra'
<1> USE DEF Working, Holding, Sent
<1>0. IInv /\ TypeOK
  BY DEF MInv, IInv
<1>1. /\ req[r].phase = "ready" /\ req[r].batch \subseteq Creds
      /\ \A c \in Creds : c \notin req[r].batch => rows'[c] = rows[c]
      /\ \A c \in req[r].batch :
           /\ Mints(r) => rows'[c].token = TokenFor(r, c)
           /\ ~Mints(r) => rows'[c].token = rows[c].token
  BY <1>0, CommitFacts
<1>2. /\ req'[r].phase = "committed"
      /\ \A q \in Requests : q # r => req'[q] = req[q]
      /\ UNCHANGED <<chainTx, minted>>
  BY <1>0, MoveFacts DEF Commit, chainVars
<1>3. \A c \in req[r].batch : rows'[c].content = MintedContent(r, c)
  BY <1>1 DEF Commit, NewRow, MintedContent
<1>4. BatchDistinct'
  BY <1>2 DEF MInv, BatchDistinct, Distinct, Mints
<1>5. IdsDistinct'
  BY <1>2 DEF MInv, IdsDistinct
<1>6. ContentStands'
  <2>1. ASSUME NEW q \in Requests, req'[q].phase \in Sent, Mints(q)', NEW c \in req'[q].batch
        PROVE  \E e \in chainTx'[q].mint : e.id = TokenFor(q, c)' /\ e.content = MintedContent(q, c)'
    <3>1. q # r /\ req'[q] = req[q]
      BY <1>2, <2>1
    <3>2. /\ req[q].phase \in Sent /\ Mints(q) /\ c \in req[q].batch /\ c \in Creds
          /\ TokenFor(q, c)' = TokenFor(q, c)
      BY <1>0, <1>2, <2>1, <3>1 DEF Mints, TokenFor, TypeOK, Request
    <3>3. c \notin req[r].batch
      BY <1>0, <1>1, <3>1, <3>2 DEF IInv, LocksHold
    <3>4. MintedContent(q, c)' = MintedContent(q, c)
      BY <1>1, <3>1, <3>2, <3>3 DEF MintedContent
    <3> QED
      BY <1>2, <3>2, <3>4 DEF MInv, ContentStands
  <2> QED
    BY <2>1 DEF ContentStands
<1>7. ASSUME NEW c \in Creds, NEW e \in minted, rows'[c].token = e.id
      PROVE  e.content = rows'[c].content
  <2>1. CASE c \notin req[r].batch
    BY <1>1, <1>7, <2>1 DEF MInv, ChainMirrorsRow
  <2>2. CASE c \in req[r].batch /\ Mints(r)
    <3>1. PICK f \in chainTx[r].mint : f.id = TokenFor(r, c) /\ f.content = MintedContent(r, c)
      BY <1>1, <2>2 DEF MInv, ContentStands
    <3>2. f \in minted
      BY <1>0, <1>1, <2>2, ReadyFacts DEF Mints
    <3>3. e = f
      BY <1>1, <1>7, <2>2, <3>1, <3>2 DEF MInv, IdsDistinct
    <3> QED
      BY <1>3, <2>2, <3>1, <3>3
  <2>3. CASE c \in req[r].batch /\ ~Mints(r)
    <3>1. rows'[c].content = rows[c].content
      BY <1>3, <2>3 DEF MintedContent, Mints
    <3> QED
      BY <1>1, <1>7, <2>3, <3>1 DEF MInv, ChainMirrorsRow
  <2> QED
    BY <2>1, <2>2, <2>3
<1>8. ChainMirrorsRow'
  BY <1>2, <1>7 DEF ChainMirrorsRow
<1>9. \A q \in Requests : req'[q].phase = "read" => req'[q].op \in Operations
  BY <1>2 DEF MInv
<1> QED
  BY <1>4, <1>5, <1>6, <1>8, <1>9 DEF MExtra

LEMMA StepMirrors ==
    ASSUME MInv, "update" \notin Operations, NEW r \in Requests,
           \/ Insert(r) \/ Write(r) \/ Edit(r) \/ Receipt(r)
           \/ EnqueueExtract(r) \/ QueueMail(r) \/ Fail(r)
    PROVE  MExtra'
<1> USE DEF dbVars, chainVars, Working, Holding, Sent
<1>0. IInv /\ TypeOK
  BY DEF MInv, IInv
<1>1. ASSUME End(r), UNCHANGED <<chainTx, minted, rows>>
      PROVE  MExtra'
  <2>1. /\ req'[r].phase = "done"
        /\ \A q \in Requests : q # r => req'[q] = req[q]
    BY <1>0, <1>1, EndFacts
  <2> QED
    BY <1>1, <2>1, MirrorKept
<1>2. ASSUME NEW p \in Holding, Move(r, p), UNCHANGED <<chainTx, minted, rows>>,
             req[r].phase \in Working, p \in Sent /\ Mints(r) => req[r].phase \in Sent
      PROVE  MExtra'
  <2>1. /\ req'[r].phase = p /\ req'[r].op = req[r].op
        /\ req'[r].by = req[r].by /\ req'[r].batch = req[r].batch
        /\ req'[r].content = req[r].content
        /\ \A q \in Requests : q # r => req'[q] = req[q]
    BY <1>0, <1>2, MoveFacts
  <2>2. /\ req'[r].phase # "read"
        /\ req'[r].phase \in Sent /\ Mints(r) => req[r].phase \in Sent
    BY <1>2, <2>1
  <2> QED
    BY <1>2, <2>1, <2>2, MirrorKept
<1>3. ~Edit(r)
  BY DEF Edit, MInv
<1>4. CASE Insert(r) \/ Write(r)
  <2>1. UNCHANGED <<chainTx, minted, rows>> /\ req[r].phase = "read"
    BY <1>4 DEF Insert, Write
  <2>2. CASE End(r)
    BY <1>1, <2>1, <2>2
  <2>3. CASE Move(r, "written")
    BY <1>2, <2>1, <2>3
  <2>4. CASE Write(r) /\ ~OnChainToo(r) /\ Move(r, "ready")
    <3>1. ~Mints(r)
      BY <2>4 DEF Write, OnChainToo, Mints
    <3> QED
      BY <1>2, <2>1, <2>4, <3>1
  <2> QED
    BY <1>4, <2>2, <2>3, <2>4 DEF Insert, Write
<1>5. CASE Receipt(r) \/ EnqueueExtract(r)
  <2>1. /\ UNCHANGED <<chainTx, minted, rows>> /\ req[r].phase \in {"sent", "minted"}
        /\ End(r) \/ Move(r, "ready") \/ Move(r, "minted")
    BY <1>5 DEF Receipt, EnqueueExtract
  <2> QED
    BY <1>1, <1>2, <2>1
<1>6. CASE QueueMail(r) \/ Fail(r)
  BY <1>1, <1>6 DEF QueueMail, Fail
<1> QED
  BY <1>3, <1>4, <1>5, <1>6

LEMMA MInvNext == "update" \notin Operations /\ MInv /\ [Next]_vars => MInv'
<1> SUFFICES ASSUME "update" \notin Operations, MInv, [Next]_vars
             PROVE  MExtra'
  BY NextSafe DEF MInv, MExtra
<1>0. IInv
  BY DEF MInv
<1>1. ASSUME UNCHANGED <<req, chainTx, minted>>,
             \A c \in Creds : /\ rows'[c].token = rows[c].token
                              /\ rows[c].stored => rows'[c].content = rows[c].content
      PROVE  MExtra'
  <2>1. CASE Requests # {}
    <3>1. PICK r \in Requests : TRUE
      BY <2>1
    <3>2. /\ req'[r].phase = req[r].phase /\ req'[r].op = req[r].op
          /\ req'[r].by = req[r].by /\ req'[r].batch = req[r].batch
          /\ req'[r].content = req[r].content
      BY <1>1
    <3> QED
      BY <1>1, <3>2, MirrorKept DEF Working
  <2>2. CASE Requests = {}
    <3>1. ChainMirrorsRow'
      BY <1>0, <1>1, TokensAreOfRows DEF MInv, ChainMirrorsRow
    <3> QED
      BY <1>1, <2>2, <3>1 DEF MInv, MExtra, BatchDistinct, IdsDistinct, ContentStands
  <2> QED
    BY <2>1, <2>2
<1>2. ASSUME NEW S \in SUBSET Creds, Submit(S)
      PROVE  MExtra'
  <2>1. UNCHANGED <<req, chainTx, minted>>
    BY <1>2 DEF Submit, chainVars
  <2>2. \A c \in Creds : rows[c].stored => rows'[c] = rows[c]
    BY <1>0, <1>2 DEF Submit, IInv, RowsWellFormed
  <2> QED
    BY <1>0, <1>1, <1>2, <2>1, <2>2, SubmitRows
<1>3. ASSUME NEW c \in Creds, Lapse(c)
      PROVE  MExtra'
  BY <1>1, <1>3 DEF Lapse, chainVars
<1>4. CASE UNCHANGED vars
  BY <1>1, <1>4 DEF vars
<1> QED
  BY <1>2, <1>3, <1>4, BeginMirrors, SendMirrors, MineMirrors, CommitMirrors, StepMirrors
     DEF Next, Step, Quiet

LEMMA MInvInit == Init => MInv
<1> SUFFICES ASSUME Init
             PROVE  MExtra
  BY IInvInit DEF MInv, MExtra
<1>1. /\ \A r \in Requests : req[r].phase = "idle" /\ chainTx[r].mint = {}
      /\ minted = {}
  BY DEF Init, NoTx, Inactive
<1> QED
  BY <1>1 DEF MExtra, BatchDistinct, IdsDistinct, ContentStands, ChainMirrorsRow,
              Working, Holding, Sent

(* Where no call edits, a row and its token agree on the fields the mint   *)
(* copied, whatever fails between the two stores.                          *)
THEOREM ChainTellsTheRow ==
    ASSUME "update" \notin Operations
    PROVE  Spec => []ChainMirrorsRow
<1>1. MInv /\ [Next]_vars => MInv'
  BY MInvNext
<1>2. MInv => ChainMirrorsRow
  BY DEF MInv
<1> QED
  BY MInvInit, <1>1, <1>2, PTL DEF Spec
=============================================================================
