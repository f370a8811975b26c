-------------------------- MODULE UserRolesProofs --------------------------
(***************************************************************************)
(* Theorems about UserRoles, for every set of users and requests, any      *)
(* batch size and any choice of handlers and faults: its states are well   *)
(* typed, a row has one writer at a time, what a request commits is what   *)
(* it sent to the contract, and so no row gets ahead of the contract.      *)
(***************************************************************************)
EXTENDS UserRoles, TLAPS

Grants == UNION {[S -> ChainRoles] : S \in SUBSET Users}

LEMMA IdleType == Idle \in Request
BY RootAssumption DEF Idle, Request, Handlers, Roles

LEMMA NoTxType == NoTx \in ChainTx
<1>1. [u \in {} |-> "none"] \in [{} -> ChainRoles]
  BY DEF ChainRoles
<1>2. [u \in {} |-> "none"] \in Grants
  BY <1>1 DEF Grants
<1> QED BY <1>2, RootAssumption DEF NoTx, ChainTx, Grants

(* The role a request sends is one the contract knows. *)
LEMMA NewRoleType ==
    ASSUME TypeOK, NEW r \in Requests, NEW u \in Users
    PROVE  NewRole(r, u) \in ChainRoles
<1>1. req[r] \in Request /\ rows[u] \in Row
  BY DEF TypeOK
<1>2. req[r].role \in Roles /\ rows[u].role \in Roles
  BY <1>1 DEF Request, Row
<1>3. CASE req[r].op = "transfer"
  <2>1. NewRole(r, u) \in {"admin", "super_admin"}
    BY <1>3 DEF NewRole
  <2> QED BY <2>1 DEF ChainRoles, Roles
<1>4. CASE req[r].op # "transfer"
  <2>1. NewRole(r, u) \in {"none", rows[u].role, req[r].role}
    BY <1>4 DEF NewRole
  <2> QED BY <2>1, <1>2 DEF ChainRoles
<1> QED BY <1>3, <1>4

LEMMA PartiesType ==
    ASSUME TypeOK, NEW r \in Requests
    PROVE  Parties(r) \subseteq Users
<1>1. req[r] \in Request
  BY DEF TypeOK
<1> QED BY <1>1 DEF Parties, Request

LEMMA TxType ==
    ASSUME TypeOK, NEW r \in Requests
    PROVE  TxOf(r) \in ChainTx
<1> DEFINE g == [u \in Parties(r) |-> NewRole(r, u)]
<1>1. \A u \in Parties(r) : NewRole(r, u) \in ChainRoles
  BY PartiesType, NewRoleType
<1>2. g \in [Parties(r) -> ChainRoles]
  BY <1>1
<1>3. g \in Grants
  BY <1>2, PartiesType DEF Grants
<1>4. req[r].by \in Users
  BY DEF TypeOK, Request
<1> HIDE DEF g
<1>5. TxOf(r) = [status |-> "pending", by |-> req[r].by,
                 transfer |-> (req[r].op = "transfer"), fresh |-> TRUE, grant |-> g]
  BY DEF TxOf, g
<1> QED BY <1>3, <1>4, <1>5 DEF ChainTx, Grants

(* Finish leaves well-typed requests and transactions. *)
LEMMA FinishType ==
    ASSUME TypeOK, NEW r \in Requests, Finish(r)
    PROVE  req' \in [Requests -> Request] /\ chainTx' \in [Requests -> ChainTx]
BY IdleType, NoTxType DEF TypeOK, Finish

(* Only Delete sends "none", so only rows keep out of it. *)
LEMMA RowRole ==
    ASSUME TypeOK, NEW r \in Requests, NEW u \in Users, req[r].op # "delete"
    PROVE  NewRole(r, u) \in Roles
<1>1. req[r] \in Request /\ rows[u] \in Row
  BY DEF TypeOK
<1>2. req[r].role \in Roles /\ rows[u].role \in Roles
  BY <1>1 DEF Request, Row
<1>3. NewRole(r, u) \in {rows[u].role, req[r].role, "admin", "super_admin"}
  BY DEF NewRole
<1> QED BY <1>2, <1>3 DEF Roles

(* What a statement writes is a row of the table. *)
LEMMA WrittenType ==
    ASSUME TypeOK, NEW r \in Requests, NEW u \in Users
    PROVE  Written(r, u) \in Row
<1>1. req[r] \in Request /\ rows[u] \in Row
  BY DEF TypeOK
<1>2. req[r].role \in Roles
  BY <1>1 DEF Request
<1>3. req[r].op # "delete" => NewRole(r, u) \in Roles
  BY RowRole
<1> QED BY <1>1, <1>2, <1>3 DEF Written, Stored, Deleted, Restored, WithRole, Row

(* The contract keeps its roles well typed, and a mined or reverted transaction *)
(* keeps what it grants.                                                        *)
LEMMA MineType ==
    ASSUME TypeOK, NEW r \in Requests, Mine(r)
    PROVE  onchain' \in [Users -> ChainRoles] /\ chainTx' \in [Requests -> ChainTx]
<1>1. chainTx[r] \in ChainTx
  BY DEF TypeOK
<1>2. chainTx[r].grant \in Grants
  BY <1>1 DEF ChainTx, Grants
<1>3. \A u \in DOMAIN chainTx[r].grant : chainTx[r].grant[u] \in ChainRoles
  BY <1>2 DEF Grants
<1>4. Granted(chainTx[r]) \in [Users -> ChainRoles]
  BY <1>3 DEF Granted, TypeOK
<1>5. \A s \in {"mined", "reverted"} : [chainTx[r] EXCEPT !.status = s] \in ChainTx
  BY <1>1 DEF ChainTx
<1>6. \A q \in Requests :
        [chainTx[q] EXCEPT !.fresh = @ /\ chainTx[q].by # chainTx[r].by] \in ChainTx
  <2> TAKE q \in Requests
  <2>1. chainTx[q] \in ChainTx
    BY DEF TypeOK
  <2>2. \A b \in BOOLEAN : [chainTx[q] EXCEPT !.fresh = b] \in ChainTx
    BY <2>1 DEF ChainTx
  <2>3. (chainTx[q].fresh /\ chainTx[q].by # chainTx[r].by) \in BOOLEAN
    OBVIOUS
  <2> QED BY <2>2, <2>3
<1>7. CASE Valid(chainTx[r])
  BY <1>4, <1>5, <1>6, <1>7, NoTxType DEF Mine, TypeOK
<1>8. CASE ~Valid(chainTx[r])
  BY <1>5, <1>8, NoTxType DEF Mine, TypeOK
<1> QED BY <1>7, <1>8
-----------------------------------------------------------------------------
LEMMA InitType == Init => TypeOK
<1> SUFFICES ASSUME Init PROVE TypeOK
  OBVIOUS
<1>1. rows \in [Users -> Row]
  BY DEF Init, Row, Roles
<1>2. req \in [Requests -> Request] /\ chainTx \in [Requests -> ChainTx]
  BY IdleType, NoTxType DEF Init
<1>3. onchain \in [Users -> ChainRoles]
  BY DEF Init, ChainRoles, Roles
<1> QED BY <1>1, <1>2, <1>3 DEF TypeOK

(* One step per action. *)
LEMMA StepType ==
    ASSUME TypeOK, [Next]_vars
    PROVE  TypeOK'
<1>1. CASE UNCHANGED vars
  BY <1>1 DEF vars, TypeOK
<1>2. ASSUME NEW r \in Requests, Start(r) PROVE TypeOK'
  <2>1. PICK by \in Users, op \in Handlers, batch \in Calls, role \in Roles :
            Admit(r, by, op, batch, role)
    BY <1>2 DEF Start
  <2>2. batch \subseteq Users
    BY DEF Calls
  <2>3. rows[by].role \in Roles
    BY DEF TypeOK, Row
  <2>4. [phase |-> "admitted", op |-> op, by |-> by, rank |-> rows[by].role,
         batch |-> batch, role |-> role, targets |-> batch] \in Request
    BY <2>2, <2>3 DEF Request
  <2> QED BY <2>1, <2>4 DEF Admit, TypeOK
<1>3. ASSUME NEW r \in Requests, Read(r) PROVE TypeOK'
  <2>1. Found(r) \subseteq Users /\ ToSync(r) \subseteq Users
    BY DEF TypeOK, Request, Found, ToSync, ChangedRoles, LiveTargets
  <2>2. [req[r] EXCEPT !.phase = "read", !.batch = Found(r),
                       !.targets = ToSync(r)] \in Request
    BY <2>1 DEF TypeOK, Request
  <2> QED BY <1>3, <2>2 DEF Read, TypeOK
<1>4. ASSUME NEW r \in Requests, Deny(r) PROVE TypeOK'
  BY <1>4, FinishType DEF Deny, TypeOK
<1>5. ASSUME NEW r \in Requests, Write(r) PROVE TypeOK'
  <2>1. Claimed(r) \subseteq Users
    BY DEF TypeOK, Request, Claimed
  <2>2. [req[r] EXCEPT !.phase = "written", !.batch = Claimed(r)] \in Request
    BY <2>1 DEF TypeOK, Request
  <2> QED BY <1>5, <2>2 DEF Write, TypeOK
<1>6. ASSUME NEW r \in Requests, Send(r) PROVE TypeOK'
  <2>1. [req[r] EXCEPT !.phase = "sent"] \in Request
    BY DEF TypeOK, Request
  <2> QED BY <1>6, <2>1, TxType DEF Send, Begin, TypeOK
<1>7. ASSUME NEW r \in Requests, Refused(r) PROVE TypeOK'
  BY <1>7, FinishType DEF Refused, TypeOK
<1>8. ASSUME NEW r \in Requests, Commit(r) PROVE TypeOK'
  <2>1. rows' \in [Users -> Row]
    BY <1>8, WrittenType DEF Commit, TypeOK
  <2>2. onchain' \in [Users -> ChainRoles]
    BY <1>8 DEF Commit, TypeOK
  <2>3. req' \in [Requests -> Request] /\ chainTx' \in [Requests -> ChainTx]
    BY <1>8, FinishType DEF Commit
  <2> QED BY <2>1, <2>2, <2>3 DEF TypeOK
<1>9. ASSUME NEW r \in Requests, CommitUnsynced(r) PROVE TypeOK'
  <2>1. rows' \in [Users -> Row]
    BY <1>9, WrittenType DEF CommitUnsynced, TypeOK
  <2>2. req' \in [Requests -> Request] /\ chainTx' \in [Requests -> ChainTx]
    BY <1>9, FinishType DEF CommitUnsynced
  <2> QED BY <1>9, <2>1, <2>2 DEF CommitUnsynced, TypeOK
<1>10. ASSUME NEW r \in Requests, Fail(r) PROVE TypeOK'
  BY <1>10, FinishType DEF Fail, TypeOK
<1>11. ASSUME NEW r \in Requests, Mine(r) PROVE TypeOK'
  <2>1. UNCHANGED <<rows, req>>
    BY <1>11 DEF Mine
  <2> QED BY <1>11, <2>1, MineType DEF TypeOK
<1> QED BY <1>1, <1>2, <1>3, <1>4, <1>5, <1>6, <1>7, <1>8, <1>9, <1>10, <1>11
        DEF Next, Step

(* Every reachable state is well typed. *)
THEOREM TypeCorrect == Spec => []TypeOK
<1>1. Init => TypeOK
  BY InitType
<1>2. TypeOK /\ [Next]_vars => TypeOK'
  BY StepType
<1> QED BY <1>1, <1>2, PTL DEF Spec
-----------------------------------------------------------------------------
(* The inductive invariant: a row has one writer between its statement and   *)
(* the commit, so that the role Restore sends cannot change under it, and    *)
(* what a request sent is what it is about to commit.                        *)

RInv == TypeOK /\ OneWriter /\ SendsWhatItWrites

\* One request's part of SendsWhatItWrites.
Aims(r) == (req[r].phase \in {"read", "written", "sent"} /\ req[r].op # "delete") =>
              /\ req[r].targets \subseteq req[r].batch
              /\ req[r].op # "update" => req[r].targets = req[r].batch
Sends(r) == req[r].phase = "sent" =>
              /\ DOMAIN chainTx[r].grant = Parties(r)
              /\ \A u \in Parties(r) : chainTx[r].grant[u] = NewRole(r, u)

LEMMA SendsParts == SendsWhatItWrites <=> \A r \in Requests : Aims(r) /\ Sends(r)
BY DEF SendsWhatItWrites, Aims, Sends

(* A request that does not move, over rows that keep the roles it holds,    *)
(* still sends what it writes.                                              *)
LEMMA SendsFrame ==
    ASSUME TypeOK, NEW r \in Requests, Aims(r), Sends(r), req'[r] = req[r],
           chainTx'[r].grant = chainTx[r].grant,
           \A u \in Users : Holds(r, u) => rows'[u].role = rows[u].role
    PROVE  Aims(r)' /\ Sends(r)'
<1>1. Aims(r)'
  BY DEF Aims
<1>2. SUFFICES ASSUME req[r].phase = "sent"
               PROVE  /\ DOMAIN chainTx'[r].grant = Parties(r)'
                      /\ \A u \in Parties(r)' : chainTx'[r].grant[u] = NewRole(r, u)'
  BY <1>1 DEF Sends
<1>3. Parties(r)' = Parties(r)
  BY DEF Parties
<1>4. ASSUME NEW u \in Parties(r) PROVE NewRole(r, u)' = NewRole(r, u)
  <2>1. CASE req[r].op = "restore"
    <3>1. u \in req[r].batch
      BY <1>2, <1>4, <2>1 DEF Aims, Parties
    <3>2. Holds(r, u)
      BY <1>2, <2>1, <3>1 DEF Holds
    <3>3. rows'[u].role = rows[u].role
      BY <3>2, <1>4, PartiesType
    <3> QED BY <2>1, <3>3 DEF NewRole
  <2>2. CASE req[r].op # "restore"
    BY <2>2 DEF NewRole
  <2> QED BY <2>1, <2>2
<1> QED BY <1>2, <1>3, <1>4 DEF Sends

(* An idle request holds and sends nothing. *)
LEMMA IdleSends == ASSUME NEW r \in Requests, req'[r].phase \in {"idle", "admitted"}
                   PROVE  Aims(r)' /\ Sends(r)' /\ \A u : ~Holds(r, u)'
BY DEF Aims, Sends, Holds

(* A step that adds no holder keeps every row at one writer. *)
LEMMA WritersFrame ==
    ASSUME OneWriter, \A q \in Requests : \A u \in Users : Holds(q, u)' => Holds(q, u)
    PROVE  OneWriter'
BY DEF OneWriter

LEMMA FinishFrame ==
    ASSUME TypeOK, NEW r \in Requests, Finish(r)
    PROVE  /\ req'[r].phase = "idle"
           /\ \A q \in Requests \ {r} : req'[q] = req[q] /\ chainTx'[q] = chainTx[q]
BY DEF Finish, TypeOK, Idle

(* A request that ends, without touching the rows others hold, harms nobody. *)
LEMMA FinishKeeps ==
    ASSUME RInv, NEW r \in Requests, Finish(r),
           \A q \in Requests \ {r} : \A u \in Users :
               Holds(q, u) => rows'[u].role = rows[u].role
    PROVE  OneWriter' /\ SendsWhatItWrites'
<1>1. TypeOK /\ OneWriter /\ \A q \in Requests : Aims(q) /\ Sends(q)
  BY SendsParts DEF RInv
<1>2. /\ req'[r].phase = "idle"
      /\ \A q \in Requests \ {r} : req'[q] = req[q] /\ chainTx'[q] = chainTx[q]
  BY <1>1, FinishFrame
<1>3. \A q \in Requests : \A u \in Users : Holds(q, u)' => Holds(q, u)
  BY <1>2 DEF Holds
<1>4. ASSUME NEW q \in Requests PROVE Aims(q)' /\ Sends(q)'
  <2>1. CASE q = r
    BY <1>2, <2>1, IdleSends
  <2>2. CASE q # r
    BY <1>1, <1>2, <2>2, SendsFrame
  <2> QED BY <2>1, <2>2
<1>5. SendsWhatItWrites'
  BY <1>4 DEF SendsWhatItWrites, Aims, Sends
<1> QED BY <1>1, <1>3, <1>5, WritersFrame

(* A request that moves on, and writes nothing yet, leaves the others alone. *)
LEMMA MoveKeeps ==
    ASSUME RInv, NEW r \in Requests, rows' = rows,
           \A q \in Requests \ {r} : req'[q] = req[q] /\ chainTx'[q].grant = chainTx[q].grant,
           Aims(r)', Sends(r)'
    PROVE  SendsWhatItWrites'
<1>1. TypeOK /\ \A q \in Requests : Aims(q) /\ Sends(q)
  BY SendsParts DEF RInv
<1>2. ASSUME NEW q \in Requests PROVE Aims(q)' /\ Sends(q)'
  <2>1. CASE q = r
    BY <2>1
  <2>2. CASE q # r
    BY <1>1, <2>2, SendsFrame
  <2> QED BY <2>1, <2>2
<1> QED BY <1>2 DEF SendsWhatItWrites, Aims, Sends

(* Whoever commits holds the rows it touches, or finds them free. *)
LEMMA TouchedIsFree ==
    ASSUME RInv, NEW r \in Requests, Commit(r), NEW q \in Requests \ {r},
           NEW u \in Users, Holds(q, u)
    PROVE  u \notin Touched(r)
<1>1. TypeOK /\ OneWriter /\ Aims(r)
  BY SendsParts DEF RInv
<1>2. req[r].phase = "sent"
  BY DEF Commit
<1>3. CASE req[r].op = "transfer"
  BY <1>3 DEF Commit, Free
<1>4. CASE req[r].op # "transfer"
  <2>1. Touched(r) \subseteq req[r].batch
    BY <1>1, <1>2, <1>4 DEF Touched, Parties, Aims
  <2>2. u \in req[r].batch => Holds(r, u)
    BY <1>2, <1>4 DEF Holds
  <2> QED BY <1>1, <2>1, <2>2 DEF OneWriter
<1> QED BY <1>3, <1>4
-----------------------------------------------------------------------------
LEMMA InitR == Init => RInv
<1> SUFFICES ASSUME Init PROVE RInv
  OBVIOUS
<1>1. \A r \in Requests : req[r].phase = "idle"
  BY DEF Init, Idle
<1> QED BY <1>1, InitType DEF RInv, OneWriter, SendsWhatItWrites, Holds

(* One step per action. *)
LEMMA StepR ==
    ASSUME RInv, [Next]_vars
    PROVE  OneWriter' /\ SendsWhatItWrites'
<1>0. TypeOK /\ OneWriter /\ \A q \in Requests : Aims(q) /\ Sends(q)
  BY SendsParts DEF RInv
<1>1. CASE UNCHANGED vars
  <2>1. \A q \in Requests : \A u \in Users : Holds(q, u)' => Holds(q, u)
    BY <1>1 DEF vars, Holds
  <2>2. \A q \in Requests : Aims(q)' /\ Sends(q)'
    BY <1>0, <1>1, SendsFrame DEF vars
  <2>3. SendsWhatItWrites'
    BY <2>2 DEF SendsWhatItWrites, Aims, Sends
  <2> QED BY <1>0, <2>1, <2>3, WritersFrame
<1>2. ASSUME NEW r \in Requests, Start(r) PROVE OneWriter' /\ SendsWhatItWrites'
  <2>1. PICK by \in Users, op \in Handlers, batch \in Calls, role \in Roles :
            Admit(r, by, op, batch, role)
    BY <1>2 DEF Start
  <2>2. /\ req'[r].phase = "admitted"
        /\ \A q \in Requests \ {r} : req'[q] = req[q]
        /\ rows' = rows /\ chainTx' = chainTx
    BY <1>0, <2>1 DEF Admit, TypeOK
  <2>3. \A q \in Requests : \A u \in Users : Holds(q, u)' => Holds(q, u)
    BY <2>2 DEF Holds
  <2>4. Aims(r)' /\ Sends(r)'
    BY <2>2, IdleSends
  <2>5. SendsWhatItWrites'
    BY <2>2, <2>4, MoveKeeps
  <2> QED BY <1>0, <2>3, <2>5, WritersFrame
<1>3. ASSUME NEW r \in Requests, Read(r) PROVE OneWriter' /\ SendsWhatItWrites'
  <2>1. /\ req'[r] = [req[r] EXCEPT !.phase = "read", !.batch = Found(r),
                                    !.targets = ToSync(r)]
        /\ \A q \in Requests \ {r} : req'[q] = req[q]
        /\ rows' = rows /\ chainTx' = chainTx
    BY <1>0, <1>3 DEF Read, TypeOK
  <2>2. /\ req'[r].phase = "read" /\ req'[r].op = req[r].op
        /\ req'[r].batch = Found(r) /\ req'[r].targets = ToSync(r)
    BY <1>0, <2>1 DEF TypeOK, Request
  <2>3. \A q \in Requests : \A u \in Users : Holds(q, u)' => Holds(q, u)
    BY <2>1, <2>2 DEF Holds
  <2>4. Aims(r)'
    BY <2>2 DEF Aims, ToSync, ChangedRoles
  <2>5. Sends(r)'
    BY <2>2 DEF Sends
  <2>6. SendsWhatItWrites'
    BY <2>1, <2>4, <2>5, MoveKeeps
  <2> QED BY <1>0, <2>3, <2>6, WritersFrame
<1>4. ASSUME NEW r \in Requests, Deny(r) PROVE OneWriter' /\ SendsWhatItWrites'
  BY <1>4, FinishKeeps DEF Deny
<1>5. ASSUME NEW r \in Requests, Write(r) PROVE OneWriter' /\ SendsWhatItWrites'
  <2>1. /\ req'[r].phase = "written" /\ req'[r].op = req[r].op
        /\ req'[r].targets = req[r].targets
        /\ req[r].op # "delete" => req'[r].batch = req[r].batch
        /\ req'[r].batch \subseteq req[r].batch
        /\ req[r].phase = "read" /\ Free(r, req[r].batch)
    BY <1>0, <1>5 DEF Write, TypeOK, Request
  <2>2. /\ \A q \in Requests \ {r} : req'[q] = req[q]
        /\ rows' = rows /\ chainTx' = chainTx
    BY <1>0, <1>5 DEF Write, TypeOK
  <2>3. OneWriter'
    <3>1. SUFFICES ASSUME NEW q \in Requests, NEW p \in Requests, NEW u \in Users,
                          Holds(q, u)', Holds(p, u)', q # p
                   PROVE  FALSE
      BY DEF OneWriter
    <3>2. CASE q # r /\ p # r
      BY <1>0, <2>2, <3>1, <3>2 DEF Holds, OneWriter
    <3>3. ASSUME NEW o \in Requests \ {r}, Holds(o, u)', Holds(r, u)' PROVE FALSE
      <4>1. Holds(o, u) /\ u \in req[r].batch
        BY <2>1, <2>2, <3>3 DEF Holds
      <4> QED BY <2>1, <4>1 DEF Free
    <3> QED BY <3>1, <3>2, <3>3
  <2>4. Aims(r)'
    BY <1>0, <2>1 DEF Aims
  <2>5. Sends(r)'
    BY <2>1 DEF Sends
  <2> QED BY <2>2, <2>3, <2>4, <2>5, MoveKeeps
<1>6. ASSUME NEW r \in Requests, Send(r) PROVE OneWriter' /\ SendsWhatItWrites'
  <2>1. /\ req'[r] = [req[r] EXCEPT !.phase = "sent"] /\ chainTx'[r] = TxOf(r)
        /\ \A q \in Requests \ {r} : req'[q] = req[q] /\ chainTx'[q] = chainTx[q]
        /\ rows' = rows
    BY <1>0, <1>6 DEF Send, Begin, TypeOK
  <2>2. /\ req'[r].phase = "sent" /\ req'[r].op = req[r].op /\ req'[r].by = req[r].by
        /\ req'[r].targets = req[r].targets /\ req'[r].batch = req[r].batch
        /\ req'[r].role = req[r].role
    BY <1>0, <2>1 DEF TypeOK, Request
  <2>3. req[r].phase \in {"read", "written"}
        /\ (req[r].phase = "read" => req[r].op = "transfer")
    BY <1>6 DEF Send, ReadyToSend
  <2>4. \A q \in Requests : \A u \in Users : Holds(q, u)' => Holds(q, u)
    BY <2>1, <2>2, <2>3 DEF Holds
  <2>5. Aims(r)'
    BY <1>0, <2>2, <2>3 DEF Aims
  <2>6. Sends(r)'
    <3>1. Parties(r)' = Parties(r)
      BY <2>2 DEF Parties
    <3>2. \A u \in Parties(r) : NewRole(r, u)' = NewRole(r, u)
      BY <2>1, <2>2 DEF NewRole
    <3>3. chainTx'[r].grant = [u \in Parties(r) |-> NewRole(r, u)]
      BY <2>1 DEF TxOf
    <3> QED BY <3>1, <3>2, <3>3 DEF Sends
  <2>7. SendsWhatItWrites'
    BY <2>1, <2>5, <2>6, MoveKeeps
  <2> QED BY <1>0, <2>4, <2>7, WritersFrame
<1>7. ASSUME NEW r \in Requests, Refused(r) PROVE OneWriter' /\ SendsWhatItWrites'
  BY <1>7, FinishKeeps DEF Refused
<1>8. ASSUME NEW r \in Requests, Commit(r) PROVE OneWriter' /\ SendsWhatItWrites'
  <2>1. \A q \in Requests \ {r} : \A u \in Users :
            Holds(q, u) => rows'[u].role = rows[u].role
    BY <1>0, <1>8, TouchedIsFree DEF Commit, TypeOK
  <2> QED BY <1>8, <2>1, FinishKeeps DEF Commit
<1>9. ASSUME NEW r \in Requests, CommitUnsynced(r) PROVE OneWriter' /\ SendsWhatItWrites'
  <2>1. \A u \in Users : rows'[u].role = rows[u].role
    BY <1>0, <1>9 DEF CommitUnsynced, Written, Stored, Deleted, Restored, WithRole, TypeOK, Row
  <2> QED BY <1>9, <2>1, FinishKeeps DEF CommitUnsynced
<1>10. ASSUME NEW r \in Requests, Fail(r) PROVE OneWriter' /\ SendsWhatItWrites'
  BY <1>10, FinishKeeps DEF Fail
<1>11. ASSUME NEW r \in Requests, Mine(r) PROVE OneWriter' /\ SendsWhatItWrites'
  <2>1. req' = req /\ rows' = rows
    BY <1>11 DEF Mine
  <2>2. \A q \in Requests : req[q].phase = "sent" => chainTx'[q].grant = chainTx[q].grant
    BY <1>0, <1>11 DEF Mine, TypeOK, ChainTx
  <2>3. ASSUME NEW q \in Requests PROVE Aims(q)' /\ Sends(q)'
    <3>1. CASE req[q].phase = "sent"
      BY <1>0, <2>1, <2>2, <3>1, SendsFrame
    <3>2. CASE req[q].phase # "sent"
      BY <1>0, <2>1, <3>2 DEF Aims, Sends
    <3> QED BY <3>1, <3>2
  <2>4. SendsWhatItWrites'
    BY <2>3 DEF SendsWhatItWrites, Aims, Sends
  <2>5. \A q \in Requests : \A u \in Users : Holds(q, u)' => Holds(q, u)
    BY <2>1 DEF Holds
  <2> QED BY <1>0, <2>4, <2>5, WritersFrame
<1> QED BY <1>1, <1>2, <1>3, <1>4, <1>5, <1>6, <1>7, <1>8, <1>9, <1>10, <1>11
        DEF Next, Step

LEMMA RInvariant == Spec => []RInv
<1>1. RInv /\ [Next]_vars => RInv'
  BY StepR, StepType DEF RInv
<1> QED BY <1>1, InitR, PTL DEF Spec

(* A row has one writer between its statement and its commit: the row locks *)
(* that Postgres holds while the contract is waited for.                    *)
THEOREM WritersExcludeEachOther == Spec => []OneWriter
<1>1. RInv => OneWriter
  BY DEF RInv
<1> QED BY <1>1, RInvariant, PTL

(* What a request has sent to the contract is what it is about to commit. *)
THEOREM SentIsWritten == Spec => []SendsWhatItWrites
<1>1. RInv => SendsWhatItWrites
  BY DEF RInv
<1> QED BY <1>1, RInvariant, PTL
-----------------------------------------------------------------------------
\* The step that RowsFollowChain allows.
Follows == \A u \in Users :
              Effective(u)' \notin {"none", Effective(u)} =>
                  \E r \in Requests : /\ chainTx[r].status = "mined"
                                      /\ u \in DOMAIN chainTx[r].grant
                                      /\ chainTx[r].grant[u] = Effective(u)'

LEMMA RowsStay == rows' = rows => Follows
BY DEF Follows, Effective, Live

(* A commit makes live, or gives a new role to, only users it was granted for. *)
LEMMA CommitFollows ==
    ASSUME RInv, NEW r \in Requests, Commit(r)
    PROVE  Follows
<1>1. TypeOK /\ Aims(r) /\ Sends(r)
  BY SendsParts DEF RInv
<1>2. /\ req[r].phase = "sent" /\ chainTx[r].status = "mined"
      /\ rows' = [u \in Users |-> IF u \in Touched(r) THEN Written(r, u) ELSE rows[u]]
  BY DEF Commit, Confirmed
<1>3. SUFFICES ASSUME NEW u \in Users, Effective(u)' \notin {"none", Effective(u)}
               PROVE  u \in DOMAIN chainTx[r].grant /\ chainTx[r].grant[u] = Effective(u)'
  BY <1>2 DEF Follows
<1>4. u \in Touched(r) /\ rows'[u] = Written(r, u)
  BY <1>2, <1>3 DEF Effective, Live
<1>5. rows[u] \in Row /\ req[r].op \in Handlers
  BY <1>1 DEF TypeOK, Request
<1>6. Effective(u)' = rows'[u].role /\ rows'[u].state = "live"
  BY <1>3 DEF Effective, Live
<1>7. req[r].op # "delete"
  <2>1. SUFFICES ASSUME req[r].op = "delete" PROVE FALSE
    OBVIOUS
  <2>2. Written(r, u).state = "trashed"
    BY <1>5, <2>1 DEF Written, Stored, Deleted, Restored, WithRole, Row
  <2> QED BY <1>4, <1>6, <2>2
<1>8. u \in Parties(r)
  BY <1>1, <1>2, <1>4, <1>7 DEF Touched, Parties, Aims
<1>9. Written(r, u).role = NewRole(r, u)
  BY <1>5, <1>7 DEF Written, Stored, Deleted, Restored, WithRole, NewRole, Row, Handlers
<1> QED BY <1>1, <1>2, <1>4, <1>6, <1>8, <1>9 DEF Sends

LEMMA StepFollows ==
    ASSUME RInv, [Next]_vars
    PROVE  Follows
<1>1. CASE UNCHANGED vars
  BY <1>1, RowsStay DEF vars
<1>2. ASSUME NEW r \in Requests, Start(r) PROVE Follows
  BY <1>2, RowsStay DEF Start, Admit
<1>3. ASSUME NEW r \in Requests, Read(r) \/ Deny(r) \/ Write(r) \/ Send(r)
                                 \/ Refused(r) \/ Fail(r) \/ Mine(r)
      PROVE  Follows
  BY <1>3, RowsStay DEF Read, Deny, Write, Send, Refused, Fail, Mine
<1>4. ASSUME NEW r \in Requests, Commit(r) PROVE Follows
  BY <1>4, CommitFollows
<1>5. ASSUME NEW r \in Requests, CommitUnsynced(r) PROVE Follows
  <2>1. \A u \in Users : rows'[u] = rows[u] \/ rows'[u] = [rows[u] EXCEPT !.state = "trashed"]
    BY <1>5 DEF CommitUnsynced, Written, Stored, Deleted, Restored, WithRole, RInv, TypeOK
  <2>2. \A u \in Users : [rows[u] EXCEPT !.state = "trashed"].state = "trashed"
    BY DEF RInv, TypeOK, Row
  <2>3. \A u \in Users : Effective(u)' \in {"none", Effective(u)}
    BY <2>1, <2>2 DEF Effective, Live
  <2> QED BY <2>3 DEF Follows
<1> QED BY <1>1, <1>2, <1>3, <1>4, <1>5 DEF Next, Step

(* A live user's new role was mined before it is committed: whatever fails, *)
(* repeats or overtakes, Postgres never gets ahead of the contract.         *)
THEOREM RowsNeverLead == Spec => RowsFollowChain
<1>1. RInv /\ [Next]_vars => [Follows]_vars
  BY StepFollows
<1> QED BY <1>1, RInvariant, PTL DEF Spec, RowsFollowChain, Follows
-----------------------------------------------------------------------------
(* When both sources agree: while nobody deletes, restores or hands the      *)
(* office over at the same time as another call runs, and no call fails      *)
(* after its transaction was sent.  Without these conditions they do not,    *)
(* as the README tells.                                                      *)

Lone == {"delete", "restore", "transfer"}

Orderly == ~PostSendFaults /\ Lone \cap Operations \subseteq Exclusive

Active(r)  == req[r].phase # "idle"
Fetched(r) == req[r].phase \in {"read", "written", "sent"}

All(S, state) == \A u \in S : rows[u].state = state

LoneRunsAlone == \A r, q \in Requests :
                     Active(r) /\ Active(q) /\ req[r].op \in Lone => r = q

\* Two calls of Store draw different ids.
NewUsersDiffer ==
    \A r, q \in Requests :
        /\ Active(r) /\ req[r].op = "store"
        /\ Active(q) /\ req[q].op = "store"
        /\ r # q
        => req[r].batch \cap req[q].batch = {}

TxOnlyWhenSent ==
    \A r \in Requests : chainTx[r].status # "none" <=> req[r].phase = "sent"

\* What the policies found is still so.
FitsStore(r) ==
    /\ req[r].op \in {"store", "update", "updateRole"} => req[r].role # "super_admin"
    /\ req[r].op = "store" => All(req[r].batch, "absent")

FitsUpdate(r) ==
    req[r].op \in {"update", "updateRole"} /\ Fetched(r) => All(req[r].batch, "live")

FitsRestore(r) ==
    req[r].op = "restore" /\ Fetched(r) => All(req[r].batch, "trashed")

FitsDelete(r) ==
    req[r].op = "delete" =>
        /\ req[r].phase = "read" => req[r].targets = {u \in req[r].batch : Live(u)}
        /\ req[r].phase \in {"written", "sent"} =>
               req[r].targets = req[r].batch /\ All(req[r].batch, "live")

FitsTransfer(r) ==
    req[r].op = "transfer" =>
        /\ Live(req[r].by) /\ req[r].by \notin req[r].batch
        /\ \E u \in Users : req[r].batch = {u}
        /\ Fetched(r) => All(req[r].batch, "live")
        /\ req[r].phase = "sent" => rows[req[r].by].role = "super_admin"

KeepsOffice(r) ==
    req[r].phase = "sent" /\ req[r].op # "transfer" =>
        \A u \in DOMAIN chainTx[r].grant : chainTx[r].grant[u] # "super_admin"

Fits(r) == Active(r) => /\ req[r].op \in Operations
                        /\ FitsStore(r) /\ FitsUpdate(r) /\ FitsRestore(r)
                        /\ FitsDelete(r) /\ FitsTransfer(r) /\ KeepsOffice(r)

\* A block has granted a role that is not committed yet.
Decided(r, u) == chainTx[r].status = "mined" /\ u \in DOMAIN chainTx[r].grant

Agrees(u) == /\ \A r \in Requests : Decided(r, u) => onchain[u] = chainTx[r].grant[u]
             /\ (\A r \in Requests : ~Decided(r, u)) => onchain[u] = Effective(u)

AInv == /\ RInv
        /\ LoneRunsAlone /\ NewUsersDiffer /\ TxOnlyWhenSent
        /\ \A r \in Requests : Fits(r)
        /\ \A u \in Users : Agrees(u)

LEMMA InitA == Init => AInv
<1> SUFFICES ASSUME Init PROVE AInv
  OBVIOUS
<1>1. \A r \in Requests : req[r].phase = "idle" /\ chainTx[r].status = "none"
  BY DEF Init, Idle, NoTx
<1>2. \A u \in Users : onchain[u] = Effective(u)
  BY DEF Init, Effective, Live
<1>3. \A r \in Requests : Fits(r)
  BY <1>1 DEF Fits, Active
<1>4. \A u \in Users : Agrees(u)
  BY <1>1, <1>2 DEF Agrees, Decided
<1> QED BY <1>1, <1>3, <1>4, InitR
        DEF AInv, LoneRunsAlone, NewUsersDiffer, TxOnlyWhenSent, Active

(* What the grant of a sent transaction covers. *)
LEMMA SentGrant ==
    ASSUME AInv, NEW r \in Requests, req[r].phase = "sent"
    PROVE  /\ DOMAIN chainTx[r].grant = Parties(r)
           /\ \A u \in Parties(r) : chainTx[r].grant[u] = NewRole(r, u)
           /\ req[r].op # "transfer" => Parties(r) \subseteq req[r].batch
           /\ req[r].op \notin {"update", "transfer"} => Parties(r) = req[r].batch
           /\ req[r].op = "transfer" => Parties(r) = req[r].batch \cup {req[r].by}
<1>1. Aims(r) /\ Sends(r) /\ FitsDelete(r)
  BY SendsParts DEF AInv, RInv, Fits, Active
<1> QED BY <1>1 DEF Aims, Sends, FitsDelete, Parties

(* Two transactions under way are about different users. *)
LEMMA GrantsDiffer ==
    ASSUME AInv, NEW r \in Requests, NEW q \in Requests, r # q,
           req[r].phase = "sent", req[q].phase = "sent"
    PROVE  Parties(r) \cap Parties(q) = {}
<1>1. req[r].op # "transfer" /\ req[q].op # "transfer"
  BY DEF AInv, LoneRunsAlone, Lone, Active
<1>2. Parties(r) \subseteq req[r].batch /\ Parties(q) \subseteq req[q].batch
  BY <1>1, SentGrant
<1>3. Parties(r) \subseteq Users
  BY PartiesType DEF AInv, RInv
<1>4. \A u \in Parties(r) \cap Parties(q) : Holds(r, u) /\ Holds(q, u)
  BY <1>1, <1>2 DEF Holds
<1> QED BY <1>3, <1>4 DEF AInv, RInv, OneWriter

(* A request that does not move, over rows that keep their states, still fits. *)
LEMMA FitsFrame ==
    ASSUME NEW r, Fits(r), req'[r] = req[r],
           req[r].phase = "sent" => chainTx'[r].grant = chainTx[r].grant,
           Active(r) /\ (req[r].op = "store" \/ Fetched(r)) =>
               \A u \in req[r].batch : rows'[u].state = rows[u].state,
           Active(r) /\ req[r].op = "transfer" => rows'[req[r].by] = rows[req[r].by]
    PROVE  Fits(r)'
<1>. SUFFICES ASSUME Active(r) PROVE Fits(r)'
  BY DEF Fits, Active
<1>1. req[r].op = "store" \/ Fetched(r) =>
          \A s : All(req[r].batch, s) => All(req[r].batch, s)'
  BY DEF All
<1>2. Fetched(r)' = Fetched(r)
  BY DEF Fetched
<1>3. FitsStore(r)' /\ FitsUpdate(r)' /\ FitsRestore(r)'
  BY <1>1, <1>2 DEF Fits, FitsStore, FitsUpdate, FitsRestore
<1>4. FitsDelete(r)'
  BY <1>1 DEF Fits, FitsDelete, Live, Fetched
<1>5. FitsTransfer(r)'
  BY <1>1, <1>2 DEF Fits, FitsTransfer, Live
<1>6. KeepsOffice(r)'
  BY DEF Fits, KeepsOffice
<1> QED BY <1>3, <1>4, <1>5, <1>6 DEF Fits

(* No step but Start makes a request active or changes what it was asked. *)
LEMMA ActiveFrame ==
    ASSUME LoneRunsAlone, NewUsersDiffer,
           \A q \in Requests : Active(q)' => /\ Active(q) /\ req'[q].op = req[q].op
                                             /\ req'[q].batch \subseteq req[q].batch
    PROVE  LoneRunsAlone' /\ NewUsersDiffer'
<1>1. LoneRunsAlone'
  BY DEF LoneRunsAlone
<1>2. NewUsersDiffer'
  BY DEF NewUsersDiffer
<1> QED BY <1>1, <1>2

(* Requests that end leave nothing behind. *)
LEMMA FinishEnds ==
    ASSUME AInv, NEW r \in Requests, Finish(r), chainTx[r].status # "pending"
    PROVE  /\ req'[r] = Idle /\ chainTx'[r] = NoTx
           /\ \A q \in Requests \ {r} : req'[q] = req[q] /\ chainTx'[q] = chainTx[q]
           /\ LoneRunsAlone' /\ NewUsersDiffer' /\ TxOnlyWhenSent'
<1>1. /\ req'[r] = Idle /\ chainTx'[r] = NoTx
      /\ \A q \in Requests \ {r} : req'[q] = req[q] /\ chainTx'[q] = chainTx[q]
  BY DEF AInv, RInv, TypeOK, Finish
<1>2. ~Active(r)'
  BY <1>1 DEF Active, Idle
<1>3. \A q \in Requests : Active(q)' => /\ Active(q) /\ req'[q].op = req[q].op
                                        /\ req'[q].batch \subseteq req[q].batch
  BY <1>1, <1>2 DEF Active
<1>4. LoneRunsAlone' /\ NewUsersDiffer'
  BY <1>3, ActiveFrame DEF AInv
<1>5. TxOnlyWhenSent'
  BY <1>1 DEF AInv, TxOnlyWhenSent, Idle, NoTx
<1> QED BY <1>1, <1>4, <1>5

(* A request that gives up before its transaction counts. *)
LEMMA GivesUp ==
    ASSUME AInv, NEW r \in Requests, Finish(r), rows' = rows, onchain' = onchain,
           chainTx[r].status \notin {"pending", "mined"}
    PROVE  /\ LoneRunsAlone' /\ NewUsersDiffer' /\ TxOnlyWhenSent'
           /\ \A q \in Requests : Fits(q)'
           /\ \A u \in Users : Agrees(u)'
<1>1. /\ req'[r] = Idle /\ chainTx'[r] = NoTx
      /\ \A q \in Requests \ {r} : req'[q] = req[q] /\ chainTx'[q] = chainTx[q]
      /\ LoneRunsAlone' /\ NewUsersDiffer' /\ TxOnlyWhenSent'
  BY FinishEnds
<1>2. ASSUME NEW q \in Requests PROVE Fits(q)'
  <2>1. CASE q = r
    BY <1>1, <2>1 DEF Fits, Active, Idle
  <2>2. CASE q # r
    BY <1>1, <2>2, FitsFrame DEF AInv
  <2> QED BY <2>1, <2>2
<1>3. \A q \in Requests : \A u \in Users : Decided(q, u)' <=> Decided(q, u)
  BY <1>1 DEF Decided, NoTx
<1>4. \A u \in Users : Effective(u)' = Effective(u)
  BY DEF Effective, Live
<1>5. \A q \in Requests : \A u \in Users : Decided(q, u) => chainTx'[q].grant = chainTx[q].grant
  BY <1>1 DEF Decided
<1>6. \A u \in Users : Agrees(u)'
  BY <1>3, <1>4, <1>5 DEF AInv, Agrees
<1> QED BY <1>1, <1>2, <1>6
-----------------------------------------------------------------------------
AStep == /\ LoneRunsAlone' /\ NewUsersDiffer' /\ TxOnlyWhenSent'
         /\ \A q \in Requests : Fits(q)'
         /\ \A u \in Users : Agrees(u)'

(* The parts of AStep that hold of a step which writes no rows and reaches no *)
(* block, of everybody but its request.                                       *)
LEMMA MoveStep ==
    ASSUME AInv, NEW r \in Requests, rows' = rows, onchain' = onchain,
           \A q \in Requests \ {r} : req'[q] = req[q] /\ chainTx'[q] = chainTx[q],
           Active(r), Active(r)', req'[r].op = req[r].op,
           req'[r].batch \subseteq req[r].batch,
           chainTx'[r].status # "none" <=> req'[r].phase = "sent",
           chainTx[r].status # "mined", chainTx'[r].status # "mined",
           Fits(r)'
    PROVE  AStep
<1>1. \A q \in Requests : Active(q)' => /\ Active(q) /\ req'[q].op = req[q].op
                                        /\ req'[q].batch \subseteq req[q].batch
  BY DEF Active
<1>2. LoneRunsAlone' /\ NewUsersDiffer'
  BY <1>1, ActiveFrame DEF AInv
<1>3. TxOnlyWhenSent'
  BY DEF AInv, TxOnlyWhenSent
<1>4. ASSUME NEW q \in Requests PROVE Fits(q)'
  BY <1>4, FitsFrame DEF AInv
<1>5. \A q \in Requests : \A u \in Users :
          /\ Decided(q, u)' <=> Decided(q, u)
          /\ Decided(q, u) => chainTx'[q].grant = chainTx[q].grant
  BY DEF Decided
<1>6. \A u \in Users : Effective(u)' = Effective(u)
  BY DEF Effective, Live
<1>7. \A u \in Users : Agrees(u)'
  BY <1>5, <1>6 DEF AInv, Agrees
<1> QED BY <1>2, <1>3, <1>4, <1>7 DEF AStep

LEMMA StartAgrees ==
    ASSUME AInv, Orderly, NEW r \in Requests, Start(r)
    PROVE  AStep
<1>1. PICK by \in Users, op \in Handlers, batch \in Calls, role \in Roles :
          Admit(r, by, op, batch, role)
  BY DEF Start
<1>2. /\ req[r].phase = "idle" /\ op \in Operations /\ Alone(r, op) /\ Live(by)
      /\ MayAsk(by, op, batch, role) /\ rows' = rows /\ chainTx' = chainTx
      /\ onchain' = onchain
      /\ \A q \in Requests \ {r} : req'[q] = req[q]
      /\ req'[r].phase = "admitted" /\ req'[r].op = op /\ req'[r].by = by
      /\ req'[r].batch = batch /\ req'[r].role = role
  BY <1>1 DEF Admit, AInv, RInv, TypeOK
<1>3. LoneRunsAlone'
  <2>1. ASSUME NEW q \in Requests \ {r}, Active(q)
        PROVE  op \notin Lone /\ req[q].op \notin Lone
    <3>1. req[q].op \in Operations
      BY <2>1 DEF AInv, Fits
    <3> QED BY <1>2, <2>1, <3>1 DEF Alone, Active, Orderly
  <2>2. ASSUME NEW p \in Requests, NEW q \in Requests, Active(p)', Active(q)',
               req'[p].op \in Lone, p # q
        PROVE  FALSE
    <3>1. CASE p = r
      BY <1>2, <2>1, <2>2, <3>1 DEF Active
    <3>2. CASE q = r
      BY <1>2, <2>1, <2>2, <3>2 DEF Active
    <3>3. CASE p # r /\ q # r
      BY <1>2, <2>2, <3>3 DEF AInv, LoneRunsAlone, Active
    <3> QED BY <3>1, <3>2, <3>3
  <2> QED BY <2>2 DEF LoneRunsAlone
<1>4. NewUsersDiffer'
  <2>1. op = "store" => \A q \in Requests : batch \cap req[q].batch = {}
    BY <1>2 DEF MayAsk, Unused
  <2>2. ASSUME NEW p \in Requests, NEW q \in Requests, Active(p)', Active(q)',
               req'[p].op = "store", req'[q].op = "store", p # q
        PROVE  req'[p].batch \cap req'[q].batch = {}
    <3>1. CASE p = r \/ q = r
      BY <1>2, <2>1, <2>2, <3>1
    <3>2. CASE p # r /\ q # r
      BY <1>2, <2>2, <3>2 DEF AInv, NewUsersDiffer, Active
    <3> QED BY <3>1, <3>2
  <2> QED BY <2>2 DEF NewUsersDiffer
<1>5. TxOnlyWhenSent'
  BY <1>2 DEF AInv, TxOnlyWhenSent
<1>6. ASSUME NEW q \in Requests PROVE Fits(q)'
  <2>1. CASE q # r
    BY <1>2, <2>1, FitsFrame DEF AInv
  <2>2. CASE q = r
    <3>1. FitsStore(r)'
      BY <1>2 DEF FitsStore, MayAsk, PolicyStore, UpdatePreFetch, UpdateRolePreFetch,
                  All, Unused
    <3>2. FitsUpdate(r)' /\ FitsRestore(r)' /\ FitsDelete(r)' /\ KeepsOffice(r)'
      BY <1>2 DEF FitsUpdate, FitsRestore, FitsDelete, KeepsOffice, Fetched
    <3>3. FitsTransfer(r)'
      BY <1>2 DEF FitsTransfer, Fetched, Live, MayAsk, OthersOnly
    <3> QED BY <1>2, <2>2, <3>1, <3>2, <3>3 DEF Fits
  <2> QED BY <2>1, <2>2
<1>7. \A u \in Users : Agrees(u)'
  BY <1>2 DEF AInv, Agrees, Decided, Effective, Live
<1> QED BY <1>3, <1>4, <1>5, <1>6, <1>7 DEF AStep

LEMMA ReadAgrees ==
    ASSUME AInv, NEW r \in Requests, Read(r)
    PROVE  AStep
<1>1. /\ req[r].phase = "admitted" /\ Allowed(r)
      /\ rows' = rows /\ chainTx' = chainTx /\ onchain' = onchain
      /\ \A q \in Requests \ {r} : req'[q] = req[q]
      /\ req'[r].phase = "read" /\ req'[r].op = req[r].op /\ req'[r].by = req[r].by
      /\ req'[r].batch = Found(r) /\ req'[r].role = req[r].role
      /\ req'[r].targets = ToSync(r)
  BY DEF Read, AInv, RInv, TypeOK, Request
<1>2. Found(r) \subseteq req[r].batch
      /\ (req[r].op \in {"update", "updateRole", "transfer"} =>
              All(req[r].batch, "live") /\ Found(r) = req[r].batch)
  BY <1>1 DEF Allowed, UpdatePostFetch, UpdateRolePostFetch, All, Found, Live
<1>3. req[r].op \in Operations /\ FitsStore(r) /\ FitsTransfer(r)
  BY <1>1 DEF AInv, Fits, Active
<1>4. FitsStore(r)'
  BY <1>1, <1>2, <1>3 DEF FitsStore, All
<1>5. FitsUpdate(r)'
  BY <1>1, <1>2 DEF FitsUpdate, All
<1>6. FitsRestore(r)'
  BY <1>1 DEF FitsRestore, Allowed, RestorePostFetch, Trashed, All
<1>7. FitsDelete(r)'
  BY <1>1 DEF FitsDelete, ToSync, LiveTargets, Live
<1>8. FitsTransfer(r)'
  BY <1>1, <1>2, <1>3 DEF FitsTransfer, All, Live
<1>9. Fits(r)'
  BY <1>1, <1>3, <1>4, <1>5, <1>6, <1>7, <1>8 DEF Fits, KeepsOffice
<1>10. chainTx[r].status = "none"
  BY <1>1 DEF AInv, TxOnlyWhenSent
<1> QED BY <1>1, <1>2, <1>9, <1>10, MoveStep DEF Active

LEMMA WriteAgrees ==
    ASSUME AInv, NEW r \in Requests, Write(r)
    PROVE  AStep
<1>1. /\ req[r].phase = "read" /\ req[r].op # "transfer"
      /\ rows' = rows /\ chainTx' = chainTx /\ onchain' = onchain
      /\ \A q \in Requests \ {r} : req'[q] = req[q]
      /\ req'[r].phase = "written" /\ req'[r].op = req[r].op /\ req'[r].by = req[r].by
      /\ req'[r].batch = Claimed(r) /\ req'[r].role = req[r].role
      /\ req'[r].targets = req[r].targets
  BY DEF Write, AInv, RInv, TypeOK, Request
<1>2. Claimed(r) \subseteq req[r].batch
      /\ (req[r].op # "delete" => Claimed(r) = req[r].batch)
  BY DEF Claimed
<1>3. /\ req[r].op \in Operations /\ FitsStore(r) /\ FitsUpdate(r)
      /\ FitsRestore(r) /\ FitsDelete(r)
  BY <1>1 DEF AInv, Fits, Active
<1>4. FitsStore(r)' /\ FitsUpdate(r)' /\ FitsRestore(r)'
  BY <1>1, <1>2, <1>3 DEF FitsStore, FitsUpdate, FitsRestore, Fetched, All
<1>5. FitsDelete(r)'
  BY <1>1, <1>3 DEF FitsDelete, Claimed, Live, All
<1>6. Fits(r)'
  BY <1>1, <1>3, <1>4, <1>5 DEF Fits, KeepsOffice, FitsTransfer
<1>7. chainTx[r].status = "none"
  BY <1>1 DEF AInv, TxOnlyWhenSent
<1> QED BY <1>1, <1>2, <1>6, <1>7, MoveStep DEF Active

(* A request that runs alone finds the contract as Postgres has it. *)
LEMMA LoneSeesRows ==
    ASSUME AInv, NEW r \in Requests, Active(r), req[r].op \in Lone,
           req[r].phase # "sent", NEW u \in Users
    PROVE  onchain[u] = Effective(u)
<1>1. ASSUME NEW q \in Requests PROVE ~Decided(q, u)
  <2>1. CASE q = r
    BY <2>1 DEF AInv, TxOnlyWhenSent, Decided
  <2>2. CASE q # r
    <3>1. ~Active(q)
      BY <2>2 DEF AInv, LoneRunsAlone
    <3> QED BY <3>1 DEF AInv, TxOnlyWhenSent, Decided, Active
  <2> QED BY <2>1, <2>2
<1> QED BY <1>1 DEF AInv, Agrees

LEMMA SendAgrees ==
    ASSUME AInv, NEW r \in Requests, Send(r)
    PROVE  AStep
<1>1. /\ req[r].phase \in {"read", "written"} /\ ReadyToSend(r) /\ Valid(TxOf(r))
      /\ rows' = rows /\ onchain' = onchain /\ chainTx'[r] = TxOf(r)
      /\ \A q \in Requests \ {r} : req'[q] = req[q] /\ chainTx'[q] = chainTx[q]
      /\ req'[r].phase = "sent" /\ req'[r].op = req[r].op /\ req'[r].by = req[r].by
      /\ req'[r].batch = req[r].batch /\ req'[r].role = req[r].role
      /\ req'[r].targets = req[r].targets
  BY DEF Send, ReadyToSend, Begin, AInv, RInv, TypeOK, Request
<1>2. TxOf(r).status = "pending" /\ TxOf(r).transfer = (req[r].op = "transfer")
      /\ TxOf(r).by = req[r].by
  BY DEF TxOf
<1>3. /\ req[r].op \in Operations /\ FitsStore(r) /\ FitsUpdate(r)
      /\ FitsRestore(r) /\ FitsDelete(r) /\ FitsTransfer(r)
  BY <1>1 DEF AInv, Fits, Active
<1>4. FitsStore(r)' /\ FitsUpdate(r)' /\ FitsRestore(r)'
  BY <1>1, <1>3 DEF FitsStore, FitsUpdate, FitsRestore, Fetched, All
<1>5. FitsDelete(r)'
  BY <1>1, <1>3 DEF FitsDelete, ReadyToSend, Live, All
<1>6. FitsTransfer(r)'
  <2>1. SUFFICES ASSUME req[r].op = "transfer"
                 PROVE  rows[req[r].by].role = "super_admin"
    BY <1>1, <1>3 DEF FitsTransfer, Fetched, All, Live
  <2>2. onchain[req[r].by] = "super_admin"
    BY <1>1, <1>2, <2>1 DEF Valid
  <2>3. req[r].by \in Users
    BY DEF AInv, RInv, TypeOK, Request
  <2>4. onchain[req[r].by] = Effective(req[r].by)
    BY <1>1, <2>1, <2>3, LoneSeesRows DEF Lone, Active
  <2> QED BY <2>2, <2>4 DEF Effective
<1>7. KeepsOffice(r)'
  BY <1>1, <1>2 DEF KeepsOffice, Valid
<1>8. Fits(r)'
  BY <1>1, <1>3, <1>4, <1>5, <1>6, <1>7 DEF Fits
<1>9. chainTx[r].status = "none"
  BY <1>1 DEF AInv, TxOnlyWhenSent
<1> QED BY <1>1, <1>2, <1>8, <1>9, MoveStep DEF Active

LEMMA EndAgrees ==
    ASSUME AInv, Orderly, NEW r \in Requests, Deny(r) \/ Refused(r) \/ Fail(r)
    PROVE  AStep
<1>1. Finish(r) /\ rows' = rows /\ onchain' = onchain
  BY DEF Deny, Refused, Fail
<1>2. req[r].phase # "sent" \/ chainTx[r].status = "reverted"
  BY DEF Deny, Refused, Fail, ReadyToSend, Orderly
<1>3. chainTx[r].status \notin {"pending", "mined"}
  BY <1>2 DEF AInv, TxOnlyWhenSent
<1> QED BY <1>1, <1>3, GivesUp DEF AStep

(* A block gives every user of a valid transaction the role it grants. *)
LEMMA MineAgrees ==
    ASSUME AInv, NEW r \in Requests, Mine(r)
    PROVE  AStep
<1>1. chainTx[r].status = "pending" /\ rows' = rows /\ req' = req
  BY DEF Mine
<1>2. req[r].phase = "sent"
  BY <1>1 DEF AInv, TxOnlyWhenSent
<1>3. chainTx \in [Requests -> ChainTx]
  BY DEF AInv, RInv, TypeOK
<1>4. /\ chainTx'[r].grant = chainTx[r].grant
      /\ chainTx'[r].status = IF Valid(chainTx[r]) THEN "mined" ELSE "reverted"
      /\ \A q \in Requests \ {r} : /\ chainTx'[q].grant = chainTx[q].grant
                                   /\ chainTx'[q].status = chainTx[q].status
      /\ onchain' = IF Valid(chainTx[r]) THEN Granted(chainTx[r]) ELSE onchain
  <2>1. CASE Valid(chainTx[r])
    BY <1>2, <1>3, <2>1 DEF Mine, ChainTx
  <2>2. CASE ~Valid(chainTx[r])
    BY <1>2, <1>3, <2>2 DEF Mine, ChainTx
  <2> QED BY <2>1, <2>2
<1>5. LoneRunsAlone' /\ NewUsersDiffer'
  BY <1>1, ActiveFrame DEF AInv, Active
<1>6. TxOnlyWhenSent'
  BY <1>1, <1>2, <1>4 DEF AInv, TxOnlyWhenSent
<1>7. \A q \in Requests : Fits(q)'
  BY <1>1, <1>4, FitsFrame DEF AInv
<1>8. ASSUME NEW u \in Users PROVE Agrees(u)'
  <2>1. Effective(u)' = Effective(u)
    BY <1>1 DEF Effective, Live
  <2>2. CASE ~Valid(chainTx[r])
    <3>1. \A q \in Requests : Decided(q, u)' <=> Decided(q, u)
      BY <1>1, <1>4, <2>2 DEF Decided
    <3> QED BY <1>4, <2>1, <2>2, <3>1 DEF AInv, Agrees
  <2>3. CASE Valid(chainTx[r]) /\ u \in DOMAIN chainTx[r].grant
    <3>1. onchain'[u] = chainTx[r].grant[u]
      BY <1>4, <2>3 DEF Granted
    <3>2. \A q \in Requests \ {r} : ~Decided(q, u)
      <4>1. SUFFICES ASSUME NEW q \in Requests \ {r}, Decided(q, u) PROVE FALSE
        OBVIOUS
      <4>2. req[q].phase = "sent" /\ u \in Parties(q)
        BY <4>1, SentGrant DEF AInv, TxOnlyWhenSent, Decided
      <4>3. u \in Parties(r)
        BY <1>2, <2>3, SentGrant
      <4> QED BY <1>2, <4>2, <4>3, GrantsDiffer
    <3>3. Decided(r, u)' /\ \A q \in Requests \ {r} : ~Decided(q, u)'
      BY <1>4, <2>3, <3>2 DEF Decided
    <3> QED BY <1>4, <3>1, <3>3 DEF Agrees
  <2>4. CASE Valid(chainTx[r]) /\ u \notin DOMAIN chainTx[r].grant
    <3>1. onchain'[u] = onchain[u]
      BY <1>4, <2>4 DEF Granted
    <3>2. \A q \in Requests : Decided(q, u)' <=> Decided(q, u)
      BY <1>1, <1>4, <2>4 DEF Decided
    <3> QED BY <1>4, <2>1, <3>1, <3>2 DEF AInv, Agrees
  <2> QED BY <2>2, <2>3, <2>4
<1> QED BY <1>5, <1>6, <1>7, <1>8 DEF AStep

(* A commit touches the rows whose roles were granted, and leaves them as the *)
(* contract has them.                                                        *)
LEMMA CommitGrants ==
    ASSUME AInv, NEW r \in Requests, Commit(r)
    PROVE  /\ req[r].phase = "sent" /\ chainTx[r].status = "mined"
           /\ Touched(r) = DOMAIN chainTx[r].grant
           /\ Touched(r) = Parties(r)
           /\ \A u \in Users : rows'[u] = IF u \in Touched(r) THEN Written(r, u) ELSE rows[u]
           /\ \A u \in Touched(r) : u \in Users /\ Effective(u)' = chainTx[r].grant[u]
<1>1. /\ req[r].phase = "sent" /\ chainTx[r].status = "mined"
      /\ \A u \in Users : rows'[u] = IF u \in Touched(r) THEN Written(r, u) ELSE rows[u]
  BY DEF Commit, Confirmed
<1>2. /\ DOMAIN chainTx[r].grant = Parties(r)
      /\ \A u \in Parties(r) : chainTx[r].grant[u] = NewRole(r, u)
      /\ req[r].op # "transfer" => Parties(r) \subseteq req[r].batch
      /\ req[r].op \notin {"update", "transfer"} => Parties(r) = req[r].batch
      /\ req[r].op = "transfer" => Parties(r) = req[r].batch \cup {req[r].by}
  BY <1>1, SentGrant
<1>3. Touched(r) = Parties(r)
  BY <1>2 DEF Touched
<1>4. ASSUME NEW u \in Parties(r) PROVE u \in Users /\ Effective(u)' = NewRole(r, u)
  <2>1. u \in Users
    BY PartiesType DEF AInv, RInv
  <2>2. rows'[u] = Written(r, u) /\ rows[u] \in Row /\ req[r].op \in Handlers
    BY <1>1, <1>3, <2>1 DEF AInv, RInv, TypeOK, Request
  <2>3. CASE req[r].op = "store"
    BY <2>1, <2>2, <2>3 DEF Written, Stored, NewRole, Effective, Live
  <2>4. CASE req[r].op = "delete"
    BY <2>1, <2>2, <2>4 DEF Written, Deleted, NewRole, Effective, Live, Row
  <2>5. CASE req[r].op = "restore"
    BY <2>1, <2>2, <2>5 DEF Written, Restored, NewRole, Effective, Live, Row
  <2>6. CASE req[r].op \in {"update", "updateRole", "transfer"}
    <3>1. Live(u)
      BY <1>1, <1>2, <2>6 DEF AInv, Fits, Active, FitsUpdate, FitsTransfer, Fetched, All, Live
    <3>2. rows'[u] = WithRole(u, NewRole(r, u))
      BY <2>2, <2>6 DEF Written
    <3>3. rows'[u].state = "live" /\ rows'[u].role = NewRole(r, u)
      BY <2>2, <3>1, <3>2 DEF WithRole, Live, Row
    <3> QED BY <2>1, <3>3 DEF Effective, Live
  <2> QED BY <2>2, <2>3, <2>4, <2>5, <2>6 DEF Handlers
<1> QED BY <1>1, <1>2, <1>3, <1>4

(* Others find the rows in the states they were in. *)
LEMMA CommitSparesOthers ==
    ASSUME AInv, NEW r \in Requests, Commit(r),
           NEW q \in Requests \ {r}, Active(q), req[q].op = "store" \/ Fetched(q),
           NEW u \in req[q].batch
    PROVE  rows'[u].state = rows[u].state
<1>1. /\ req[r].phase = "sent" /\ Touched(r) = Parties(r)
      /\ \A v \in Users : rows'[v] = IF v \in Touched(r) THEN Written(r, v) ELSE rows[v]
  BY CommitGrants
<1>2. u \in Users /\ rows[u] \in Row
  BY DEF AInv, RInv, TypeOK, Request
<1>3. req[r].op \notin Lone /\ req[q].op \notin Lone /\ req[r].op \in Handlers
      /\ req[q].op \in Handlers
  BY <1>1 DEF AInv, LoneRunsAlone, Active, RInv, TypeOK, Request
<1>4. CASE u \notin Touched(r)
  BY <1>1, <1>2, <1>4
<1>5. CASE u \in Touched(r)
  <2>1. u \in req[r].batch
    BY <1>1, <1>3, <1>5, SentGrant DEF Lone
  <2>2. FitsStore(r) /\ FitsUpdate(r) /\ FitsStore(q) /\ FitsUpdate(q)
    BY <1>1 DEF AInv, Fits, Active
  <2>3. CASE req[r].op = "store"
    <3>1. rows[u].state = "absent"
      BY <2>1, <2>2, <2>3 DEF FitsStore, All
    <3>2. req[q].op # "store"
      BY <1>1, <2>1, <2>3 DEF AInv, NewUsersDiffer, Active
    <3>3. rows[u].state = "live"
      BY <1>3, <2>2, <3>2 DEF FitsUpdate, All, Handlers, Lone
    <3> QED BY <3>1, <3>3
  <2>4. CASE req[r].op \in {"update", "updateRole"}
    BY <1>1, <1>2, <1>5, <2>4 DEF Written, WithRole, Row
  <2> QED BY <1>3, <2>3, <2>4 DEF Handlers, Lone
<1> QED BY <1>4, <1>5

LEMMA CommitAgrees ==
    ASSUME AInv, NEW r \in Requests, Commit(r)
    PROVE  AStep
<1>1. /\ req[r].phase = "sent" /\ chainTx[r].status = "mined"
      /\ Touched(r) = DOMAIN chainTx[r].grant /\ Touched(r) = Parties(r)
      /\ \A u \in Users : rows'[u] = IF u \in Touched(r) THEN Written(r, u) ELSE rows[u]
      /\ \A u \in Touched(r) : u \in Users /\ Effective(u)' = chainTx[r].grant[u]
  BY CommitGrants
<1>2. Finish(r) /\ onchain' = onchain
  BY DEF Commit
<1>3. /\ req'[r] = Idle /\ chainTx'[r] = NoTx
      /\ \A q \in Requests \ {r} : req'[q] = req[q] /\ chainTx'[q] = chainTx[q]
      /\ LoneRunsAlone' /\ NewUsersDiffer' /\ TxOnlyWhenSent'
  BY <1>1, <1>2, FinishEnds
<1>4. ASSUME NEW q \in Requests PROVE Fits(q)'
  <2>1. CASE q = r
    BY <1>3, <2>1 DEF Fits, Active, Idle
  <2>2. CASE q # r
    <3>1. req[q].op # "transfer" \/ ~Active(q)
      BY <1>1, <2>2 DEF AInv, LoneRunsAlone, Lone, Active
    <3>2. Active(q) /\ (req[q].op = "store" \/ Fetched(q)) =>
              \A u \in req[q].batch : rows'[u].state = rows[u].state
      BY <2>2, CommitSparesOthers
    <3> QED BY <1>3, <2>2, <3>1, <3>2, FitsFrame DEF AInv
  <2> QED BY <2>1, <2>2
<1>5. ASSUME NEW u \in Users PROVE Agrees(u)'
  <2>1. ~Decided(r, u)'
    BY <1>3 DEF Decided, NoTx
  <2>2. \A q \in Requests \ {r} : Decided(q, u)' <=> Decided(q, u)
    BY <1>3 DEF Decided
  <2>3. CASE u \in Touched(r)
    <3>1. Decided(r, u) /\ onchain[u] = chainTx[r].grant[u]
      BY <1>1, <2>3 DEF AInv, Agrees, Decided
    <3>2. \A q \in Requests \ {r} : ~Decided(q, u)
      <4>1. SUFFICES ASSUME NEW q \in Requests \ {r}, Decided(q, u) PROVE FALSE
        OBVIOUS
      <4>2. req[q].phase = "sent" /\ u \in Parties(q)
        BY <4>1, SentGrant DEF AInv, TxOnlyWhenSent, Decided
      <4> QED BY <1>1, <2>3, <4>2, GrantsDiffer
    <3> QED BY <1>1, <1>2, <2>1, <2>2, <2>3, <3>1, <3>2 DEF Agrees
  <2>4. CASE u \notin Touched(r)
    <3>1. Effective(u)' = Effective(u)
      BY <1>1, <2>4 DEF Effective, Live
    <3>2. ~Decided(r, u)
      BY <1>1, <2>4 DEF Decided
    <3> QED BY <1>2, <1>3, <2>1, <2>2, <3>1, <3>2 DEF AInv, Agrees
  <2> QED BY <2>3, <2>4
<1> QED BY <1>3, <1>4, <1>5 DEF AStep

(* What was not told to the contract changes no row. *)
LEMMA UnsyncedIsIdle ==
    ASSUME AInv, NEW r \in Requests, CommitUnsynced(r)
    PROVE  rows' = rows
<1>1. req[r].phase = "written" /\ req[r].targets = {}
  BY DEF CommitUnsynced
<1>2. req[r].op = "delete" => req[r].batch = {}
  BY <1>1 DEF AInv, Fits, Active, FitsDelete
<1>3. rows' = [u \in Users |-> rows[u]]
  BY <1>2 DEF CommitUnsynced
<1> QED BY <1>3 DEF AInv, RInv, TypeOK

LEMMA UnsyncedAgrees ==
    ASSUME AInv, NEW r \in Requests, CommitUnsynced(r)
    PROVE  AStep
<1>1. Finish(r) /\ onchain' = onchain /\ req[r].phase = "written"
  BY DEF CommitUnsynced
<1>2. chainTx[r].status \notin {"pending", "mined"}
  BY <1>1 DEF AInv, TxOnlyWhenSent
<1> QED BY <1>1, <1>2, UnsyncedIsIdle, GivesUp DEF AStep

LEMMA StepAgrees ==
    ASSUME AInv, Orderly, [Next]_vars
    PROVE  AInv'
<1>1. CASE UNCHANGED vars
  <2>1. RInv'
    BY <1>1, StepR, StepType DEF AInv, RInv
  <2>2. \A q \in Requests : Fits(q)'
    BY <1>1, FitsFrame DEF vars, AInv
  <2>3. LoneRunsAlone' /\ NewUsersDiffer' /\ TxOnlyWhenSent'
    BY <1>1 DEF vars, AInv, LoneRunsAlone, NewUsersDiffer, TxOnlyWhenSent, Active
  <2>4. \A u \in Users : Agrees(u)'
    BY <1>1 DEF vars, AInv, Agrees, Decided, Effective, Live
  <2> QED BY <2>1, <2>2, <2>3, <2>4 DEF AInv
<1>2. CASE Next
  <2>1. AStep
    BY <1>2, StartAgrees, ReadAgrees, WriteAgrees, SendAgrees, EndAgrees, MineAgrees,
       CommitAgrees, UnsyncedAgrees DEF Next, Step
  <2>2. RInv'
    BY <1>2, StepR, StepType DEF AInv, RInv
  <2> QED BY <2>1, <2>2 DEF AInv, AStep
<1> QED BY <1>1, <1>2

LEMMA AInvariant == ASSUME Orderly PROVE Spec => []AInv
<1>1. AInv /\ [Next]_vars => AInv'
  BY StepAgrees
<1> QED BY <1>1, InitA, PTL DEF Spec

(* Whenever no transaction about a user is under way, the contract has the role *)
(* of a live user's row and none for anybody else.                              *)
THEOREM SourcesAgree == ASSUME Orderly PROVE Spec => []RolesAgree
<1>1. AInv => RolesAgree
  BY DEF AInv, Agrees, Decided, RolesAgree, Quiet
<1> QED BY <1>1, AInvariant, PTL

(* Whoever the contract takes for the super administrator is live. *)
THEOREM SuperAdminIsLive == ASSUME Orderly PROVE Spec => []OfficeIsLive
<1>1. ASSUME AInv, NEW u \in Users, onchain[u] = "super_admin" PROVE Live(u)
  <2>1. CASE \A r \in Requests : ~Decided(r, u)
    BY <1>1, <2>1 DEF AInv, Agrees, Effective
  <2>2. CASE \E r \in Requests : Decided(r, u)
    <3>1. PICK r \in Requests : Decided(r, u)
      BY <2>2
    <3>2. req[r].phase = "sent" /\ chainTx[r].grant[u] = "super_admin"
      BY <1>1, <3>1 DEF AInv, Agrees, Decided, TxOnlyWhenSent
    <3>3. req[r].op = "transfer"
      BY <1>1, <3>1, <3>2 DEF AInv, Fits, Active, KeepsOffice, Decided
    <3>4. u \in req[r].batch \cup {req[r].by}
      BY <1>1, <3>1, <3>2, <3>3, SentGrant DEF Decided
    <3> QED BY <1>1, <3>2, <3>3, <3>4 DEF AInv, Fits, Active, FitsTransfer, Fetched, All, Live
  <2> QED BY <2>1, <2>2
<1>2. AInv => OfficeIsLive
  BY <1>1 DEF OfficeIsLive
<1> QED BY <1>2, AInvariant, PTL
-----------------------------------------------------------------------------
(* Under the same conditions the table goes through the steps of the directory. *)

LEMMA InitDirectory == Init => Directory!DInit
BY DEF Init, Directory!DInit

LEMMA CommitIsDirectoryStep ==
    ASSUME AInv, NEW r \in Requests, Commit(r)
    PROVE  Directory!DNext
<1> DEFINE S == Touched(r)
<1>1. /\ req[r].phase = "sent" /\ S = Parties(r)
      /\ \A u \in S : u \in Users
      /\ rows' = [u \in Users |-> IF u \in S THEN Written(r, u) ELSE rows[u]]
  BY CommitGrants DEF Commit
<1>2. /\ req[r].op # "transfer" => S \subseteq req[r].batch
      /\ req[r].op \notin {"update", "transfer"} => S = req[r].batch
      /\ req[r].op = "transfer" => S = req[r].batch \cup {req[r].by}
  BY <1>1, SentGrant
<1>3. /\ FitsStore(r) /\ FitsUpdate(r) /\ FitsRestore(r) /\ FitsDelete(r) /\ FitsTransfer(r)
      /\ req[r].op \in Handlers /\ req[r].role \in Roles /\ req[r].by \in Users
  BY <1>1 DEF AInv, Fits, Active, RInv, TypeOK, Request
<1>4. S \in SUBSET Users
  BY <1>1
<1> HIDE DEF S
<1>5. CASE req[r].op = "store"
  <2>1. Directory!AllAre(S, "absent")
    BY <1>2, <1>3, <1>5 DEF FitsStore, All, Directory!AllAre
  <2>2. req[r].role \in Directory!Offices
    BY <1>3, <1>5 DEF FitsStore, Roles, Directory!Offices
  <2>3. rows' = [u \in Users |-> IF u \in S THEN [state |-> "live", role |-> req[r].role]
                                 ELSE rows[u]]
    BY <1>1, <1>5 DEF Written, Stored
  <2>4. Directory!Enrol(S, req[r].role)
    BY <2>1, <2>3 DEF Directory!Enrol, Directory!Become
  <2> QED BY <1>4, <2>2, <2>4 DEF Directory!DNext
<1>6. CASE req[r].op \in {"update", "updateRole"}
  <2>1. Directory!AllAre(S, "live")
    BY <1>1, <1>2, <1>3, <1>6 DEF FitsUpdate, Fetched, All, Directory!AllAre
  <2>2. req[r].role \in Directory!Offices
    BY <1>3, <1>6 DEF FitsStore, Roles, Directory!Offices
  <2>3. rows' = [u \in Users |-> IF u \in S THEN [rows[u] EXCEPT !.role = req[r].role]
                                 ELSE rows[u]]
    BY <1>1, <1>6 DEF Written, WithRole, NewRole
  <2>4. Directory!Assign(S, req[r].role)
    BY <2>1, <2>3 DEF Directory!Assign, Directory!Become
  <2> QED BY <1>4, <2>2, <2>4 DEF Directory!DNext
<1>7. CASE req[r].op = "delete"
  <2>1. Directory!AllAre(S, "live")
    BY <1>1, <1>2, <1>3, <1>7 DEF FitsDelete, All, Directory!AllAre
  <2>2. rows' = [u \in Users |-> IF u \in S THEN [rows[u] EXCEPT !.state = "trashed"]
                                 ELSE rows[u]]
    BY <1>1, <1>7 DEF Written, Deleted
  <2>3. Directory!Trash(S)
    BY <2>1, <2>2 DEF Directory!Trash, Directory!Become
  <2> QED BY <1>4, <2>3 DEF Directory!DNext
<1>8. CASE req[r].op = "restore"
  <2>1. Directory!AllAre(S, "trashed")
    BY <1>1, <1>2, <1>3, <1>8 DEF FitsRestore, Fetched, All, Directory!AllAre
  <2>2. rows' = [u \in Users |-> IF u \in S THEN [rows[u] EXCEPT !.state = "live"]
                                 ELSE rows[u]]
    BY <1>1, <1>8 DEF Written, Restored
  <2>3. Directory!Reinstate(S)
    BY <2>1, <2>2 DEF Directory!Reinstate, Directory!Become
  <2> QED BY <1>4, <2>3 DEF Directory!DNext
<1>9. CASE req[r].op = "transfer"
  <2>1. PICK to \in Users : req[r].batch = {to}
    BY <1>3, <1>9 DEF FitsTransfer
  <2>2. S = {req[r].by, to} /\ req[r].by # to
    BY <1>2, <1>3, <1>9, <2>1 DEF FitsTransfer
  <2>3. Directory!AllAre({req[r].by, to}, "live") /\ rows[req[r].by].role = "super_admin"
    BY <1>1, <1>3, <1>9, <2>1 DEF FitsTransfer, Fetched, All, Live, Directory!AllAre
  <2>4. rows' = [u \in Users |-> IF u \in {req[r].by, to}
                                 THEN [rows[u] EXCEPT !.role =
                                          IF u = req[r].by THEN "admin" ELSE "super_admin"]
                                 ELSE rows[u]]
    BY <1>1, <1>9, <2>2 DEF Written, WithRole, NewRole
  <2>5. Directory!HandOver(req[r].by, to)
    BY <2>2, <2>3, <2>4 DEF Directory!HandOver, Directory!Become
  <2> QED BY <1>3, <2>5 DEF Directory!DNext
<1> QED BY <1>3, <1>5, <1>6, <1>7, <1>8, <1>9 DEF Handlers

(* The accounts are those of a directory without chain, locks and races. *)
THEOREM DirectoryImplemented == ASSUME Orderly PROVE Spec => ImplementsDirectory
<1>1. ASSUME AInv, [Next]_vars PROVE [Directory!DNext]_rows
  <2>1. CASE UNCHANGED vars
    BY <2>1 DEF vars
  <2>2. ASSUME NEW r \in Requests,
               Start(r) \/ Read(r) \/ Deny(r) \/ Write(r) \/ Send(r) \/ Refused(r)
               \/ Fail(r) \/ Mine(r)
        PROVE  rows' = rows
    BY <2>2 DEF Start, Admit, Read, Deny, Write, Send, Refused, Fail, Mine
  <2> QED BY <1>1, <2>1, <2>2, CommitIsDirectoryStep, UnsyncedIsIdle DEF Next, Step
<1> QED BY <1>1, AInvariant, InitDirectory, PTL DEF Spec, ImplementsDirectory, Directory!DSpec
====
