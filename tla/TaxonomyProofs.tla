--------------------------- MODULE TaxonomyProofs ---------------------------
(***************************************************************************)
(* Types, organizations and competencies under concurrent calls, for all   *)
(* sets of identifiers, names, credentials and calls.                      *)
(***************************************************************************)
EXTENDS Taxonomy, TLAPS

USE KindsAreDisjoint, NamesAssumption

\* chk_..._activated_xor_rejected holds of every row, stored or blank.
Decided == \A i \in Ids : ~(rows[i].activated /\ rows[i].rejected)

\* The partial unique index.
Unique ==
    \A k \in Kinds : \A i, j \in live \cap IdsOf[k] :
       ~rows[i].rejected /\ ~rows[j].rejected /\ rows[i].name = rows[j].name => i = j

\* A type or an organization that is linked was approved, and an identifier that
\* is gone never returns.
Known(R) == \A i \in R \ CompetencyIds :
               i \in used /\ (i \in live => rows[i].activated /\ ~rows[i].rejected)

\* What a call has accepted is still so when it writes, and it has one target.
Sound(k) ==
    /\ k.pc = "insert" => ~(k.row.activated /\ k.row.rejected)
    /\ k.id \subseteq IdsOf[k.kind] /\ \A i, j \in k.id : i = j
    /\ Known(k.refs)
    /\ k.pc \in {"submit", "issue"} => Choice(k.refs)
    /\ k.pc = "edit" => \E i \in Ids \ CompetencyIds : k.refs = {i}
    /\ k.pc = "link" => k.refs \subseteq CompetencyIds
    /\ k.pc = "mint" => k.refs = {}
    /\ k.pc \in {"edit", "link", "mint"} => \A x \in k.creds : cred[x].state # "none"

TInv == /\ TypeOK /\ Decided /\ Unique /\ LinksAreApproved
        /\ \A c \in Calls : Sound(call[c])

LEMMA KindFacts ==
  /\ IdsOf["type"] = TypeIds /\ IdsOf["organization"] = OrganizationIds
  /\ IdsOf["competency"] = CompetencyIds
  /\ \A k \in Kinds : IdsOf[k] \subseteq Ids
  /\ \A k, l \in Kinds : IdsOf[k] \cap IdsOf[l] # {} => k = l
  /\ \A k \in Kinds : Names[k] \subseteq AllNames
  /\ Ids = TypeIds \cup OrganizationIds \cup CompetencyIds
  BY DEF IdsOf, Ids, Kinds

LEMMA IdleFacts ==
  /\ Blank \in Row /\ Blank.active = FALSE /\ Blank.activated = FALSE /\ Blank.rejected = FALSE
  /\ NoCall \in Call /\ NoCall.pc = "idle" /\ NoCall.id = {} /\ NoCall.refs = {}
  /\ NoCall.kind = "type" /\ NoCall.creds = {} /\ NoCall.row = Blank
  <1>1. Blank \in Row
    BY DEF Blank, Row
  <1>2. Blank.active = FALSE /\ Blank.activated = FALSE /\ Blank.rejected = FALSE
    BY DEF Blank
  <1>3. NoCall \in Call
    BY <1>1 DEF NoCall, Call, Writes, Kinds
  <1>4. NoCall.pc = "idle" /\ NoCall.id = {} /\ NoCall.refs = {}
        /\ NoCall.kind = "type" /\ NoCall.creds = {} /\ NoCall.row = Blank
    BY DEF NoCall
  <1>. QED BY <1>1, <1>2, <1>3, <1>4

LEMMA IdleSound == Sound(NoCall)
  BY IdleFacts DEF Sound, Known

LEMMA InitTInv == Init => TInv
  <1>. SUFFICES ASSUME Init PROVE TInv OBVIOUS
  <1>. USE IdleFacts
  <1>1. PICK t \in SeededTypes(used), o \in SeededOrganizations(used),
             k \in SeededCompetencies(used) :
          rows = [i \in Ids |-> CASE i \in DOMAIN t -> t[i]
                                 [] i \in DOMAIN o -> o[i]
                                 [] i \in DOMAIN k -> k[i]
                                 [] OTHER -> Blank]
    BY DEF Init
  <1>2. used \subseteq Ids /\ live = used
    BY DEF Init
  <1>3. /\ t \in [used \cap TypeIds -> SeededRows]
        /\ \A i, j \in used \cap TypeIds : t[i].name = t[j].name => i = j
        /\ o \in [used \cap OrganizationIds -> SeededRows]
        /\ \A i, j \in used \cap OrganizationIds : o[i].name = o[j].name => i = j
        /\ k \in [used \cap CompetencyIds -> SeededRows]
        /\ \A i, j \in used \cap CompetencyIds : k[i].name = k[j].name => i = j
    BY DEF SeededTypes, SeededOrganizations, SeededCompetencies, Seedings
  <1>4. \A i \in Ids : rows[i] = CASE i \in DOMAIN t -> t[i]
                                   [] i \in DOMAIN o -> o[i]
                                   [] i \in DOMAIN k -> k[i]
                                   [] OTHER -> Blank
    BY <1>1
  <1>5. /\ \A i \in used \cap TypeIds : rows[i] = t[i]
        /\ \A i \in used \cap OrganizationIds : rows[i] = o[i]
        /\ \A i \in used \cap CompetencyIds : rows[i] = k[i]
        /\ \A i \in Ids \ used : rows[i] = Blank
    BY <1>2, <1>3, <1>4
  <1>6. \A i \in used : rows[i] \in SeededRows
    <2>1. SUFFICES ASSUME NEW i \in used PROVE rows[i] \in SeededRows OBVIOUS
    <2>. HIDE DEF SeededRows
    <2>2. CASE i \in TypeIds
      BY <1>3, <1>5, <2>2
    <2>3. CASE i \in OrganizationIds
      BY <1>3, <1>5, <2>3
    <2>4. CASE i \in CompetencyIds
      BY <1>3, <1>5, <2>4
    <2>. QED BY <1>2, <2>2, <2>3, <2>4, KindFacts
  <1>7. \A i \in Ids : rows[i] \in Row /\ ~(rows[i].activated /\ rows[i].rejected)
    BY <1>5, <1>6 DEF SeededRows
  <1>8. TypeOK
    <2>1. rows \in [Ids -> Row]
      BY <1>1, <1>7
    <2>2. cred \in [Creds -> Credential] /\ \A x \in Creds : cred[x].state = "none" /\ cred[x].refs = {}
      BY DEF Init, Credential
    <2>3. call \in [Calls -> Call]
      BY DEF Init
    <2>. QED BY <1>2, <1>5, <2>1, <2>2, <2>3 DEF TypeOK
  <1>9. Unique
    <2>1. SUFFICES ASSUME NEW l \in Kinds, NEW i \in live \cap IdsOf[l], NEW j \in live \cap IdsOf[l],
                          rows[i].name = rows[j].name
                   PROVE  i = j
      BY DEF Unique
    <2>2. CASE l = "type"
      BY <1>2, <1>3, <1>5, <2>1, <2>2, KindFacts
    <2>3. CASE l = "organization"
      BY <1>2, <1>3, <1>5, <2>1, <2>3, KindFacts
    <2>4. CASE l = "competency"
      BY <1>2, <1>3, <1>5, <2>1, <2>4, KindFacts
    <2>. QED BY <2>2, <2>3, <2>4 DEF Kinds
  <1>10. LinksAreApproved
    BY DEF Init, LinksAreApproved
  <1>11. \A c \in Calls : Sound(call[c])
    BY IdleSound DEF Init
  <1>. QED BY <1>7, <1>8, <1>9, <1>10, <1>11 DEF TInv, Decided
-----------------------------------------------------------------------------
(* Accepting a call. *)

LEMMA AcceptSafe ==
  ASSUME TInv, NEW c \in Calls, NEW k \in Call, Accept(c, k), Sound(k)
  PROVE  TInv'
  <1>1. /\ call' = [call EXCEPT ![c] = k]
        /\ UNCHANGED <<used, live, rows, cred>>
    BY DEF Accept, rowVars
  <1>2. call' \in [Calls -> Call] /\ call'[c] = k /\ \A d \in Calls \ {c} : call'[d] = call[d]
    BY <1>1 DEF TInv, TypeOK
  <1>3. TypeOK'
    BY <1>1, <1>2 DEF TInv, TypeOK, Choice
  <1>4. Decided' /\ Unique' /\ LinksAreApproved'
    BY <1>1 DEF TInv, Decided, Unique, LinksAreApproved, Approved
  <1>5. \A d \in Calls : Sound(call'[d])
    BY <1>2 DEF TInv
  <1>6. \A d \in Calls : Sound(call[d])'
    BY <1>1, <1>5 DEF Sound, Known, Choice
  <1>. QED BY <1>3, <1>4, <1>6 DEF TInv

\* A call that links nothing.
LEMMA PlainSound ==
  ASSUME NEW k \in Call, k.refs = {}, k.pc \in {"insert", "approve", "reject", "update", "delete"},
         k.pc = "insert" => ~(k.row.activated /\ k.row.rejected),
         k.id \subseteq IdsOf[k.kind], \A i, j \in k.id : i = j
  PROVE  Sound(k)
  BY DEF Sound, Known

LEMMA ProposeSafe ==
  ASSUME TInv, NEW c \in Calls, NEW l \in Kinds, NEW row \in Row,
         ~(row.activated /\ row.rejected), Propose(c, l, row)
  PROVE  TInv'
  <1>. DEFINE k == [NoCall EXCEPT !.pc = "insert", !.kind = l, !.row = row]
  <1>1. k \in Call
    BY IdleFacts DEF Call, Writes
  <1>2. k.refs = {} /\ k.pc = "insert" /\ k.row = row /\ k.id = {}
    BY IdleFacts DEF Call
  <1>3. Accept(c, k)
    BY DEF Propose
  <1>. HIDE DEF k
  <1>. QED BY <1>1, <1>2, <1>3, PlainSound, AcceptSafe

LEMMA StoreSafe ==
  ASSUME TInv, NEW c \in Calls, NEW l \in Kinds, Store(c, l) \/ Submit(c, l)
  PROVE  TInv'
  <1>1. ASSUME NEW n \in Names[l], NEW a \in BOOLEAN, NEW b \in BOOLEAN,
               Propose(c, l, [name |-> n, active |-> a, activated |-> b, rejected |-> FALSE])
        PROVE  TInv'
    <2>. DEFINE row == [name |-> n, active |-> a, activated |-> b, rejected |-> FALSE]
    <2>1. row \in Row /\ row.rejected = FALSE
      BY KindFacts DEF Row
    <2>2. Propose(c, l, row)
      BY <1>1
    <2>. HIDE DEF row
    <2>. QED BY <2>1, <2>2, ProposeSafe
  <1>. QED BY <1>1 DEF Store, Submit

LEMMA TargetSafe ==
  ASSUME TInv, NEW c \in Calls, NEW l \in Kinds, NEW i \in IdsOf[l], NEW row \in Row,
         NEW pc \in {"approve", "reject", "update", "delete"}, NEW named \in BOOLEAN,
         Accept(c, [NoCall EXCEPT !.pc = pc, !.kind = l, !.id = {i}, !.named = named, !.row = row])
  PROVE  TInv'
  <1>. DEFINE k == [NoCall EXCEPT !.pc = pc, !.kind = l, !.id = {i}, !.named = named, !.row = row]
  <1>0. {i} \in SUBSET Ids /\ pc \in {"idle"} \cup Writes
    BY KindFacts DEF Writes
  <1>1. k \in Call
    BY <1>0, IdleFacts DEF Call
  <1>2. k.refs = {} /\ k.pc = pc /\ k.id = {i} /\ k.kind = l
    BY IdleFacts DEF Call
  <1>3. Accept(c, k)
    OBVIOUS
  <1>. HIDE DEF k
  <1>. QED BY <1>1, <1>2, <1>3, PlainSound, AcceptSafe

\* The same, when `named' is left as it is.
LEMMA UnnamedSafe ==
  ASSUME TInv, NEW c \in Calls, NEW l \in Kinds, NEW i \in IdsOf[l], NEW row \in Row,
         NEW pc \in {"approve", "reject", "delete"},
         Accept(c, [NoCall EXCEPT !.pc = pc, !.kind = l, !.id = {i}, !.row = row])
  PROVE  TInv'
  <1>. DEFINE k == [NoCall EXCEPT !.pc = pc, !.kind = l, !.id = {i}, !.row = row]
  <1>0. {i} \in SUBSET Ids /\ pc \in {"idle"} \cup Writes
    BY KindFacts DEF Writes
  <1>1. k \in Call
    BY <1>0, IdleFacts DEF Call
  <1>2. k.refs = {} /\ k.pc = pc /\ k.id = {i} /\ k.kind = l
    BY IdleFacts DEF Call
  <1>3. Accept(c, k)
    OBVIOUS
  <1>. HIDE DEF k
  <1>. QED BY <1>1, <1>2, <1>3, PlainSound, AcceptSafe

LEMMA ReviewSafe ==
  ASSUME TInv, NEW c \in Calls, NEW l \in Kinds, Approve(c, l) \/ Reject(c, l)
  PROVE  TInv'
  <1>2. /\ [Blank EXCEPT !.active = TRUE, !.activated = TRUE] \in Row
        /\ [Blank EXCEPT !.rejected = TRUE] \in Row
    BY IdleFacts DEF Row
  <1>3. CASE Approve(c, l)
    BY <1>2, <1>3, UnnamedSafe DEF Approve, Review
  <1>4. CASE Reject(c, l)
    BY <1>2, <1>4, UnnamedSafe DEF Reject, Review
  <1>. QED BY <1>3, <1>4

LEMMA ChangeSafe ==
  ASSUME TInv, NEW c \in Calls, NEW l \in Kinds, NEW carried \in BOOLEAN, Change(c, l, carried)
  PROVE  TInv'
  <1>1. PICK i \in live \cap IdsOf[l], n \in Names[l], a \in BOOLEAN :
          \/ Accept(c, [NoCall EXCEPT !.pc = "update", !.kind = l, !.id = {i}, !.named = TRUE,
                                      !.row = [Blank EXCEPT !.name = n, !.active = a]])
          \/ Accept(c, [NoCall EXCEPT !.pc = "update", !.kind = l, !.id = {i}, !.named = carried,
                                      !.row = [Blank EXCEPT !.name = rows[i].name, !.active = a]])
    BY DEF Change
  <1>2. n \in AllNames /\ rows[i] \in Row
    BY KindFacts DEF TInv, TypeOK
  <1>3. /\ [Blank EXCEPT !.name = n, !.active = a] \in Row
        /\ [Blank EXCEPT !.name = rows[i].name, !.active = a] \in Row
    BY <1>2, IdleFacts DEF Row
  <1>. QED BY <1>1, <1>3, TargetSafe

LEMMA DestroySafe ==
  ASSUME TInv, NEW c \in Calls, DestroyType(c) \/ DestroyOrganization(c) \/ DestroyCompetency(c)
  PROVE  TInv'
  <1>1. PICK l \in Kinds : \E i \in live \cap IdsOf[l] :
          Accept(c, [NoCall EXCEPT !.pc = "delete", !.kind = l, !.id = {i}])
    BY DEF DestroyType, DestroyOrganization, DestroyCompetency, Destroy, Kinds
  <1>2. PICK i \in live \cap IdsOf[l] :
          Accept(c, [NoCall EXCEPT !.pc = "delete", !.kind = l, !.id = {i}])
    BY <1>1
  <1>. DEFINE k == [NoCall EXCEPT !.pc = "delete", !.kind = l, !.id = {i}]
  <1>0. {i} \in SUBSET Ids /\ "delete" \in {"idle"} \cup Writes
    BY KindFacts DEF Writes
  <1>3. k \in Call
    BY <1>0, IdleFacts DEF Call
  <1>4. k.refs = {} /\ k.pc = "delete" /\ k.id = {i} /\ k.kind = l
    BY IdleFacts DEF Call
  <1>5. Accept(c, k)
    BY <1>2
  <1>. HIDE DEF k
  <1>. QED BY <1>3, <1>4, <1>5, PlainSound, AcceptSafe

LEMMA HandlerSafe ==
  ASSUME TInv, NEW c \in Calls, TypeHandler(c) \/ OrganizationHandler(c) \/ CompetencyHandler(c)
  PROVE  TInv'
  <1>1. \/ \E l \in Kinds : \/ Store(c, l) \/ Submit(c, l) \/ Approve(c, l) \/ Reject(c, l)
                            \/ \E carried \in BOOLEAN : Change(c, l, carried)
        \/ DestroyType(c) \/ DestroyOrganization(c) \/ DestroyCompetency(c)
    <2>1. CASE TypeHandler(c)
      BY <2>1 DEF TypeHandler, Kinds, StoreType, SubmitType, ApproveType, RejectType, UpdateType
    <2>2. CASE OrganizationHandler(c)
      BY <2>2 DEF OrganizationHandler, Kinds, StoreOrganization, SubmitOrganization,
                  ApproveOrganization, RejectOrganization, UpdateOrganization
    <2>3. CASE CompetencyHandler(c)
      BY <2>3 DEF CompetencyHandler, Kinds, StoreCompetency, SubmitCompetency,
                  ApproveCompetency, RejectCompetency, UpdateCompetency
    <2>. QED BY <2>1, <2>2, <2>3
  <1>. QED BY <1>1, StoreSafe, ReviewSafe, ChangeSafe, DestroySafe

-----------------------------------------------------------------------------
(* The statement that writes a reference. *)

\* Identifiers do not return and decisions are kept.
Kept == /\ used \subseteq used'
        /\ \A i \in used : i \in live' => i \in live
        /\ \A i \in live \cap live' :
              /\ rows[i].activated => rows'[i].activated
              /\ rows[i].rejected => rows'[i].rejected

RowsTyped == /\ used \subseteq Ids /\ live \subseteq used /\ rows \in [Ids -> Row]
             /\ \A i \in Ids \ live : rows[i] = Blank

LEMMA KnownKept ==
  ASSUME TInv, Kept, Decided'
  PROVE  \A R \in SUBSET Ids : Known(R) =>
            \A i \in R \ CompetencyIds :
               i \in used' /\ (i \in live' => rows'[i].activated /\ ~rows'[i].rejected)
  BY DEF Known, Kept, Decided

LEMMA WriteSafe ==
  ASSUME TInv, NEW c \in Calls, call' = [call EXCEPT ![c] = NoCall], UNCHANGED cred,
         RowsTyped', Decided', Unique', Kept,
         \A x \in Creds : cred[x].refs \subseteq live'
  PROVE  TInv' /\ Kept
  <1>1. call' \in [Calls -> Call] /\ \A d \in Calls : call'[d] = call[d] \/ call'[d] = NoCall
    BY IdleFacts DEF TInv, TypeOK
  <1>2. TypeOK'
    BY <1>1 DEF TInv, TypeOK, RowsTyped, Choice
  <1>3. LinksAreApproved'
    <2>1. SUFFICES ASSUME NEW x \in Creds, NEW i \in cred[x].refs
                   PROVE  i \in live' /\ (i \in CompetencyIds \/ Approved(i)')
      BY DEF LinksAreApproved
    <2>2. i \in live /\ i \in live' /\ (i \in CompetencyIds \/ Approved(i)) /\ i \in Ids
      BY <2>1 DEF TInv, TypeOK, LinksAreApproved
    <2>3. CASE i \notin CompetencyIds
      <3>1. rows[i].activated /\ ~(rows'[i].activated /\ rows'[i].rejected) /\ i \in live \cap live'
        BY <2>2, <2>3 DEF Approved, Decided
      <3>. QED BY <3>1 DEF Approved, Kept
    <2>. QED BY <2>2, <2>3
  <1>4. ASSUME NEW d \in Calls PROVE Sound(call[d])'
    <2>1. Sound(call'[d]) /\ call'[d] \in Call
      BY <1>1, IdleSound DEF TInv, TypeOK
    <2>2. Known(call[d].refs)'
      BY <2>1, KnownKept DEF Sound, Known, Call
    <2>. QED BY <2>1, <2>2 DEF Sound, Choice
  <1>. QED BY <1>2, <1>3, <1>4 DEF TInv

LEMMA UnchangedRows ==
  ASSUME TInv, UNCHANGED rowVars
  PROVE  /\ RowsTyped' /\ Decided' /\ Unique' /\ Kept
         /\ \A x \in Creds : cred[x].refs \subseteq live'
  BY DEF TInv, TypeOK, rowVars, RowsTyped, Decided, Unique, Kept, LinksAreApproved

LEMMA InsertSafe ==
  ASSUME TInv, NEW c \in Calls, NEW l \in Kinds, Insert(c, l)
  PROVE  TInv' /\ Kept
  <1>. DEFINE new == call[c].row
  <1>1. call' = [call EXCEPT ![c] = NoCall] /\ UNCHANGED cred
    BY DEF Insert, Done
  <1>2. new \in Row /\ ~(new.activated /\ new.rejected)
    BY DEF Insert, Done, TInv, TypeOK, Call, Sound
  <1>3. ASSUME NEW i \in IdsOf[l] \ used, IndexAllows(l, new.name, {}),
               used' = used \cup {i}, live' = live \cup {i}, rows' = [rows EXCEPT ![i] = new]
        PROVE  TInv' /\ Kept /\ Kept
    <2>. HIDE DEF new
    <2>1. i \in Ids /\ i \notin live /\ rows'[i] = new /\ \A j \in Ids \ {i} : rows'[j] = rows[j]
      BY <1>3, KindFacts DEF TInv, TypeOK
    <2>2. RowsTyped'
      BY <1>2, <1>3, <2>1 DEF RowsTyped, TInv, TypeOK
    <2>3. Decided'
      BY <1>2, <2>1 DEF Decided, TInv
    <2>4. Unique'
      <3>1. SUFFICES ASSUME NEW m \in Kinds, NEW a \in live' \cap IdsOf[m],
                            NEW b \in live' \cap IdsOf[m],
                            ~rows'[a].rejected, ~rows'[b].rejected, rows'[a].name = rows'[b].name
                     PROVE  a = b
        BY DEF Unique
      <3>2. a \in Ids /\ b \in Ids
        BY KindFacts
      <3>3. CASE a # i /\ b # i
        BY <1>3, <2>1, <3>1, <3>2, <3>3 DEF TInv, Unique
      <3>4. ASSUME NEW j \in live \cap IdsOf[m], i \in IdsOf[m], ~rows[j].rejected
            PROVE  rows[j].name # new.name
        <4>1. m = l
          BY <3>4, KindFacts
        <4>. QED BY <1>3, <3>4, <4>1 DEF IndexAllows, Bearers
      <3>. QED BY <1>3, <2>1, <3>1, <3>2, <3>3, <3>4
    <2>5. Kept
      BY <1>3, <2>1 DEF Kept, TInv, TypeOK
    <2>6. \A x \in Creds : cred[x].refs \subseteq live'
      BY <1>3 DEF TInv, LinksAreApproved
    <2>. QED BY <1>1, <2>2, <2>3, <2>4, <2>5, <2>6, WriteSafe
  <1>4. CASE UNCHANGED rowVars
    BY <1>1, <1>4, UnchangedRows, WriteSafe
  <1>. QED BY <1>3, <1>4 DEF Insert

\* What one UPDATE leaves in a row.
LEMMA WrittenRow ==
  ASSUME NEW old \in Row, NEW k \in Call
  PROVE  /\ Written(old, k) \in Row
         /\ old.activated => Written(old, k).activated
         /\ old.rejected => Written(old, k).rejected
  <1>1. k.row \in Row
    BY DEF Call
  <1>2. Written(old, k) \in Row
    BY <1>1 DEF Written, Row
  <1>3. old.activated => Written(old, k).activated
    BY DEF Written
  <1>4. old.rejected => Written(old, k).rejected
    BY DEF Written
  <1>. QED BY <1>2, <1>3, <1>4

LEMMA UpdateRowSafe ==
  ASSUME TInv, NEW c \in Calls, NEW l \in Kinds, UpdateRow(c, l)
  PROVE  TInv' /\ Kept
  <1>. DEFINE k == call[c]
              Hit(i) == /\ i \in live /\ i \in k.id /\ CheckAllows(Written(rows[i], k))
                        /\ \/ Written(rows[i], k).rejected
                           \/ IndexAllows(l, Written(rows[i], k).name, {i})
  <1>1. call' = [call EXCEPT ![c] = NoCall] /\ UNCHANGED <<cred, used, live>>
    BY DEF UpdateRow, Done
  <1>2. k \in Call /\ Sound(k) /\ k.kind = l
    BY DEF UpdateRow, Done, TInv, TypeOK
  <1>3. rows' = [i \in Ids |-> IF Hit(i) THEN Written(rows[i], k) ELSE rows[i]]
    BY DEF UpdateRow
  <1>. HIDE DEF k
  <1>4. \A i \in Ids : rows'[i] = rows[i] \/ (Hit(i) /\ rows'[i] = Written(rows[i], k))
    BY <1>3
  <1>5. \A i \in Ids : rows[i] \in Row /\ Written(rows[i], k) \in Row
    BY <1>2, WrittenRow DEF TInv, TypeOK
  <1>6. RowsTyped'
    <2>1. rows' \in [Ids -> Row]
      BY <1>3, <1>5
    <2>. QED BY <1>1, <1>4, <2>1 DEF RowsTyped, TInv, TypeOK
  <1>7. Decided'
    BY <1>4 DEF Decided, TInv, CheckAllows
  <1>8. Unique'
    <2>1. SUFFICES ASSUME NEW m \in Kinds, NEW a \in live \cap IdsOf[m],
                          NEW b \in live \cap IdsOf[m], a # b,
                          ~rows'[a].rejected, ~rows'[b].rejected, rows'[a].name = rows'[b].name
                   PROVE  FALSE
      BY <1>1 DEF Unique
    <2>2. a \in Ids /\ b \in Ids
      BY KindFacts
    <2>3. ASSUME NEW i \in live \cap IdsOf[m], NEW j \in live \cap IdsOf[m], i # j,
                 ~rows'[i].rejected, ~rows[j].rejected, rows'[i].name = rows[j].name,
                 Hit(i), rows'[i] = Written(rows[i], k)
          PROVE  FALSE
      <3>1. m = l
        BY <1>2, <2>3, KindFacts DEF Sound, Call
      <3>. QED BY <2>3, <3>1 DEF IndexAllows, Bearers
    <2>4. CASE rows'[a] = rows[a] /\ rows'[b] = rows[b]
      BY <2>1, <2>4 DEF TInv, Unique
    <2>5. ~(Hit(a) /\ Hit(b))
      BY <1>2, <2>1 DEF Sound
    <2>. HIDE DEF Hit
    <2>6. CASE Hit(a) /\ rows'[a] = Written(rows[a], k)
      <3>1. rows'[b] = rows[b]
        BY <1>4, <2>2, <2>5, <2>6
      <3>. QED BY <2>1, <2>3, <2>6, <3>1
    <2>7. CASE Hit(b) /\ rows'[b] = Written(rows[b], k)
      <3>1. rows'[a] = rows[a]
        BY <1>4, <2>2, <2>5, <2>7
      <3>. QED BY <2>1, <2>3, <2>7, <3>1
    <2>. QED BY <1>4, <2>2, <2>4, <2>6, <2>7
  <1>9. Kept
    <2>1. ASSUME NEW i \in live
          PROVE  /\ rows[i].activated => rows'[i].activated
                 /\ rows[i].rejected => rows'[i].rejected
      <3>1. i \in Ids
        BY DEF TInv, TypeOK
      <3>. QED BY <1>2, <1>4, <1>5, <3>1, WrittenRow
    <2>. QED BY <1>1, <2>1 DEF Kept, TInv, TypeOK
  <1>10. \A x \in Creds : cred[x].refs \subseteq live'
    BY <1>1 DEF TInv, LinksAreApproved
  <1>. QED BY <1>1, <1>6, <1>7, <1>8, <1>9, <1>10, WriteSafe

LEMMA DeleteRowSafe ==
  ASSUME TInv, NEW c \in Calls, NEW l \in Kinds, DeleteRow(c, l)
  PROVE  TInv' /\ Kept
  <1>. DEFINE gone == {i \in call[c].id : Deletable(i)}
  <1>1. call' = [call EXCEPT ![c] = NoCall] /\ UNCHANGED <<cred, used>>
    BY DEF DeleteRow, Done
  <1>2. live' = live \ gone /\ rows' = [i \in Ids |-> IF i \in gone THEN Blank ELSE rows[i]]
    BY DEF DeleteRow
  <1>3. \A x \in Creds : cred[x].refs \cap gone = {}
    <2>1. \A x \in Creds : cred[x].refs \subseteq Ids
      BY DEF TInv, TypeOK, Credential
    <2>2. \A i \in Ids, x \in Creds : i \in cred[x].refs => InUse(i)
      BY KindFacts DEF InUse, TypesInUse, OrganizationsInUse, CompetenciesInUse
    <2>. QED BY <2>1, <2>2 DEF Deletable
  <1>. HIDE DEF gone
  <1>4. \A i \in Ids : rows'[i] = IF i \in gone THEN Blank ELSE rows[i]
    BY <1>2
  <1>5. RowsTyped'
    <2>1. rows' \in [Ids -> Row]
      BY <1>2, IdleFacts DEF TInv, TypeOK
    <2>. QED BY <1>1, <1>2, <1>4, <2>1 DEF RowsTyped, TInv, TypeOK
  <1>6. Decided'
    BY <1>4, IdleFacts DEF Decided, TInv
  <1>7. Unique'
    BY <1>2, <1>4, KindFacts DEF Unique, TInv
  <1>8. Kept
    BY <1>1, <1>2, <1>4 DEF Kept, TInv, TypeOK
  <1>9. \A x \in Creds : cred[x].refs \subseteq live'
    BY <1>2, <1>3 DEF TInv, LinksAreApproved
  <1>. QED BY <1>1, <1>5, <1>6, <1>7, <1>8, <1>9, WriteSafe

LEMMA StatementSafe ==
  ASSUME TInv, NEW c \in Calls, Statement(c) PROVE TInv' /\ Kept
  <1>1. \E l \in Kinds : Insert(c, l) \/ UpdateRow(c, l) \/ DeleteRow(c, l)
    BY DEF Statement, Kinds, InsertType, UpdateTypeRow, DeleteTypeRow, InsertOrganization,
           UpdateOrganizationRow, DeleteOrganizationRow, InsertCompetency,
           UpdateCompetencyRow, DeleteCompetencyRow
  <1>. QED BY <1>1, InsertSafe, UpdateRowSafe, DeleteRowSafe

-----------------------------------------------------------------------------
(* Credentials. *)

LEMMA AcceptCredentialSafe ==
  ASSUME TInv, NEW c \in Calls, NEW X \in SUBSET Creds, NEW R \in SUBSET Ids,
         NEW pc \in {"submit", "issue", "mint", "edit", "link"},
         Accept(c, [NoCall EXCEPT !.pc = pc, !.creds = X, !.refs = R]),
         \A i \in R \ CompetencyIds : Approved(i),
         pc \in {"submit", "issue"} => Choice(R),
         pc = "edit" => \E i \in Ids \ CompetencyIds : R = {i},
         pc = "link" => R \subseteq CompetencyIds,
         pc = "mint" => R = {},
         pc \in {"edit", "link", "mint"} => \A x \in X : cred[x].state # "none"
  PROVE  TInv'
  <1>. DEFINE k == [NoCall EXCEPT !.pc = pc, !.creds = X, !.refs = R]
  <1>1. pc \in {"idle"} \cup Writes
    BY DEF Writes
  <1>2. k \in Call
    BY <1>1, IdleFacts DEF Call
  <1>3. k.pc = pc /\ k.creds = X /\ k.refs = R /\ k.id = {}
    BY IdleFacts DEF Call
  <1>4. Accept(c, k)
    OBVIOUS
  <1>. HIDE DEF k
  <1>5. Known(R)
    BY DEF Known, Approved, TInv, TypeOK
  <1>6. Sound(k)
    BY <1>3, <1>5 DEF Sound
  <1>. QED BY <1>2, <1>4, <1>6, AcceptSafe

LEMMA SubmitSafe ==
  ASSUME TInv, NEW c \in Calls, SubmitCredential(c) \/ IssueCredential(c)
  PROVE  TInv'
  <1>1. \E pc \in {"submit", "issue"}, x \in Creds, R \in SUBSET live :
           /\ Choice(R) /\ \A i \in R \ CompetencyIds : Usable(i)
           /\ Accept(c, [NoCall EXCEPT !.pc = pc, !.creds = {x}, !.refs = R])
    BY DEF SubmitCredential, IssueCredential, Issuable
  <1>2. PICK pc \in {"submit", "issue"}, x \in Creds, R \in SUBSET live :
           /\ Choice(R) /\ \A i \in R \ CompetencyIds : Usable(i)
           /\ Accept(c, [NoCall EXCEPT !.pc = pc, !.creds = {x}, !.refs = R])
    BY <1>1
  <1>3. R \in SUBSET Ids
    BY DEF TInv, TypeOK
  <1>. QED BY <1>2, <1>3, AcceptCredentialSafe DEF Usable

LEMMA ApproveCredentialSafe ==
  ASSUME TInv, NEW c \in Calls, ApproveCredential(c)
  PROVE  TInv'
  <1>1. PICK x \in Creds :
           /\ cred[x].state = "pending"
           /\ Accept(c, [NoCall EXCEPT !.pc = "mint", !.creds = {x}])
    BY DEF ApproveCredential
  <1>. DEFINE k == [NoCall EXCEPT !.pc = "mint", !.creds = {x}]
  <1>2. k \in Call
    BY IdleFacts DEF Call, Writes
  <1>3. k.pc = "mint" /\ k.creds = {x} /\ k.refs = {} /\ k.id = {}
    BY IdleFacts DEF Call
  <1>4. Accept(c, k)
    BY <1>1
  <1>. HIDE DEF k
  <1>5. Sound(k)
    BY <1>1, <1>3 DEF Sound, Known
  <1>. QED BY <1>2, <1>4, <1>5, AcceptSafe

LEMMA EditSafe ==
  ASSUME TInv, NEW c \in Calls, EditCredential(c) \/ LinkCompetencies(c)
  PROVE  TInv'
  <1>1. ASSUME NEW x \in Creds, NEW i \in live \ CompetencyIds,
               cred[x].state = "pending", Usable(i),
               Accept(c, [NoCall EXCEPT !.pc = "edit", !.creds = {x}, !.refs = {i}])
        PROVE  TInv'
    <2>1. {i} \in SUBSET Ids /\ i \in Ids \ CompetencyIds
      BY DEF TInv, TypeOK
    <2>2. {x} \in SUBSET Creds /\ \A y \in {x} : cred[y].state # "none"
      BY <1>1
    <2>3. \A j \in {i} \ CompetencyIds : Approved(j)
      BY <1>1 DEF Usable
    <2>. QED BY <1>1, <2>1, <2>2, <2>3, AcceptCredentialSafe
  <1>2. ASSUME NEW x \in Creds, NEW R \in SUBSET (live \cap CompetencyIds),
               cred[x].state # "none",
               Accept(c, [NoCall EXCEPT !.pc = "link", !.creds = {x}, !.refs = R])
        PROVE  TInv'
    <2>1. R \in SUBSET Ids /\ R \subseteq CompetencyIds
      BY DEF TInv, TypeOK
    <2>2. {x} \in SUBSET Creds /\ \A y \in {x} : cred[y].state # "none"
      BY <1>2
    <2>3. \A i \in R \ CompetencyIds : Approved(i)
      BY <2>1
    <2>. QED BY <1>2, <2>1, <2>2, <2>3, AcceptCredentialSafe
  <1>. QED BY <1>1, <1>2 DEF EditCredential, LinkCompetencies

\* One type and one organization stay one type and one organization.
LEMMA LinkedChoice ==
  ASSUME NEW x \in Credential, NEW k \in Call, Sound(k),
         k.pc \in {"submit", "issue", "mint", "edit", "link"},
         IF k.pc \in {"submit", "issue"} THEN x.refs = {} ELSE Choice(x.refs)
  PROVE  Linked(x, k).refs \in SUBSET Ids /\ Choice(Linked(x, k).refs)
  <1>. DEFINE new == (x.refs \ Replaced(k.pc, k.refs)) \cup k.refs
  <1>1. Linked(x, k).refs = new
    BY DEF Linked
  <1>2. new \in SUBSET Ids
    BY DEF Credential, Call
  <1>3. CASE k.pc \in {"submit", "issue"}
    BY <1>1, <1>2, <1>3 DEF Sound
  <1>4. CASE k.pc \in {"mint", "edit", "link"}
    <2>1. PICK t \in TypeIds, o \in OrganizationIds : x.refs \ CompetencyIds = {t, o}
      BY <1>4 DEF Choice
    <2>2. CASE k.pc = "mint"
      <3>1. new = x.refs
        BY <2>2 DEF Sound, Replaced
      <3>. QED BY <1>1, <1>2, <2>1, <3>1 DEF Choice
    <2>3. CASE k.pc = "link"
      <3>1. new \ CompetencyIds = {t, o}
        BY <2>1, <2>3 DEF Sound, Replaced
      <3>. QED BY <1>1, <1>2, <3>1 DEF Choice
    <2>4. CASE k.pc = "edit"
      <3>1. PICK i \in Ids \ CompetencyIds : k.refs = {i}
        BY <2>4 DEF Sound
      <3>2. CASE i \in TypeIds
        <4>1. Replaced("edit", {i}) = TypeIds
          BY <3>2, KindFacts DEF Replaced
        <4>2. new \ CompetencyIds = {i, o}
          BY <2>1, <2>4, <3>1, <3>2, <4>1
        <4>. QED BY <1>1, <1>2, <3>2, <4>2 DEF Choice
      <3>3. CASE i \in OrganizationIds
        <4>1. Replaced("edit", {i}) = OrganizationIds
          BY <3>3, KindFacts DEF Replaced
        <4>2. new \ CompetencyIds = {t, i}
          BY <2>1, <2>4, <3>1, <3>3, <4>1
        <4>. QED BY <1>1, <1>2, <3>3, <4>2 DEF Choice
      <3>. QED BY <3>2, <3>3, KindFacts
    <2>. QED BY <1>4, <2>2, <2>3, <2>4
  <1>. QED BY <1>3, <1>4

LEMMA WriteCredentialSafe ==
  ASSUME TInv, NEW c \in Calls, WriteCredential(c)
  PROVE  TInv'
  <1>. DEFINE k == call[c]
              Hit(x) == /\ x \in k.creds /\ Linkable(k.refs)
                        /\ k.pc \in {"submit", "issue"} => cred[x].state = "none"
  <1>1. /\ call' = [call EXCEPT ![c] = NoCall] /\ UNCHANGED <<used, live, rows>>
        /\ k.pc \in {"submit", "issue", "mint", "edit", "link"}
    BY DEF WriteCredential, rowVars
  <1>2. k \in Call /\ Sound(k)
    BY DEF TInv, TypeOK
  <1>3. cred' = [x \in Creds |-> IF Hit(x) THEN Linked(cred[x], k) ELSE cred[x]]
    BY DEF WriteCredential
  <1>. HIDE DEF k
  <1>4. \A x \in Creds : cred'[x] = cred[x] \/ (Hit(x) /\ cred'[x] = Linked(cred[x], k))
    BY <1>3
  <1>5. ASSUME NEW x \in Creds, Hit(x)
        PROVE  /\ Linked(cred[x], k) \in Credential
               /\ Linked(cred[x], k).state # "none" /\ Choice(Linked(cred[x], k).refs)
    <2>1. cred[x] \in Credential
      BY DEF TInv, TypeOK
    <2>2. IF k.pc \in {"submit", "issue"} THEN cred[x].refs = {} ELSE Choice(cred[x].refs)
      BY <1>1, <1>2, <1>5 DEF TInv, TypeOK, Sound
    <2>3. Linked(cred[x], k).refs \in SUBSET Ids /\ Choice(Linked(cred[x], k).refs)
      BY <1>1, <1>2, <2>1, <2>2, LinkedChoice
    <2>4. Linked(cred[x], k).state \in {"pending", "approved"}
      <3>1. k.pc \in {"submit", "issue"} \/ cred[x].state \in {"pending", "approved"}
        BY <1>1, <1>2, <1>5, <2>1 DEF Sound, Credential
      <3>. QED BY <1>1, <3>1 DEF Linked
    <2>. QED BY <2>3, <2>4 DEF Linked, Credential
  <1>6. call' \in [Calls -> Call] /\ \A d \in Calls : call'[d] = call[d] \/ call'[d] = NoCall
    BY <1>1, IdleFacts DEF TInv, TypeOK
  <1>7. TypeOK'
    <2>1. cred' \in [Creds -> Credential]
      BY <1>3, <1>5 DEF TInv, TypeOK
    <2>2. \A x \in Creds : IF cred'[x].state = "none" THEN cred'[x].refs = {} ELSE Choice(cred'[x].refs)
      BY <1>4, <1>5 DEF TInv, TypeOK
    <2>. QED BY <1>1, <1>6, <2>1, <2>2 DEF TInv, TypeOK, Choice
  <1>8. LinksAreApproved'
    <2>1. SUFFICES ASSUME NEW x \in Creds, NEW i \in cred'[x].refs
                   PROVE  i \in live /\ (i \in CompetencyIds \/ Approved(i))
      BY <1>1 DEF LinksAreApproved, Approved
    <2>2. CASE i \in cred[x].refs
      BY <2>2 DEF TInv, LinksAreApproved
    <2>3. CASE i \in k.refs /\ Hit(x)
      BY <1>2, <2>3 DEF Linkable, Sound, Known, Approved
    <2>4. Linked(cred[x], k).refs \subseteq cred[x].refs \cup k.refs
      BY DEF Linked
    <2>. HIDE DEF Hit
    <2>. QED BY <1>4, <2>1, <2>2, <2>3, <2>4
  <1>9. Decided' /\ Unique'
    BY <1>1 DEF TInv, Decided, Unique
  <1>10. ASSUME NEW d \in Calls PROVE Sound(call[d])'
    <2>1. Sound(call'[d]) /\ call'[d] \in Call
      BY <1>6, IdleSound DEF TInv, TypeOK
    <2>2. \A x \in Creds : cred[x].state # "none" => cred'[x].state # "none"
      BY <1>4, <1>5
    <2>3. call'[d].creds \subseteq Creds
      BY <2>1 DEF Call
    <2>. QED BY <1>1, <2>1, <2>2, <2>3 DEF Sound, Known, Choice
  <1>. QED BY <1>7, <1>8, <1>9, <1>10 DEF TInv

LEMMA CredentialCallsSafe ==
  ASSUME TInv, NEW c \in Calls, CredentialCalls(c) PROVE TInv'
  BY SubmitSafe, ApproveCredentialSafe, EditSafe, WriteCredentialSafe DEF CredentialCalls

LEMMA StutterSafe == ASSUME TInv, UNCHANGED vars PROVE TInv'
  <1>1. UNCHANGED <<used, live, rows, cred, call>>
    BY DEF vars
  <1>2. TypeOK'
    BY <1>1 DEF TInv, TypeOK, Choice
  <1>3. Decided' /\ Unique' /\ LinksAreApproved'
    BY <1>1 DEF TInv, Decided, Unique, LinksAreApproved, Approved
  <1>4. \A d \in Calls : Sound(call[d])'
    BY <1>1 DEF TInv, Sound, Known, Choice
  <1>. QED BY <1>2, <1>3, <1>4 DEF TInv

LEMMA NextTInv == TInv /\ [Next]_vars => TInv'
  <1>. SUFFICES ASSUME TInv, [Next]_vars PROVE TInv' OBVIOUS
  <1>1. ASSUME NEW c \in Calls,
               \/ TypeHandler(c) \/ OrganizationHandler(c) \/ CompetencyHandler(c)
               \/ Statement(c) \/ CredentialCalls(c)
        PROVE  TInv'
    BY <1>1, HandlerSafe, StatementSafe, CredentialCallsSafe
  <1>2. CASE UNCHANGED vars
    BY <1>2, StutterSafe
  <1>. QED BY <1>1, <1>2 DEF Next

\* Only a statement on a reference touches the rows.
LEMMA NextKept == TInv /\ [Next]_vars => Kept
  <1>. SUFFICES ASSUME TInv, [Next]_vars PROVE Kept OBVIOUS
  <1>1. ASSUME NEW c \in Calls, Statement(c) PROVE Kept
    BY <1>1, StatementSafe
  <1>2. CASE UNCHANGED rowVars
    BY <1>2, UnchangedRows
  <1>3. ASSUME NEW c \in Calls, NEW k, Accept(c, k) PROVE UNCHANGED rowVars
    BY <1>3 DEF Accept
  <1>4. ASSUME NEW c \in Calls, TypeHandler(c) \/ OrganizationHandler(c) \/ CompetencyHandler(c)
        PROVE  UNCHANGED rowVars
    <2>1. CASE TypeHandler(c)
      BY <2>1, <1>3 DEF TypeHandler, StoreType, SubmitType, ApproveType, RejectType, UpdateType,
         DestroyType, Store, Submit, Propose, Approve, Reject, Review, Change, Destroy
    <2>2. CASE OrganizationHandler(c)
      BY <2>2, <1>3 DEF OrganizationHandler, StoreOrganization, SubmitOrganization,
         ApproveOrganization, RejectOrganization, UpdateOrganization, DestroyOrganization,
         Store, Submit, Propose, Approve, Reject, Review, Change, Destroy
    <2>3. CASE CompetencyHandler(c)
      BY <2>3, <1>3 DEF CompetencyHandler, StoreCompetency, SubmitCompetency, ApproveCompetency,
         RejectCompetency, UpdateCompetency, DestroyCompetency,
         Store, Submit, Propose, Approve, Reject, Review, Change, Destroy
    <2>. QED BY <1>4, <2>1, <2>2, <2>3
  <1>5. ASSUME NEW c \in Calls, CredentialCalls(c) PROVE UNCHANGED rowVars
    BY <1>3, <1>5 DEF CredentialCalls, SubmitCredential, IssueCredential, ApproveCredential,
       EditCredential, LinkCompetencies, WriteCredential
  <1>6. CASE UNCHANGED vars
    BY <1>6, <1>2 DEF vars, rowVars
  <1>. QED BY <1>1, <1>2, <1>4, <1>5, <1>6 DEF Next

LEMMA TInvHolds == Spec => []TInv
  BY InitTInv, NextTInv, PTL DEF Spec
-----------------------------------------------------------------------------
\* Every variable keeps its type, a row that is gone has no columns, and a stored
\* credential has exactly one type and one organization.
THEOREM TypeCorrect == Spec => []TypeOK
  <1>1. TInv => TypeOK
    BY DEF TInv
  <1>. QED BY <1>1, TInvHolds, PTL

\* The services look for a name in one statement and write it in another; the
\* partial indexes keep two rows that are not rejected from having it.
THEOREM NamesStayUnique == Spec => []NamesAreUnique
  <1>1. TInv => NamesAreUnique
    BY DEF TInv, Unique, NamesAreUnique, Bearers
  <1>. QED BY <1>1, TInvHolds, PTL

\* Whatever a credential links was approved when it was checked, is still there
\* and still approved, whatever was deleted or reviewed meanwhile.
THEOREM LinksStayApproved == Spec => []LinksAreApproved
  <1>1. TInv => LinksAreApproved
    BY DEF TInv
  <1>. QED BY <1>1, TInvHolds, PTL

\* Approve and Reject check that a proposal is pending and write later; the
\* CHECK constraint keeps the loser of a race from reversing the decision.
THEOREM ReviewsStayFinal == Spec => ReviewIsFinal
  <1>1. TInv /\ TInv' /\ [Next]_vars
        => [\A i \in live : i \in live' =>
              /\ rows[i].activated => rows'[i].activated /\ ~rows'[i].rejected
              /\ rows[i].rejected => rows'[i].rejected /\ ~rows'[i].activated]_vars
    <2>1. SUFFICES ASSUME TInv, TInv', [Next]_vars, NEW i \in live, i \in live'
                   PROVE  /\ rows[i].activated => rows'[i].activated /\ ~rows'[i].rejected
                          /\ rows[i].rejected => rows'[i].rejected /\ ~rows'[i].activated
      OBVIOUS
    <2>2. Kept /\ i \in Ids /\ Decided'
      BY <2>1, NextKept DEF TInv, TypeOK
    <2>. QED BY <2>1, <2>2 DEF Kept, Decided
  <1>. QED BY <1>1, TInvHolds, PTL DEF Spec, ReviewIsFinal
=============================================================================
