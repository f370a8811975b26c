------------------------------ MODULE Taxonomy ------------------------------
(***************************************************************************)
(* Credential types, issuer organizations and competencies: the reference  *)
(* rows that holders propose, officers review, rename, switch and delete,  *)
(* and that credentials link.  The three services are written alike and    *)
(* differ where this module names the kind: what references a row, which   *)
(* columns an update carries, and what issuance asks of a row.             *)
(*                                                                         *)
(* No operation on a reference opens a transaction.  Every call reads in   *)
(* one statement and writes in another; the step that reads is also the    *)
(* one that accepts the call, and a call that is refused has no step.      *)
(***************************************************************************)
CONSTANTS TypeIds, OrganizationIds, CompetencyIds, \* identifiers, stored or to come
          Names,   \* the names that rows of each kind may have
          Creds,   \* credentials
          Calls    \* the calls that may be served at the same time

Kinds == {"type", "organization", "competency"}
IdsOf == [type |-> TypeIds, organization |-> OrganizationIds, competency |-> CompetencyIds]
Ids == TypeIds \cup OrganizationIds \cup CompetencyIds
AllNames == UNION {Names[k] : k \in Kinds}

ASSUME KindsAreDisjoint == /\ TypeIds \cap OrganizationIds = {}
                           /\ TypeIds \cap CompetencyIds = {}
                           /\ OrganizationIds \cap CompetencyIds = {}
ASSUME NamesAssumption == Names \in [Kinds -> SUBSET AllNames] /\ AllNames # {}

\* activated and rejected: is the timestamp set?
Row == [name: AllNames, active: BOOLEAN, activated: BOOLEAN, rejected: BOOLEAN]

\* refs: type_id, issuer_organization_id and the rows of competency_credential.
Credential == [state: {"none", "pending", "approved"}, refs: SUBSET Ids]

Writes == {"insert", "approve", "reject", "update", "delete",
           "submit", "issue", "mint", "edit", "link"}

\* named: does the UPDATE have a name column?
Call == [pc: {"idle"} \cup Writes, kind: Kinds, id: SUBSET Ids, named: BOOLEAN, row: Row,
         creds: SUBSET Creds, refs: SUBSET Ids]

VARIABLES used,  \* identifiers that were ever stored
          live,  \* the rows there are
          rows,  \* their columns
          cred,  \* the credentials
          call   \* what each call is about to write

vars == <<used, live, rows, cred, call>>
rowVars == <<used, live, rows>>

Blank == [name |-> CHOOSE n \in AllNames : TRUE, active |-> FALSE,
          activated |-> FALSE, rejected |-> FALSE]
NoCall == [pc |-> "idle", kind |-> "type", id |-> {}, named |-> FALSE, row |-> Blank,
           creds |-> {}, refs |-> {}]

\* The seeders store usable rows, one that is switched off, a proposal and one
\* that was rejected, all under names of their own.
SeededRows == {row \in Row : /\ row.active => row.activated
                             /\ ~(row.activated /\ row.rejected)}
Seedings(S) == {f \in [S -> SeededRows] : \A i, j \in S : f[i].name = f[j].name => i = j}

SeededTypes(S) == Seedings(S \cap TypeIds)
SeededOrganizations(S) == Seedings(S \cap OrganizationIds)
SeededCompetencies(S) == Seedings(S \cap CompetencyIds)

\* The service starts on an empty database or on one that was seeded.
Init ==
    /\ used \in SUBSET Ids
    /\ live = used
    /\ \E t \in SeededTypes(used), o \in SeededOrganizations(used),
          k \in SeededCompetencies(used) :
          rows = [i \in Ids |-> CASE i \in DOMAIN t -> t[i]
                                 [] i \in DOMAIN o -> o[i]
                                 [] i \in DOMAIN k -> k[i]
                                 [] OTHER -> Blank]
    /\ cred = [x \in Creds |-> [state |-> "none", refs |-> {}]]
    /\ call = [c \in Calls |-> NoCall]

-----------------------------------------------------------------------------
(* What the rows say *)

Pending(i) == i \in live /\ ~rows[i].activated /\ ~rows[i].rejected
Approved(i) == i \in live /\ rows[i].activated /\ ~rows[i].rejected
Usable(i) == Approved(i) /\ rows[i].active

\* FindByNames, and the partial unique indexes on LOWER(name).
Bearers(k, n) == {i \in live \cap IdsOf[k] : rows[i].name = n /\ ~rows[i].rejected}
\* Variant: without the indexes.
IndexAllows_Absent(k, n, S) == TRUE

IndexAllows(k, n, S) == Bearers(k, n) \subseteq S

\* credentials.type_id, credentials.issuer_organization_id, competency_credential.
TypesInUse == TypeIds \cap UNION {cred[x].refs : x \in Creds}
OrganizationsInUse == OrganizationIds \cap UNION {cred[x].refs : x \in Creds}
CompetenciesInUse == CompetencyIds \cap UNION {cred[x].refs : x \in Creds}
InUse(i) == i \in TypesInUse \cup OrganizationsInUse \cup CompetenciesInUse

-----------------------------------------------------------------------------
(* References: the step that accepts *)

Accept(c, k) ==
    /\ call[c].pc = "idle"
    /\ call' = [call EXCEPT ![c] = k]
    /\ UNCHANGED <<rowVars, cred>>

Propose(c, k, row) ==
    /\ Bearers(k, row.name) = {}
    /\ Accept(c, [NoCall EXCEPT !.pc = "insert", !.kind = k, !.row = row])

Store(c, k) ==
    \E n \in Names[k], a \in BOOLEAN :
       Propose(c, k, [name |-> n, active |-> a, activated |-> TRUE, rejected |-> FALSE])

Submit(c, k) ==
    \E n \in Names[k] :
       Propose(c, k, [name |-> n, active |-> FALSE, activated |-> FALSE, rejected |-> FALSE])

Review(c, k, pc, row) ==
    \E i \in IdsOf[k] :
       /\ Pending(i)
       /\ Accept(c, [NoCall EXCEPT !.pc = pc, !.kind = k, !.id = {i}, !.row = row])

Approve(c, k) == Review(c, k, "approve", [Blank EXCEPT !.active = TRUE, !.activated = TRUE])
Reject(c, k) == Review(c, k, "reject", [Blank EXCEPT !.rejected = TRUE])

\* `active' is always carried, as it was read; carried says whether the name is.
Change(c, k, carried) ==
    \E i \in live \cap IdsOf[k], n \in Names[k], a \in BOOLEAN :
       \/ /\ Bearers(k, n) \subseteq {i}
          /\ Accept(c, [NoCall EXCEPT !.pc = "update", !.kind = k, !.id = {i}, !.named = TRUE,
                                      !.row = [Blank EXCEPT !.name = n, !.active = a]])
       \/ Accept(c, [NoCall EXCEPT !.pc = "update", !.kind = k, !.id = {i}, !.named = carried,
                                   !.row = [Blank EXCEPT !.name = rows[i].name, !.active = a]])

Destroy(c, k, referenced) ==
    \E i \in (live \cap IdsOf[k]) \ referenced :
       Accept(c, [NoCall EXCEPT !.pc = "delete", !.kind = k, !.id = {i}])

StoreType(c) == Store(c, "type")
SubmitType(c) == Submit(c, "type")
ApproveType(c) == Approve(c, "type")
RejectType(c) == Reject(c, "type")
UpdateType(c) == Change(c, "type", FALSE)
DestroyType(c) == Destroy(c, "type", TypesInUse)

StoreOrganization(c) == Store(c, "organization")
SubmitOrganization(c) == Submit(c, "organization")
ApproveOrganization(c) == Approve(c, "organization")
RejectOrganization(c) == Reject(c, "organization")
UpdateOrganization(c) == Change(c, "organization", FALSE)
DestroyOrganization(c) == Destroy(c, "organization", OrganizationsInUse)

StoreCompetency(c) == Store(c, "competency")
SubmitCompetency(c) == Submit(c, "competency")
ApproveCompetency(c) == Approve(c, "competency")
RejectCompetency(c) == Reject(c, "competency")
UpdateCompetency(c) == Change(c, "competency", TRUE)
DestroyCompetency(c) == Destroy(c, "competency", CompetenciesInUse)

TypeHandler(c) == \/ StoreType(c) \/ SubmitType(c) \/ ApproveType(c)
                  \/ RejectType(c) \/ UpdateType(c) \/ DestroyType(c)
OrganizationHandler(c) == \/ StoreOrganization(c) \/ SubmitOrganization(c)
                          \/ ApproveOrganization(c) \/ RejectOrganization(c)
                          \/ UpdateOrganization(c) \/ DestroyOrganization(c)
CompetencyHandler(c) == \/ StoreCompetency(c) \/ SubmitCompetency(c)
                        \/ ApproveCompetency(c) \/ RejectCompetency(c)
                        \/ UpdateCompetency(c) \/ DestroyCompetency(c)

-----------------------------------------------------------------------------
(* References: the statement that writes *)

Done(c, pc, k) == /\ call[c].pc = pc /\ call[c].kind = k
                  /\ call' = [call EXCEPT ![c] = NoCall]
                  /\ UNCHANGED cred

Insert(c, k) ==
    /\ Done(c, "insert", k)
    /\ LET new == call[c].row
       IN  \/ /\ IndexAllows(k, new.name, {})
              /\ \E i \in IdsOf[k] \ used :
                    /\ used' = used \cup {i}
                    /\ live' = live \cup {i}
                    /\ rows' = [rows EXCEPT ![i] = new]
           \/ /\ ~IndexAllows(k, new.name, {}) \/ IdsOf[k] \subseteq used
              /\ UNCHANGED rowVars

\* Variant: without the constraint.
CheckAllows_Absent(row) == TRUE

\* chk_..._activated_xor_rejected
CheckAllows(row) == ~(row.activated /\ row.rejected)

Written(old, k) == [name |-> IF k.named THEN k.row.name ELSE old.name,
                    active |-> k.row.active,
                    activated |-> old.activated \/ k.row.activated,
                    rejected |-> old.rejected \/ k.row.rejected]

UpdateRow(c, k) ==
    /\ \E pc \in {"approve", "reject", "update"} : Done(c, pc, k)
    /\ rows' = [i \in Ids |->
                  LET new == Written(rows[i], call[c])
                  IN  IF /\ i \in live /\ i \in call[c].id
                         /\ CheckAllows(new)
                         /\ new.rejected \/ IndexAllows(k, new.name, {i})
                      THEN new ELSE rows[i]]
    /\ UNCHANGED <<used, live>>

\* Variant: without the foreign keys.
Deletable_Counted(i) == TRUE

\* The foreign keys refuse a row that is referenced.
Deletable(i) == ~InUse(i)

DeleteRow(c, k) ==
    /\ Done(c, "delete", k)
    /\ LET gone == {i \in call[c].id : Deletable(i)}
       IN  /\ live' = live \ gone
           /\ rows' = [i \in Ids |-> IF i \in gone THEN Blank ELSE rows[i]]
    /\ UNCHANGED used

InsertType(c) == Insert(c, "type")
UpdateTypeRow(c) == UpdateRow(c, "type")
DeleteTypeRow(c) == DeleteRow(c, "type")
InsertOrganization(c) == Insert(c, "organization")
UpdateOrganizationRow(c) == UpdateRow(c, "organization")
DeleteOrganizationRow(c) == DeleteRow(c, "organization")
InsertCompetency(c) == Insert(c, "competency")
UpdateCompetencyRow(c) == UpdateRow(c, "competency")
DeleteCompetencyRow(c) == DeleteRow(c, "competency")

Statement(c) ==
    \/ InsertType(c) \/ UpdateTypeRow(c) \/ DeleteTypeRow(c)
    \/ InsertOrganization(c) \/ UpdateOrganizationRow(c) \/ DeleteOrganizationRow(c)
    \/ InsertCompetency(c) \/ UpdateCompetencyRow(c) \/ DeleteCompetencyRow(c)

-----------------------------------------------------------------------------
(* Credentials *)

\* One type, one organization, any competencies.
Choice(R) == \E t \in TypeIds, o \in OrganizationIds : R \ CompetencyIds = {t, o}

SubmitCredential(c) ==
    \E x \in Creds, R \in SUBSET live :
       /\ cred[x].state = "none"
       /\ Choice(R) /\ \A i \in R : Usable(i)
       /\ Accept(c, [NoCall EXCEPT !.pc = "submit", !.creds = {x}, !.refs = R])

\* Direct issuance asks of a competency that it is active, and no more.
Issuable(i) == IF i \in CompetencyIds THEN i \in live /\ rows[i].active ELSE Usable(i)

IssueCredential(c) ==
    \E x \in Creds, R \in SUBSET live :
       /\ cred[x].state = "none"
       /\ Choice(R) /\ \A i \in R : Issuable(i)
       /\ Accept(c, [NoCall EXCEPT !.pc = "issue", !.creds = {x}, !.refs = R])

ApproveCredential(c) ==
    \E x \in Creds :
       /\ cred[x].state = "pending"
       /\ \A i \in cred[x].refs : Usable(i)
       /\ Accept(c, [NoCall EXCEPT !.pc = "mint", !.creds = {x}])

EditCredential(c) ==
    \E x \in Creds, i \in live \ CompetencyIds :
       /\ cred[x].state = "pending"
       /\ Usable(i)
       /\ Accept(c, [NoCall EXCEPT !.pc = "edit", !.creds = {x}, !.refs = {i}])

LinkCompetencies(c) ==
    \E x \in Creds, R \in SUBSET (live \cap CompetencyIds) :
       /\ cred[x].state # "none"
       /\ \A i \in R : rows[i].active
       /\ Accept(c, [NoCall EXCEPT !.pc = "link", !.creds = {x}, !.refs = R])

\* The columns that the call's references replace.
Replaced(pc, R) ==
    IF pc = "link" THEN CompetencyIds
    ELSE {i \in Ids : \E j \in R : {i, j} \subseteq TypeIds \/ {i, j} \subseteq OrganizationIds}

\* The foreign keys refuse a reference that is gone.
Linkable(R) == R \subseteq live

Linked(x, k) ==
    [state |-> CASE k.pc = "submit" -> "pending"
                 [] k.pc \in {"issue", "mint"} -> "approved"
                 [] OTHER -> x.state,
     refs |-> (x.refs \ Replaced(k.pc, k.refs)) \cup k.refs]

WriteCredential(c) ==
    /\ call[c].pc \in {"submit", "issue", "mint", "edit", "link"}
    /\ call' = [call EXCEPT ![c] = NoCall]
    /\ cred' = [x \in Creds |->
                  IF x \in call[c].creds /\ Linkable(call[c].refs)
                     /\ (call[c].pc \in {"submit", "issue"} => cred[x].state = "none")
                  THEN Linked(cred[x], call[c]) ELSE cred[x]]
    /\ UNCHANGED rowVars

CredentialCalls(c) == \/ SubmitCredential(c) \/ IssueCredential(c) \/ ApproveCredential(c)
                      \/ EditCredential(c) \/ LinkCompetencies(c) \/ WriteCredential(c)

-----------------------------------------------------------------------------
Next == \E c \in Calls : \/ TypeHandler(c) \/ OrganizationHandler(c) \/ CompetencyHandler(c)
                         \/ Statement(c) \/ CredentialCalls(c)

Spec == Init /\ [][Next]_vars

-----------------------------------------------------------------------------
(* Properties *)

\* The rows, the credentials and the calls are well typed; a statement whose
\* row was deleted meanwhile changes nothing; and a stored credential has one
\* type and one organization, whatever is edited and linked.
TypeOK ==
    /\ used \subseteq Ids
    /\ live \subseteq used
    /\ rows \in [Ids -> Row]
    /\ \A i \in Ids \ live : rows[i] = Blank
    /\ cred \in [Creds -> Credential]
    /\ \A x \in Creds : IF cred[x].state = "none" THEN cred[x].refs = {} ELSE Choice(cred[x].refs)
    /\ call \in [Calls -> Call]

\* Every service looks for the name before it writes it.  However the calls
\* interleave, and whatever is renamed, rejected or proposed again, no two rows
\* of one kind that are not rejected have the same name.
NamesAreUnique ==
    \A k \in Kinds : \A n \in Names[k] :
       \A i, j \in Bearers(k, n) : i = j

\* Approvals and rejections read the status and write later: a decision, once
\* taken, is never taken back or doubled by one that was under way.
ReviewIsFinal ==
    [][\A i \in live : i \in live' =>
          /\ rows[i].activated => rows'[i].activated /\ ~rows'[i].rejected
          /\ rows[i].rejected => rows'[i].rejected /\ ~rows'[i].activated]_vars

\* Deletions count references, and credentials check references, before they
\* write: whatever a credential links is there, and its type and organization
\* were approved and still are, though they may have been switched off.
LinksAreApproved ==
    \A x \in Creds : \A i \in cred[x].refs :
       i \in live /\ (i \in CompetencyIds \/ Approved(i))

=============================================================================
