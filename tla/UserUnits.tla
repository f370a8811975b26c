----------------------------- MODULE UserUnits -----------------------------
(***************************************************************************)
(* The tree of organizational units (feature/user/user_unit_service.go)    *)
(* and the users that point into it.  No operation of the service opens a  *)
(* transaction: every repository call is a statement of its own, so two    *)
(* calls interleave between any two of them, and an Update that fails      *)
(* half-way keeps what it wrote.                                           *)
(*                                                                         *)
(* The parts of an Update's body are chosen when the handler comes to      *)
(* them.  Names are left out; that an Update renames is kept, because the  *)
(* same statement writes `active' again.  Identifiers are ULIDs, which     *)
(* grow and are never used twice.                                          *)
(***************************************************************************)
EXTENDS Naturals

CONSTANTS MaxUnits, \* bound of the model: how many units are ever stored
          Users,    \* rows of the users table that may carry a unit
          Calls,    \* the calls that may be served at the same time
          Clerks,   \* those of them that store, destroy and assign
          Editors,  \* those of them that may serve an Update
          Movers    \* those of them whose Update may set a parent

ASSUME UnitsAssumption == MaxUnits \in Nat
ASSUME UsersAssumption == Users # {}
ASSUME CallsAssumption == /\ Clerks \subseteq Calls
                          /\ Editors \subseteq Calls
                          /\ Movers \subseteq Editors

Units == 1 .. MaxUnits
None == 0  \* SQL NULL
Parents == Units \cup {None}

StoreSteps == {"new", "insert"}
UpdateSteps == {"find", "found", "renamed", "off", "switch off", "on", "switch on",
                "switched", "parent", "reparent", "cascade", "move off"}
OtherSteps == {"count", "delete", "check", "assign", "filter"}

\* seen and over: the active flag and the parent of the target when the call
\* read it; below: what FindWithDescendants returned.
Call == [pc: {"idle"} \cup StoreSteps \cup UpdateSteps \cup OtherSteps,
         unit: Parents, user: Users, to: Parents, seen: BOOLEAN, over: Parents,
         below: SUBSET Units]

VARIABLES born,       \* how many units were ever stored: the last identifier
          live,       \* the rows of user_units
          parent,     \* their parent_id
          active,     \* their active flag
          unitOf,     \* users.unit_id
          call,       \* what each call is doing
          overlapped  \* history: have two calls that write flags overlapped?

treeVars == <<born, live, parent, active>>
vars == <<treeVars, unitOf, call, overlapped>>

NoCall == [pc |-> "idle", unit |-> None, user |-> CHOOSE x \in Users : TRUE,
           to |-> None, seen |-> FALSE, over |-> None, below |-> {}]

\* The trees that `seed' may have stored as the first n units: a faculty, its
\* programmes, the next faculty.
SeededTrees(n) ==
    {p \in [1 .. n -> 0 .. n] :
        \A u \in 1 .. n : p[u] # None => u > 1 /\ p[u] = IF p[u - 1] = None THEN u - 1
                                                       ELSE p[u - 1]}

\* A seeded holder gets a programme, an issuer a faculty, nobody else anything.
SeededUsers(p) ==
    LET faculties == {u \in DOMAIN p : p[u] = None}
        programmes == DOMAIN p \ faculties
    IN  [Users -> {None} \cup faculties \cup programmes]

\* The service starts on an empty database or on a seeded one.
Init ==
    /\ born \in 0 .. MaxUnits
    /\ live = 1 .. born
    /\ \E p \in SeededTrees(born) :
          /\ parent = [u \in Units |-> IF u \in live THEN p[u] ELSE None]
          /\ unitOf \in SeededUsers(p)
    /\ active = [u \in Units |-> u \in live]
    /\ call = [c \in Calls |-> NoCall]
    /\ overlapped = FALSE

-----------------------------------------------------------------------------
(* The tree *)

ClosedDown(S) == \A v \in live : parent[v] \in S => v \in S
ClosedUp(S) == \A v \in S : parent[v] \in live => parent[v] \in S

\* WITH RECURSIVE: the least set of rows that contains the start and follows
\* the join.
Descend(S) == {v \in live : \A T \in SUBSET live :
                               S \cap live \subseteq T /\ ClosedDown(T) => v \in T}
Climb(S) == {v \in live : \A T \in SUBSET live :
                             S \cap live \subseteq T /\ ClosedUp(T) => v \in T}

\* Variant: without the ancestors.
Search_Subtree(matches) == Descend(matches)

\* unitSearchSQL, for the units whose names match.
Search(matches) == Climb(matches) \cup Descend(matches)

\* FindWithDescendants joins with UNION ALL: it ends unless the unit is below
\* itself.
Terminates(u) == u \notin Descend({v \in live : parent[v] = u})

-----------------------------------------------------------------------------
(* Calls *)

WritesFlags(k) == k.pc \in StoreSteps \cup UpdateSteps

Begin(c, k) ==
    /\ call[c].pc = "idle"
    /\ call' = [call EXCEPT ![c] = k]
    /\ overlapped' = (overlapped \/ /\ WritesFlags(k)
                                    /\ \E d \in Calls \ {c} : WritesFlags(call[d]))
    /\ UNCHANGED <<treeVars, unitOf>>

Known == 1 .. born

StartStore(c) ==
    /\ c \in Clerks
    /\ \E p \in live \cup {None} : Begin(c, [NoCall EXCEPT !.pc = "new", !.to = p])

StartUpdate(c) ==
    /\ c \in Editors
    /\ \E u \in live : Begin(c, [NoCall EXCEPT !.pc = "find", !.unit = u])

StartDestroy(c) ==
    /\ c \in Clerks
    /\ \E u \in live : Begin(c, [NoCall EXCEPT !.pc = "count", !.unit = u])

\* A user is stored or updated with a unit.
StartAssign(c) ==
    /\ c \in Clerks
    /\ \E u \in live, x \in Users :
          Begin(c, [NoCall EXCEPT !.pc = "check", !.unit = u, !.user = x])

\* The list of users, filtered by a unit and everything below it.
StartFilter(c) ==
    /\ c \in Editors
    /\ \E u \in live : Begin(c, [NoCall EXCEPT !.pc = "filter", !.unit = u])

GoTo(c, pc) == call' = [call EXCEPT ![c] = IF pc = "idle" THEN NoCall ELSE [@ EXCEPT !.pc = pc]]

Stays == UNCHANGED <<treeVars, unitOf, overlapped>>

-----------------------------------------------------------------------------
(* Store *)

\* A child of an inactive unit is born inactive.
Inherited(p) == p = None \/ active[p]

CheckNewParent(c) ==
    /\ call[c].pc = "new"
    /\ LET p == call[c].to
       IN  IF p = None \/ p \in live
           THEN call' = [call EXCEPT ![c].pc = "insert", ![c].seen = Inherited(p)]
           ELSE GoTo(c, "idle")
    /\ Stays

Insert(c) ==
    /\ call[c].pc = "insert"
    /\ GoTo(c, "idle")
    /\ LET p == call[c].to
       IN  \/ /\ p = None \/ p \in live
              /\ born < MaxUnits
              /\ born' = born + 1
              /\ live' = live \cup {born'}
              /\ parent' = [parent EXCEPT ![born'] = p]
              /\ active' = [active EXCEPT ![born'] = call[c].seen]
           \/ (p \in Units \ live \/ born = MaxUnits) /\ UNCHANGED treeVars
    /\ UNCHANGED <<unitOf, overlapped>>

-----------------------------------------------------------------------------
(* Update *)

Find(c) ==
    /\ call[c].pc = "find"
    /\ LET u == call[c].unit
       IN  IF u \in live
           THEN call' = [call EXCEPT ![c].pc = "found", ![c].seen = active[u],
                                     ![c].over = parent[u]]
           ELSE GoTo(c, "idle")
    /\ Stays

SetActive(S, b) == active' = [u \in Units |-> IF u \in S \cap live THEN b ELSE active[u]]

\* The batch UPDATE always emits `active': the value that was read is written.
Rename(c) ==
    /\ call[c].pc = "found"
    /\ call' = [call EXCEPT ![c].pc = "renamed", ![c].seen = FALSE]
    /\ SetActive({call[c].unit}, call[c].seen)
    /\ UNCHANGED <<born, live, parent, unitOf, overlapped>>

\* The rest of the body: active: false, active: true, or neither.
AskActive(c) ==
    /\ call[c].pc \in {"found", "renamed"}
    /\ \/ call' = [call EXCEPT ![c].pc = "on", ![c].seen = FALSE]
       \/ \E pc \in {"off", "switched"} :
             call' = [call EXCEPT ![c].pc = pc, ![c].seen = FALSE, ![c].over = None]
    /\ Stays

\* Variant: children only.
ReadBelow_Children(c, pc) ==
    /\ Terminates(call[c].unit)
    /\ LET u == call[c].unit
       IN  call' = [call EXCEPT ![c].pc = pc, ![c].below = {v \in live : v = u \/ parent[v] = u}]
    /\ Stays

ReadBelow(c, pc) ==
    /\ Terminates(call[c].unit)
    /\ call' = [call EXCEPT ![c].pc = pc, ![c].below = Descend({call[c].unit})]
    /\ Stays

ReadToDeactivate(c) == call[c].pc = "off" /\ ReadBelow(c, "switch off")

SwitchOff(c) ==
    /\ call[c].pc = "switch off"
    /\ call' = [call EXCEPT ![c].pc = "switched", ![c].below = {}]
    /\ SetActive(call[c].below, FALSE)
    /\ UNCHANGED <<born, live, parent, unitOf, overlapped>>

\* Activation is refused under an inactive parent: the parent that was read.
CheckParent(c) ==
    /\ call[c].pc = "on"
    /\ LET p == call[c].over
       IN  IF p = None \/ (p \in live /\ active[p])
           THEN call' = [call EXCEPT ![c].pc = "switch on", ![c].over = None]
           ELSE GoTo(c, "idle")
    /\ Stays

SwitchOn(c) ==
    /\ call[c].pc = "switch on"
    /\ GoTo(c, "switched")
    /\ SetActive({call[c].unit}, TRUE)
    /\ UNCHANGED <<born, live, parent, unitOf, overlapped>>

\* The body has no parent_id.
LeaveParent(c) ==
    /\ call[c].pc = "switched"
    /\ GoTo(c, "idle")
    /\ Stays

\* Variant: a row that is gone comes back.
SetParent_Upsert(u, p) == parent' = [parent EXCEPT ![u] = p]

SetParent(u, p) == parent' = IF u \in live THEN [parent EXCEPT ![u] = p] ELSE parent

\* parent_id is null.
Promote(c) ==
    /\ c \in Movers
    /\ call[c].pc = "switched"
    /\ GoTo(c, "idle")
    /\ SetParent(call[c].unit, None)
    /\ UNCHANGED <<born, live, active, unitOf, overlapped>>

\* validateParent: the parent exists and is not below the unit.
\* Variant: only the unit itself is refused.
Movable_NotItself(u, p, below) == p # u

Movable(u, p, below) == p \notin below

ValidateParent(c) ==
    /\ c \in Movers
    /\ call[c].pc = "switched"
    /\ \E p \in Known :
          IF p \in live
          THEN LET u == call[c].unit
               IN  /\ Terminates(u)
                   /\ IF Movable(u, p, Descend({u}))
                      THEN call' = [call EXCEPT ![c].pc = "parent", ![c].to = p]
                      ELSE GoTo(c, "idle")
          ELSE GoTo(c, "idle")
    /\ Stays

ReadParent(c) ==
    /\ call[c].pc = "parent"
    /\ LET p == call[c].to
       IN  GoTo(c, IF p \notin live THEN "idle"
                   ELSE IF active[p] THEN "reparent" ELSE "cascade")
    /\ Stays

\* UpdateParent; the foreign key refuses a parent that is gone.
Reparent(c) ==
    /\ call[c].pc = "reparent"
    /\ GoTo(c, "idle")
    /\ IF call[c].to \in live THEN SetParent(call[c].unit, call[c].to)
                              ELSE UNCHANGED parent
    /\ UNCHANGED <<born, live, active, unitOf, overlapped>>

\* cascadeOff with reparentTo: the subtree is read again, ...
ReadToCascade(c) == call[c].pc = "cascade" /\ ReadBelow(c, "move off")

\* ... and one UPDATE moves the unit and switches the subtree off.
Cascade(c) ==
    /\ call[c].pc = "move off"
    /\ GoTo(c, "idle")
    /\ IF call[c].to \in live
       THEN /\ SetActive(call[c].below, FALSE)
            /\ IF call[c].unit \in call[c].below
               THEN SetParent(call[c].unit, call[c].to) ELSE UNCHANGED parent
       ELSE UNCHANGED <<active, parent>>
    /\ UNCHANGED <<born, live, unitOf, overlapped>>

-----------------------------------------------------------------------------
(* Destroy, and the users *)

\* CountByUnitIds and CountByParentIds.
InUse(u) == \/ \E x \in Users : unitOf[x] = u
            \/ \E v \in live : parent[v] = u

Count(c) ==
    /\ call[c].pc = "count"
    /\ GoTo(c, IF InUse(call[c].unit) THEN "idle" ELSE "delete")
    /\ Stays

\* Variant: without the foreign keys.
Deletable_Counted(u) == TRUE

\* Foreign keys of user_units.parent_id and users.unit_id.
Deletable(u) == ~InUse(u)

Delete(c) ==
    /\ call[c].pc = "delete"
    /\ GoTo(c, "idle")
    /\ LET u == call[c].unit
       IN  IF u \in live /\ Deletable(u)
           THEN /\ live' = live \ {u}
                /\ parent' = [parent EXCEPT ![u] = None]
                /\ active' = [active EXCEPT ![u] = FALSE]
           ELSE UNCHANGED <<live, parent, active>>
    /\ UNCHANGED <<born, unitOf, overlapped>>

\* validateUnitsActive: a unit that is not found is left to the foreign key.
Assignable(u) == u \in live => active[u]

CheckUnit(c) ==
    /\ call[c].pc = "check"
    /\ GoTo(c, IF Assignable(call[c].unit) THEN "assign" ELSE "idle")
    /\ Stays

Assign(c) ==
    /\ call[c].pc = "assign"
    /\ GoTo(c, "idle")
    /\ unitOf' = IF call[c].unit \in live
                 THEN [unitOf EXCEPT ![call[c].user] = call[c].unit] ELSE unitOf
    /\ UNCHANGED <<treeVars, overlapped>>

Filter(c) ==
    /\ call[c].pc = "filter"
    /\ Terminates(call[c].unit)
    /\ GoTo(c, "idle")
    /\ Stays

-----------------------------------------------------------------------------
Step(c) ==
    \/ CheckNewParent(c) \/ Insert(c)
    \/ Find(c) \/ Rename(c) \/ AskActive(c)
    \/ ReadToDeactivate(c) \/ SwitchOff(c) \/ CheckParent(c) \/ SwitchOn(c)
    \/ LeaveParent(c) \/ Promote(c) \/ ValidateParent(c) \/ ReadParent(c)
    \/ Reparent(c) \/ ReadToCascade(c) \/ Cascade(c)
    \/ Count(c) \/ Delete(c)
    \/ CheckUnit(c) \/ Assign(c)
    \/ Filter(c)

Start(c) == \/ StartStore(c) \/ StartUpdate(c)
            \/ StartDestroy(c) \/ StartAssign(c) \/ StartFilter(c)

Next == \E c \in Calls : Start(c) \/ Step(c)

Spec == Init /\ [][Next]_vars

-----------------------------------------------------------------------------
(* Properties *)

\* The rows and the calls are well typed; where there is no row, there are no
\* columns: an UPDATE whose row was deleted meanwhile changes nothing.
TypeOK ==
    /\ born \in 0 .. MaxUnits
    /\ live \subseteq Known
    /\ parent \in [Units -> Parents]
    /\ active \in [Units -> BOOLEAN]
    /\ \A u \in Units \ live : parent[u] = None /\ ~active[u]
    /\ unitOf \in [Users -> Parents]
    /\ call \in [Calls -> Call]
    /\ overlapped \in BOOLEAN

\* Destroy counts references before it deletes, and others may add one in
\* between: still no row ever points to a unit that is gone.
ReferencesExist ==
    /\ \A u \in live : parent[u] \in live \cup {None}
    /\ \A x \in Users : unitOf[x] \in live \cup {None}

\* What FindWithDescendants assumes: with one call at a time that sets parents,
\* whatever is stored, switched or destroyed meanwhile, every set of units has
\* one whose parent is outside of it.
Acyclic == \A S \in SUBSET live : S # {} => \E u \in S : parent[u] \notin S

\* Rules 1 to 5 of the service: as long as no two calls that write flags have
\* overlapped, no active unit is found below an inactive one, whatever sequence
\* of calls came before and wherever they were refused.
InactiveCovers ==
    overlapped \/ \A u \in live : parent[u] \in live /\ active[u] => active[parent[u]]

\* A search returns whole branches: no unit without its parent.
SearchIsWhole ==
    \A m \in live : LET found == Search({m})
                    IN \A u \in found : parent[u] \in found \cup {None}

=============================================================================
