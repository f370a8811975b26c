-------------------------- MODULE UserUnitsProofs --------------------------
(***************************************************************************)
(* Theorems about UserUnits, for every number of units, users and calls:   *)
(* what a row refers to exists, searches are whole, the tree has no cycles *)
(* as long as one call at a time sets parents, and no active unit lies     *)
(* below an inactive one as long as the calls that write flags take turns. *)
(***************************************************************************)
EXTENDS UserUnits, WellFoundedInduction, TLAPS

USE UnitsAssumption DEF Units, Parents, None

(* Sets of natural numbers have a least element. *)
LEMMA Least ==
    ASSUME NEW S \in SUBSET Nat, S # {}
    PROVE  \E n \in S : \A m \in S : n <= m
<1> DEFINE R == {ss \in Nat \X Nat : ss[1] < ss[2]}
<1>1. IsWellFoundedOn(R, Nat)
  BY NatLessThanWellFounded DEF OpToRel
<1>2. \A x, y \in Nat : <<y, x>> \in R <=> y < x
  OBVIOUS
<1> HIDE DEF R
<1>3. \E x \in S : \A y \in S : ~(<<y, x>> \in R)
  BY WFMin, <1>1
<1>4. PICK n \in S : \A m \in S : ~(<<m, n>> \in R)
  BY <1>3
<1>5. \A m \in S : ~(m < n)
  BY <1>2, <1>4
<1>6. \A m \in S : n <= m
  BY <1>5
<1> QED BY <1>6

LEMMA Characteristic ==
    ASSUME NEW S, NEW T
    PROVE  [u \in S |-> u \in T] \in [S -> BOOLEAN]
OBVIOUS

(* Whatever a call does, it ends up idle or in another step. *)
LEMMA NoCallType == NoCall \in Call
BY UsersAssumption DEF NoCall, Call, StoreSteps, UpdateSteps, OtherSteps

(* What the bounds of the identifiers come to. *)
LEMMA BornType ==
    ASSUME born \in 0 .. MaxUnits, live \subseteq Known
    PROVE  born \in Nat /\ live \subseteq 1 .. born /\ live \subseteq Units
           /\ Known = 1 .. born /\ Known \subseteq Units
BY DEF Known

Steps == {"idle"} \cup StoreSteps \cup UpdateSteps \cup OtherSteps

LEMMA GoToType ==
    ASSUME TypeOK, NEW c \in Calls, NEW pc \in Steps, GoTo(c, pc)
    PROVE  call' \in [Calls -> Call]
<1>1. [call[c] EXCEPT !.pc = pc] \in Call
  BY DEF TypeOK, Call, Steps
<1> QED BY <1>1, NoCallType DEF TypeOK, GoTo

LEMMA BeginType ==
    ASSUME TypeOK, NEW c \in Calls, NEW k \in Call, Begin(c, k)
    PROVE  /\ call' \in [Calls -> Call] /\ overlapped' \in BOOLEAN
           /\ UNCHANGED <<treeVars, unitOf>>
BY DEF TypeOK, Begin
-----------------------------------------------------------------------------
(* The tree. *)

LEMMA DescendIsClosed ==
    ASSUME NEW S
    PROVE  /\ Descend(S) \subseteq live
           /\ S \cap live \subseteq Descend(S)
           /\ ClosedDown(Descend(S))
BY DEF Descend, ClosedDown

LEMMA ClimbIsClosed ==
    ASSUME NEW S
    PROVE  /\ Climb(S) \subseteq live
           /\ S \cap live \subseteq Climb(S)
           /\ ClosedUp(Climb(S))
BY DEF Climb, ClosedUp

LEMMA DescendIsLeast ==
    ASSUME NEW S, NEW T \in SUBSET live, S \cap live \subseteq T, ClosedDown(T)
    PROVE  Descend(S) \subseteq T
BY DEF Descend

(* Who is below a unit, and is not the unit, has its parent there, too. *)
LEMMA DescendHasParents ==
    ASSUME NEW m, NEW u \in Descend({m}), u # m
    PROVE  parent[u] \in Descend({m})
<1> DEFINE D == Descend({m})
<1>1. SUFFICES ASSUME parent[u] \notin D PROVE FALSE
  OBVIOUS
<1>2. /\ D \subseteq live /\ {m} \cap live \subseteq D /\ ClosedDown(D)
  BY DescendIsClosed
<1> HIDE DEF D
<1>3. ClosedDown(D \ {u})
  BY <1>1, <1>2 DEF ClosedDown
<1>4. D \ {u} \in SUBSET live /\ {m} \cap live \subseteq D \ {u}
  BY <1>2
<1>5. D \subseteq D \ {u}
  BY <1>3, <1>4, DescendIsLeast DEF D
<1> QED BY <1>5 DEF D

-----------------------------------------------------------------------------
(* Types, references and searches need no other invariant than themselves. *)

UInv == TypeOK /\ ReferencesExist

LEMMA InitU == Init => UInv
<1> SUFFICES ASSUME Init PROVE UInv
  OBVIOUS
<1>1. PICK p \in SeededTrees(born) :
          /\ parent = [u \in Units |-> IF u \in live THEN p[u] ELSE None]
          /\ unitOf \in SeededUsers(p)
  BY DEF Init
<1>2. born \in 0 .. MaxUnits /\ live = 1 .. born /\ live \subseteq Units
  BY DEF Init
<1>3. p \in [1 .. born -> 0 .. born]
  BY DEF SeededTrees
<1>4. \A u \in live : p[u] \in live \cup {None}
  BY <1>2, <1>3
<1>5. parent \in [Units -> Parents] /\ \A u \in live : parent[u] \in live \cup {None}
  BY <1>1, <1>2, <1>4
<1>6. unitOf \in [Users -> {None} \cup live]
  BY <1>1, <1>2, <1>3 DEF SeededUsers
<1>7. call \in [Calls -> Call]
  BY NoCallType DEF Init
<1>8. active \in [Units -> BOOLEAN] /\ overlapped \in BOOLEAN
  <2>1. active = [u \in Units |-> u \in live] /\ overlapped = FALSE
    BY DEF Init
  <2>2. [u \in Units |-> u \in live] \in [Units -> BOOLEAN]
    BY Characteristic
  <2> QED BY <2>1, <2>2
<1>11. \A u \in Units \ live : parent[u] = None /\ ~active[u]
  <2>1. active = [u \in Units |-> u \in live]
    BY DEF Init
  <2> QED BY <1>1, <2>1
<1>9. unitOf \in [Users -> Parents]
  BY <1>2, <1>6
<1>10. TypeOK
  BY <1>2, <1>5, <1>7, <1>8, <1>9, <1>11 DEF TypeOK, Known
<1> QED BY <1>5, <1>6, <1>10 DEF UInv, ReferencesExist

(* A call that only moves on. *)
LEMMA CallOnly ==
    ASSUME UInv, call' \in [Calls -> Call], overlapped' \in BOOLEAN,
           UNCHANGED <<treeVars, unitOf>>
    PROVE  UInv'
BY DEF UInv, TypeOK, ReferencesExist, Known, treeVars

(* A statement that writes flags, of rows that exist. *)
LEMMA FlagsOnly ==
    ASSUME UInv, call' \in [Calls -> Call], NEW S, NEW b \in BOOLEAN, SetActive(S, b),
           UNCHANGED <<born, live, parent, unitOf, overlapped>>
    PROVE  UInv'
<1>1. active' \in [Units -> BOOLEAN] /\ \A u \in Units \ live : active'[u] = active[u]
  BY DEF UInv, TypeOK, SetActive
<1> QED BY <1>1 DEF UInv, TypeOK, ReferencesExist, Known

(* A statement that writes the parent of a row that exists. *)
LEMMA ParentOnly ==
    ASSUME UInv, NEW u, NEW p \in live \cup {None}, SetParent(u, p)
    PROVE  /\ parent' \in [Units -> Parents]
           /\ \A v \in Units \ live : parent'[v] = parent[v]
           /\ \A v \in live : parent'[v] \in live \cup {None}
<1>1. live \subseteq Units
  BY DEF UInv, TypeOK, Known
<1> QED BY <1>1 DEF UInv, TypeOK, ReferencesExist, SetParent

LEMMA StartU ==
    ASSUME UInv, NEW c \in Calls, Start(c)
    PROVE  UInv'
<1>1. ASSUME NEW k \in Call, Begin(c, k) PROVE UInv'
  BY <1>1, BeginType, CallOnly DEF UInv
<1>2. live \subseteq Units
  BY DEF UInv, TypeOK, Known
<1>3. \A pc \in Steps, u \in Parents :
          /\ [NoCall EXCEPT !.pc = pc, !.unit = u] \in Call
          /\ [NoCall EXCEPT !.pc = pc, !.to = u] \in Call
          /\ \A x \in Users : [NoCall EXCEPT !.pc = pc, !.unit = u, !.user = x] \in Call
  BY NoCallType DEF Call, Steps
<1>4. {"new", "find", "count", "check", "filter"} \subseteq Steps
  BY DEF Steps, StoreSteps, UpdateSteps, OtherSteps
<1>5. CASE StartStore(c)
  BY <1>1, <1>2, <1>3, <1>4, <1>5 DEF StartStore
<1>6. CASE StartUpdate(c)
  BY <1>1, <1>2, <1>3, <1>4, <1>6 DEF StartUpdate
<1>7. CASE StartDestroy(c)
  BY <1>1, <1>2, <1>3, <1>4, <1>7 DEF StartDestroy
<1>8. CASE StartAssign(c)
  BY <1>1, <1>2, <1>3, <1>4, <1>8 DEF StartAssign
<1>9. CASE StartFilter(c)
  BY <1>1, <1>2, <1>3, <1>4, <1>9 DEF StartFilter
<1> QED BY <1>5, <1>6, <1>7, <1>8, <1>9 DEF Start

LEMMA StepU ==
    ASSUME UInv, NEW c \in Calls, Step(c)
    PROVE  UInv'
<1>0. /\ TypeOK /\ live \subseteq Units /\ call[c] \in Call
      /\ Steps = {"idle", "new", "insert", "find", "found", "renamed", "off", "switch off",
                  "on", "switch on", "switched", "parent", "reparent", "cascade",
                  "move off", "count", "delete", "check", "assign", "filter"}
  BY DEF UInv, TypeOK, Known, Steps, StoreSteps, UpdateSteps, OtherSteps
<1>1. ASSUME NEW pc \in Steps, GoTo(c, pc) PROVE call' \in [Calls -> Call]
  BY <1>0, <1>1, GoToType
<1>2. CASE CheckNewParent(c)
  <2>1. Inherited(call[c].to) \in BOOLEAN
    BY <1>0 DEF Inherited, TypeOK, Call
  <2>2. [call[c] EXCEPT !.pc = "insert", !.seen = Inherited(call[c].to)] \in Call
    BY <1>0, <2>1 DEF Call, StoreSteps
  <2>3. call' \in [Calls -> Call]
    BY <1>0, <1>1, <1>2, <2>2 DEF CheckNewParent, TypeOK
  <2> QED BY <1>0, <1>2, <2>3, CallOnly DEF CheckNewParent, Stays, TypeOK
<1>3. CASE Insert(c)
  <2>1. call' \in [Calls -> Call]
    BY <1>0, <1>1, <1>3 DEF Insert
  <2>2. CASE UNCHANGED treeVars
    BY <1>0, <1>3, <2>1, <2>2, CallOnly DEF Insert, TypeOK
  <2>3. CASE /\ call[c].to \in live \cup {None} /\ born < MaxUnits /\ born' = born + 1
             /\ live' = live \cup {born'}
             /\ parent' = [parent EXCEPT ![born'] = call[c].to]
             /\ active' = [active EXCEPT ![born'] = call[c].seen]
    <3>0. born \in Nat /\ live \subseteq 1 .. born
      BY <1>0, BornType DEF TypeOK
    <3>1. born' \in Units /\ born' \notin live /\ born' \in 0 .. MaxUnits
      BY <2>3, <3>0
    <3>2. live' \subseteq 1 .. born'
      BY <2>3, <3>0
    <3>3. call[c].to \in Parents /\ call[c].seen \in BOOLEAN
      BY <1>0 DEF Call
    <3>4. parent' \in [Units -> Parents] /\ active' \in [Units -> BOOLEAN]
      BY <1>0, <2>3, <3>1, <3>3 DEF TypeOK
    <3>5. \A u \in Units \ live' : parent'[u] = None /\ ~active'[u]
      BY <1>0, <2>3, <3>1 DEF TypeOK
    <3>6. TypeOK'
      BY <1>0, <1>3, <2>1, <3>1, <3>2, <3>4, <3>5 DEF Insert, TypeOK, Known
    <3>7. ReferencesExist'
      BY <1>0, <1>3, <2>3, <3>1 DEF UInv, ReferencesExist, Insert, TypeOK
    <3> QED BY <3>6, <3>7 DEF UInv
  <2> QED BY <1>3, <2>2, <2>3 DEF Insert
<1>4. CASE Find(c)
  <2>1. call[c].unit \in live =>
          [call[c] EXCEPT !.pc = "found", !.seen = active[call[c].unit],
                          !.over = parent[call[c].unit]] \in Call
    BY <1>0 DEF TypeOK, Call, UpdateSteps
  <2>2. call' \in [Calls -> Call]
    BY <1>0, <1>1, <1>4, <2>1 DEF Find, TypeOK
  <2> QED BY <1>0, <1>4, <2>2, CallOnly DEF Find, Stays, TypeOK
<1>5. CASE Rename(c)
  <2>1. [call[c] EXCEPT !.pc = "renamed", !.seen = FALSE] \in Call /\ call[c].seen \in BOOLEAN
    BY <1>0 DEF Call, UpdateSteps
  <2>2. call' \in [Calls -> Call]
    BY <1>0, <1>5, <2>1 DEF Rename, TypeOK
  <2> QED BY <1>5, <2>1, <2>2, FlagsOnly DEF Rename
<1>6. CASE AskActive(c)
  <2>1. /\ [call[c] EXCEPT !.pc = "on", !.seen = FALSE] \in Call
        /\ \A pc \in {"off", "switched"} :
              [call[c] EXCEPT !.pc = pc, !.seen = FALSE, !.over = None] \in Call
    BY <1>0, ZenonT(60) DEF Call, UpdateSteps
  <2>2. call' \in [Calls -> Call]
    BY <1>0, <1>6, <2>1 DEF AskActive, TypeOK
  <2> QED BY <1>0, <1>6, <2>2, CallOnly DEF AskActive, Stays, TypeOK
<1>7. ASSUME NEW pc \in {"switch off", "move off"}, ReadBelow(c, pc) PROVE UInv'
  <2>1. Descend({call[c].unit}) \subseteq Units
    BY <1>0, DescendIsClosed
  <2>2. [call[c] EXCEPT !.pc = pc, !.below = Descend({call[c].unit})] \in Call
    BY <1>0, <2>1 DEF Call, UpdateSteps
  <2>3. call' \in [Calls -> Call]
    BY <1>0, <1>7, <2>2 DEF ReadBelow, TypeOK
  <2> QED BY <1>0, <1>7, <2>3, CallOnly DEF ReadBelow, Stays, TypeOK
<1>8. CASE SwitchOff(c)
  <2>1. [call[c] EXCEPT !.pc = "switched", !.below = {}] \in Call
    BY <1>0 DEF Call, UpdateSteps
  <2>2. call' \in [Calls -> Call]
    BY <1>0, <1>8, <2>1 DEF SwitchOff, TypeOK
  <2> QED BY <1>8, <2>2, FlagsOnly DEF SwitchOff
<1>9. CASE CheckParent(c)
  <2>1. [call[c] EXCEPT !.pc = "switch on", !.over = None] \in Call
    BY <1>0 DEF Call, UpdateSteps
  <2>2. call' \in [Calls -> Call]
    BY <1>0, <1>1, <1>9, <2>1 DEF CheckParent, TypeOK
  <2> QED BY <1>0, <1>9, <2>2, CallOnly DEF CheckParent, Stays, TypeOK
<1>10. CASE SwitchOn(c)
  <2>1. call' \in [Calls -> Call]
    BY <1>0, <1>1, <1>10 DEF SwitchOn
  <2> QED BY <1>10, <2>1, FlagsOnly DEF SwitchOn
<1>11. ASSUME NEW pc \in Steps, GoTo(c, pc), Stays PROVE UInv'
  BY <1>0, <1>1, <1>11, CallOnly DEF Stays, TypeOK
<1>12. CASE Promote(c)
  <2>1. call' \in [Calls -> Call]
    BY <1>0, <1>1, <1>12 DEF Promote
  <2>2. SetParent(call[c].unit, None)
    BY <1>12 DEF Promote
  <2>3. /\ parent' \in [Units -> Parents]
        /\ \A v \in Units \ live : parent'[v] = parent[v]
        /\ \A v \in live : parent'[v] \in live \cup {None}
    BY <2>2, ParentOnly
  <2> QED BY <1>0, <1>12, <2>1, <2>3 DEF Promote, UInv, TypeOK, ReferencesExist, Known
<1>13. CASE ValidateParent(c)
  <2>0. Known \subseteq Parents
    BY <1>0, BornType DEF TypeOK
  <2>1. \A p \in Parents : [call[c] EXCEPT !.pc = "parent", !.to = p] \in Call
    BY <1>0 DEF Call, UpdateSteps
  <2>2. call' \in [Calls -> Call]
    <3>1. ASSUME NEW p \in Known, call' = [call EXCEPT ![c].pc = "parent", ![c].to = p]
          PROVE  call' \in [Calls -> Call]
      BY <1>0, <2>0, <2>1, <3>1 DEF TypeOK
    <3>2. CASE GoTo(c, "idle")
      BY <1>0, <1>1, <3>2
    <3> QED BY <1>13, <3>1, <3>2 DEF ValidateParent
  <2> QED BY <1>0, <1>13, <2>2, CallOnly DEF ValidateParent, Stays, TypeOK
<1>14. CASE Reparent(c)
  <2>1. call' \in [Calls -> Call]
    BY <1>0, <1>1, <1>14 DEF Reparent
  <2>2. /\ parent' \in [Units -> Parents]
        /\ \A v \in Units \ live : parent'[v] = parent[v]
        /\ \A v \in live : parent'[v] \in live \cup {None}
    <3>1. CASE call[c].to \in live
      BY <1>14, <3>1, ParentOnly DEF Reparent
    <3>2. CASE call[c].to \notin live
      BY <1>0, <1>14, <3>2 DEF Reparent, UInv, TypeOK, ReferencesExist
    <3> QED BY <3>1, <3>2
  <2> QED BY <1>0, <1>14, <2>1, <2>2 DEF Reparent, UInv, TypeOK, ReferencesExist, Known
<1>15. CASE Cascade(c)
  <2>1. call' \in [Calls -> Call]
    BY <1>0, <1>1, <1>15 DEF Cascade
  <2>2. /\ parent' \in [Units -> Parents]
        /\ \A v \in Units \ live : parent'[v] = parent[v]
        /\ \A v \in live : parent'[v] \in live \cup {None}
    <3>1. CASE call[c].to \in live /\ call[c].unit \in call[c].below
      BY <1>15, <3>1, ParentOnly DEF Cascade
    <3>2. CASE ~(call[c].to \in live /\ call[c].unit \in call[c].below)
      BY <1>0, <1>15, <3>2 DEF Cascade, UInv, TypeOK, ReferencesExist
    <3> QED BY <3>1, <3>2
  <2>3. active' \in [Units -> BOOLEAN] /\ \A u \in Units \ live : active'[u] = active[u]
    BY <1>0, <1>15 DEF Cascade, SetActive, TypeOK
  <2> QED BY <1>0, <1>15, <2>1, <2>2, <2>3 DEF Cascade, UInv, TypeOK, ReferencesExist, Known
<1>16. CASE Delete(c)
  <2>1. call' \in [Calls -> Call]
    BY <1>0, <1>1, <1>16 DEF Delete
  <2>2. CASE UNCHANGED <<live, parent, active>>
    BY <1>0, <1>16, <2>1, <2>2, CallOnly DEF Delete, treeVars, TypeOK
  <2>3. CASE /\ call[c].unit \in live /\ Deletable(call[c].unit)
             /\ live' = live \ {call[c].unit}
             /\ parent' = [parent EXCEPT ![call[c].unit] = None]
             /\ active' = [active EXCEPT ![call[c].unit] = FALSE]
    <3>1. parent' \in [Units -> Parents] /\ active' \in [Units -> BOOLEAN]
      BY <1>0, <2>3 DEF TypeOK
    <3>2. \A u \in Units \ live' : parent'[u] = None /\ ~active'[u]
      BY <1>0, <2>3 DEF TypeOK
    <3>3. TypeOK'
      BY <1>0, <1>16, <2>1, <2>3, <3>1, <3>2 DEF Delete, TypeOK, Known
    <3>4. ReferencesExist'
      BY <1>0, <1>16, <2>3 DEF Delete, UInv, ReferencesExist, Deletable, InUse, TypeOK
    <3> QED BY <3>3, <3>4 DEF UInv
  <2> QED BY <1>16, <2>2, <2>3 DEF Delete
<1>17. CASE Assign(c)
  <2>1. call' \in [Calls -> Call]
    BY <1>0, <1>1, <1>17 DEF Assign
  <2>2. unitOf' \in [Users -> Parents] /\ \A x \in Users : unitOf'[x] \in live \cup {None}
    BY <1>0, <1>17 DEF Assign, UInv, TypeOK, ReferencesExist, Call
  <2> QED BY <1>0, <1>17, <2>1, <2>2 DEF Assign, UInv, TypeOK, ReferencesExist, Known, treeVars
<1>18. CASE LeaveParent(c) \/ ReadParent(c) \/ Count(c) \/ CheckUnit(c) \/ Filter(c)
  <2>1. \E pc \in Steps : GoTo(c, pc) /\ Stays
    BY <1>0, <1>18 DEF LeaveParent, ReadParent, Count, CheckUnit, Filter
  <2> QED BY <1>11, <2>1
<1> QED BY <1>2, <1>3, <1>4, <1>5, <1>6, <1>7, <1>8, <1>9, <1>10, <1>12, <1>13, <1>14,
           <1>15, <1>16, <1>17, <1>18 DEF Step, ReadToDeactivate, ReadToCascade

LEMMA NextU == UInv /\ [Next]_vars => UInv'
<1> SUFFICES ASSUME UInv, [Next]_vars PROVE UInv'
  OBVIOUS
<1>1. CASE UNCHANGED vars
  BY <1>1, CallOnly DEF vars, UInv, TypeOK
<1>2. CASE Next
  BY <1>2, StartU, StepU DEF Next
<1> QED BY <1>1, <1>2

LEMMA UInvariant == Spec => []UInv
BY InitU, NextU, PTL DEF Spec

(* Types, and a unit that is not stored has neither parent nor flag. *)
THEOREM TypeCorrect == Spec => []TypeOK
<1>1. UInv => TypeOK
  BY DEF UInv
<1> QED BY <1>1, UInvariant, PTL

(* The foreign keys are what keeps Destroy, which counts first and deletes   *)
(* later, from leaving a row or a user behind that points to nothing.        *)
THEOREM NothingDangles == Spec => []ReferencesExist
<1>1. UInv => ReferencesExist
  BY DEF UInv
<1> QED BY <1>1, UInvariant, PTL

(* The result of a search is closed under parents, in every tree and even in *)
(* a graph that is no tree.                                                  *)
THEOREM SearchesAreWhole == Spec => []SearchIsWhole
<1>1. ASSUME UInv, NEW m \in live, NEW u \in Search({m})
      PROVE  parent[u] \in Search({m}) \cup {None}
  <2>1. /\ Climb({m}) \subseteq live /\ m \in Climb({m}) /\ ClosedUp(Climb({m}))
        /\ Descend({m}) \subseteq live
    BY ClimbIsClosed, DescendIsClosed
  <2>2. parent[u] \in live \cup {None}
    BY <1>1, <2>1 DEF Search, UInv, ReferencesExist
  <2>3. CASE u \in Climb({m})
    BY <2>1, <2>2, <2>3 DEF ClosedUp, Search
  <2>4. CASE u \in Descend({m}) /\ u # m
    BY <2>4, DescendHasParents DEF Search
  <2> QED BY <1>1, <2>1, <2>3, <2>4 DEF Search
<1>2. UInv => SearchIsWhole
  BY <1>1 DEF SearchIsWhole
<1> QED BY <1>2, UInvariant, PTL

-----------------------------------------------------------------------------
(* Acyclicity.  Between the check of a new parent and the statement that     *)
(* sets it, units are stored and destroyed: what must survive is a set of    *)
(* units, closed downwards, that holds the unit and not its new parent.      *)

Moving(k) == k.pc \in {"parent", "reparent", "cascade", "move off"}

Apart(u, p) ==
    u \in live /\ p \in live =>
        \E T \in SUBSET live : u \in T /\ p \notin T /\ ClosedDown(T)

SafeMove(c) == LET k == call[c]
               IN  /\ k.unit \in Known \cup {None}
                   /\ Moving(k) => c \in Movers /\ k.to \in Known /\ Apart(k.unit, k.to)

MovesAreSafe == \A c \in Calls : SafeMove(c)

TreeInv == UInv /\ Acyclic /\ MovesAreSafe

OneMover == \A c, d \in Movers : c = d

LEMMA SeededAcyclic ==
    ASSUME Init
    PROVE  Acyclic
<1>1. PICK p \in SeededTrees(born) :
          parent = [u \in Units |-> IF u \in live THEN p[u] ELSE None]
  BY DEF Init
<1>2. born \in 0 .. MaxUnits /\ live = 1 .. born
  BY DEF Init
<1>3. \A u \in 1 .. born : p[u] # None => u > 1 /\ p[u] = IF p[u - 1] = None THEN u - 1
                                                      ELSE p[u - 1]
  BY DEF SeededTrees
<1>4. p \in [1 .. born -> 0 .. born]
  BY DEF SeededTrees
<1> DEFINE Late == {u \in 1 .. born : ~(p[u] < u)}
<1>5. Late = {}
  <2> SUFFICES ASSUME Late # {} PROVE FALSE
    OBVIOUS
  <2>1. Late \in SUBSET Nat
    BY <1>2
  <2>2. PICK n \in Late : \A m \in Late : n <= m
    BY <2>1, Least
  <2>3. n \in 1 .. born /\ ~(p[n] < n) /\ p[n] # None
    BY <1>2, <2>2
  <2>4. n > 1 /\ p[n] = IF p[n - 1] = None THEN n - 1 ELSE p[n - 1]
    BY <1>3, <2>3
  <2>5. n - 1 \in 1 .. born /\ ~(n <= n - 1)
    BY <1>2, <2>3, <2>4
  <2>6. p[n - 1] < n - 1
    BY <2>2, <2>5
  <2>7. p[n - 1] \in 0 .. born
    BY <1>4, <2>5
  <2>8. p[n] < n
    BY <1>2, <2>3, <2>4, <2>5, <2>6, <2>7
  <2> QED BY <2>3, <2>8
<1>6. \A u \in 1 .. born : p[u] < u
  BY <1>5
<1> HIDE DEF Late
<1>7. ASSUME NEW S \in SUBSET live, S # {}
      PROVE  \E u \in S : parent[u] \notin S
  <2>1. S \in SUBSET Nat /\ live \subseteq Units
    BY <1>2
  <2>2. PICK n \in S : \A m \in S : n <= m
    BY <1>7, <2>1, Least
  <2>3. parent[n] = p[n] /\ n \in 1 .. born
    BY <1>1, <1>2, <2>1, <2>2
  <2>4. p[n] < n /\ p[n] \in Nat /\ n \in Nat
    BY <1>2, <1>4, <1>6, <2>3
  <2>5. ~(n <= p[n])
    BY <2>4
  <2> QED BY <2>2, <2>3, <2>5
<1> QED BY <1>7 DEF Acyclic

LEMMA InitTree == Init => TreeInv
<1>1. ASSUME Init PROVE MovesAreSafe
  BY <1>1 DEF Init, MovesAreSafe, SafeMove, Moving, NoCall
<1> QED BY <1>1, InitU, SeededAcyclic DEF TreeInv

(* A new unit is a leaf. *)
LEMMA InsertTree ==
    ASSUME UInv, Acyclic, NEW q \in live \cup {None}, NEW n \in Units, n \notin live,
           live' = live \cup {n}, parent' = [parent EXCEPT ![n] = q]
    PROVE  /\ Acyclic'
           /\ \A u, p \in Parents : Apart(u, p) /\ u # n /\ p # n => Apart(u, p)'
<1>0. /\ live \subseteq Units
      /\ parent \in [Units -> Parents]
      /\ \A u \in live : parent[u] \in live \cup {None}
      /\ n # None
  BY BornType DEF UInv, TypeOK, ReferencesExist
<1>1. \A u \in live : u # n /\ parent'[u] = parent[u] /\ parent[u] # n
  BY <1>0
<1>2. parent'[n] = q /\ q # n
  BY <1>0
<1>3. ASSUME NEW S \in SUBSET live', S # {}
      PROVE  \E u \in S : parent'[u] \notin S
  <2>1. CASE S = {n}
    BY <1>2, <2>1
  <2>2. CASE S # {n}
    <3>1. S \ {n} \in SUBSET live /\ S \ {n} # {}
      BY <1>3, <2>2
    <3>2. PICK u \in S \ {n} : parent[u] \notin S \ {n}
      BY <3>1 DEF Acyclic
    <3> QED BY <1>1, <3>1, <3>2
  <2> QED BY <2>1, <2>2
<1>4. ASSUME NEW u \in Parents, NEW p \in Parents, Apart(u, p), u # n, p # n
      PROVE  Apart(u, p)'
  <2> SUFFICES ASSUME u \in live, p \in live
               PROVE  \E T \in SUBSET live' : u \in T /\ p \notin T /\ ClosedDown(T)'
    BY <1>4 DEF Apart
  <2>1. PICK T \in SUBSET live : u \in T /\ p \notin T /\ ClosedDown(T)
    BY <1>4 DEF Apart
  <2>2. CASE q \in T
    <3>1. ClosedDown(T \cup {n})'
      BY <1>1, <2>1, <2>2 DEF ClosedDown
    <3>2. T \cup {n} \in SUBSET live' /\ u \in T \cup {n} /\ p \notin T \cup {n}
      BY <1>4, <2>1
    <3> QED BY <3>1, <3>2
  <2>3. CASE q \notin T
    <3>1. ClosedDown(T)'
      BY <1>1, <1>2, <2>1, <2>3 DEF ClosedDown
    <3> QED BY <2>1, <3>1
  <2> QED BY <2>2, <2>3
<1> QED BY <1>3, <1>4 DEF Acyclic

(* A unit that is destroyed is a leaf. *)
LEMMA DeleteTree ==
    ASSUME UInv, Acyclic, NEW d \in live, Deletable(d),
           live' = live \ {d}, parent' = [parent EXCEPT ![d] = None]
    PROVE  /\ Acyclic'
           /\ \A u, p \in Parents : Apart(u, p) => Apart(u, p)'
<1>0. live \subseteq Units /\ parent \in [Units -> Parents]
  BY BornType DEF UInv, TypeOK
<1>1. \A u \in live' : u \in live /\ u # d /\ parent'[u] = parent[u]
  BY <1>0
<1>2. ASSUME NEW S \in SUBSET live', S # {}
      PROVE  \E u \in S : parent'[u] \notin S
  <2>1. S \in SUBSET live
    OBVIOUS
  <2> QED BY <1>1, <1>2, <2>1 DEF Acyclic
<1>3. ASSUME NEW u \in Parents, NEW p \in Parents, Apart(u, p)
      PROVE  Apart(u, p)'
  <2> SUFFICES ASSUME u \in live', p \in live'
               PROVE  \E T \in SUBSET live' : u \in T /\ p \notin T /\ ClosedDown(T)'
    BY DEF Apart
  <2>1. PICK T \in SUBSET live : u \in T /\ p \notin T /\ ClosedDown(T)
    BY <1>1, <1>3 DEF Apart
  <2>2. ClosedDown(T \ {d})'
    BY <1>1, <2>1 DEF ClosedDown
  <2>3. T \ {d} \in SUBSET live' /\ u \in T \ {d} /\ p \notin T \ {d}
    BY <1>1, <2>1
  <2> QED BY <2>2, <2>3
<1> QED BY <1>2, <1>3 DEF Acyclic

(* A unit that is promoted, or moved below one that is not below it. *)
LEMMA MoveTree ==
    ASSUME UInv, Acyclic, NEW u, NEW p \in live \cup {None}, p # None => Apart(u, p),
           SetParent(u, p), UNCHANGED live
    PROVE  Acyclic'
<1>0. live \subseteq Units /\ parent \in [Units -> Parents]
  BY BornType DEF UInv, TypeOK
<1>1. SUFFICES ASSUME NEW S \in SUBSET live, S # {}, \A w \in S : parent'[w] \in S
               PROVE  FALSE
  BY DEF Acyclic
<1>2. \A w \in live : w # u => parent'[w] = parent[w]
  BY <1>0 DEF SetParent
<1>3. PICK w \in S : parent[w] \notin S
  BY <1>1 DEF Acyclic
<1>4. w = u /\ u \in live
  BY <1>1, <1>2, <1>3
<1>5. parent'[u] = p
  BY <1>0, <1>4 DEF SetParent
<1>6. p \in S /\ p \in live /\ p # None
  BY <1>0, <1>1, <1>4, <1>5
<1>7. PICK T \in SUBSET live : u \in T /\ p \notin T /\ ClosedDown(T)
  BY <1>4, <1>6 DEF Apart
<1>8. S \ T \in SUBSET live /\ S \ T # {}
  BY <1>6, <1>7
<1>9. PICK x \in S \ T : parent[x] \notin S \ T
  BY <1>8 DEF Acyclic
<1>10. parent[x] \in S
  BY <1>1, <1>2, <1>7, <1>9
<1>11. x \in T
  BY <1>7, <1>9, <1>10 DEF ClosedDown
<1> QED BY <1>9, <1>11

(* Where the rows and their parents stay, it is enough to look at the call. *)
LEMMA SameTree ==
    ASSUME TreeInv, NEW c \in Calls, UNCHANGED <<born, live, parent>>,
           \A d \in Calls \ {c} : call'[d] = call[d], SafeMove(c)'
    PROVE  Acyclic' /\ MovesAreSafe'
<1>1. \A u, p : Apart(u, p)' <=> Apart(u, p)
  BY DEF Apart, ClosedDown
<1>2. ASSUME NEW d \in Calls \ {c} PROVE SafeMove(d)'
  BY <1>1, <1>2 DEF TreeInv, MovesAreSafe, SafeMove, Known
<1> QED BY <1>2 DEF TreeInv, Acyclic, MovesAreSafe

LEMMA Elsewhere ==
    ASSUME TypeOK, NEW c \in Calls, Step(c)
    PROVE  \A d \in Calls \ {c} : call'[d] = call[d]
BY DEF TypeOK, Step, CheckNewParent, Insert, Find, Rename, AskActive, ReadToDeactivate,
       ReadBelow, SwitchOff, CheckParent, SwitchOn, LeaveParent, Promote, ValidateParent,
       ReadParent, Reparent, ReadToCascade, Cascade, Count, Delete, CheckUnit, Assign,
       Filter, GoTo

(* Once a unit may be moved, it may be moved until it is. *)
LEMMA StillSafe ==
    ASSUME TreeInv, NEW c \in Calls, UNCHANGED <<born, live, parent>>,
           \/ ~Moving(call'[c]) /\ call'[c].unit \in {None, call[c].unit}
           \/ /\ Moving(call[c])
              /\ call'[c].unit = call[c].unit
              /\ call'[c].to = call[c].to
    PROVE  SafeMove(c)'
<1>1. \A u, p : Apart(u, p)' <=> Apart(u, p)
  BY DEF Apart, ClosedDown
<1>2. SafeMove(c)
  BY DEF TreeInv, MovesAreSafe
<1> QED BY <1>1, <1>2 DEF SafeMove, Known

LEMMA IdleIsSafe ==
    ASSUME NEW c, call'[c] = NoCall
    PROVE  SafeMove(c)'
<1>1. NoCall.unit = None /\ ~Moving(NoCall)
  BY DEF NoCall, Moving
<1> QED BY <1>1 DEF SafeMove

(* The rows are not written, nor is a parent; the call does not move a unit. *)
LEMMA QuietStep ==
    ASSUME TreeInv, NEW c \in Calls,
           \/ CheckNewParent(c) \/ Find(c) \/ Rename(c) \/ AskActive(c)
           \/ ReadToDeactivate(c) \/ SwitchOff(c) \/ CheckParent(c) \/ SwitchOn(c)
           \/ LeaveParent(c) \/ ReadParent(c) \/ ReadToCascade(c) \/ Count(c)
           \/ CheckUnit(c) \/ Assign(c) \/ Filter(c)
    PROVE  \/ ~Moving(call'[c]) /\ call'[c].unit \in {None, call[c].unit}
           \/ /\ Moving(call[c])
              /\ call'[c].unit = call[c].unit
              /\ call'[c].to = call[c].to
<1>0. call \in [Calls -> Call] /\ call[c] \in Call
  BY DEF TreeInv, UInv, TypeOK
<1>1. \A pc : GoTo(c, pc) =>
          IF pc = "idle" THEN call'[c] = NoCall
          ELSE call'[c].pc = pc /\ call'[c].unit = call[c].unit /\ call'[c].to = call[c].to
  BY <1>0 DEF GoTo, Call
<1>2. ~Moving(NoCall) /\ NoCall.unit = None
  BY DEF NoCall, Moving
<1>15. CASE GoTo(c, "idle")
  BY <1>1, <1>2, <1>15
<1>16. CASE call'[c].pc \in {"insert", "found", "on", "off", "switched", "switch on"}
            /\ call'[c].unit = call[c].unit
  BY <1>16 DEF Moving
<1>3. CASE CheckNewParent(c)
  <2>1. ASSUME NEW b, call' = [call EXCEPT ![c].pc = "insert", ![c].seen = b]
        PROVE  call'[c].pc = "insert" /\ call'[c].unit = call[c].unit
    BY <1>0, <2>1 DEF Call
  <2> QED BY <1>3, <1>15, <1>16, <2>1 DEF CheckNewParent
<1>4. CASE Find(c)
  <2>1. ASSUME NEW b, NEW p,
               call' = [call EXCEPT ![c].pc = "found", ![c].seen = b, ![c].over = p]
        PROVE  call'[c].pc = "found" /\ call'[c].unit = call[c].unit
    BY <1>0, <2>1 DEF Call
  <2> QED BY <1>4, <1>15, <1>16, <2>1 DEF Find
<1>5. CASE Rename(c)
  BY <1>0, <1>5 DEF Rename, Moving, Call
<1>6. CASE AskActive(c)
  <2>1. ASSUME call' = [call EXCEPT ![c].pc = "on", ![c].seen = FALSE]
        PROVE  call'[c].pc = "on" /\ call'[c].unit = call[c].unit
    BY <1>0, <2>1 DEF Call
  <2>2. ASSUME NEW pc \in {"off", "switched"},
               call' = [call EXCEPT ![c].pc = pc, ![c].seen = FALSE, ![c].over = None]
        PROVE  call'[c].pc = pc /\ call'[c].unit = call[c].unit
    BY <1>0, <2>2 DEF Call
  <2> QED BY <1>6, <1>16, <2>1, <2>2 DEF AskActive
<1>7. CASE ReadToDeactivate(c)
  BY <1>0, <1>7 DEF ReadToDeactivate, ReadBelow, Moving, Call
<1>8. CASE SwitchOff(c)
  BY <1>0, <1>8 DEF SwitchOff, Moving, Call
<1>9. CASE CheckParent(c)
  <2>1. ASSUME call' = [call EXCEPT ![c].pc = "switch on", ![c].over = None]
        PROVE  call'[c].pc = "switch on" /\ call'[c].unit = call[c].unit
    BY <1>0, <2>1 DEF Call
  <2> QED BY <1>9, <1>15, <1>16, <2>1 DEF CheckParent
<1>10. CASE SwitchOn(c)
  <2>1. call'[c].pc = "switched" /\ call'[c].unit = call[c].unit
    <3>1. GoTo(c, "switched")
      BY <1>10 DEF SwitchOn
    <3> QED BY <1>1, <3>1
  <2> QED BY <1>16, <2>1
<1>11. CASE LeaveParent(c)
  BY <1>1, <1>2, <1>11 DEF LeaveParent
<1>12. CASE ReadParent(c)
  <2>1. \E pc \in {"idle", "reparent", "cascade"} : GoTo(c, pc) /\ call[c].pc = "parent"
    BY <1>12 DEF ReadParent
  <2> QED BY <1>1, <1>2, <2>1 DEF Moving
<1>13. CASE ReadToCascade(c)
  BY <1>0, <1>13 DEF ReadToCascade, ReadBelow, Moving, Call
<1>14. CASE Count(c) \/ CheckUnit(c) \/ Assign(c) \/ Filter(c)
  BY <1>1, <1>2, <1>14 DEF Count, CheckUnit, Assign, Filter, Moving
<1> QED BY <1>3, <1>4, <1>5, <1>6, <1>7, <1>8, <1>9, <1>10, <1>11, <1>12, <1>13, <1>14

(* The move is checked against what is below the unit now. *)
LEMMA ValidateTree ==
    ASSUME TreeInv, NEW c \in Calls, ValidateParent(c)
    PROVE  Acyclic' /\ MovesAreSafe'
<1>0. call \in [Calls -> Call] /\ call[c] \in Call /\ UNCHANGED <<born, live, parent>>
  BY DEF TreeInv, UInv, TypeOK, ValidateParent, Stays, treeVars
<1>1. \A d \in Calls \ {c} : call'[d] = call[d]
  BY Elsewhere DEF TreeInv, UInv, Step
<1>2. CASE GoTo(c, "idle")
  <2>1. call'[c] = NoCall
    BY <1>0, <1>2 DEF GoTo
  <2>2. SafeMove(c)'
    BY <2>1, IdleIsSafe
  <2> QED BY <1>0, <1>1, <2>2, SameTree
<1>3. ASSUME NEW p \in Known, Movable(call[c].unit, p, Descend({call[c].unit})),
             call' = [call EXCEPT ![c].pc = "parent", ![c].to = p]
      PROVE  Acyclic' /\ MovesAreSafe'
  <2> DEFINE u == call[c].unit
  <2>1. call'[c].unit = u /\ call'[c].to = p
    BY <1>0, <1>3 DEF Call
  <2>2. Apart(u, p)
    <3>1. /\ Descend({u}) \subseteq live /\ {u} \cap live \subseteq Descend({u})
          /\ ClosedDown(Descend({u}))
      BY DescendIsClosed
    <3> HIDE DEF u
    <3>2. p \notin Descend({u})
      BY <1>3 DEF Movable, u
    <3> QED BY <3>1, <3>2 DEF Apart
  <2>3. u \in Known \cup {None} /\ c \in Movers
    BY DEF TreeInv, MovesAreSafe, SafeMove, ValidateParent
  <2>4. \A v, q : Apart(v, q)' <=> Apart(v, q)
    BY <1>0 DEF Apart, ClosedDown
  <2>5. SafeMove(c)'
    BY <1>0, <2>1, <2>2, <2>3, <2>4 DEF SafeMove, Known
  <2> QED BY <1>0, <1>1, <2>5, SameTree
<1> QED BY <1>2, <1>3 DEF ValidateParent

(* The statements that set a parent end the call that may set parents. *)
LEMMA ParentTree ==
    ASSUME TreeInv, OneMover, NEW c \in Calls, Promote(c) \/ Reparent(c) \/ Cascade(c)
    PROVE  Acyclic' /\ MovesAreSafe'
<1>0. call \in [Calls -> Call] /\ SafeMove(c)
  BY DEF TreeInv, UInv, TypeOK, MovesAreSafe
<1>1. UNCHANGED <<born, live>> /\ call'[c] = NoCall
  BY <1>0 DEF Promote, Reparent, Cascade, GoTo
<1>2. c \in Movers
  BY <1>0 DEF Promote, Reparent, Cascade, SafeMove, Moving
<1>3. ASSUME NEW d \in Calls PROVE SafeMove(d)'
  <2>1. CASE d = c
    BY <1>1, <2>1, IdleIsSafe
  <2>2. CASE d # c
    <3>1. call'[d] = call[d]
      BY <2>2, Elsewhere DEF TreeInv, UInv, Step
    <3>2. ~Moving(call[d])
      BY <1>2, <2>2 DEF OneMover, TreeInv, MovesAreSafe, SafeMove
    <3> QED BY <1>1, <3>1, <3>2 DEF TreeInv, MovesAreSafe, SafeMove, Known
  <2> QED BY <2>1, <2>2
<1>4. Acyclic'
  <2>1. CASE UNCHANGED parent
    BY <1>1, <2>1 DEF TreeInv, Acyclic
  <2>2. CASE Promote(c)
    <3>1. SetParent(call[c].unit, None)
      BY <2>2 DEF Promote
    <3> QED BY <1>1, <3>1, MoveTree DEF TreeInv
  <2>3. CASE /\ Moving(call[c]) /\ call[c].to \in live
             /\ SetParent(call[c].unit, call[c].to)
    BY <1>0, <1>1, <2>3, MoveTree DEF SafeMove, TreeInv
  <2> QED BY <2>1, <2>2, <2>3 DEF Reparent, Cascade, Moving
<1> QED BY <1>3, <1>4 DEF MovesAreSafe

LEMMA StoreTree ==
    ASSUME TreeInv, NEW c \in Calls, Insert(c)
    PROVE  Acyclic' /\ MovesAreSafe'
<1>0. /\ call \in [Calls -> Call] /\ call'[c] = NoCall
      /\ \A d \in Calls \ {c} : call'[d] = call[d]
  BY Elsewhere DEF TreeInv, UInv, TypeOK, Insert, GoTo, Step
<1>1. CASE UNCHANGED treeVars
  <2>1. SafeMove(c)'
    BY <1>0, IdleIsSafe
  <2> QED BY <1>0, <1>1, <2>1, SameTree DEF treeVars
<1>2. CASE /\ call[c].to \in live \cup {None} /\ born < MaxUnits /\ born' = born + 1
           /\ live' = live \cup {born'}
           /\ parent' = [parent EXCEPT ![born'] = call[c].to]
  <2>1. born \in Nat /\ live \subseteq 1 .. born /\ Known = 1 .. born /\ Known \subseteq Units
    BY BornType DEF TreeInv, UInv, TypeOK
  <2>2. born' \in Units /\ born' \notin live /\ born' \notin Known \cup {None}
    BY <1>2, <2>1
  <2>3. Known \subseteq Known'
    BY <1>2, <2>1 DEF Known
  <2>4. /\ Acyclic'
        /\ \A u, p \in Parents : Apart(u, p) /\ u # born' /\ p # born' => Apart(u, p)'
    BY <1>2, <2>2, InsertTree DEF TreeInv
  <2>5. ASSUME NEW d \in Calls PROVE SafeMove(d)'
    <3>1. CASE d = c
      BY <1>0, <3>1, IdleIsSafe
    <3>2. CASE d # c
      BY <1>0, <2>1, <2>2, <2>3, <2>4, <3>2 DEF TreeInv, MovesAreSafe, SafeMove
    <3> QED BY <3>1, <3>2
  <2> QED BY <2>4, <2>5 DEF MovesAreSafe
<1> QED BY <1>1, <1>2 DEF Insert

LEMMA DestroyTree ==
    ASSUME TreeInv, NEW c \in Calls, Delete(c)
    PROVE  Acyclic' /\ MovesAreSafe'
<1>0. /\ call \in [Calls -> Call] /\ call'[c] = NoCall /\ born' = born
      /\ \A d \in Calls \ {c} : call'[d] = call[d]
  BY Elsewhere DEF TreeInv, UInv, TypeOK, Delete, GoTo, Step
<1>1. CASE UNCHANGED <<live, parent>>
  <2>1. SafeMove(c)'
    BY <1>0, IdleIsSafe
  <2> QED BY <1>0, <1>1, <2>1, SameTree
<1>2. CASE /\ call[c].unit \in live /\ Deletable(call[c].unit)
           /\ live' = live \ {call[c].unit}
           /\ parent' = [parent EXCEPT ![call[c].unit] = None]
  <2>1. Acyclic' /\ \A u, p \in Parents : Apart(u, p) => Apart(u, p)'
    BY <1>2, DeleteTree DEF TreeInv
  <2>2. Known \subseteq Units /\ Known' = Known
    BY <1>0, BornType DEF TreeInv, UInv, TypeOK, Known
  <2>3. ASSUME NEW d \in Calls PROVE SafeMove(d)'
    <3>1. CASE d = c
      BY <1>0, <3>1, IdleIsSafe
    <3>2. CASE d # c
      BY <1>0, <2>1, <2>2, <3>2 DEF TreeInv, MovesAreSafe, SafeMove
    <3> QED BY <3>1, <3>2
  <2> QED BY <2>1, <2>3 DEF MovesAreSafe
<1> QED BY <1>1, <1>2 DEF Delete

LEMMA StartTree ==
    ASSUME TreeInv, NEW c \in Calls, Start(c)
    PROVE  Acyclic' /\ MovesAreSafe'
<1>0. live \subseteq Known /\ call \in [Calls -> Call]
  BY DEF TreeInv, UInv, TypeOK
<1>1. ASSUME NEW k, Begin(c, k), ~Moving(k), k.unit \in Known \cup {None}
      PROVE  Acyclic' /\ MovesAreSafe'
  <2>1. call'[c] = k /\ \A d \in Calls \ {c} : call'[d] = call[d]
    BY <1>0, <1>1 DEF Begin
  <2>2. UNCHANGED <<born, live, parent>>
    BY <1>1 DEF Begin, treeVars
  <2>3. SafeMove(c)'
    BY <1>1, <2>1, <2>2 DEF SafeMove, Known
  <2> QED BY <2>1, <2>2, <2>3, SameTree
<1>2. CASE StartStore(c)
  BY <1>0, <1>1, <1>2 DEF StartStore, NoCall, Moving
<1>3. CASE StartUpdate(c)
  BY <1>0, <1>1, <1>3 DEF StartUpdate, NoCall, Moving
<1>4. CASE StartDestroy(c)
  BY <1>0, <1>1, <1>4 DEF StartDestroy, NoCall, Moving
<1>5. CASE StartAssign(c)
  BY <1>0, <1>1, <1>5 DEF StartAssign, NoCall, Moving
<1>6. CASE StartFilter(c)
  BY <1>0, <1>1, <1>6 DEF StartFilter, NoCall, Moving
<1> QED BY <1>2, <1>3, <1>4, <1>5, <1>6 DEF Start

LEMMA NextTree == OneMover /\ TreeInv /\ [Next]_vars => TreeInv'
<1> SUFFICES ASSUME OneMover, TreeInv, [Next]_vars PROVE TreeInv'
  OBVIOUS
<1>1. UInv'
  BY NextU DEF TreeInv
<1>2. CASE UNCHANGED vars
  <2>1. UNCHANGED <<born, live, parent, call>>
    BY <1>2 DEF vars, treeVars
  <2>2. \A u, p : Apart(u, p)' <=> Apart(u, p)
    BY <2>1 DEF Apart, ClosedDown
  <2> QED BY <1>1, <2>1, <2>2 DEF TreeInv, Acyclic, MovesAreSafe, SafeMove, Known
<1>3. ASSUME NEW c \in Calls, Step(c) PROVE Acyclic' /\ MovesAreSafe'
  <2>1. \A d \in Calls \ {c} : call'[d] = call[d]
    BY <1>3, Elsewhere DEF TreeInv, UInv
  <2>2. CASE \/ CheckNewParent(c) \/ Find(c) \/ Rename(c) \/ AskActive(c)
             \/ ReadToDeactivate(c) \/ SwitchOff(c) \/ CheckParent(c) \/ SwitchOn(c)
             \/ LeaveParent(c) \/ ReadParent(c) \/ ReadToCascade(c) \/ Count(c)
             \/ CheckUnit(c) \/ Assign(c) \/ Filter(c)
    <3>1. UNCHANGED <<born, live, parent>>
      BY <2>2 DEF CheckNewParent, Find, Rename, AskActive, ReadToDeactivate, ReadBelow,
                  SwitchOff, CheckParent, SwitchOn, LeaveParent, ReadParent,
                  ReadToCascade, Count, CheckUnit, Assign, Filter, Stays, treeVars
    <3>2. SafeMove(c)'
      BY <2>2, <3>1, QuietStep, StillSafe
    <3> QED BY <2>1, <3>1, <3>2, SameTree
  <2>3. CASE Promote(c) \/ Reparent(c) \/ Cascade(c)
    BY <2>3, ParentTree
  <2> QED BY <1>3, <2>2, <2>3, ValidateTree, StoreTree, DestroyTree DEF Step
<1>4. CASE Next
  BY <1>1, <1>3, <1>4, StartTree DEF Next, TreeInv
<1> QED BY <1>2, <1>4

LEMMA TreeInvariant == ASSUME OneMover PROVE Spec => []TreeInv
<1>1. TreeInv /\ [Next]_vars => TreeInv'
  BY NextTree
<1> QED BY InitTree, <1>1, PTL DEF Spec

(* With one call at a time that may set a parent, the units form a forest,   *)
(* whatever else is stored, switched or destroyed between its check and its  *)
(* statement.                                                                *)
THEOREM ForestWithOneMover == ASSUME OneMover PROVE Spec => []Acyclic
<1>1. TreeInv => Acyclic
  BY DEF TreeInv
<1> QED BY <1>1, TreeInvariant, PTL

-----------------------------------------------------------------------------
(* The flags.  As long as the calls that write flags take turns, what such a *)
(* call has read is still true when it writes; only Destroy may run beside   *)
(* it, and Destroy takes nothing that is a parent.                           *)

Covers == \A u \in live : parent[u] \in live /\ active[u] => active[parent[u]]

Up(u) == parent[u] \in live => active[parent[u]]

Sees(c) ==
    LET k == call[c]
    IN  /\ k.pc = "insert" => (k.to \in live /\ k.seen => active[k.to])
        /\ k.pc = "found" => (k.unit \in live => k.seen = active[k.unit])
        /\ k.pc \in {"found", "renamed", "on"} => (k.unit \in live => k.over = parent[k.unit])
        /\ k.pc = "switch on" => (k.unit \in live => Up(k.unit))
        /\ k.pc \in {"switch off", "move off"} =>
              ClosedDown(k.below) /\ (k.unit \in live => k.unit \in k.below)
        /\ k.pc = "reparent" => (k.to \in live => active[k.to])

OneWriter == \A c, d \in Calls : WritesFlags(call[c]) /\ WritesFlags(call[d]) => c = d

TurnsInv == /\ UInv
            /\ \/ overlapped
               \/ Covers /\ OneWriter /\ \A c \in Calls : Sees(c)

(* What is not a step that writes, sees nothing. *)
LEMMA NotAWriter ==
    ASSUME NEW c, ~WritesFlags(call[c])
    PROVE  Sees(c)
BY DEF Sees, WritesFlags, StoreSteps, UpdateSteps

LEMMA IdleWritesNot == ~WritesFlags(NoCall)
BY DEF NoCall, WritesFlags, StoreSteps, UpdateSteps

Writing(c) ==
    \/ CheckNewParent(c) \/ Insert(c)
    \/ Find(c) \/ Rename(c) \/ AskActive(c)
    \/ ReadToDeactivate(c) \/ SwitchOff(c) \/ CheckParent(c) \/ SwitchOn(c)
    \/ LeaveParent(c) \/ Promote(c) \/ ValidateParent(c) \/ ReadParent(c)
    \/ Reparent(c) \/ ReadToCascade(c) \/ Cascade(c)

Reading(c) == Count(c) \/ Delete(c) \/ CheckUnit(c) \/ Assign(c) \/ Filter(c)

LEMMA WritersWrite ==
    ASSUME NEW c, Writing(c)
    PROVE  WritesFlags(call[c]) /\ overlapped' = overlapped
BY DEF Writing, CheckNewParent, Insert, Find, Rename, AskActive, ReadToDeactivate, ReadBelow,
       SwitchOff, CheckParent, SwitchOn, LeaveParent, Promote, ValidateParent, ReadParent,
       Reparent, ReadToCascade, Cascade, Stays, WritesFlags, StoreSteps, UpdateSteps

(* A step of Store. *)
LEMMA StoreFlags ==
    ASSUME TurnsInv, ~overlapped, NEW c \in Calls, CheckNewParent(c) \/ Insert(c)
    PROVE  Covers' /\ Sees(c)'
<1>0. /\ call \in [Calls -> Call] /\ call[c] \in Call /\ live \subseteq Units
      /\ Covers /\ Sees(c)
  BY BornType DEF TurnsInv, UInv, TypeOK
<1>1. ASSUME GoTo(c, "idle") PROVE Sees(c)'
  <2>1. call'[c] = NoCall
    BY <1>0, <1>1 DEF GoTo
  <2> QED BY <2>1 DEF Sees, NoCall
<1>2. CASE CheckNewParent(c)
  <2>1. UNCHANGED <<live, parent, active>>
    BY <1>2 DEF CheckNewParent, Stays, treeVars
  <2>2. ASSUME call' = [call EXCEPT ![c].pc = "insert", ![c].seen = Inherited(call[c].to)]
        PROVE  Sees(c)'
    <3>1. /\ call'[c].pc = "insert" /\ call'[c].to = call[c].to
          /\ call'[c].seen = Inherited(call[c].to)
      BY <1>0, <2>2 DEF Call
    <3>2. call[c].to \in live /\ Inherited(call[c].to) => active[call[c].to]
      BY <1>0 DEF Inherited
    <3>3. call'[c].to \in live' /\ call'[c].seen => active'[call'[c].to]
      BY <2>1, <3>1, <3>2
    <3> QED BY <3>1, <3>3 DEF Sees
  <2> QED BY <1>0, <1>1, <1>2, <2>1, <2>2 DEF CheckNewParent, Covers
<1>3. CASE Insert(c)
  <2>1. Sees(c)'
    BY <1>1, <1>3 DEF Insert
  <2>2. CASE UNCHANGED treeVars
    BY <1>0, <2>1, <2>2 DEF Covers, treeVars
  <2>3. CASE /\ call[c].to \in live \cup {None} /\ born < MaxUnits /\ born' = born + 1
             /\ live' = live \cup {born'}
             /\ parent' = [parent EXCEPT ![born'] = call[c].to]
             /\ active' = [active EXCEPT ![born'] = call[c].seen]
    <3>1. born \in Nat /\ live \subseteq 1 .. born
      BY BornType DEF TurnsInv, UInv, TypeOK
    <3>2. born' \in Units /\ born' \notin live \cup {None}
      BY <2>3, <3>1
    <3>3. /\ parent \in [Units -> Parents] /\ active \in [Units -> BOOLEAN]
          /\ \A u \in live : parent[u] \in live \cup {None}
      BY DEF TurnsInv, UInv, TypeOK, ReferencesExist
    <3>4. ASSUME NEW u \in live', parent'[u] \in live', active'[u]
          PROVE  active'[parent'[u]]
      <4>1. CASE u = born'
        <5>1. parent'[u] = call[c].to /\ call[c].seen
          BY <2>3, <3>2, <3>3, <3>4, <4>1
        <5>2. call[c].to \in live
          BY <2>3, <3>2, <3>4, <5>1
        <5>3. active[call[c].to]
          BY <1>0, <1>3, <5>1, <5>2 DEF Sees, Insert
        <5> QED BY <1>0, <2>3, <3>2, <3>3, <5>1, <5>2, <5>3
      <4>2. CASE u # born'
        <5>1. u \in live /\ parent'[u] = parent[u] /\ active'[u] = active[u]
          BY <1>0, <2>3, <3>3, <4>2
        <5>2. parent[u] \in live
          BY <2>3, <3>2, <3>3, <3>4, <5>1
        <5>3. active[parent[u]]
          BY <1>0, <3>4, <5>1, <5>2 DEF Covers
        <5> QED BY <1>0, <2>3, <3>2, <3>3, <5>1, <5>2, <5>3
      <4> QED BY <4>1, <4>2
    <3> QED BY <2>1, <3>4 DEF Covers
  <2> QED BY <1>3, <2>2, <2>3 DEF Insert
<1> QED BY <1>2, <1>3

(* A step of Update that writes nothing. *)
LEMMA ReadFlags ==
    ASSUME TurnsInv, ~overlapped, NEW c \in Calls,
           \/ Find(c) \/ AskActive(c) \/ ReadToDeactivate(c) \/ CheckParent(c)
           \/ LeaveParent(c) \/ ValidateParent(c) \/ ReadParent(c) \/ ReadToCascade(c)
    PROVE  Covers' /\ Sees(c)'
<1>0. /\ call \in [Calls -> Call] /\ call[c] \in Call /\ live \subseteq Units
      /\ Covers /\ Sees(c)
      /\ parent \in [Units -> Parents]
      /\ \A u \in live : parent[u] \in live \cup {None}
  BY BornType DEF TurnsInv, UInv, TypeOK, ReferencesExist
<1>1. UNCHANGED <<live, parent, active>>
  BY DEF Find, AskActive, ReadToDeactivate, CheckParent, LeaveParent, ValidateParent,
         ReadParent, ReadToCascade, ReadBelow, Stays, treeVars
<1>2. Covers'
  BY <1>0, <1>1 DEF Covers
<1>3. \A pc \in {"idle", "off", "switched", "parent", "cascade"} :
          call'[c].pc = pc => Sees(c)'
  BY DEF Sees
<1>4. \A pc : GoTo(c, pc) => /\ pc = "idle" => call'[c] = NoCall
                             /\ pc # "idle" => /\ call'[c].pc = pc
                                               /\ call'[c].to = call[c].to
  BY <1>0 DEF GoTo, Call
<1>5. ASSUME GoTo(c, "idle") PROVE Sees(c)'
  <2>1. call'[c] = NoCall
    BY <1>4, <1>5
  <2>2. call'[c].pc = "idle"
    BY <2>1 DEF NoCall
  <2> QED BY <1>3, <2>2
<1>6. CASE Find(c)
  <2>1. ASSUME call[c].unit \in live,
               call' = [call EXCEPT ![c].pc = "found", ![c].seen = active[call[c].unit],
                                    ![c].over = parent[call[c].unit]]
        PROVE  Sees(c)'
    <3>1. /\ call'[c].pc = "found" /\ call'[c].unit = call[c].unit
          /\ call'[c].seen = active[call[c].unit] /\ call'[c].over = parent[call[c].unit]
      BY <1>0, <2>1 DEF Call
    <3> QED BY <1>1, <3>1 DEF Sees
  <2> QED BY <1>2, <1>5, <1>6, <2>1 DEF Find
<1>7. CASE AskActive(c)
  <2>1. ASSUME call' = [call EXCEPT ![c].pc = "on", ![c].seen = FALSE]
        PROVE  Sees(c)'
    <3>1. /\ call'[c].pc = "on" /\ call'[c].unit = call[c].unit
          /\ call'[c].over = call[c].over
      BY <1>0, <2>1 DEF Call
    <3>2. call[c].unit \in live => call[c].over = parent[call[c].unit]
      BY <1>0, <1>7 DEF Sees, AskActive
    <3> QED BY <1>1, <3>1, <3>2 DEF Sees
  <2>2. ASSUME NEW pc \in {"off", "switched"},
               call' = [call EXCEPT ![c].pc = pc, ![c].seen = FALSE, ![c].over = None]
        PROVE  Sees(c)'
    <3>1. call'[c].pc = pc
      BY <1>0, <2>2 DEF Call
    <3> QED BY <1>3, <3>1, ZenonT(60)
  <2> QED BY <1>2, <1>7, <2>1, <2>2 DEF AskActive
<1>8. ASSUME NEW pc \in {"switch off", "move off"}, ReadBelow(c, pc) PROVE Sees(c)'
  <2> DEFINE D == Descend({call[c].unit})
  <2>1. ClosedDown(D) /\ {call[c].unit} \cap live \subseteq D
    BY DescendIsClosed
  <2>2. call'[c].pc = pc /\ call'[c].unit = call[c].unit /\ call'[c].below = D
    BY <1>0, <1>8 DEF ReadBelow, Call
  <2> HIDE DEF D
  <2> QED BY <1>1, <2>1, <2>2 DEF Sees, ClosedDown
<1>9. CASE CheckParent(c)
  <2>1. ASSUME call[c].over = None \/ active[call[c].over],
               call' = [call EXCEPT ![c].pc = "switch on", ![c].over = None]
        PROVE  Sees(c)'
    <3>1. call'[c].pc = "switch on" /\ call'[c].unit = call[c].unit
      BY <1>0, <2>1 DEF Call
    <3>2. call[c].unit \in live => Up(call[c].unit)
      <4>1. call[c].unit \in live => call[c].over = parent[call[c].unit]
        BY <1>0, <1>9 DEF Sees, CheckParent
      <4>2. None \notin live
        BY <1>0
      <4> QED BY <2>1, <4>1, <4>2 DEF Up
    <3> QED BY <1>1, <3>1, <3>2 DEF Sees, Up
  <2> QED BY <1>2, <1>5, <1>9, <2>1 DEF CheckParent
<1>10. CASE ValidateParent(c)
  <2>1. ASSUME NEW p, call' = [call EXCEPT ![c].pc = "parent", ![c].to = p]
        PROVE  Sees(c)'
    <3>1. call'[c].pc = "parent"
      BY <1>0, <2>1 DEF Call
    <3> QED BY <1>3, <3>1, ZenonT(60)
  <2> QED BY <1>2, <1>5, <1>10, <2>1 DEF ValidateParent
<1>11. CASE ReadParent(c)
  <2>1. CASE call[c].to \notin live
    BY <1>2, <1>5, <1>11, <2>1 DEF ReadParent
  <2>2. CASE call[c].to \in live /\ active[call[c].to]
    <3>1. GoTo(c, "reparent")
      BY <1>11, <2>2 DEF ReadParent
    <3>2. call'[c].pc = "reparent" /\ call'[c].to = call[c].to
      BY <1>4, <3>1
    <3>3. Sees(c)'
      BY <1>1, <2>2, <3>2 DEF Sees
    <3> QED BY <1>2, <3>3
  <2>3. CASE call[c].to \in live /\ ~active[call[c].to]
    <3>1. GoTo(c, "cascade")
      BY <1>11, <2>3 DEF ReadParent
    <3>2. call'[c].pc = "cascade"
      BY <1>4, <3>1
    <3> QED BY <1>2, <1>3, <3>2
  <2> QED BY <2>1, <2>2, <2>3
<1>12. CASE LeaveParent(c)
  BY <1>2, <1>5, <1>12 DEF LeaveParent
<1> QED BY <1>2, <1>6, <1>7, <1>8, <1>9, <1>10, <1>11, <1>12
        DEF ReadToDeactivate, ReadToCascade

(* A statement of Update. *)
LEMMA WriteFlags ==
    ASSUME TurnsInv, ~overlapped, NEW c \in Calls,
           \/ Rename(c) \/ SwitchOff(c) \/ SwitchOn(c)
           \/ Promote(c) \/ Reparent(c) \/ Cascade(c)
    PROVE  Covers' /\ Sees(c)'
<1> DEFINE u == call[c].unit
<1>0. /\ call \in [Calls -> Call] /\ call[c] \in Call /\ live \subseteq Units
      /\ Covers /\ Sees(c)
      /\ parent \in [Units -> Parents] /\ active \in [Units -> BOOLEAN]
      /\ \A v \in live : parent[v] \in live \cup {None}
  BY BornType DEF TurnsInv, UInv, TypeOK, ReferencesExist
<1>1. ASSUME GoTo(c, "idle") PROVE Sees(c)'
  <2>1. call'[c] = NoCall
    BY <1>0, <1>1 DEF GoTo
  <2> QED BY <2>1 DEF Sees, NoCall
<1>2. ASSUME call'[c].pc = "switched" PROVE Sees(c)'
  BY <1>2 DEF Sees
<1>3. ASSUME NEW S, NEW b, SetActive(S, b)
      PROVE  \A v \in live : active'[v] = IF v \in S THEN b ELSE active[v]
  BY <1>0, <1>3 DEF SetActive
<1>4. ASSUME NEW v, NEW p, SetParent(v, p)
      PROVE  \A w \in live : parent'[w] = IF w = v THEN p ELSE parent[w]
  BY <1>0, <1>4 DEF SetParent
<1>5. CASE Rename(c)
  <2>1. call'[c].pc = "renamed" /\ call'[c].unit = u /\ call'[c].over = call[c].over
    BY <1>0, <1>5 DEF Rename, Call
  <2>2. UNCHANGED <<live, parent>>
    BY <1>5 DEF Rename
  <2>3. Sees(c)'
    BY <1>0, <1>5, <2>1, <2>2 DEF Sees, Rename
  <2>4. \A v \in live : active'[v] = IF v \in {u} THEN call[c].seen ELSE active[v]
    BY <1>3, <1>5 DEF Rename
  <2>5. u \in live => call[c].seen = active[u]
    BY <1>0, <1>5 DEF Sees, Rename
  <2>6. \A v \in live : active'[v] = active[v]
    BY <2>4, <2>5
  <2>7. Covers'
    BY <1>0, <2>2, <2>6 DEF Covers
  <2> QED BY <2>3, <2>7
<1>6. CASE SwitchOff(c)
  <2>1. call'[c].pc = "switched" /\ UNCHANGED <<live, parent>>
    BY <1>0, <1>6 DEF SwitchOff, Call
  <2>2. \A v \in live : active'[v] = IF v \in call[c].below THEN FALSE ELSE active[v]
    BY <1>3, <1>6 DEF SwitchOff
  <2>3. ClosedDown(call[c].below)
    BY <1>0, <1>6 DEF Sees, SwitchOff
  <2>4. Covers'
    BY <1>0, <2>1, <2>2, <2>3, ZenonT(60) DEF Covers, ClosedDown
  <2> QED BY <1>2, <2>1, <2>4
<1>7. CASE SwitchOn(c)
  <2>0. GoTo(c, "switched") /\ UNCHANGED <<live, parent>>
    BY <1>7 DEF SwitchOn
  <2>1. call'[c].pc = "switched"
    BY <1>0, <2>0 DEF GoTo, Call
  <2>2. \A v \in live : active'[v] = IF v \in {u} THEN TRUE ELSE active[v]
    <3>1. SetActive({u}, TRUE)
      BY <1>7 DEF SwitchOn
    <3> QED BY <1>3, <3>1, ZenonT(60)
  <2>3. u \in live => Up(u)
    BY <1>0, <1>7 DEF Sees, SwitchOn
  <2>4. Covers'
    BY <1>0, <2>0, <2>2, <2>3, ZenonT(60) DEF Covers, Up
  <2> QED BY <1>2, <2>1, <2>4
<1>8. CASE Promote(c)
  <2>1. \A v \in live : parent'[v] = IF v = u THEN None ELSE parent[v]
    BY <1>4, <1>8 DEF Promote
  <2>2. Covers'
    BY <1>0, <1>8, <2>1 DEF Covers, Promote
  <2> QED BY <1>1, <1>8, <2>2 DEF Promote
<1>9. CASE Reparent(c)
  <2>1. CASE call[c].to \in live
    <3>1. \A v \in live : parent'[v] = IF v = u THEN call[c].to ELSE parent[v]
      BY <1>4, <1>9, <2>1 DEF Reparent
    <3>2. active[call[c].to]
      BY <1>0, <1>9, <2>1 DEF Sees, Reparent
    <3>3. Covers'
      BY <1>0, <1>9, <3>1, <3>2 DEF Covers, Reparent
    <3> QED BY <1>1, <1>9, <3>3 DEF Reparent
  <2>2. CASE call[c].to \notin live
    <3>1. Covers'
      BY <1>0, <1>9, <2>2 DEF Covers, Reparent
    <3> QED BY <1>1, <1>9, <3>1 DEF Reparent
  <2> QED BY <2>1, <2>2
<1>10. CASE Cascade(c)
  <2>1. CASE call[c].to \in live
    <3>1. \A v \in live : active'[v] = IF v \in call[c].below THEN FALSE ELSE active[v]
      <4>1. SetActive(call[c].below, FALSE)
        BY <1>10, <2>1 DEF Cascade
      <4> QED BY <1>3, <4>1
    <3>2. \A v \in live : parent'[v] = IF v = u /\ u \in call[c].below THEN call[c].to
                                                                     ELSE parent[v]
      <4>1. CASE u \in call[c].below
        <5>1. SetParent(u, call[c].to)
          BY <1>10, <2>1, <4>1 DEF Cascade
        <5> QED BY <1>4, <4>1, <5>1
      <4>2. CASE u \notin call[c].below
        BY <1>10, <2>1, <4>2 DEF Cascade
      <4> QED BY <4>1, <4>2
    <3>3. ClosedDown(call[c].below) /\ UNCHANGED live
      BY <1>0, <1>10 DEF Sees, Cascade
    <3>4. Covers'
      BY <1>0, <3>1, <3>2, <3>3, ZenonT(60) DEF Covers, ClosedDown
    <3> QED BY <1>1, <1>10, <3>4 DEF Cascade
  <2>2. CASE call[c].to \notin live
    <3>1. Covers'
      BY <1>0, <1>10, <2>2 DEF Covers, Cascade
    <3> QED BY <1>1, <1>10, <3>1 DEF Cascade
  <2> QED BY <2>1, <2>2
<1> QED BY <1>5, <1>6, <1>7, <1>8, <1>9, <1>10

(* Destroy beside a call that writes: a parent is not taken. *)
LEMMA ReadingFlags ==
    ASSUME TurnsInv, ~overlapped, NEW c \in Calls, Reading(c)
    PROVE  Covers' /\ overlapped' = overlapped /\ ~WritesFlags(call'[c])
           /\ \A d \in Calls \ {c} : Sees(d) => Sees(d)'
<1>0. /\ call \in [Calls -> Call] /\ live \subseteq Units /\ Covers
      /\ parent \in [Units -> Parents] /\ active \in [Units -> BOOLEAN]
      /\ \A v \in live : parent[v] \in live \cup {None}
  BY BornType DEF TurnsInv, UInv, TypeOK, ReferencesExist
<1>1. \E pc \in {"idle", "delete", "assign"} : GoTo(c, pc)
  BY DEF Reading, Count, Delete, CheckUnit, Assign, Filter
<1>2. ~WritesFlags(call'[c])
  <2>1. call'[c] = NoCall \/ call'[c].pc \in {"delete", "assign"}
    BY <1>0, <1>1 DEF GoTo, Call
  <2>2. CASE call'[c].pc \in {"delete", "assign"}
    BY <2>2 DEF WritesFlags, StoreSteps, UpdateSteps
  <2> QED BY <2>1, <2>2, IdleWritesNot
<1>3. overlapped' = overlapped /\ \A d \in Calls \ {c} : call'[d] = call[d]
  BY <1>0, <1>1 DEF Reading, Count, Delete, CheckUnit, Assign, Filter, Stays, GoTo
<1>4. CASE UNCHANGED <<live, parent, active>>
  <2>1. Covers'
    BY <1>0, <1>4 DEF Covers
  <2>2. ASSUME NEW d \in Calls \ {c}, Sees(d) PROVE Sees(d)'
    BY <1>3, <1>4, <2>2 DEF Sees, Up, ClosedDown
  <2> QED BY <1>2, <1>3, <2>1, <2>2
<1>5. ASSUME NEW x \in live, Deletable(x), live' = live \ {x},
             parent' = [parent EXCEPT ![x] = None], active' = [active EXCEPT ![x] = FALSE]
      PROVE  Covers' /\ \A d \in Calls \ {c} : Sees(d) => Sees(d)'
  <2>1. \A v \in live' : /\ v \in live /\ parent'[v] = parent[v] /\ parent[v] # x
                         /\ active'[v] = active[v]
    BY <1>0, <1>5 DEF Deletable, InUse
  <2>2. Covers'
    BY <1>0, <2>1 DEF Covers
  <2>3. ASSUME NEW d \in Calls \ {c}, Sees(d) PROVE Sees(d)'
    <3>1. \A v \in live' : Up(v) => Up(v)'
      BY <1>0, <1>5, <2>1 DEF Up
    <3>2. \A S : ClosedDown(S) => ClosedDown(S)'
      BY <2>1 DEF ClosedDown
    <3>3. call'[d] = call[d]
      BY <1>3
    <3>4. call[d].pc = "insert" =>
             (call[d].to \in live' /\ call[d].seen => active'[call[d].to])
      BY <2>1, <2>3 DEF Sees
    <3>5. call[d].pc = "found" =>
             (call[d].unit \in live' => call[d].seen = active'[call[d].unit])
      BY <2>1, <2>3 DEF Sees
    <3>6. call[d].pc \in {"found", "renamed", "on"} =>
             (call[d].unit \in live' => call[d].over = parent'[call[d].unit])
      BY <2>1, <2>3 DEF Sees
    <3>7. call[d].pc = "switch on" => (call[d].unit \in live' => Up(call[d].unit))
      BY <2>1, <2>3 DEF Sees
    <3>8. call[d].pc \in {"switch off", "move off"} =>
             /\ ClosedDown(call[d].below)
             /\ call[d].unit \in live' => call[d].unit \in call[d].below
      BY <2>1, <2>3 DEF Sees
    <3>9. call[d].pc = "reparent" => (call[d].to \in live' => active'[call[d].to])
      BY <2>1, <2>3 DEF Sees
    <3> QED BY <3>1, <3>2, <3>3, <3>4, <3>5, <3>6, <3>7, <3>8, <3>9 DEF Sees
  <2> QED BY <2>2, <2>3
<1> QED BY <1>2, <1>3, <1>4, <1>5
        DEF Reading, Count, Delete, CheckUnit, Assign, Filter, Stays, treeVars

LEMMA StartFlags ==
    ASSUME TurnsInv, ~overlapped', NEW c \in Calls, Start(c)
    PROVE  TurnsInv'
<1>0. call \in [Calls -> Call]
  BY DEF TurnsInv, UInv, TypeOK
<1>1. UInv'
  BY StartU DEF TurnsInv
<1>2. ASSUME NEW k, Begin(c, k), k.pc \in {"new", "find", "count", "check", "filter"}
      PROVE  TurnsInv'
  <2>1. /\ call'[c] = k /\ \A d \in Calls \ {c} : call'[d] = call[d]
        /\ UNCHANGED <<live, parent, active>> /\ ~overlapped
        /\ WritesFlags(k) => \A d \in Calls \ {c} : ~WritesFlags(call[d])
    BY <1>0, <1>2 DEF Begin, treeVars
  <2>2. Sees(c)'
    BY <1>2, <2>1 DEF Sees
  <2>3. ASSUME NEW d \in Calls \ {c} PROVE Sees(d)'
    BY <2>1, <2>3 DEF TurnsInv, Sees, Up, ClosedDown
  <2>4. Covers'
    BY <2>1 DEF TurnsInv, Covers
  <2>5. OneWriter'
    BY <2>1 DEF TurnsInv, OneWriter, WritesFlags
  <2> QED BY <1>1, <2>2, <2>3, <2>4, <2>5 DEF TurnsInv
<1>3. CASE StartStore(c)
  BY <1>2, <1>3 DEF StartStore, NoCall
<1>4. CASE StartUpdate(c)
  BY <1>2, <1>4 DEF StartUpdate, NoCall
<1>5. CASE StartDestroy(c)
  BY <1>2, <1>5 DEF StartDestroy, NoCall
<1>6. CASE StartAssign(c)
  BY <1>2, <1>6 DEF StartAssign, NoCall
<1>7. CASE StartFilter(c)
  BY <1>2, <1>7 DEF StartFilter, NoCall
<1> QED BY <1>3, <1>4, <1>5, <1>6, <1>7 DEF Start

LEMMA StepFlags ==
    ASSUME TurnsInv, ~overlapped', NEW c \in Calls, Step(c)
    PROVE  TurnsInv'
<1>0. call \in [Calls -> Call] /\ UInv'
  BY StepU DEF TurnsInv, UInv, TypeOK
<1>1. \A d \in Calls \ {c} : call'[d] = call[d]
  BY Elsewhere DEF TurnsInv, UInv
<1>2. Writing(c) \/ Reading(c)
  BY DEF Step, Writing, Reading
<1>3. CASE Writing(c)
  <2>1. WritesFlags(call[c]) /\ ~overlapped
    BY <1>3, WritersWrite
  <2>2. \A d \in Calls \ {c} : ~WritesFlags(call'[d])
    BY <1>1, <2>1 DEF TurnsInv, OneWriter
  <2>3. OneWriter'
    BY <2>2 DEF OneWriter, WritesFlags
  <2>4. ASSUME NEW d \in Calls \ {c} PROVE Sees(d)'
    BY <2>2, <2>4 DEF Sees, WritesFlags, StoreSteps, UpdateSteps
  <2>5. Covers' /\ Sees(c)'
    BY <1>3, <2>1, StoreFlags, ReadFlags, WriteFlags DEF Writing
  <2> QED BY <1>0, <2>3, <2>4, <2>5 DEF TurnsInv
<1>4. CASE Reading(c)
  <2>0. ~overlapped
    BY <1>4 DEF Reading, Count, Delete, CheckUnit, Assign, Filter, Stays
  <2>1. Covers' /\ ~WritesFlags(call'[c]) /\ \A d \in Calls \ {c} : Sees(d) => Sees(d)'
    BY <1>4, <2>0, ReadingFlags
  <2>2. Sees(c)'
    BY <2>1 DEF Sees, WritesFlags, StoreSteps, UpdateSteps
  <2>3. OneWriter'
    BY <1>1, <2>0, <2>1 DEF TurnsInv, OneWriter, WritesFlags
  <2> QED BY <1>0, <2>0, <2>1, <2>2, <2>3 DEF TurnsInv
<1> QED BY <1>2, <1>3, <1>4

LEMMA InitFlags == Init => TurnsInv
<1> SUFFICES ASSUME Init PROVE TurnsInv
  OBVIOUS
<1>1. \A c \in Calls : call[c] = NoCall
  BY DEF Init
<1>2. \A c \in Calls : ~WritesFlags(call[c])
  BY <1>1, IdleWritesNot
<1>3. Covers
  BY DEF Init, Covers
<1> QED BY <1>2, <1>3, InitU, NotAWriter DEF TurnsInv, OneWriter

LEMMA NextFlags == TurnsInv /\ [Next]_vars => TurnsInv'
<1> SUFFICES ASSUME TurnsInv, [Next]_vars PROVE TurnsInv'
  OBVIOUS
<1>1. UInv'
  BY NextU DEF TurnsInv
<1>2. CASE overlapped'
  BY <1>1, <1>2 DEF TurnsInv
<1>3. CASE UNCHANGED vars
  <2>1. UNCHANGED <<live, parent, active, call, overlapped>>
    BY <1>3 DEF vars, treeVars
  <2> QED BY <1>1, <2>1 DEF TurnsInv, Covers, OneWriter, WritesFlags, Sees, Up, ClosedDown
<1>4. CASE ~overlapped' /\ Next
  BY <1>4, StartFlags, StepFlags DEF Next
<1> QED BY <1>2, <1>3, <1>4

(* As long as the calls that write flags take turns, no active unit is found *)
(* below an inactive one, whoever destroys units or assigns users beside     *)
(* them and whichever of their statements were refused.                      *)
THEOREM InactiveIsInherited == Spec => []InactiveCovers
<1>1. TurnsInv => InactiveCovers
  BY DEF TurnsInv, InactiveCovers, Covers
<1> QED BY <1>1, InitFlags, NextFlags, PTL DEF Spec
====
