------------------------- MODULE VerificationProofs -------------------------
(***************************************************************************)
(* What a verification may answer, for all sets of credentials, files and  *)
(* concurrent calls, whatever is issued, revoked and evicted meanwhile.    *)
(***************************************************************************)
EXTENDS Verification, TLAPS

USE FileAssumption, SeededAssumption, NoneAssumption, AiAssumption

\* The type of the world.
WorldOK ==
    /\ rows \in [Creds -> Row]
    /\ chain \in [Creds -> {"none", "live", "revoked"}]
    /\ busy \in [Creds -> {"no", "minting", "revoking", "evicting"}]
    /\ expired \subseteq Creds
    /\ gone \in BOOLEAN

\* A transaction that mints has not stored its row.
Minting == \A c \in Creds : busy[c] = "minting" => rows[c].state = "absent"

\* The history of a call is that of the world.
Recorded(v) == \A c \in Creds : /\ Valid(c) => c \notin call[v].unfit
                                /\ c \in call[v].calm => Agrees(c)

\* What the rows were when they were read is what they are, or the call knows.
Compared(v) ==
    call[v].pc = "chain" =>
       /\ call[v].found # {}
       /\ \A c \in call[v].found :
             /\ FileOf[c] = call[v].file /\ Activated(c) /\ rows[c].token
             /\ c \notin call[v].dead /\ ~call[v].gone /\ c \notin expired
                   => c \notin call[v].unfit
             /\ c \in call[v].calm => (c \in call[v].dead <=> rows[c].state = "revoked")

\* Registered bytes do not leave the exact comparison.
Registered(v) ==
    call[v].known /\ ~Answered(v) =>
       /\ call[v].pc \in {"exact", "chain"}
       /\ \E c \in Creds : Activated(c) /\ FileOf[c] = call[v].file

\* The properties, of one call.
Justified(v) ==
    Answered(v) =>
       /\ call[v].known /\ call[v].code \notin Errors => call[v].from = "exact"
       /\ call[v].code = "authentic" /\ call[v].from # "ai"
             => call[v].cred \notin call[v].unfit
       /\ call[v].from = "exact" /\ call[v].code = "integrity_warning"
             => \E c \in Creds \ call[v].calm : FileOf[c] = call[v].file

Consistent(v) == /\ Recorded(v) /\ Compared(v) /\ Registered(v) /\ Justified(v)
                 /\ call[v].pc = "save" => call[v].code \in Cacheable

VInv == TypeOK /\ Minting /\ \A v \in Calls : Consistent(v)

LEMMA IdleCall ==
  /\ NoCall \in Call
  /\ NoCall.pc = "idle" /\ NoCall.known = FALSE /\ NoCall.unfit = {} /\ NoCall.calm = {}
  <1>1. AnyFile \in Files
    BY DEF AnyFile
  <1>. QED BY <1>1 DEF NoCall, Call

LEMMA InitVInv == Init => VInv
  <1>. SUFFICES ASSUME Init PROVE VInv OBVIOUS
  <1>1. \A v \in Calls : call[v] = NoCall
    BY DEF Init
  <1>2. call \in [Calls -> Call]
    BY <1>1, IdleCall DEF Init
  <1>3. cache \in [Files -> Entry]
    BY DEF Init, NoEntry, Entry
  <1>4. TypeOK
    BY <1>2, <1>3 DEF Init, TypeOK
  <1>5. Minting
    BY DEF Init, Minting
  <1>6. \A v \in Calls : Consistent(v)
    BY <1>1, IdleCall DEF Consistent, Recorded, Compared, Registered, Justified, Answered
  <1>. QED BY <1>4, <1>5, <1>6 DEF VInv
-----------------------------------------------------------------------------
(* Steps of the world. *)

\* What is never taken back, and that a row does not change its state while it
\* agrees with the registry before and after.
Progress == \A c \in Creds :
    /\ Activated(c) => Activated(c)'
    /\ rows[c].token => rows'[c].token
    /\ c \in expired => c \in expired'
    /\ Activated(c) /\ rows[c].token /\ Agrees(c) /\ Agrees(c)'
          => (rows[c].state = "revoked" <=> rows'[c].state = "revoked")

\* A step that leaves the rows alone.
LEMMA SameRows ==
  ASSUME VInv, UNCHANGED <<rows, expired>>, WorldOK', cache' \in [Files -> Entry],
         \A c \in Creds : busy'[c] = "minting" => rows[c].state = "absent"
  PROVE  WorldOK' /\ cache' \in [Files -> Entry] /\ Minting' /\ Progress
  BY DEF Minting, Progress, Activated

WorldStep == WorldOK' /\ cache' \in [Files -> Entry] /\ Minting' /\ Progress

LEMMA MintStep ==
  ASSUME VInv, NEW c \in Creds, Mint(c) PROVE WorldStep
  <1>1. WorldOK' /\ cache' \in [Files -> Entry]
    BY DEF Mint, SetBusy, VInv, TypeOK, WorldOK
  <1>2. \A d \in Creds : busy'[d] = "minting" => rows[d].state = "absent"
    BY DEF Mint, SetBusy, VInv, TypeOK, Minting
  <1>. QED BY <1>1, <1>2, SameRows DEF Mint, WorldStep

LEMMA CommitMintStep ==
  ASSUME VInv, NEW c \in Creds, CommitMint(c) PROVE WorldStep
  <1>1. WorldOK' /\ cache' \in [Files -> Entry]
    BY DEF CommitMint, SetBusy, VInv, TypeOK, WorldOK, Row
  <1>2. rows[c].state = "absent" /\ rows'[c].state = "approved" /\ rows'[c].token
        /\ \A d \in Creds \ {c} : rows'[d] = rows[d]
    BY DEF CommitMint, SetBusy, VInv, TypeOK, Minting
  <1>3. Minting'
    BY <1>2 DEF CommitMint, SetBusy, VInv, TypeOK, Minting
  <1>4. Progress
    BY <1>2 DEF CommitMint, Progress, Activated
  <1>. QED BY <1>1, <1>3, <1>4 DEF WorldStep

LEMMA MineRevocationStep ==
  ASSUME VInv, NEW c \in Creds, MineRevocation(c) PROVE WorldStep
  <1>1. WorldOK' /\ cache' \in [Files -> Entry]
    BY DEF MineRevocation, SetBusy, VInv, TypeOK, WorldOK
  <1>2. \A d \in Creds : busy'[d] = "minting" => rows[d].state = "absent"
    BY DEF MineRevocation, SetBusy, VInv, TypeOK, Minting
  <1>. QED BY <1>1, <1>2, SameRows DEF MineRevocation, WorldStep

\* The registry said "live" of an approved row that agreed; the row moves on.
LEMMA CommitRevocationStep ==
  ASSUME VInv, NEW c \in Creds, CommitRevocation(c) PROVE WorldStep
  <1>1. WorldOK' /\ cache' \in [Files -> Entry]
    <2>1. [rows EXCEPT ![c].state = "revoked"] \in [Creds -> Row]
      BY DEF VInv, TypeOK, Row
    <2>. QED BY <2>1 DEF CommitRevocation, SetBusy, VInv, TypeOK, WorldOK
  <1>2. /\ rows'[c].state = "revoked" /\ rows'[c].token = rows[c].token
        /\ \A d \in Creds \ {c} : rows'[d] = rows[d]
        /\ UNCHANGED <<chain, expired>>
    BY DEF CommitRevocation, VInv, TypeOK, Row
  <1>3. Minting'
    BY <1>2 DEF CommitRevocation, SetBusy, VInv, TypeOK, Minting
  <1>4. Activated(c) /\ Agrees(c) /\ Agrees(c)' => rows[c].state = "revoked"
    BY <1>2 DEF Agrees, Activated, Approved, VInv, TypeOK, Row
  <1>5. Progress
    BY <1>2, <1>4 DEF Progress, Activated
  <1>. QED BY <1>1, <1>3, <1>5 DEF WorldStep

LEMMA EvictStep ==
  ASSUME VInv, NEW c \in Creds, Evict(c) PROVE WorldStep
  <1>1. WorldOK'
    BY DEF Evict, SetBusy, VInv, TypeOK, WorldOK
  <1>2. cache' \in [Files -> Entry]
    BY DEF Evict, VInv, TypeOK, NoEntry, Entry
  <1>3. \A d \in Creds : busy'[d] = "minting" => rows[d].state = "absent"
    BY DEF Evict, SetBusy, VInv, TypeOK, Minting
  <1>. QED BY <1>1, <1>2, <1>3, SameRows DEF Evict, WorldStep

LEMMA RollBackStep ==
  ASSUME VInv, NEW c \in Creds, RollBack(c) PROVE WorldStep
  <1>1. WorldOK' /\ cache' \in [Files -> Entry]
    BY DEF RollBack, SetBusy, VInv, TypeOK, WorldOK
  <1>2. \A d \in Creds : busy'[d] = "minting" => rows[d].state = "absent"
    BY DEF RollBack, SetBusy, VInv, TypeOK, Minting
  <1>. QED BY <1>1, <1>2, SameRows DEF RollBack, WorldStep

LEMMA SeedStep ==
  ASSUME VInv, NEW c \in Creds, SeedMint(c) \/ SeedToken(c) \/ SeedRevoke(c)
  PROVE  WorldStep
  <1>1. CASE SeedMint(c) \/ SeedRevoke(c)
    <2>1. WorldOK' /\ cache' \in [Files -> Entry]
      BY <1>1 DEF SeedMint, SeedRevoke, VInv, TypeOK, WorldOK
    <2>2. \A d \in Creds : busy'[d] = "minting" => rows[d].state = "absent"
      BY <1>1 DEF SeedMint, SeedRevoke, VInv, Minting
    <2>. QED BY <1>1, <2>1, <2>2, SameRows DEF SeedMint, SeedRevoke, WorldStep
  <1>2. CASE SeedToken(c)
    <2>1. WorldOK' /\ cache' \in [Files -> Entry]
      <3>1. rows[c] \in Row
        BY DEF VInv, TypeOK
      <3>2. [rows[c] EXCEPT !.token = TRUE] \in Row
        BY <3>1 DEF Row
      <3>. QED BY <1>2, <3>2 DEF SeedToken, VInv, TypeOK, WorldOK
    <2>2. \A d \in Creds : /\ rows'[d].state = rows[d].state
                           /\ rows[d].token => rows'[d].token
      BY <1>2 DEF SeedToken, VInv, TypeOK, Row
    <2>3. Minting' /\ Progress
      BY <1>2, <2>2 DEF SeedToken, VInv, Minting, Progress, Activated
    <2>. QED BY <2>1, <2>3 DEF WorldStep
  <1>. QED BY <1>1, <1>2

LEMMA ClockStep ==
  ASSUME VInv, Trash \/ (\E c \in Creds : Expire(c)) \/ (\E f \in Files : Lapse(f))
  PROVE  WorldStep
  <1>1. CASE Trash
    BY <1>1 DEF Trash, WorldStep, VInv, TypeOK, WorldOK, Minting, Progress, Activated
  <1>2. ASSUME NEW c \in Creds, Expire(c) PROVE WorldStep
    BY <1>2 DEF Expire, WorldStep, VInv, TypeOK, WorldOK, Minting, Progress, Activated
  <1>3. ASSUME NEW f \in Files, Lapse(f) PROVE WorldStep
    <2>1. cache' \in [Files -> Entry]
      BY <1>3 DEF Lapse, VInv, TypeOK, NoEntry, Entry
    <2>. QED
      BY <1>3, <2>1 DEF Lapse, world, WorldStep, VInv, TypeOK, WorldOK, Minting, Progress, Activated
  <1>. QED BY <1>1, <1>2, <1>3

LEMMA WorldIsStep ==
  ASSUME VInv, World PROVE WorldStep
  BY MintStep, CommitMintStep, MineRevocationStep, CommitRevocationStep, EvictStep,
     RollBackStep, SeedStep, ClockStep DEF World

\* The calls under way see the step and nothing else.
LEMMA WitnessedCall ==
  ASSUME VInv, Witnessed, NEW v \in Calls
  PROVE  /\ call'[v] \in Call
         /\ call'[v].unfit = {c \in call[v].unfit : ~Valid(c)'}
         /\ call'[v].calm = {c \in call[v].calm : Agrees(c)'}
         /\ call'[v].pc = call[v].pc /\ call'[v].file = call[v].file
         /\ call'[v].found = call[v].found /\ call'[v].dead = call[v].dead
         /\ call'[v].gone = call[v].gone /\ call'[v].code = call[v].code
         /\ call'[v].cred = call[v].cred /\ call'[v].from = call[v].from
         /\ call'[v].known = call[v].known
  <1>1. call[v] \in Call
    BY DEF VInv, TypeOK
  <1>2. call'[v] = [call[v] EXCEPT !.unfit = {c \in @ : ~Valid(c)'},
                                   !.calm = {c \in @ : Agrees(c)'}]
    BY DEF Witnessed
  <1>3. /\ {c \in call[v].unfit : ~Valid(c)'} \in SUBSET Creds
        /\ {c \in call[v].calm : Agrees(c)'} \in SUBSET Creds
    BY <1>1 DEF Call
  <1>. QED BY ZenonT(60), <1>1, <1>2, <1>3 DEF Call

LEMMA WorldSafe ==
  ASSUME VInv, World PROVE VInv'
  <1>1. WorldStep
    BY WorldIsStep
  <1>2. Witnessed
    BY DEF World
  <1>3. call' \in [Calls -> Call]
    <2>1. \A v \in Calls : call'[v] \in Call
      BY <1>2, WitnessedCall
    <2>. QED BY <1>2, <2>1 DEF Witnessed
  <1>4. TypeOK'
    BY <1>1, <1>3 DEF WorldStep, WorldOK, TypeOK
  <1>5. ASSUME NEW v \in Calls PROVE Consistent(v)'
    <2>1. /\ call'[v].unfit = {c \in call[v].unfit : ~Valid(c)'}
          /\ call'[v].calm = {c \in call[v].calm : Agrees(c)'}
          /\ call'[v].pc = call[v].pc /\ call'[v].file = call[v].file
          /\ call'[v].found = call[v].found /\ call'[v].dead = call[v].dead
          /\ call'[v].gone = call[v].gone /\ call'[v].code = call[v].code
          /\ call'[v].cred = call[v].cred /\ call'[v].from = call[v].from
          /\ call'[v].known = call[v].known
      BY <1>2, WitnessedCall
    <2>2. Consistent(v) /\ call[v] \in Call
      BY DEF VInv, TypeOK
    <2>3. Recorded(v)'
      BY <2>1 DEF Recorded
    <2>4. Compared(v)'
      <3>1. SUFFICES ASSUME call[v].pc = "chain" PROVE Compared(v)'
        BY <2>1 DEF Compared
      <3>2. ASSUME NEW c \in call[v].found
            PROVE  /\ FileOf[c] = call[v].file /\ Activated(c)' /\ rows'[c].token
                   /\ c \notin call[v].dead /\ ~call[v].gone /\ c \notin expired'
                         => c \notin call'[v].unfit
                   /\ c \in call'[v].calm => (c \in call[v].dead <=> rows'[c].state = "revoked")
        <4>1. c \in Creds
          BY <2>2, <3>2 DEF Call
        <4>2. /\ FileOf[c] = call[v].file /\ Activated(c) /\ rows[c].token
              /\ c \notin call[v].dead /\ ~call[v].gone /\ c \notin expired
                    => c \notin call[v].unfit
              /\ c \in call[v].calm => (c \in call[v].dead <=> rows[c].state = "revoked")
          BY <2>2, <3>1, <3>2 DEF Consistent, Compared
        <4>3. c \in call'[v].calm => c \in call[v].calm /\ Agrees(c) /\ Agrees(c)'
          BY <2>1, <2>2, <4>1 DEF Consistent, Recorded
        <4>. QED BY <1>1, <2>1, <4>1, <4>2, <4>3 DEF WorldStep, Progress
      <3>. QED BY <2>1, <2>2, <3>1, <3>2 DEF Consistent, Compared
    <2>5. Registered(v)'
      BY <1>1, <2>1, <2>2 DEF Consistent, Registered, Answered, WorldStep, Progress
    <2>6. Justified(v)'
      BY <2>1, <2>2 DEF Consistent, Justified, Answered
    <2>. QED BY <2>1, <2>2, <2>3, <2>4, <2>5, <2>6 DEF Consistent
  <1>. QED BY <1>1, <1>4, <1>5 DEF VInv, WorldStep
-----------------------------------------------------------------------------
(* Steps of a call. *)

\* One call moves; the world and the others stay.
LEMMA OneCall ==
  ASSUME VInv, NEW v \in Calls, NEW k \in Call, call' = [call EXCEPT ![v] = k],
         UNCHANGED world, cache' \in [Files -> Entry], Consistent(v)'
  PROVE  VInv'
  <1>1. call' \in [Calls -> Call] /\ call'[v] = k /\ \A w \in Calls \ {v} : call'[w] = call[w]
    BY DEF VInv, TypeOK
  <1>2. TypeOK' /\ Minting'
    BY <1>1 DEF VInv, TypeOK, Minting, world
  <1>3. ASSUME NEW w \in Calls \ {v} PROVE Consistent(w)'
    <2>1. Consistent(w) /\ call'[w] = call[w] /\ UNCHANGED <<rows, chain, expired, gone>>
      BY <1>1 DEF VInv, world
    <2>2. Recorded(w)'
      BY <2>1 DEF Consistent, Recorded, Valid, Agrees, Activated, Approved
    <2>3. Compared(w)' /\ Registered(w)' /\ Justified(w)'
      BY <2>1 DEF Consistent, Compared, Registered, Justified, Answered, Activated
    <2>. QED BY <2>1, <2>2, <2>3 DEF Consistent
  <1>. QED BY <1>1, <1>2, <1>3 DEF VInv

\* A call that goes on with its history.
LEMMA Recorded1 ==
  ASSUME VInv, NEW v \in Calls, UNCHANGED world,
         call'[v].unfit = call[v].unfit, call'[v].calm = call[v].calm
  PROVE  Recorded(v)'
  BY DEF VInv, Consistent, Recorded, Valid, Agrees, Activated, Approved, world

\* An answer.
Reply(v, from, code, c) ==
    [call[v] EXCEPT !.pc = "answered", !.from = from, !.code = code, !.cred = c,
                    !.found = {}, !.dead = {}, !.gone = FALSE]

LEMMA AnswerSafe ==
  ASSUME VInv, NEW v \in Calls, NEW from \in {"none", "exact", "cache", "ai"},
         NEW code \in Verdicts \cup Errors \cup {"none"}, NEW c \in Creds \cup {None},
         Answer(v, from, code, c), UNCHANGED world, cache' \in [Files -> Entry],
         call[v].known /\ code \notin Errors => from = "exact",
         code = "authentic" /\ from # "ai" => c \notin call[v].unfit,
         from = "exact" /\ code = "integrity_warning"
            => \E d \in Creds \ call[v].calm : FileOf[d] = call[v].file
  PROVE  VInv'
  <1>. DEFINE k == Reply(v, from, code, c)
  <1>1. k \in Call /\ k.pc = "answered" /\ k.from = from /\ k.code = code /\ k.cred = c
        /\ k.unfit = call[v].unfit /\ k.calm = call[v].calm /\ k.known = call[v].known
        /\ k.file = call[v].file
    <2>1. call[v] \in Call
      BY DEF VInv, TypeOK
    <2>2. k \in Call
      BY ZenonT(60), <2>1 DEF Reply, Call
    <2>3. k.known = call[v].known
      BY <2>1 DEF Reply, Call
    <2>4. /\ k.pc = "answered" /\ k.from = from /\ k.code = code /\ k.cred = c
          /\ k.unfit = call[v].unfit /\ k.calm = call[v].calm /\ k.file = call[v].file
      BY <2>1 DEF Reply, Call
    <2>. QED BY <2>2, <2>3, <2>4
  <1>2. call' = [call EXCEPT ![v] = k]
    BY DEF Answer, Reply
  <1>3. call'[v] = k
    BY <1>2 DEF VInv, TypeOK
  <1>. HIDE DEF k
  <1>4. Recorded(v)'
    BY <1>1, <1>3, Recorded1
  <1>5. Compared(v)' /\ Registered(v)' /\ Justified(v)'
    BY <1>1, <1>3 DEF Compared, Registered, Justified, Answered
  <1>6. Consistent(v)'
    BY <1>1, <1>3, <1>4, <1>5 DEF Consistent
  <1>. QED BY <1>1, <1>2, <1>6, OneCall

LEMMA StartSafe ==
  ASSUME VInv, NEW v \in Calls, Start(v) PROVE VInv'
  <1>1. PICK f \in Files :
          call' = [call EXCEPT ![v] = [NoCall EXCEPT
                      !.pc = "exact", !.file = f,
                      !.known = \E c \in Creds : Activated(c) /\ FileOf[c] = f,
                      !.unfit = {c \in Creds : ~Valid(c)},
                      !.calm = {c \in Creds : Agrees(c)}]]
    BY DEF Start
  <1>. DEFINE known == \E c \in Creds : Activated(c) /\ FileOf[c] = f
              unfit == {c \in Creds : ~Valid(c)}
              calm == {c \in Creds : Agrees(c)}
              k == [NoCall EXCEPT !.pc = "exact", !.file = f, !.known = known,
                                  !.unfit = unfit, !.calm = calm]
  <1>2. call' = [call EXCEPT ![v] = k]
    BY <1>1
  <1>3. known \in BOOLEAN /\ unfit \in SUBSET Creds /\ calm \in SUBSET Creds
    OBVIOUS
  <1>4. /\ known <=> \E c \in Creds : Activated(c) /\ FileOf[c] = f
        /\ \A c \in Creds : /\ c \in unfit <=> ~Valid(c)
                            /\ c \in calm <=> Agrees(c)
    OBVIOUS
  <1>. HIDE DEF known, unfit, calm
  <1>5. /\ k \in Call /\ k.pc = "exact" /\ k.file = f
        /\ k.known = known /\ k.unfit = unfit /\ k.calm = calm
    BY <1>3, IdleCall DEF Call
  <1>. HIDE DEF k
  <1>6. call'[v] = k
    BY <1>2 DEF VInv, TypeOK
  <1>7. UNCHANGED world /\ cache' \in [Files -> Entry]
    BY DEF Start, VInv, TypeOK
  <1>8. Recorded(v)'
    BY <1>4, <1>5, <1>6, <1>7 DEF Recorded, Valid, Agrees, Activated, Approved, world
  <1>9. Compared(v)' /\ Registered(v)' /\ Justified(v)'
    BY <1>4, <1>5, <1>6, <1>7
    DEF Compared, Registered, Justified, Answered, Activated, world
  <1>10. Consistent(v)'
    BY <1>5, <1>6, <1>8, <1>9 DEF Consistent
  <1>. QED BY <1>2, <1>5, <1>7, <1>10, OneCall

\* A call that goes on without its rows: no known bytes get here.
LEMMA OnwardSafe ==
  ASSUME VInv, NEW v \in Calls, NEW k \in Call, call' = [call EXCEPT ![v] = k],
         UNCHANGED world, cache' \in [Files -> Entry],
         k.pc \in {"idle", "cache", "extract", "compare", "save"}, ~k.known,
         k.pc = "save" => k.code \in Cacheable,
         k.unfit \subseteq call[v].unfit, k.calm \subseteq call[v].calm
  PROVE  VInv'
  <1>1. call'[v] = k
    BY DEF VInv, TypeOK
  <1>2. Recorded(v)'
    BY <1>1 DEF VInv, Consistent, Recorded, Valid, Agrees, Activated, Approved, world
  <1>3. Compared(v)' /\ Registered(v)' /\ Justified(v)'
    BY <1>1 DEF Compared, Registered, Justified, Answered
  <1>4. Consistent(v)'
    BY <1>1, <1>2, <1>3 DEF Consistent
  <1>. QED BY <1>4, OneCall

LEMMA ReadRowsSafe ==
  ASSUME VInv, NEW v \in Calls, ReadRows(v) PROVE VInv'
  <1>. DEFINE found == Exact(call[v].file)
              dead == {c \in found : rows[c].state = "revoked"}
              tokens == {c \in found : rows[c].token}
  <1>1. call[v].pc = "exact" /\ UNCHANGED world /\ cache' \in [Files -> Entry]
    BY DEF ReadRows, VInv, TypeOK
  <1>2. call[v] \in Call /\ Consistent(v)
    BY DEF VInv, TypeOK
  <1>3. \A c \in found : c \in Creds /\ Activated(c) /\ FileOf[c] = call[v].file
    BY DEF Exact
  <1>4. CASE found = {} /\ call' = [call EXCEPT ![v].pc = "cache"]
    <2>. DEFINE k == [call[v] EXCEPT !.pc = "cache"]
    <2>1. ~call[v].known
      BY <1>1, <1>2, <1>4 DEF Consistent, Registered, Answered, Exact
    <2>2. k \in Call /\ k.pc = "cache" /\ k.unfit = call[v].unfit /\ k.calm = call[v].calm
      BY <1>2 DEF Call
    <2>3. k.known = call[v].known
      BY <1>2 DEF Call
    <2>4. call' = [call EXCEPT ![v] = k]
      BY <1>4
    <2>. HIDE DEF k
    <2>. QED BY <1>1, <2>1, <2>2, <2>3, <2>4, OnwardSafe
  <1>5. ASSUME tokens = {}, NEW c \in found, Answer(v, "exact", "integrity_warning", c)
        PROVE  VInv'
    <2>1. c \in Creds /\ FileOf[c] = call[v].file /\ ~Agrees(c)
      BY <1>3, <1>5 DEF Agrees
    <2>2. c \in Creds \ call[v].calm
      BY <1>2, <2>1 DEF Consistent, Recorded
    <2>3. "integrity_warning" \in Verdicts
      BY DEF Verdicts
    <2>. QED BY <1>1, <1>5, <2>1, <2>2, <2>3, AnswerSafe
  <1>6. CASE /\ tokens # {}
             /\ call' = [call EXCEPT ![v].pc = "chain", ![v].found = tokens,
                                     ![v].dead = dead, ![v].gone = gone]
    <2>. DEFINE k == [call[v] EXCEPT !.pc = "chain", !.found = tokens, !.dead = dead, !.gone = gone]
    <2>1. tokens \in SUBSET Creds /\ dead \in SUBSET Creds /\ gone \in BOOLEAN
      BY <1>3 DEF VInv, TypeOK
    <2>2. /\ \A c \in tokens : /\ c \in Creds /\ Activated(c) /\ FileOf[c] = call[v].file
                               /\ rows[c].token
                               /\ c \in dead <=> rows[c].state = "revoked"
      BY <1>3
    <2>. HIDE DEF tokens, dead
    <2>3. k \in Call
      BY <1>2, <2>1 DEF Call
    <2>4. /\ k.pc = "chain" /\ k.found = tokens /\ k.dead = dead /\ k.file = call[v].file
          /\ k.unfit = call[v].unfit /\ k.calm = call[v].calm
      BY <1>2, <2>1 DEF Call
    <2>5. (k.gone <=> gone) /\ (k.known <=> call[v].known)
      BY <1>2, <2>1 DEF Call
    <2>6. call' = [call EXCEPT ![v] = k]
      BY <1>6
    <2>. HIDE DEF k
    <2>7. call'[v] = k
      BY <2>6 DEF VInv, TypeOK
    <2>8. Recorded(v)'
      BY <1>1, <2>4, <2>7, Recorded1
    <2>9. ASSUME NEW c \in tokens, c \notin dead, ~gone, c \notin expired
          PROVE  c \notin call[v].unfit
      <3>1. Valid(c) /\ c \in Creds
        BY <2>2, <2>9 DEF Valid, Activated, Approved, VInv, TypeOK, Row
      <3>. QED BY <1>2, <3>1 DEF Consistent, Recorded
    <2>10. Compared(v)'
      BY <1>1, <1>6, <2>2, <2>4, <2>5, <2>7, <2>9 DEF Compared, Activated, world
    <2>11. Registered(v)'
      BY <1>1, <1>2, <2>4, <2>5, <2>7 DEF Consistent, Registered, Answered, Activated, world
    <2>12. Justified(v)'
      BY <2>4, <2>7 DEF Justified, Answered
    <2>13. Consistent(v)'
      BY <2>4, <2>7, <2>8, <2>10, <2>11, <2>12 DEF Consistent
    <2>. QED BY <1>1, <2>3, <2>6, <2>13, OneCall
  <1>7. \/ found = {} /\ call' = [call EXCEPT ![v].pc = "cache"]
        \/ tokens = {} /\ \E c \in found : Answer(v, "exact", "integrity_warning", c)
        \/ /\ tokens # {}
           /\ call' = [call EXCEPT ![v].pc = "chain", ![v].found = tokens,
                                   ![v].dead = dead, ![v].gone = gone]
    BY DEF ReadRows
  <1>. QED BY <1>4, <1>5, <1>6, <1>7

LEMMA ReadChainSafe ==
  ASSUME VInv, NEW v \in Calls, ReadChain(v) PROVE VInv'
  <1>. DEFINE matching == {c \in call[v].found : Matches(c, call[v].dead)}
              standing == matching \ call[v].dead
  <1>1. call[v].pc = "chain" /\ UNCHANGED world /\ cache' \in [Files -> Entry]
    BY DEF ReadChain, VInv, TypeOK
  <1>2. call[v] \in Call /\ Compared(v) /\ Recorded(v)
    BY DEF VInv, TypeOK, Consistent
  <1>3. call[v].found \subseteq Creds
    BY <1>2 DEF Call
  <1>4. {"integrity_warning", "revoked", "expired", "disabled", "authentic"} \subseteq Verdicts
    BY DEF Verdicts, Cacheable
  <1>5. ASSUME matching = {}, NEW c \in Exact(call[v].file),
               Answer(v, "exact", "integrity_warning", c)
        PROVE  VInv'
    <2>1. PICK d \in call[v].found : TRUE
      BY <1>1, <1>2 DEF Compared
    <2>2. ~Matches(d, call[v].dead) /\ d \in Creds
      BY <1>3, <1>5, <2>1
    <2>3. /\ FileOf[d] = call[v].file /\ Activated(d)
          /\ d \in call[v].calm => (d \in call[v].dead <=> rows[d].state = "revoked")
      BY <1>1, <1>2, <2>1 DEF Compared
    <2>4. d \notin call[v].calm
      <3>1. SUFFICES ASSUME d \in call[v].calm PROVE FALSE
        OBVIOUS
      <3>2. Agrees(d) /\ rows[d] \in Row
        BY <1>2, <2>2, <3>1 DEF Recorded, VInv, TypeOK
      <3>. QED BY <2>2, <2>3, <3>1, <3>2 DEF Agrees, Approved, Activated, Matches, Row
    <2>5. c \in Creds
      BY DEF Exact
    <2>. QED BY <1>1, <1>4, <1>5, <2>2, <2>3, <2>4, <2>5, AnswerSafe
  <1>6. ASSUME NEW c \in standing, Answer(v, "exact", Overridden(c, call[v].gone), c)
        PROVE  VInv'
    <2>1. c \in call[v].found /\ c \in Creds /\ c \notin call[v].dead
      BY <1>3
    <2>2. Overridden(c, call[v].gone) = "authentic" => c \notin call[v].unfit
      BY <1>1, <1>2, <2>1 DEF Compared, Overridden
    <2>3. Overridden(c, call[v].gone) \in {"expired", "disabled", "authentic"}
      BY DEF Overridden
    <2>. QED BY <1>1, <1>4, <1>6, <2>1, <2>2, <2>3, AnswerSafe
  <1>7. ASSUME NEW c \in matching, Answer(v, "exact", "revoked", c)
        PROVE  VInv'
    <2>1. c \in Creds
      BY <1>3
    <2>. QED BY <1>1, <1>4, <1>7, <2>1, AnswerSafe
  <1>8. \/ matching = {} /\ \E c \in Exact(call[v].file) : Answer(v, "exact", "integrity_warning", c)
        \/ \E c \in standing : Answer(v, "exact", Overridden(c, call[v].gone), c)
        \/ \E c \in matching : Answer(v, "exact", "revoked", c)
    BY DEF ReadChain
  <1>. QED BY <1>5, <1>6, <1>7, <1>8

LEMMA FailsSafe ==
  ASSUME VInv, NEW v \in Calls, ChainFails(v) \/ QueryFails(v) \/ AiFails(v) PROVE VInv'
  <1>1. UNCHANGED world /\ cache' \in [Files -> Entry]
    BY DEF ChainFails, QueryFails, AiFails, VInv, TypeOK
  <1>2. PICK from \in {"none", "exact", "ai"}, code \in Errors : Answer(v, from, code, None)
    BY DEF ChainFails, QueryFails, AiFails, Errors
  <1>3. code # "authentic" /\ code # "integrity_warning"
    BY DEF Errors
  <1>. QED BY <1>1, <1>2, <1>3, AnswerSafe

\* Past the cache the bytes were not known when the call began.
LEMMA Unknown ==
  ASSUME VInv, NEW v \in Calls, call[v].pc \in {"cache", "extract", "compare", "save"}
  PROVE  call[v] \in Call /\ ~call[v].known
  <1>1. call[v] \in Call /\ Registered(v)
    BY DEF VInv, TypeOK, Consistent
  <1>. QED BY <1>1 DEF Registered, Answered

LEMMA LookUpSafe ==
  ASSUME VInv, NEW v \in Calls, LookUp(v) PROVE VInv'
  <1>. DEFINE e == cache[call[v].file]
  <1>1. call[v].pc = "cache" /\ UNCHANGED world /\ cache' \in [Files -> Entry]
    BY DEF LookUp, VInv, TypeOK
  <1>2. call[v] \in Call /\ ~call[v].known /\ Recorded(v)
    BY <1>1, Unknown DEF VInv, Consistent
  <1>3. e.code \in Cacheable \cup {"none"} /\ e.cred \in Creds \cup {None}
    <2>1. e \in Entry
      BY <1>2 DEF VInv, TypeOK, Call
    <2>. QED BY <2>1 DEF Entry
  <1>4. CASE call' = [call EXCEPT ![v].pc = "extract"]
    <2>. DEFINE k == [call[v] EXCEPT !.pc = "extract"]
    <2>1. k \in Call /\ k.pc = "extract" /\ k.unfit = call[v].unfit /\ k.calm = call[v].calm
      BY <1>2 DEF Call
    <2>2. k.known = call[v].known
      BY <1>2 DEF Call
    <2>3. call' = [call EXCEPT ![v] = k]
      BY <1>4
    <2>. HIDE DEF k
    <2>. QED BY <1>1, <1>2, <2>1, <2>2, <2>3, OnwardSafe
  <1>5. ASSUME NEW found \in FindsVerifiable(e.cred),
               Answer(v, "cache", Recalled(e.code, e.cred, found), e.cred)
        PROVE  VInv'
    <2>. DEFINE code == Recalled(e.code, e.cred, found)
    <2>. HIDE DEF e
    <2>1. code \in Verdicts \cup Errors \cup {"none"}
      BY <1>3 DEF Recalled, Overridden, Verdicts, Cacheable
    <2>2. ASSUME code = "authentic" PROVE e.cred \notin call[v].unfit
      <3>1. found /\ rows[e.cred].state # "revoked" /\ Overridden(e.cred, gone) = "authentic"
        BY <2>2 DEF Recalled
      <3>2. e.cred \in Creds /\ Activated(e.cred) /\ e.cred \notin expired /\ ~gone
        BY <3>1 DEF FindsVerifiable, Overridden
      <3>3. Valid(e.cred)
        BY <3>1, <3>2 DEF Valid, Approved, Activated, VInv, TypeOK, Row
      <3>. QED BY <1>2, <3>2, <3>3 DEF Recorded
    <2>3. Answer(v, "cache", code, e.cred)
      BY <1>5
    <2>. HIDE DEF code
    <2>. QED BY <1>1, <1>2, <1>3, <2>1, <2>2, <2>3, AnswerSafe
  <1>6. \/ call' = [call EXCEPT ![v].pc = "extract"]
        \/ \E found \in FindsVerifiable(e.cred) :
              Answer(v, "cache", Recalled(e.code, e.cred, found), e.cred)
    BY DEF LookUp
  <1>. QED BY <1>4, <1>5, <1>6

LEMMA SaveSafe ==
  ASSUME VInv, NEW v \in Calls, call[v].pc \in {"extract", "compare"},
         UNCHANGED world, cache' \in [Files -> Entry],
         NEW code \in Cacheable, NEW c \in Creds \cup {None}, Save(v, code, c)
  PROVE  VInv'
  <1>. DEFINE k == [call[v] EXCEPT !.pc = "save", !.code = code, !.cred = c]
  <1>1. call[v] \in Call /\ ~call[v].known
    BY Unknown
  <1>2. code \in Verdicts
    BY DEF Verdicts
  <1>3. k \in Call
    BY <1>1, <1>2 DEF Call
  <1>4. k.pc = "save" /\ k.code = code /\ k.unfit = call[v].unfit /\ k.calm = call[v].calm
    BY <1>1 DEF Call
  <1>5. k.known = call[v].known
    BY <1>1 DEF Call
  <1>6. call' = [call EXCEPT ![v] = k]
    BY DEF Save
  <1>. HIDE DEF k
  <1>. QED BY <1>1, <1>3, <1>4, <1>5, <1>6, OnwardSafe

LEMMA ExtractSafe ==
  ASSUME VInv, NEW v \in Calls, Extract(v) PROVE VInv'
  <1>1. call[v].pc = "extract" /\ UNCHANGED world /\ cache' \in [Files -> Entry]
    BY DEF Extract, VInv, TypeOK
  <1>2. ASSUME NEW code \in {"no_identifiers", "no_match"}, Save(v, code, None)
        PROVE  VInv'
    BY <1>1, <1>2, SaveSafe DEF Cacheable
  <1>3. ASSUME NEW c \in Creds, call' = [call EXCEPT ![v].pc = "compare", ![v].cred = c]
        PROVE  VInv'
    <2>. DEFINE k == [call[v] EXCEPT !.pc = "compare", !.cred = c]
    <2>1. call[v] \in Call /\ ~call[v].known
      BY <1>1, Unknown
    <2>2. k \in Call /\ k.pc = "compare" /\ k.unfit = call[v].unfit /\ k.calm = call[v].calm
      BY <2>1 DEF Call
    <2>3. k.known = call[v].known
      BY <2>1 DEF Call
    <2>4. call' = [call EXCEPT ![v] = k]
      BY <1>3
    <2>. HIDE DEF k
    <2>. QED BY <1>1, <2>1, <2>2, <2>3, <2>4, OnwardSafe
  <1>4. \/ \E code \in {"no_identifiers", "no_match"} : Save(v, code, None)
        \/ \E c \in Creds : call' = [call EXCEPT ![v].pc = "compare", ![v].cred = c]
    <2>1. Documented \subseteq Creds
      BY DEF Documented
    <2>. QED BY <2>1 DEF Extract
  <1>. QED BY <1>2, <1>3, <1>4

LEMMA CompareSafe ==
  ASSUME VInv, NEW v \in Calls, Compare(v) PROVE VInv'
  <1>1. call[v].pc = "compare" /\ UNCHANGED world /\ cache' \in [Files -> Entry]
    BY DEF Compare, VInv, TypeOK
  <1>2. call[v].cred \in Creds \cup {None}
    BY <1>1, Unknown DEF Call
  <1>3. PICK code \in Cacheable : Save(v, code, call[v].cred)
    BY DEF Compare, Cacheable
  <1>. QED BY <1>1, <1>2, <1>3, SaveSafe

LEMMA CacheVerdictSafe ==
  ASSUME VInv, NEW v \in Calls, CacheVerdict(v) PROVE VInv'
  <1>1. call[v].pc = "save" /\ UNCHANGED world /\ Answer(v, "ai", call[v].code, call[v].cred)
    BY DEF CacheVerdict
  <1>2. call[v] \in Call /\ ~call[v].known /\ call[v].code \in Cacheable
    BY <1>1, Unknown DEF VInv, Consistent
  <1>3. Stored(call[v].code, call[v].cred) \in Entry
    BY <1>2 DEF Stored, Entry, Call
  <1>4. cache' \in [Files -> Entry]
    BY <1>2, <1>3 DEF CacheVerdict, VInv, TypeOK, Call
  <1>5. call[v].code \in Verdicts /\ call[v].cred \in Creds \cup {None}
    BY <1>2 DEF Verdicts, Call
  <1>. QED BY <1>1, <1>2, <1>4, <1>5, AnswerSafe

LEMMA ReturnSafe ==
  ASSUME VInv, NEW v \in Calls, Return(v) PROVE VInv'
  <1>1. call' = [call EXCEPT ![v] = NoCall] /\ UNCHANGED world /\ cache' \in [Files -> Entry]
    BY DEF Return, VInv, TypeOK
  <1>. QED BY <1>1, IdleCall, OnwardSafe

LEMMA StutterSafe == ASSUME VInv, UNCHANGED vars PROVE VInv'
  <1>1. TypeOK' /\ Minting'
    BY DEF vars, world, VInv, TypeOK, Minting
  <1>2. ASSUME NEW v \in Calls PROVE Consistent(v)'
    <2>1. Consistent(v) /\ UNCHANGED <<rows, chain, expired, gone, call>>
      BY DEF VInv, vars, world
    <2>2. Recorded(v)'
      BY <2>1 DEF Consistent, Recorded, Valid, Agrees, Activated, Approved
    <2>3. Compared(v)' /\ Registered(v)' /\ Justified(v)'
      BY <2>1 DEF Consistent, Compared, Registered, Justified, Answered, Activated
    <2>. QED BY <2>1, <2>2, <2>3 DEF Consistent
  <1>. QED BY <1>1, <1>2 DEF VInv

LEMMA NextVInv == VInv /\ [Next]_vars => VInv'
  <1>. SUFFICES ASSUME VInv, [Next]_vars PROVE VInv' OBVIOUS
  <1>1. CASE World
    BY <1>1, WorldSafe
  <1>2. ASSUME NEW v \in Calls, Step(v) PROVE VInv'
    BY <1>2, StartSafe, ReadRowsSafe, ReadChainSafe, FailsSafe, LookUpSafe, ExtractSafe,
       CompareSafe, CacheVerdictSafe, ReturnSafe DEF Step
  <1>3. CASE UNCHANGED vars
    BY <1>3, StutterSafe
  <1>. QED BY <1>1, <1>2, <1>3 DEF Next

LEMMA VInvHolds == Spec => []VInv
  BY InitVInv, NextVInv, PTL DEF Spec
-----------------------------------------------------------------------------
\* Every variable keeps its type; the revoked and the warning verdicts of the
\* exact comparison never get into the cache.
THEOREM TypeCorrect == Spec => []TypeOK
  <1>1. VInv => TypeOK
    BY DEF VInv
  <1>. QED BY <1>1, VInvHolds, PTL

\* Verify and verifyExactCredentialMatches: what is called authentic by the
\* exact comparison or out of the cache was valid while the call ran.
THEOREM ValidWhenSaid == Spec => []AuthenticWasValid
  <1>1. VInv => AuthenticWasValid
    BY DEF VInv, Consistent, Justified, AuthenticWasValid
  <1>. QED BY <1>1, VInvHolds, PTL

\* Verify: the exact comparison comes first, so a registered file is never
\* answered from the cache or by the AI service.
THEOREM ExactComesFirst == Spec => []RegisteredIsExact
  <1>1. VInv => RegisteredIsExact
    BY DEF VInv, Consistent, Justified, RegisteredIsExact
  <1>. QED BY <1>1, VInvHolds, PTL

\* verifyExactCredentialMatches: a warning about registered bytes means that a
\* row with these bytes and the registry did disagree during the call.
THEOREM WarningsAreCaused == Spec => []WarningHasCause
  <1>1. VInv => WarningHasCause
    BY DEF VInv, Consistent, Justified, WarningHasCause
  <1>. QED BY <1>1, VInvHolds, PTL
=============================================================================
