--------------------------- MODULE SessionsProofs ---------------------------
(***************************************************************************)
(* What the refresh tokens of Sessions promise, for every number of users, *)
(* addresses, calls and tokens.                                            *)
(***************************************************************************)
EXTENDS Sessions, FiniteSetTheorems, TLAPS

USE TokensAssumption, NoneAssumption

Live(t, u) == tokens[t].state = "live" /\ tokens[t].owner = u

\* What a call knows whatever the others do.
Sound(c) ==
    /\ call[c].pc # "idle" => call[c].user \in Users
    /\ call[c].pc \in {"revoke", "store", "email"} => call[c].email \in Emails
    /\ call[c].pc = "rotate" => /\ call[c].token \in Tokens
                                /\ tokens[call[c].token].owner = call[c].user
                                /\ tokens[call[c].token].state # "absent"

\* What a call that issues a token knows as long as nobody overlaps with it.
Alone(c) ==
    /\ call[c].pc \in {"revoke", "store"} => call[c].email = rows[call[c].user].email
    /\ call[c].pc = "store" => \A t \in Tokens : ~Live(t, call[c].user)
    /\ call[c].pc = "rotate" =>
          /\ ~tokens[call[c].token].ended
          /\ tokens[call[c].token].email = rows[call[c].user].email
          /\ \A t \in Tokens : Live(t, call[c].user) => t = call[c].token

\* A live token is the session of its owner.
Current(t) == tokens[t].state = "live" =>
                 /\ tokens[t].owner \in Users
                 /\ ~tokens[t].ended
                 /\ tokens[t].email = rows[tokens[t].owner].email
                 /\ \A s \in Tokens : Live(s, tokens[t].owner) => s = t

Settled == (\A t \in Tokens : Current(t)) /\ (\A c \in Calls : Alone(c))

SInv == /\ TypeOK
        /\ \A c \in Calls : Sound(c)
        /\ raced \/ Settled

LEMMA InitSInv == Init => SInv
  <1>. SUFFICES ASSUME Init PROVE SInv OBVIOUS
  <1>1. NoToken \in Token /\ NoToken.state = "absent"
    BY DEF NoToken, Token
  <1>2. NoCall \in Call /\ NoCall.pc = "idle"
    BY DEF NoCall, Call
  <1>3. TypeOK
    <2>1. tokens \in [Tokens -> Token] /\ call \in [Calls -> Call]
      BY <1>1, <1>2 DEF Init
    <2>2. \A t \in Tokens : tokens[t].state = "absent"
      BY <1>1 DEF Init
    <2>3. born \in 0 .. MaxTokens
      BY DEF Init
    <2>. QED BY <2>1, <2>2, <2>3 DEF Init, TypeOK
  <1>4. \A c \in Calls : Sound(c) /\ Alone(c)
    BY <1>2 DEF Init, Sound, Alone
  <1>5. \A t \in Tokens : Current(t)
    BY <1>1 DEF Init, Current
  <1>. QED BY <1>3, <1>4, <1>5 DEF SInv, Settled
-----------------------------------------------------------------------------
\* A call begins, or ends, and nothing else happens.
LEMMA CallOnly ==
  ASSUME SInv, NEW c \in Calls, NEW k \in Call,
         call' = [call EXCEPT ![c] = k], UNCHANGED <<rows, tokens, born, raced>>,
         Sound(c)', raced \/ Alone(c)'
  PROVE  SInv'
  <1>1. call' \in [Calls -> Call] /\ \A d \in Calls \ {c} : call'[d] = call[d]
    BY DEF SInv, TypeOK
  <1>2. TypeOK'
    BY <1>1 DEF SInv, TypeOK
  <1>3. \A d \in Calls : Sound(d)'
    BY <1>1 DEF SInv, Sound
  <1>4. ASSUME Settled, ~raced PROVE Settled'
    <2>1. \A t \in Tokens : Current(t)'
      BY <1>4 DEF Settled, Current, Live
    <2>2. \A d \in Calls \ {c} : Alone(d)'
      BY <1>1, <1>4 DEF Settled, Alone, Live
    <2>. QED BY <2>1, <2>2, <1>4 DEF Settled
  <1>. QED BY <1>2, <1>3, <1>4 DEF SInv

LEMMA NoCallIsSafe ==
  ASSUME SInv, NEW c \in Calls, End(c)
  PROVE  call' \in [Calls -> Call] /\ call'[c].pc = "idle"
         /\ \A d \in Calls \ {c} : call'[d] = call[d]
  <1>1. NoCall \in Call /\ NoCall.pc = "idle"
    BY DEF NoCall, Call
  <1>. QED BY <1>1 DEF SInv, TypeOK, End

LEMMA StartSafe ==
  ASSUME SInv, NEW c \in Calls, Start(c)
  PROVE  SInv'
  <1>1. CASE StartLogin(c)
    <2>1. PICK u \in Users : /\ rows[u].live
                             /\ Begin(c, [NoCall EXCEPT !.pc = "revoke", !.user = u,
                                                        !.email = rows[u].email])
      BY <1>1 DEF StartLogin
    <2>. DEFINE k == [NoCall EXCEPT !.pc = "revoke", !.user = u, !.email = rows[u].email]
    <2>2. rows[u].email \in Emails
      BY DEF SInv, TypeOK, Row
    <2>3. k \in Call /\ k.pc = "revoke" /\ k.user = u /\ k.email = rows[u].email
      BY <2>2 DEF Call, NoCall
    <2>4. call' = [call EXCEPT ![c] = k] /\ UNCHANGED <<rows, tokens, born, raced>>
      BY <2>1 DEF Begin
    <2>5. call'[c] = k
      BY <2>4 DEF SInv, TypeOK
    <2>6. Sound(c)' /\ Alone(c)'
      BY <2>2, <2>3, <2>4, <2>5 DEF Sound, Alone
    <2>. QED BY <2>3, <2>4, <2>6, CallOnly
  <1>2. CASE StartRefresh(c)
    <2>1. PICK t \in Tokens : /\ Usable(t)
                              /\ Begin(c, [NoCall EXCEPT !.pc = "rotate",
                                              !.user = tokens[t].owner, !.token = t])
      BY <1>2 DEF StartRefresh
    <2>. DEFINE k == [NoCall EXCEPT !.pc = "rotate", !.user = tokens[t].owner, !.token = t]
    <2>2. tokens[t].owner \in Users /\ tokens[t].state = "live"
      BY <2>1 DEF SInv, TypeOK, Usable
    <2>3. k \in Call /\ k.pc = "rotate" /\ k.user = tokens[t].owner /\ k.token = t
      BY <2>2 DEF Call, NoCall
    <2>4. call' = [call EXCEPT ![c] = k] /\ UNCHANGED <<rows, tokens, born, raced>>
      BY <2>1 DEF Begin
    <2>5. call'[c] = k
      BY <2>4 DEF SInv, TypeOK
    <2>6. Sound(c)'
      BY <2>2, <2>3, <2>4, <2>5 DEF Sound
    <2>7. raced \/ Alone(c)'
      <3>1. CASE raced
        BY <3>1
      <3>2. CASE Current(t)
        BY ZenonT(60), <3>2, <2>2, <2>3, <2>4, <2>5 DEF Current, Alone, Live
      <3>. QED BY <3>1, <3>2 DEF SInv, Settled
    <2>. QED BY <2>3, <2>4, <2>6, <2>7, CallOnly
  <1>3. CASE StartLogout(c)
    <2>1. PICK u \in Users : Begin(c, [NoCall EXCEPT !.pc = "logout", !.user = u])
      BY <1>3 DEF StartLogout
    <2>. DEFINE k == [NoCall EXCEPT !.pc = "logout", !.user = u]
    <2>2. k \in Call /\ k.pc = "logout" /\ k.user = u
      BY DEF Call, NoCall
    <2>3. call' = [call EXCEPT ![c] = k] /\ UNCHANGED <<rows, tokens, born, raced>>
      BY <2>1 DEF Begin
    <2>4. call'[c] = k
      BY <2>3 DEF SInv, TypeOK
    <2>5. Sound(c)' /\ Alone(c)'
      BY <2>2, <2>3, <2>4 DEF Sound, Alone
    <2>. QED BY <2>2, <2>3, <2>5, CallOnly
  <1>4. CASE StartUpdateEmail(c)
    <2>1. PICK u \in Users, e \in Emails :
             Begin(c, [NoCall EXCEPT !.pc = "email", !.user = u, !.email = e])
      BY <1>4 DEF StartUpdateEmail
    <2>. DEFINE k == [NoCall EXCEPT !.pc = "email", !.user = u, !.email = e]
    <2>2. k \in Call /\ k.pc = "email" /\ k.user = u /\ k.email = e
      BY DEF Call, NoCall
    <2>3. call' = [call EXCEPT ![c] = k] /\ UNCHANGED <<rows, tokens, born, raced>>
      BY <2>1 DEF Begin
    <2>4. call'[c] = k
      BY <2>3 DEF SInv, TypeOK
    <2>5. Sound(c)' /\ Alone(c)'
      BY <2>2, <2>3, <2>4 DEF Sound, Alone
    <2>. QED BY <2>2, <2>3, <2>5, CallOnly
  <1>. QED BY <1>1, <1>2, <1>3, <1>4 DEF Start

LEMMA FailSafe ==
  ASSUME SInv, NEW c \in Calls, Fail(c)
  PROVE  SInv'
  <1>1. NoCall \in Call /\ call'[c].pc = "idle"
    BY NoCallIsSafe DEF Fail, NoCall, Call
  <1>2. Sound(c)' /\ Alone(c)'
    BY <1>1 DEF Sound, Alone
  <1>. QED BY <1>1, <1>2, CallOnly DEF Fail, End
-----------------------------------------------------------------------------
\* RevokeByUserIdAndType: tokens of S die, and those of T were signed out.
LEMMA Revoked ==
  ASSUME TypeOK, NEW S, NEW T, Revoke(S, T)
  PROVE  /\ tokens' \in [Tokens -> Token]
         /\ \A t \in Tokens : /\ tokens'[t].owner = tokens[t].owner
                              /\ tokens'[t].email = tokens[t].email
                              /\ tokens'[t].ended <=> tokens[t].ended \/ tokens[t].owner \in T
                              /\ tokens'[t].state = IF tokens[t].state = "live" /\ tokens[t].owner \in S
                                                    THEN "dead" ELSE tokens[t].state
  <1>. DEFINE new(t) == [tokens[t] EXCEPT !.state = IF @ = "live" /\ tokens[t].owner \in S
                                                    THEN "dead" ELSE @,
                                          !.ended = @ \/ tokens[t].owner \in T]
  <1>1. tokens' = [t \in Tokens |-> new(t)]
    BY DEF Revoke
  <1>2. ASSUME NEW t \in Tokens
        PROVE  /\ new(t) \in Token
               /\ new(t).owner = tokens[t].owner /\ new(t).email = tokens[t].email
               /\ new(t).ended <=> tokens[t].ended \/ tokens[t].owner \in T
               /\ new(t).state = IF tokens[t].state = "live" /\ tokens[t].owner \in S
                                 THEN "dead" ELSE tokens[t].state
    <2>1. tokens[t] \in Token
      BY DEF TypeOK
    <2>2. (tokens[t].ended \/ tokens[t].owner \in T) \in BOOLEAN
      OBVIOUS
    <2>. QED BY <2>1, <2>2 DEF Token
  <1>. HIDE DEF new
  <1>3. \A t \in Tokens : tokens'[t] = new(t)
    BY <1>1
  <1>. QED BY <1>1, <1>2, <1>3

\* How call d looks after tokens of S were revoked by call c, which is done or
\* about to store a token for a user of S.  Others who issue tokens for S are
\* noticed.
Moves(c, d, S) ==
    \/ call'[d].pc = "idle"
    \/ call'[d] = call[d] /\ d # c
    \/ /\ d = c /\ call[d].pc = "revoke" /\ call'[d].pc = "store"
       /\ call[d].user \in S
       /\ call'[d].user = call[d].user /\ call'[d].email = call[d].email

LEMMA RevocationSafe ==
  ASSUME SInv, NEW c, NEW S \in SUBSET Users, NEW T \in SUBSET S, Revoke(S, T),
         rows' \in [Users -> Row], \A u \in Users \ T : rows'[u].email = rows[u].email,
         UNCHANGED born, call' \in [Calls -> Call], raced' \in BOOLEAN,
         raced => raced',
         \A d \in Calls \ {c} : (\E u \in S : Issuing(d, u)) => raced',
         \A d \in Calls : Moves(c, d, S), T # {} => c \notin Calls \/ call'[c].pc = "idle"
  PROVE  SInv'
  <1>1. /\ tokens' \in [Tokens -> Token]
        /\ \A t \in Tokens : /\ tokens'[t].owner = tokens[t].owner
                             /\ tokens'[t].email = tokens[t].email
                             /\ tokens'[t].ended <=> tokens[t].ended \/ tokens[t].owner \in T
                             /\ tokens'[t].state = IF tokens[t].state = "live" /\ tokens[t].owner \in S
                                                   THEN "dead" ELSE tokens[t].state
    BY Revoked DEF SInv
  <1>2. TypeOK'
    BY <1>1 DEF SInv, TypeOK
  <1>3. ASSUME NEW d \in Calls PROVE Sound(d)'
    <2>1. Sound(d) /\ Moves(c, d, S)
      BY DEF SInv
    <2>. QED BY <1>1, <2>1 DEF Sound, Moves
  <1>4. ASSUME Settled, ~raced' PROVE Settled'
    <2>1. ASSUME NEW t \in Tokens PROVE Current(t)'
      <3>1. SUFFICES ASSUME tokens'[t].state = "live" PROVE Current(t)'
        BY DEF Current
      <3>2. tokens[t].state = "live" /\ tokens[t].owner \notin S /\ Current(t)
        BY <1>1, <1>4, <3>1 DEF Settled
      <3>3. tokens[t].owner \in Users \ T
        BY <3>2 DEF Current
      <3>. QED BY <1>1, <3>2, <3>3 DEF Current, Live
    <2>2. ASSUME NEW d \in Calls PROVE Alone(d)'
      <3>1. Alone(d) /\ Sound(d) /\ Moves(c, d, S)
        BY <1>4 DEF Settled, SInv
      <3>2. CASE call'[d].pc = "idle"
        BY <3>2 DEF Alone
      <3>3. CASE call'[d] = call[d] /\ d # c
        <4>1. CASE call[d].pc \in {"revoke", "store", "rotate"}
          <5>1. call[d].user \in Users \ S
            BY <3>1, <3>3, <4>1, <1>4 DEF Issuing, Sound
          <5>. QED BY <1>1, <3>1, <3>3, <5>1 DEF Alone, Live, Sound
        <4>2. CASE call[d].pc \notin {"revoke", "store", "rotate"}
          BY <3>3, <4>2 DEF Alone
        <4>. QED BY <4>1, <4>2
      <3>4. CASE /\ d = c /\ call[d].pc = "revoke" /\ call'[d].pc = "store"
                 /\ call[d].user \in S
                 /\ call'[d].user = call[d].user /\ call'[d].email = call[d].email
        <4>1. T = {}
          BY <3>4
        <4>2. \A t \in Tokens : ~Live(t, call[d].user)'
          BY <1>1, <3>4 DEF Live
        <4>. QED BY <3>1, <3>4, <4>1, <4>2 DEF Alone, Sound, Live
      <3>. QED BY <3>1, <3>2, <3>3, <3>4 DEF Moves
    <2>. QED BY <2>1, <2>2 DEF Settled
  <1>. QED BY <1>2, <1>3, <1>4 DEF SInv
-----------------------------------------------------------------------------
\* What Touch and Fail tell about the others.
LEMMA Touched ==
  ASSUME SInv, NEW c, NEW u, Touch(c, u)
  PROVE  /\ raced' \in BOOLEAN /\ (raced => raced')
         /\ \A d \in Calls \ {c} : Issuing(d, u) => raced'
  BY DEF Touch, SInv, TypeOK

LEMMA RevokeOldSafe ==
  ASSUME SInv, NEW c \in Calls, RevokeOld(c)
  PROVE  SInv'
  <1>. DEFINE u == call[c].user
  <1>1. u \in Users /\ call[c].pc = "revoke"
    BY DEF SInv, Sound, RevokeOld
  <1>2. call' = [call EXCEPT ![c].pc = "store"] /\ Revoke({u}, {}) /\ Touch(c, u)
    BY DEF RevokeOld
  <1>3. call' \in [Calls -> Call]
    BY ZenonT(60), <1>2 DEF SInv, TypeOK, Call
  <1>4. \A d \in Calls : Moves(c, d, {u})
    BY <1>1, <1>2 DEF Moves, SInv, TypeOK
  <1>5. rows' = rows /\ rows' \in [Users -> Row] /\ UNCHANGED born
    BY DEF RevokeOld, SInv, TypeOK
  <1>6. \A d \in Calls \ {c} : (\E v \in {u} : Issuing(d, v)) => raced'
    BY <1>2, Touched
  <1>7. raced' \in BOOLEAN /\ (raced => raced')
    BY <1>2, Touched
  <1>8. {u} \in SUBSET Users /\ {} \in SUBSET {u}
    BY <1>1
  <1>. HIDE DEF u
  <1>. QED BY <1>2, <1>3, <1>4, <1>5, <1>6, <1>7, <1>8, RevocationSafe

\* A call that is over has moved.
LEMMA EndMoves ==
  ASSUME SInv, NEW c \in Calls, End(c), NEW S
  PROVE  \A d \in Calls : Moves(c, d, S)
  BY NoCallIsSafe DEF Moves

LEMMA LogoutSafe ==
  ASSUME SInv, NEW c \in Calls, Logout(c)
  PROVE  SInv'
  <1>. DEFINE u == call[c].user
  <1>1. u \in Users
    BY DEF SInv, Sound, Logout
  <1>2. End(c) /\ Revoke({u}, {u}) /\ Touch(c, u)
    BY DEF Logout
  <1>3. call' \in [Calls -> Call] /\ call'[c].pc = "idle"
    BY <1>2, NoCallIsSafe
  <1>4. \A d \in Calls : Moves(c, d, {u})
    BY <1>2, EndMoves
  <1>5. rows' = rows /\ rows' \in [Users -> Row] /\ UNCHANGED born
    BY DEF Logout, SInv, TypeOK
  <1>6. \A d \in Calls \ {c} : (\E v \in {u} : Issuing(d, v)) => raced'
    BY <1>2, Touched
  <1>7. raced' \in BOOLEAN /\ (raced => raced')
    BY <1>2, Touched
  <1>8. {u} \in SUBSET Users /\ {u} \in SUBSET {u}
    BY <1>1
  <1>. HIDE DEF u
  <1>. QED BY <1>2, <1>3, <1>4, <1>5, <1>6, <1>7, <1>8, RevocationSafe

LEMMA UpdateEmailSafe ==
  ASSUME SInv, NEW c \in Calls, UpdateEmail(c)
  PROVE  SInv'
  <1>. DEFINE u == call[c].user
  <1>1. u \in Users /\ call[c].email \in Emails
    BY DEF SInv, Sound, UpdateEmail
  <1>2. End(c) /\ Revoke({u}, {u}) /\ Touch(c, u) /\ UNCHANGED born
    BY DEF UpdateEmail, Readdressed
  <1>3. call' \in [Calls -> Call] /\ call'[c].pc = "idle"
    BY <1>2, NoCallIsSafe
  <1>4. \A d \in Calls : Moves(c, d, {u})
    BY <1>2, EndMoves
  <1>5. rows' = [rows EXCEPT ![u].email = call[c].email]
    BY DEF UpdateEmail
  <1>6. /\ rows' \in [Users -> Row]
        /\ \A v \in Users \ {u} : rows'[v].email = rows[v].email
    BY <1>1, <1>5 DEF SInv, TypeOK, Row
  <1>7. \A d \in Calls \ {c} : (\E v \in {u} : Issuing(d, v)) => raced'
    BY <1>2, Touched
  <1>8. raced' \in BOOLEAN /\ (raced => raced')
    BY <1>2, Touched
  <1>9. {u} \in SUBSET Users /\ {u} \in SUBSET {u}
    BY <1>1
  <1>. HIDE DEF u
  <1>. QED BY <1>2, <1>3, <1>4, <1>6, <1>7, <1>8, <1>9, RevocationSafe

\* No call of the model is a transfer: any name that is not theirs will do.
LEMMA TransferSafe ==
  ASSUME SInv, TransferSuperAdmin
  PROVE  SInv'
  <1>1. PICK u \in Users, v \in Users :
           /\ Revoke(Parties(u, v), {u, v})
           /\ raced' = (raced \/ \E d \in Calls : Issuing(d, u) \/ Issuing(d, v))
           /\ UNCHANGED <<rows, born, call>>
    BY DEF TransferSuperAdmin
  <1>. DEFINE c == CHOOSE x : x \notin Calls
  <1>2. c \notin Calls
    BY NoSetContainsEverything
  <1>. HIDE DEF c
  <1>3. Revoke({u, v}, {u, v}) /\ {u, v} \in SUBSET Users /\ {u, v} \in SUBSET {u, v}
    BY <1>1 DEF Parties
  <1>4. rows' \in [Users -> Row] /\ call' \in [Calls -> Call] /\ rows' = rows
    BY <1>1 DEF SInv, TypeOK
  <1>5. \A d \in Calls : Moves(c, d, {u, v})
    BY <1>1, <1>2 DEF Moves
  <1>6. raced' \in BOOLEAN /\ (raced => raced')
    BY <1>1 DEF SInv, TypeOK
  <1>7. \A d \in Calls \ {c} : (\E w \in {u, v} : Issuing(d, w)) => raced'
    BY <1>1
  <1>8. UNCHANGED born
    BY <1>1
  <1>. QED BY <1>2, <1>3, <1>4, <1>5, <1>6, <1>7, <1>8, RevocationSafe
-----------------------------------------------------------------------------
\* A token is stored for user u by call c, which is over: t, the one it
\* replaces, is the only one that may have been alive.
LEMMA IssueSafe ==
  ASSUME SInv, NEW c \in Calls, NEW u \in Users, NEW k \in Token, NEW t,
         Issuing(c, u), End(c), Touch(c, u), UNCHANGED rows,
         born < MaxTokens, born' = born + 1,
         k.state = "live", k.owner = u,
         tokens' \in [Tokens -> Token], tokens'[born'] = k,
         \A s \in Tokens \ {born'} : \/ tokens'[s] = tokens[s] /\ s # t
                                     \/ s = t /\ tokens'[s] = [tokens[s] EXCEPT !.state = "dead"],
         t \in Tokens => tokens[t].state # "absent",
         raced \/ /\ ~k.ended /\ k.email = rows[u].email
                  /\ \A s \in Tokens : Live(s, u) => s = t
  PROVE  SInv'
  <1>1. /\ raced' \in BOOLEAN /\ (raced => raced')
        /\ \A d \in Calls \ {c} : Issuing(d, u) => raced'
    BY Touched
  <1>2. /\ call' \in [Calls -> Call] /\ call'[c].pc = "idle"
        /\ \A d \in Calls \ {c} : call'[d] = call[d]
    BY NoCallIsSafe
  <1>3. born \in 0 .. MaxTokens /\ born' \in Tokens /\ born' \in 0 .. MaxTokens
    BY DEF SInv, TypeOK, Tokens
  <1>4. tokens[born'].state = "absent"
    BY <1>3 DEF SInv, TypeOK, Tokens
  <1>5. TypeOK'
    <2>1. ASSUME NEW s \in Tokens, tokens'[s].state # "absent"
          PROVE  s <= born' /\ tokens'[s].owner \in Users
      <3>1. CASE s = born'
        BY <3>1, <1>3
      <3>2. CASE s # born' /\ tokens'[s] = tokens[s]
        BY <2>1, <3>2, <1>3 DEF SInv, TypeOK, Tokens
      <3>3. CASE s # born' /\ s = t /\ tokens'[s] = [tokens[s] EXCEPT !.state = "dead"]
        <4>1. tokens[s].state # "absent" /\ tokens[s] \in Token
          BY <3>3 DEF SInv, TypeOK
        <4>2. tokens'[s].owner = tokens[s].owner
          BY <3>3, <4>1 DEF Token
        <4>3. s <= born /\ tokens[s].owner \in Users
          BY <4>1 DEF SInv, TypeOK
        <4>. QED BY <1>3, <4>2, <4>3 DEF Tokens
      <3>. QED BY <3>1, <3>2, <3>3
    <2>. QED BY <1>1, <1>2, <1>3, <2>1 DEF SInv, TypeOK
  <1>6. \A s \in Tokens \ {born'} :
           /\ tokens'[s].owner = tokens[s].owner /\ tokens'[s].email = tokens[s].email
           /\ tokens'[s].ended = tokens[s].ended
           /\ tokens[s].state # "absent" => tokens'[s].state # "absent"
           /\ tokens'[s].state = "live" => tokens[s].state = "live" /\ s # t
    BY DEF SInv, TypeOK, Token
  <1>7. ASSUME NEW d \in Calls PROVE Sound(d)'
    <2>1. Sound(d)
      BY DEF SInv
    <2>. QED BY <1>2, <1>4, <1>6, <2>1 DEF Sound
  <1>8. ASSUME ~raced' PROVE Settled'
    <2>1. /\ Settled /\ ~k.ended /\ k.email = rows[u].email
          /\ \A s \in Tokens : Live(s, u) => s = t
      BY <1>1, <1>8 DEF SInv
    <2>0. ASSUME NEW w, w # u, NEW q \in Tokens, tokens'[q].state = "live", tokens'[q].owner = w
          PROVE  Live(q, w)
      BY <1>6, <2>0 DEF Live
    <2>2. \A s \in Tokens : Live(s, u)' => s = born'
      BY <2>1, <1>6 DEF Live
    <2>3. ASSUME NEW s \in Tokens PROVE Current(s)'
      <3>1. CASE s = born'
        BY <2>1, <2>2, <3>1 DEF Current
      <3>2. CASE s # born'
        <4>1. SUFFICES ASSUME tokens'[s].state = "live" PROVE Current(s)'
          BY DEF Current
        <4>2. tokens[s].state = "live" /\ Current(s)
          BY <2>1, <1>6, <3>2, <4>1 DEF Settled
        <4>3. tokens[s].owner # u
          BY <2>2, <1>6, <3>2, <4>1 DEF Live
        <4>. QED BY <1>6, <2>0, <3>2, <4>2, <4>3 DEF Current, Live
      <3>. QED BY <3>1, <3>2
    <2>4. ASSUME NEW d \in Calls PROVE Alone(d)'
      <3>1. CASE d = c
        BY <1>2, <3>1 DEF Alone
      <3>2. CASE d # c /\ call[d].pc \notin {"revoke", "store", "rotate"}
        BY <1>2, <3>2 DEF Alone
      <3>3. CASE d # c /\ call[d].pc \in {"revoke", "store", "rotate"}
        <4>1. call[d].user # u /\ Alone(d) /\ Sound(d)
          BY <1>1, <1>8, <2>1, <3>3 DEF Issuing, Settled, SInv
        <4>3. call[d].pc = "rotate" => call[d].token \in Tokens \ {born'}
          BY <1>4, <4>1 DEF Sound
        <4>. QED BY <1>2, <1>6, <2>0, <3>3, <4>1, <4>3 DEF Alone, Live
      <3>. QED BY <3>1, <3>2, <3>3
    <2>. QED BY <2>3, <2>4 DEF Settled
  <1>. QED BY <1>5, <1>7, <1>8, <1>1 DEF SInv, TypeOK

LEMMA StoreTokenSafe ==
  ASSUME SInv, NEW c \in Calls, StoreToken(c)
  PROVE  SInv'
  <1>. DEFINE u == call[c].user
              k == [state |-> "live", owner |-> u, email |-> call[c].email, ended |-> FALSE]
              none == CHOOSE x : x \notin Tokens
  <1>1. call[c].pc = "store" /\ u \in Users /\ call[c].email \in Emails
    BY DEF SInv, Sound, StoreToken
  <1>2. k \in Token /\ k.state = "live" /\ k.owner = u /\ ~k.ended /\ k.email = call[c].email
    BY <1>1 DEF Token
  <1>3. /\ End(c) /\ Touch(c, u) /\ UNCHANGED rows
        /\ born < MaxTokens /\ born' = born + 1
        /\ tokens' = [tokens EXCEPT ![born'] = k]
    BY DEF StoreToken
  <1>4. born' \in Tokens
    BY <1>3 DEF SInv, TypeOK, Tokens
  <1>5. none \notin Tokens
    BY NoSetContainsEverything
  <1>6. raced \/ /\ k.email = rows[u].email
                 /\ \A s \in Tokens : Live(s, u) => s = none
    BY <1>1, <1>2 DEF SInv, Settled, Alone
  <1>7. Issuing(c, u)
    BY <1>1 DEF Issuing
  <1>. HIDE DEF u, k, none
  <1>8. /\ tokens' \in [Tokens -> Token] /\ tokens'[born'] = k
        /\ \A s \in Tokens \ {born'} : tokens'[s] = tokens[s] /\ s # none
    BY <1>2, <1>3, <1>4, <1>5 DEF SInv, TypeOK
  <1>. QED BY <1>1, <1>2, <1>3, <1>5, <1>6, <1>7, <1>8, IssueSafe

LEMMA RotateSafe ==
  ASSUME SInv, NEW c \in Calls, Rotate(c)
  PROVE  SInv'
  <1>. DEFINE u == call[c].user
              t == call[c].token
              k == [tokens[t] EXCEPT !.state = "live"]
  <1>1. /\ call[c].pc = "rotate" /\ u \in Users
        /\ t \in Tokens /\ tokens[t].owner = u /\ tokens[t].state # "absent"
    BY DEF SInv, Sound, Rotate
  <1>2. k \in Token /\ k.state = "live" /\ k.owner = u /\ k.ended = tokens[t].ended
        /\ k.email = tokens[t].email
    <2>1. tokens[t] \in Token
      BY <1>1 DEF SInv, TypeOK
    <2>2. k \in Token /\ k.state = "live" /\ k.owner = u /\ k.email = tokens[t].email
      BY <1>1, <2>1 DEF Token
    <2>3. k.ended = tokens[t].ended
      BY <2>1 DEF Token
    <2>. QED BY <2>2, <2>3
  <1>3. /\ End(c) /\ Touch(c, u) /\ UNCHANGED rows
        /\ born < MaxTokens /\ born' = born + 1
        /\ tokens' = [tokens EXCEPT ![t].state = "dead", ![born'] = k]
    BY DEF Rotate, NextToken
  <1>4. born' \in Tokens /\ t # born'
    BY <1>1, <1>3 DEF SInv, TypeOK, Tokens
  <1>5. raced \/ /\ ~k.ended /\ k.email = rows[u].email
                 /\ \A s \in Tokens : Live(s, u) => s = t
    <2>1. raced \/ Alone(c)
      BY DEF SInv, Settled
    <2>2. CASE Alone(c)
      BY <1>1, <1>2, <2>2 DEF Alone
    <2>. QED BY <2>1, <2>2
  <1>6. Issuing(c, u)
    BY <1>1 DEF Issuing
  <1>. HIDE DEF u, t, k
  <1>7. /\ tokens' \in [Tokens -> Token] /\ tokens'[born'] = k
        /\ \A s \in Tokens \ {born'} : \/ tokens'[s] = tokens[s] /\ s # t
                                       \/ s = t /\ tokens'[s] = [tokens[s] EXCEPT !.state = "dead"]
    <2>1. tokens \in [Tokens -> Token] /\ [tokens[t] EXCEPT !.state = "dead"] \in Token
      BY <1>1 DEF SInv, TypeOK, Token
    <2>. DEFINE dead == [tokens[t] EXCEPT !.state = "dead"]
    <2>2. tokens' = [tokens EXCEPT ![t] = dead, ![born'] = k]
      BY <1>3
    <2>3. tokens \in [Tokens -> Token] /\ dead \in Token /\ k \in Token
      BY <2>1, <1>2
    <2>4. dead = [tokens[t] EXCEPT !.state = "dead"]
      OBVIOUS
    <2>. HIDE DEF dead
    <2>5. /\ tokens' \in [Tokens -> Token] /\ tokens'[born'] = k /\ tokens'[t] = dead
          /\ \A s \in Tokens \ {born', t} : tokens'[s] = tokens[s]
      BY <1>1, <1>4, <2>2, <2>3
    <2>6. ASSUME NEW s \in Tokens \ {born'}
          PROVE  \/ tokens'[s] = tokens[s] /\ s # t
                 \/ s = t /\ tokens'[s] = [tokens[s] EXCEPT !.state = "dead"]
      <3>1. CASE s = t
        BY <2>4, <2>5, <3>1
      <3>2. CASE s # t
        BY <2>5, <3>2
      <3>. QED BY <3>1, <3>2
    <2>. QED BY <2>5, <2>6
  <1>. QED BY ZenonT(60), <1>1, <1>2, <1>3, <1>5, <1>6, <1>7, IssueSafe
-----------------------------------------------------------------------------
LEMMA ExpireSafe ==
  ASSUME SInv, NEW t \in Tokens, Expire(t)
  PROVE  SInv'
  <1>1. tokens' \in [Tokens -> Token]
    BY DEF Expire, SInv, TypeOK, Token
  <1>2. \A s \in Tokens :
           /\ tokens'[s].owner = tokens[s].owner /\ tokens'[s].email = tokens[s].email
           /\ tokens'[s].ended = tokens[s].ended
           /\ tokens[s].state # "absent" <=> tokens'[s].state # "absent"
           /\ tokens'[s].state = "live" => tokens[s].state = "live"
    BY DEF Expire, SInv, TypeOK, Token
  <1>3. UNCHANGED <<rows, born, call, raced>>
    BY DEF Expire
  <1>4. TypeOK'
    BY <1>1, <1>2, <1>3 DEF SInv, TypeOK
  <1>5. \A c \in Calls : Sound(c)'
    BY <1>2, <1>3 DEF SInv, Sound
  <1>6. ASSUME Settled PROVE Settled'
    <2>1. \A s \in Tokens : Current(s)'
      BY <1>2, <1>3, <1>6 DEF Settled, Current, Live
    <2>2. \A c \in Calls : Alone(c)'
      BY <1>2, <1>3, <1>6 DEF Settled, Alone, Live, SInv, Sound
    <2>. QED BY <2>1, <2>2 DEF Settled
  <1>. QED BY <1>3, <1>4, <1>5, <1>6 DEF SInv

\* A deletion or a restoration leaves the addresses and the tokens alone.
LEMMA TrashSafe ==
  ASSUME SInv, NEW u \in Users, NEW b \in BOOLEAN,
         rows' = [rows EXCEPT ![u].live = b], UNCHANGED <<tokens, born, call, raced>>
  PROVE  SInv'
  <1>1. rows' \in [Users -> Row] /\ \A v \in Users : rows'[v].email = rows[v].email
    BY DEF SInv, TypeOK, Row
  <1>2. TypeOK'
    BY <1>1 DEF SInv, TypeOK
  <1>3. \A c \in Calls : Sound(c)'
    BY DEF SInv, Sound
  <1>4. ASSUME Settled PROVE Settled'
    <2>1. \A t \in Tokens : Current(t)'
      BY <1>1, <1>4 DEF Settled, Current, Live
    <2>2. \A c \in Calls : Alone(c)'
      BY ZenonT(60), <1>1, <1>4 DEF Settled, Alone, Live, SInv, Sound
    <2>. QED BY <2>1, <2>2 DEF Settled
  <1>. QED BY <1>2, <1>3, <1>4 DEF SInv

LEMMA NextSInv == SInv /\ [Next]_vars => SInv'
  <1>. SUFFICES ASSUME SInv, [Next]_vars PROVE SInv' OBVIOUS
  <1>1. ASSUME NEW c \in Calls, Start(c) PROVE SInv'
    BY <1>1, StartSafe
  <1>2. ASSUME NEW c \in Calls, Step(c) PROVE SInv'
    BY <1>2, RevokeOldSafe, StoreTokenSafe, RotateSafe, LogoutSafe, UpdateEmailSafe DEF Step
  <1>3. ASSUME NEW c \in Calls, Fail(c) PROVE SInv'
    BY <1>3, FailSafe
  <1>4. ASSUME NEW t \in Tokens, Expire(t) PROVE SInv'
    BY <1>4, ExpireSafe
  <1>5. CASE TransferSuperAdmin
    BY <1>5, TransferSafe
  <1>6. CASE Delete
    BY <1>6, TrashSafe, FALSE \in BOOLEAN DEF Delete
  <1>7. CASE Restore
    BY <1>7, TrashSafe, TRUE \in BOOLEAN DEF Restore
  <1>8. CASE UNCHANGED vars
    BY <1>8 DEF vars, SInv, TypeOK, Sound, Settled, Current, Alone, Live
  <1>. QED BY <1>1, <1>2, <1>3, <1>4, <1>5, <1>6, <1>7, <1>8 DEF Next

LEMMA SInvHolds == Spec => []SInv
  BY InitSInv, NextSInv, PTL DEF Spec
-----------------------------------------------------------------------------
\* Users, tokens and calls keep their types, and every stored token an owner.
THEOREM TypeCorrect == Spec => []TypeOK
  <1>1. SInv => TypeOK BY DEF SInv
  <1>. QED BY <1>1, SInvHolds, PTL

\* Outside the overlap of two calls that issue tokens of one user, a user has
\* one refresh token at most.
THEOREM OneTokenPerUser == Spec => []OneSession
  <1>1. ASSUME SInv, ~raced, NEW u \in Users PROVE Cardinality(LiveTokens(u)) <= 1
    <2>1. \A s, t \in LiveTokens(u) : s = t
      BY <1>1 DEF SInv, Settled, Current, Live, LiveTokens
    <2>2. CASE LiveTokens(u) = {}
      BY <2>2, FS_EmptySet
    <2>3. ASSUME NEW t \in LiveTokens(u) PROVE Cardinality(LiveTokens(u)) <= 1
      <3>1. LiveTokens(u) = {t}
        BY <2>1
      <3>. QED BY <3>1, FS_Singleton
    <2>. QED BY <2>2, <2>3
  <1>2. SInv => OneSession
    BY <1>1 DEF OneSession
  <1>. QED BY <1>2, SInvHolds, PTL

\* A sign-out ends every session that began before it, rotated ones included.
THEOREM SignOutsHold == Spec => []SignOutHolds
  <1>1. SInv => SignOutHolds BY DEF SInv, Settled, Current, SignOutHolds
  <1>. QED BY <1>1, SInvHolds, PTL

\* A session belongs to somebody who proved to own the address of the account.
THEOREM AddressesAreProved == Spec => []SessionsMatchEmail
  <1>1. SInv => SessionsMatchEmail
    BY DEF SInv, Settled, Current, SessionsMatchEmail, LiveTokens
  <1>. QED BY <1>1, SInvHolds, PTL
=============================================================================
