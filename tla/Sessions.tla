------------------------------ MODULE Sessions ------------------------------
(***************************************************************************)
(* Refresh tokens: feature/auth/auth_service.go issues and rotates them,   *)
(* user_service.go revokes them when an e-mail address changes or the      *)
(* office of the super administrator is handed over.  GoogleLogin runs     *)
(* statement by statement, without a transaction; Refresh decides on a     *)
(* token that it read before its transaction.                              *)
(*                                                                         *)
(* A token is the number of its row; the random string, the cookie or the  *)
(* body that carries it, and its access token, a JWT that nothing revokes, *)
(* are left out.  Roles and the contract are in UserRoles: a deletion, a   *)
(* restoration and a transfer are one step here, their commit.             *)
(***************************************************************************)
EXTENDS Naturals, FiniteSets

CONSTANTS Users,     \* rows of the users table
          Emails,    \* addresses
          Calls,     \* the calls that may be served at the same time
          MaxTokens, \* bound of the model: how many tokens are ever stored
          None       \* SQL NULL

ASSUME TokensAssumption == MaxTokens \in Nat
ASSUME NoneAssumption == None \notin Users \cup Emails

Tokens == 1 .. MaxTokens

\* A row of users: its address, and whether deleted_at is not set.
Row == [email: Emails, live: BOOLEAN]

\* A row of user_tokens.  It is dead once it is revoked or expired.  email is
\* the address that Google vouched for when its chain of rotations began, and
\* ended tells that the user was signed out since.
Token == [state: {"absent", "live", "dead"}, owner: Users \cup {None},
          email: Emails \cup {None}, ended: BOOLEAN]

Call == [pc: {"idle", "revoke", "store", "rotate", "logout", "email"},
         user: Users \cup {None}, email: Emails \cup {None}, token: Tokens \cup {0}]

VARIABLES rows,   \* the users table
          tokens, \* the user_tokens table
          born,   \* how many tokens were ever stored
          call,   \* what each call is doing
          raced   \* history: has a call issued or revoked tokens of a user for
                  \* whom another one was about to issue one?

vars == <<rows, tokens, born, call, raced>>

NoToken == [state |-> "absent", owner |-> None, email |-> None, ended |-> FALSE]
NoCall == [pc |-> "idle", user |-> None, email |-> None, token |-> 0]

\* The users that init-super-admin or `seed' has stored, some of them deleted.
Init ==
    /\ rows \in [Users -> Row]
    /\ \A u, v \in Users : rows[u].email = rows[v].email => u = v
    /\ tokens = [t \in Tokens |-> NoToken]
    /\ born = 0
    /\ call = [c \in Calls |-> NoCall]
    /\ raced = FALSE
-----------------------------------------------------------------------------
Issuing(d, u) == call[d].pc \in {"revoke", "store", "rotate"} /\ call[d].user = u

\* Call c issues or revokes tokens of u now.
Touch(c, u) == raced' = (raced \/ \E d \in Calls \ {c} : Issuing(d, u))

\* RevokeByUserIdAndType for the users of S; for those of T it is a sign-out.
Revoke(S, T) ==
    tokens' = [t \in Tokens |->
                  [tokens[t] EXCEPT !.state = IF @ = "live" /\ tokens[t].owner \in S
                                              THEN "dead" ELSE @,
                                    !.ended = @ \/ tokens[t].owner \in T]]

End(c) == call' = [call EXCEPT ![c] = NoCall]

Begin(c, k) ==
    /\ call[c].pc = "idle"
    /\ call' = [call EXCEPT ![c] = k]
    /\ UNCHANGED <<rows, tokens, born, raced>>
-----------------------------------------------------------------------------
(* GoogleLogin: find the user, revoke, store. *)

StartLogin(c) ==
    \E u \in Users :
        /\ rows[u].live
        /\ Begin(c, [NoCall EXCEPT !.pc = "revoke", !.user = u, !.email = rows[u].email])

RevokeOld(c) ==
    /\ call[c].pc = "revoke"
    /\ call' = [call EXCEPT ![c].pc = "store"]
    /\ Revoke({call[c].user}, {})
    /\ Touch(c, call[c].user)
    /\ UNCHANGED <<rows, born>>

StoreToken(c) ==
    /\ call[c].pc = "store"
    /\ born < MaxTokens
    /\ born' = born + 1
    /\ tokens' = [tokens EXCEPT ![born'] = [state |-> "live", owner |-> call[c].user,
                                            email |-> call[c].email, ended |-> FALSE]]
    /\ Touch(c, call[c].user)
    /\ End(c)
    /\ UNCHANGED rows
-----------------------------------------------------------------------------
(* Refresh: read the token, then revoke it and store the next one. *)

\* Variant: any token that is stored.
Usable_Unchecked(t) == tokens[t].state # "absent"

Usable(t) == tokens[t].state = "live"

\* Whether the owner was deleted is not asked.
StartRefresh(c) ==
    \E t \in Tokens :
        /\ Usable(t)
        /\ Begin(c, [NoCall EXCEPT !.pc = "rotate", !.user = tokens[t].owner, !.token = t])

NextToken(t) == [tokens[t] EXCEPT !.state = "live"]

Rotate(c) ==
    /\ call[c].pc = "rotate"
    /\ born < MaxTokens
    /\ born' = born + 1
    /\ tokens' = [tokens EXCEPT ![call[c].token].state = "dead",
                                ![born'] = NextToken(call[c].token)]
    /\ Touch(c, call[c].user)
    /\ End(c)
    /\ UNCHANGED rows

Expire(t) ==
    /\ tokens[t].state = "live"
    /\ tokens' = [tokens EXCEPT ![t].state = "dead"]
    /\ UNCHANGED <<rows, born, call, raced>>
-----------------------------------------------------------------------------
(* The calls that sign a user out. *)

\* The middleware lets nobody in who is deleted.
StartLogout(c) ==
    \E u \in Users : rows[u].live /\ Begin(c, [NoCall EXCEPT !.pc = "logout", !.user = u])

Logout(c) ==
    /\ call[c].pc = "logout"
    /\ Revoke({call[c].user}, {call[c].user})
    /\ Touch(c, call[c].user)
    /\ End(c)
    /\ UNCHANGED <<rows, born>>

\* UpdateEmail by the user, or Update by an administrator.
StartUpdateEmail(c) ==
    \E u \in Users, e \in Emails :
        /\ rows[u].live
        /\ \A v \in Users \ {u} : rows[v].email # e
        /\ Begin(c, [NoCall EXCEPT !.pc = "email", !.user = u, !.email = e])

\* users.email is UNIQUE, deleted rows included.
IndexAllows(u, e) == \A v \in Users \ {u} : rows[v].email # e

\* Variant: the tokens are not revoked.
Readdressed_Nobody(u) == {}

\* Whose tokens are revoked when u gets an address.
Readdressed(u) == {u}

UpdateEmail(c) ==
    /\ call[c].pc = "email"
    /\ LET u == call[c].user
       IN  /\ IndexAllows(u, call[c].email)
           /\ rows' = [rows EXCEPT ![u].email = call[c].email]
           /\ Revoke(Readdressed(u), {u})
           /\ Touch(c, u)
    /\ End(c)
    /\ UNCHANGED born

\* Variant: only the caller is signed out.
Parties_CallerOnly(u, v) == {u}

\* TransferSuperAdmin from u to v signs both out.
Parties(u, v) == {u, v}

TransferSuperAdmin ==
    \E u, v \in Users :
        /\ u # v /\ rows[v].live
        /\ Revoke(Parties(u, v), {u, v})
        /\ raced' = (raced \/ \E d \in Calls : Issuing(d, u) \/ Issuing(d, v))
        /\ UNCHANGED <<rows, born, call>>

\* Neither of them touches the tokens.
Delete == \E u \in Users : /\ rows[u].live
                           /\ rows' = [rows EXCEPT ![u].live = FALSE]
                           /\ UNCHANGED <<tokens, born, call, raced>>

Restore == \E u \in Users : /\ ~rows[u].live
                            /\ rows' = [rows EXCEPT ![u].live = TRUE]
                            /\ UNCHANGED <<tokens, born, call, raced>>

\* A statement fails, the index refuses the address, or the caller is gone.
Fail(c) ==
    /\ call[c].pc # "idle"
    /\ End(c)
    /\ UNCHANGED <<rows, tokens, born, raced>>
-----------------------------------------------------------------------------
Start(c) == StartLogin(c) \/ StartRefresh(c) \/ StartLogout(c) \/ StartUpdateEmail(c)

Step(c) == RevokeOld(c) \/ StoreToken(c) \/ Rotate(c) \/ Logout(c) \/ UpdateEmail(c)

Next == \/ \E c \in Calls : Start(c) \/ Step(c) \/ Fail(c)
        \/ \E t \in Tokens : Expire(t)
        \/ TransferSuperAdmin \/ Delete \/ Restore

Spec == Init /\ [][Next]_vars
-----------------------------------------------------------------------------
(* Properties *)

LiveTokens(u) == {t \in Tokens : tokens[t].state = "live" /\ tokens[t].owner = u}

\* Tokens are numbered as they are stored and belong to somebody, rotations
\* included.
TypeOK ==
    /\ rows \in [Users -> Row]
    /\ tokens \in [Tokens -> Token]
    /\ born \in 0 .. MaxTokens
    /\ \A t \in Tokens : tokens[t].state # "absent" => t <= born /\ tokens[t].owner \in Users
    /\ call \in [Calls -> Call]
    /\ raced \in BOOLEAN

\* A sign-in replaces the session before it and a rotation the token before it:
\* a user has one refresh token at most, unless two calls were issuing tokens
\* at once.
OneSession == raced \/ \A u \in Users : Cardinality(LiveTokens(u)) <= 1

\* Logout, a new address and a transfer end the sessions begun before them,
\* however often their tokens were rotated; only a call that had read its token
\* by then can save one.
SignOutHolds ==
    raced \/ \A t \in Tokens : tokens[t].state = "live" => ~tokens[t].ended

\* Whoever holds a session has proved to own the address that the account has
\* now.
SessionsMatchEmail ==
    raced \/ \A u \in Users : \A t \in LiveTokens(u) : tokens[t].email = rows[u].email
=============================================================================
