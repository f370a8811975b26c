---------------------------- MODULE Verification ----------------------------
(***************************************************************************)
(* Public verification of an uploaded file (credentialService.Verify):     *)
(* rows with the same bytes are compared with the registry; any other      *)
(* upload is answered from the cache in MongoDB or by the AI service.  No  *)
(* step holds a lock, while credentials are issued and revoked, their      *)
(* parties come and go, and time passes.                                   *)
(*                                                                         *)
(* A file stands for its bytes.  A matching token has the facts of its     *)
(* row, which never change after the mint: only the revocation is          *)
(* compared.                                                               *)
(* Holder and issuer are one party, so that the three verdicts about       *)
(* disabled parties are one; scores and percentages are left out.          *)
(***************************************************************************)
EXTENDS Naturals, FiniteSets

CONSTANTS Creds,   \* credentials
          Files,   \* the bytes that are uploaded
          FileOf,  \* the file of each credential
          Seeded,  \* the credentials that `seed' stored as approved
          Calls,   \* verifications that may be served at the same time
          AiVerdicts, \* what the AI service may answer to a comparison
          None

ASSUME FileAssumption == Files # {} /\ FileOf \in [Creds -> Files]
ASSUME SeededAssumption == Seeded \subseteq Creds
ASSUME NoneAssumption == None \notin Creds

\* verifyVerdictToCode knows more names for what is not authentic.
ASSUME AiAssumption == AiVerdicts \subseteq {"authentic", "not_similar"}

\* What Store puts into the cache.
Cacheable == {"authentic", "not_similar", "disabled", "expired", "no_identifiers", "no_match"}
Verdicts == Cacheable \cup {"revoked", "integrity_warning"}
Errors == {"chain_unavailable", "ai_failed", "query_failed"}

\* A row of credentials; token_id is set in the transaction that activates it,
\* but for the seeded ones.  No row is visible before.
Row == [state: {"absent", "approved", "revoked"}, token: BOOLEAN]

Entry == [code: Cacheable \cup {"none"}, cred: Creds \cup {None}]

\* found and dead: the rows with the same bytes, and those of them revoked, when
\* they were read; gone: whether their party was in the trash then.
\* History: unfit, the credentials that have not been valid for a moment since
\* the call began; calm, those whose row agreed with the chain all the time;
\* known, whether a row had the bytes when it began.
Call == [pc: {"idle", "exact", "chain", "cache", "extract", "compare", "save", "answered"},
         file: Files, found: SUBSET Creds, dead: SUBSET Creds, gone: BOOLEAN,
         code: Verdicts \cup Errors \cup {"none"}, cred: Creds \cup {None},
         from: {"none", "exact", "cache", "ai"},
         unfit: SUBSET Creds, calm: SUBSET Creds, known: BOOLEAN]

VARIABLES rows,    \* committed rows of credentials
          chain,   \* the token of each credential in the registry
          busy,    \* the transaction that is changing a credential
          expired, \* credentials whose expires_at has passed
          gone,    \* is the party soft-deleted?
          cache,   \* credential_verifications, by the hash of the upload
          call     \* what each verification is doing

world == <<rows, chain, busy, expired, gone>>
vars == <<world, cache, call>>

AnyFile == CHOOSE f \in Files : TRUE
NoEntry == [code |-> "none", cred |-> None]
NoCall == [pc |-> "idle", file |-> AnyFile, found |-> {}, dead |-> {}, gone |-> FALSE,
           code |-> "none", cred |-> None, from |-> "none",
           unfit |-> {}, calm |-> {}, known |-> FALSE]

\* The seeder stores approved and revoked rows without a token ...
SeededStates(c) == IF c \in Seeded THEN {"approved", "revoked"} ELSE {"absent"}

\* ... and uses a file twice only when one of the rows frees its hash.
Init ==
    /\ rows \in {f \in [Creds -> Row] :
                    \A c \in Creds : ~f[c].token /\ f[c].state \in SeededStates(c)}
    /\ \A c, d \in Seeded : /\ FileOf[c] = FileOf[d]
                            /\ rows[c].state = "approved" /\ rows[d].state = "approved"
                            => c = d
    /\ chain = [c \in Creds |-> "none"]
    /\ busy = [c \in Creds |-> "no"]
    /\ expired = {}
    /\ gone = FALSE
    /\ cache = [f \in Files |-> NoEntry]
    /\ call = [v \in Calls |-> NoCall]
-----------------------------------------------------------------------------
Activated(c) == rows[c].state # "absent"
Approved(c) == rows[c].state = "approved"

Valid(c) == Approved(c) /\ c \notin expired /\ ~gone

\* The row and the registry say the same of a credential.
Agrees(c) == Activated(c) => /\ rows[c].token
                             /\ chain[c] = IF Approved(c) THEN "live" ELSE "revoked"

\* Every step of the world is seen by the calls under way.
Witnessed == call' = [v \in Calls |-> [call[v] EXCEPT !.unfit = {c \in @ : ~Valid(c)'},
                                                      !.calm = {c \in @ : Agrees(c)'}]]

SetBusy(c, what) == busy' = [busy EXCEPT ![c] = what]
-----------------------------------------------------------------------------
(* The world: CredentialLifecycle, as far as a verification can see it. *)

\* The unique index lets one credential of a file be there at a time; a mint
\* that was rolled back leaves its token behind, under an id never used again.
Mint(c) ==
    /\ rows[c].state = "absent" /\ chain[c] = "none"
    /\ \A d \in Creds \ {c} : FileOf[d] = FileOf[c] => ~Approved(d) /\ busy[d] = "no"
    /\ chain' = [chain EXCEPT ![c] = "live"]
    /\ SetBusy(c, "minting")
    /\ UNCHANGED <<rows, expired, gone, cache>>

CommitMint(c) ==
    /\ busy[c] = "minting"
    /\ rows' = [rows EXCEPT ![c] = [state |-> "approved", token |-> TRUE]]
    /\ SetBusy(c, "no")
    /\ UNCHANGED <<chain, expired, gone, cache>>

\* The registry revokes first; only rows with a token are sent there.
MineRevocation(c) ==
    /\ Approved(c) /\ busy[c] = "no"
    /\ rows[c].token => chain[c] = "live"
    /\ chain' = [chain EXCEPT ![c] = IF rows[c].token THEN "revoked" ELSE @]
    /\ SetBusy(c, "revoking")
    /\ UNCHANGED <<rows, expired, gone, cache>>

CommitRevocation(c) ==
    /\ busy[c] = "revoking"
    /\ rows' = [rows EXCEPT ![c].state = "revoked"]
    /\ SetBusy(c, "evicting")
    /\ UNCHANGED <<chain, expired, gone, cache>>

\* After the commit, and on a best-effort basis.
Evict(c) ==
    /\ busy[c] = "evicting"
    /\ SetBusy(c, "no")
    /\ \/ cache' = [cache EXCEPT ![FileOf[c]] = NoEntry]
       \/ UNCHANGED cache
    /\ UNCHANGED <<rows, chain, expired, gone>>

RollBack(c) ==
    /\ busy[c] \in {"minting", "revoking"}
    /\ SetBusy(c, "no")
    /\ UNCHANGED <<rows, chain, expired, gone, cache>>

\* seed-chain: mint, store the token id, revoke what the row says is revoked.
SeedMint(c) ==
    /\ Activated(c) /\ chain[c] = "none"
    /\ chain' = [chain EXCEPT ![c] = "live"]
    /\ UNCHANGED <<rows, busy, expired, gone, cache>>

SeedToken(c) ==
    /\ Activated(c) /\ ~rows[c].token /\ chain[c] = "live"
    /\ rows' = [rows EXCEPT ![c].token = TRUE]
    /\ UNCHANGED <<chain, busy, expired, gone, cache>>

SeedRevoke(c) ==
    /\ rows[c].state = "revoked" /\ rows[c].token /\ chain[c] = "live"
    /\ chain' = [chain EXCEPT ![c] = "revoked"]
    /\ UNCHANGED <<rows, busy, expired, gone, cache>>

Expire(c) ==
    /\ c \notin expired
    /\ expired' = expired \cup {c}
    /\ UNCHANGED <<rows, chain, busy, gone, cache>>

\* Delete and Restore of the party.
Trash ==
    /\ gone' = ~gone
    /\ UNCHANGED <<rows, chain, busy, expired, cache>>

\* The TTL index of the cache.
Lapse(f) ==
    /\ cache[f] # NoEntry
    /\ cache' = [cache EXCEPT ![f] = NoEntry]
    /\ UNCHANGED world

World ==
    /\ \/ \E c \in Creds :
             \/ Mint(c) \/ CommitMint(c) \/ MineRevocation(c) \/ CommitRevocation(c)
             \/ Evict(c) \/ RollBack(c) \/ SeedMint(c) \/ SeedToken(c) \/ SeedRevoke(c)
             \/ Expire(c)
       \/ Trash
       \/ \E f \in Files : Lapse(f)
    /\ Witnessed
-----------------------------------------------------------------------------
(* A verification. *)

\* Variant: revoked rows are not looked for.
Exact_ApprovedOnly(f) == {c \in Creds : Approved(c) /\ FileOf[c] = f}

\* FindByFileHashes.
Exact(f) == {c \in Creds : Activated(c) /\ FileOf[c] = f}

Start(v) ==
    /\ call[v].pc = "idle"
    /\ \E f \in Files :
          call' = [call EXCEPT ![v] = [NoCall EXCEPT
                      !.pc = "exact", !.file = f,
                      !.known = \E c \in Creds : Activated(c) /\ FileOf[c] = f,
                      !.unfit = {c \in Creds : ~Valid(c)},
                      !.calm = {c \in Creds : Agrees(c)}]]
    /\ UNCHANGED <<world, cache>>

\* An answer keeps nothing but what the properties look at.
Answer(v, from, code, c) ==
    call' = [call EXCEPT ![v] = [@ EXCEPT !.pc = "answered", !.from = from, !.code = code,
                                          !.cred = c, !.found = {}, !.dead = {},
                                          !.gone = FALSE]]

\* Without a token there is nothing to compare with.
ReadRows(v) ==
    /\ call[v].pc = "exact"
    /\ LET found == Exact(call[v].file)
           dead == {c \in found : rows[c].state = "revoked"}
           tokens == {c \in found : rows[c].token}
       IN  \/ /\ found = {}
              /\ call' = [call EXCEPT ![v].pc = "cache"]
           \/ /\ found # {} /\ tokens = {}
              /\ \E c \in found : Answer(v, "exact", "integrity_warning", c)
           \/ /\ tokens # {}
              /\ call' = [call EXCEPT ![v].pc = "chain", ![v].found = tokens,
                                      ![v].dead = dead, ![v].gone = gone]
    /\ UNCHANGED <<world, cache>>

\* Variant: a revoked token never matches.
Matches_NotRevoked(c, dead) == chain[c] = "live"

\* verifyExactCredentialMatches: the token is revoked if the row was.
Matches(c, dead) == chain[c] = IF c \in dead THEN "revoked" ELSE "live"

\* verifyApplyExpiry, then the parties; only an authentic verdict is overridden.
Overridden(c, absent) == IF c \in expired THEN "expired"
                         ELSE IF absent THEN "disabled" ELSE "authentic"

\* A match that is not revoked is preferred.
ReadChain(v) ==
    /\ call[v].pc = "chain"
    /\ LET matching == {c \in call[v].found : Matches(c, call[v].dead)}
           standing == matching \ call[v].dead
       IN  \/ /\ matching = {}
              /\ \E c \in Exact(call[v].file) : Answer(v, "exact", "integrity_warning", c)
           \/ \E c \in standing : Answer(v, "exact", Overridden(c, call[v].gone), c)
           \/ /\ standing = {}
              /\ \E c \in matching : Answer(v, "exact", "revoked", c)
    /\ UNCHANGED <<world, cache>>

\* No verdict, and nothing is cached.
ChainFails(v) ==
    /\ call[v].pc = "chain"
    /\ Answer(v, "exact", "chain_unavailable", None)
    /\ UNCHANGED <<world, cache>>

\* A query of Postgres or of MongoDB fails.
QueryFails(v) ==
    /\ call[v].pc \in {"exact", "cache"}
    /\ Answer(v, "none", "query_failed", None)
    /\ UNCHANGED <<world, cache>>

\* Whether FindVerifiableById returns a row; its errors are taken for no row.
FindsVerifiable(c) == {b \in BOOLEAN : b => c \in Creds /\ Activated(c)}

\* Variant: the cache is believed.
Recalled_Kept(code, c, found) == code

\* A cached verdict is only looked at again when it was authentic.
Recalled(code, c, found) ==
    IF code # "authentic" THEN code
    ELSE IF ~found THEN "integrity_warning"
    ELSE IF rows[c].state = "revoked" THEN "revoked" ELSE Overridden(c, gone)

LookUp(v) ==
    /\ call[v].pc = "cache"
    /\ LET e == cache[call[v].file]
       IN  IF e = NoEntry
           THEN call' = [call EXCEPT ![v].pc = "extract"]
           ELSE \E found \in FindsVerifiable(e.cred) :
                   Answer(v, "cache", Recalled(e.code, e.cred, found), e.cred)
    /\ UNCHANGED <<world, cache>>

Save(v, code, c) == call' = [call EXCEPT ![v].pc = "save", ![v].code = code, ![v].cred = c]

\* A mint enqueues the extraction; the seeder stores the document itself.
Documented == {c \in Creds : chain[c] # "none" \/ c \in Seeded}

\* Documents of credentials share identifiers with the upload, or none does, or
\* the upload has none.  verifyPickBestMatch prefers what is not revoked.
Extract(v) ==
    /\ call[v].pc = "extract"
    /\ \/ \E code \in {"no_identifiers", "no_match"} : Save(v, code, None)
       \/ \E tied \in SUBSET Documented \ {{}} :
             LET standing == {c \in tied : Approved(c)}
             IN  \E c \in IF standing # {} THEN standing ELSE tied :
                    call' = [call EXCEPT ![v].pc = "compare", ![v].cred = c]
    /\ UNCHANGED <<world, cache>>

\* Neither ExtractIDs nor Verify: no verdict, and nothing is cached.
AiFails(v) ==
    /\ call[v].pc \in {"extract", "compare"}
    /\ Answer(v, "ai", "ai_failed", None)
    /\ UNCHANGED <<world, cache>>

\* The parties are asked before the expiry here, and whether the credential was
\* revoked is not asked at all.
Compare(v) ==
    /\ call[v].pc = "compare"
    /\ \E code \in AiVerdicts, found \in FindsVerifiable(call[v].cred) :
          LET c == call[v].cred
          IN  Save(v, IF code # "authentic" \/ ~found THEN code
                      ELSE IF gone THEN "disabled"
                      ELSE IF c \in expired THEN "expired" ELSE code, c)
    /\ UNCHANGED <<world, cache>>

\* The verdict is cached as it was computed.
Stored(code, c) == [code |-> code, cred |-> c]

\* verifyCacheVerdict: a failure is only logged.
CacheVerdict(v) ==
    /\ call[v].pc = "save"
    /\ \/ cache' = [cache EXCEPT ![call[v].file] = Stored(call[v].code, call[v].cred)]
       \/ UNCHANGED cache
    /\ Answer(v, "ai", call[v].code, call[v].cred)
    /\ UNCHANGED world

Return(v) ==
    /\ call[v].pc = "answered"
    /\ call' = [call EXCEPT ![v] = NoCall]
    /\ UNCHANGED <<world, cache>>

Step(v) == \/ Start(v) \/ ReadRows(v) \/ ReadChain(v) \/ ChainFails(v) \/ QueryFails(v)
           \/ LookUp(v) \/ Extract(v) \/ AiFails(v) \/ Compare(v) \/ CacheVerdict(v) \/ Return(v)

Next == World \/ \E v \in Calls : Step(v)

Spec == Init /\ [][Next]_vars
-----------------------------------------------------------------------------
(* Properties *)

Answered(v) == call[v].pc = "answered"

\* Types; what the exact comparison finds is never cached.
TypeOK ==
    /\ rows \in [Creds -> Row]
    /\ chain \in [Creds -> {"none", "live", "revoked"}]
    /\ busy \in [Creds -> {"no", "minting", "revoking", "evicting"}]
    /\ expired \subseteq Creds
    /\ gone \in BOOLEAN
    /\ cache \in [Files -> Entry]
    /\ call \in [Calls -> Call]

\* An authentic verdict, compared with the chain or remembered, was true: the
\* credential it names was approved, not expired and its party not deleted at
\* some moment while the file was being verified.
AuthenticWasValid ==
    \A v \in Calls : Answered(v) /\ call[v].code = "authentic" /\ call[v].from # "ai"
                        => call[v].cred \notin call[v].unfit

\* Once a credential with these bytes was committed, no older guess is given
\* for them, whatever the cache remembers and whether it was evicted or not.
RegisteredIsExact ==
    \A v \in Calls : Answered(v) /\ call[v].known /\ call[v].code \notin Errors
                        => call[v].from = "exact"

\* Bytes that are registered are only called into question when row and chain
\* did not agree: while a revocation was on its way, after one was lost, or
\* before the seeded rows were minted.
WarningHasCause ==
    \A v \in Calls : Answered(v) /\ call[v].from = "exact"
                        /\ call[v].code = "integrity_warning"
                     => \E c \in Creds \ call[v].calm : FileOf[c] = call[v].file
=============================================================================
