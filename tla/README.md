# CredChain backend: specifications, model checks and proofs

This directory holds TLA+ specifications of the CredChain Go backend, the TLC
configurations that model-check them on small instances, and theorems about them
that TLAPS checks.  Paths below are relative to the repository (`src/...` in
`PROJECT.json`), `CS` is `feature/credential/credential_service.go`.

## 1. The system

A Gin server answers HTTP requests; each request is a goroutine that calls one
service method.  Services keep four stores in step:

| store | what it holds | how it changes |
|---|---|---|
| Postgres (GORM) | users, tokens, taxonomy, credentials, in-app notices | READ COMMITTED transactions (`uow.Execute`), single statements |
| Ethereum contracts | `CredentialRegistry` (tokens, nonces), `Authority` (roles) | transactions signed by the user's wallet, relayed by the server's account, mined later |
| River (Postgres, own pgx pool) | extraction and e-mail jobs | inserted over a connection of its own, so never in the caller's transaction |
| MongoDB | extraction results, cached verification verdicts | single-document writes |

plus the encrypted files on disk.  Nothing spans two stores: every multi-store
operation is a sequence of steps, each of which can fail, and other requests,
job workers and the network run between any two of them.

### Components

| component | state | operations | interacts with | hard behaviour | what makes it correct |
|---|---|---|---|---|---|
| credential lifecycle | `credentials` rows, notices, registry tokens | Submit, Issue, Approve, Reject, Update, Revoke, LinkCompetencies | registry, River, storage, Mongo cache | races of reviews, lost receipts, rollback after mint, crash | decisions final and exclusive; a committed row never claims on chain what is not there; one active row per file; a notice exactly for each committed change |
| registry client | per-signer nonces | IssueCredentials, RevokeCredentials, reads | contract, relayer | nonce races, receipts that never arrive | the token id stored is the token minted |
| extraction | `extract_*` columns, River jobs, Mongo documents | enqueue, worker, terminal failure, ReExtract | Python AI, Mongo | job before commit, duplicate jobs, retries, crash in ReExtract | every approved credential ends extracted or failed; success is not masked for ever |
| notices and e-mails | in-app rows, River jobs | record, list, mark; attempt, cancel, hold, retry | lifecycle, mail server | pages beside commits, duplicates, deleted users, mail switched off | a reader misses nothing; only committed changes are announced; no mail is lost silently; a job ends |
| verification | Mongo verdict cache | Verify, invalidation on Revoke | registry reads, extraction | stale cache | an `authentic` verdict was true while the call ran; registered bytes are not answered by a guess |
| users and roles | `users` rows, `Authority` roles | Store, UpdateRole, Update, Delete, Restore, TransferSuperAdmin | authority contract | chain-first and row-first orders, races | a user's role on chain is the row's; one super administrator |
| sessions | `user_tokens` | GoogleLogin, Refresh, Logout | users | concurrent refresh, sign-in without a transaction | one session per user; a sign-out ends every session before it |
| taxonomy | reference rows | propose, review, edit, delete | credentials | check-then-act without transactions | names unique, reviews final, links to what is there and was approved |
| user units | a tree of rows | store, edit, switch, move, destroy | users | several statements per call, partial failure | a tree; no dangling reference; inactive covers its subtree |
| file storage | files on disk | save, delete, read | lifecycle | partial batch | no file without a row |
| connection pool | 25 connections | nested acquisition in Approve, LinkCompetencies | all | everyone waits on everyone | a request that holds a connection gets its next one |
| commands, seeders | all stores | seed, init-super-admin, seed-chain | | seed-chain beside the service | the service starts in a state its invariants hold in |
| HTTP layer, overview, meta, wallets | none of their own | | | | not modelled: formatting, read-only or pure cryptography |

## 2. Modules

| module | models |
|---|---|
| `CredentialWorkflow` | the abstract promise of the lifecycle: status of each credential, what was minted and revoked for it; no transactions, locks or failures |
| `CredentialLifecycle` | the six handlers over rows, locks, chain, jobs, notices; the properties; the refinement mapping to `CredentialWorkflow` |
| `MCCredentialLifecycle` | instances for TLC (one file shared by both credentials, or a file each) and the symmetry of requests |
| `CredentialLifecycleInvariant` | its inductive invariants `IInv`, `RInv`, `LInv` and `MInv`, in named parts |
| `CredentialLifecycleProofs` | in this order: types; `IInv` and the safety properties; `RInv`, the action properties and the refinement of `CredentialWorkflow`; `LInv` and the live tokens; `MInv` and the minted fields |
| `UserDirectory` | the abstract promise of the user service: enrolment, roles, trash and the hand-over of the one office, in Postgres alone |
| `UserRoles` | the handlers that change roles, over rows, locks, chain transactions, the contract and refresh tokens; the properties; the refinement mapping to `UserDirectory` |
| `MCUserRoles` | the symmetry of requests and of users |
| `Extraction` | extraction jobs, their worker and ReExtract, over the timestamps of the row, MongoDB and River's tables |
| `MCExtraction` | its symmetry |
| `ExtractionProofs` | its inductive invariants: `DInv` (types, the document before the timestamp), and `BInv` for the pending rows |
| `UserRolesProofs` | the inductive invariants of `UserRoles`: `RInv`, for what holds with failures everywhere, and `AInv`, for the agreement of rows and contract, the office, and the refinement of `UserDirectory` |
| `Notices`, `MCNotices` | in-app notices read page by page beside the commits that add them, and the e-mail jobs |
| `NoticesProofs` | its inductive invariant `NInv`: complete walks, and what an e-mail job has done |
| `Sessions`, `MCSessions` | refresh tokens: sign-in, rotation, sign-outs |
| `SessionsProofs` | its inductive invariant `SInv` and the three properties |
| `Taxonomy`, `MCTaxonomy` | types, organizations and competencies, with the credential handlers that link them |
| `TaxonomyProofs` | its inductive invariant `TInv`; names, links, and the action property on reviews |
| `UserUnits`, `MCUserUnits` | the tree of units and the users that point into it |
| `UserUnitsProofs` | facts about the recursive queries; the inductive invariants `UInv` (types, references), `TreeInv` (the tree) and `TurnsInv` (the flags) |
| `Verification`, `MCVerification` | public verification, beside everything that changes what it looks at |
| `VerificationProofs` | its inductive invariant `VInv` and the three properties |

How they compose: `CredentialLifecycle` implements `CredentialWorkflow`, and `UserRoles`
implements `UserDirectory`, by refinement mappings. `Verification` has the lifecycle as
far as a verification can see it (its first part, `World`), `Notices` has the transactions
that announce themselves, `Taxonomy` the handlers that check and write references, and
`Sessions` the commits of the user service.

### CredentialLifecycle and the code

A *request* is one call of a handler; `req[r].phase` is where it is:

| phase | code |
|---|---|
| `read` | `Issue` has read the hash statuses, validated, and built the entities (CS 559-596); `Approve`, `Reject`, `Revoke` and `Update` have read and checked their targets (CS 979-1019, 1075-1093, 1152-1184, 846-887) |
| `written` | inside the transaction, after `Store` or `Update`: the row locks and index entries are held |
| `sent` | `IssueCredentials` / `RevokeCredentials` has relayed its transaction and waits in `WaitMined` |
| `minted` | the receipt said success; token ids are being stored |
| `ready` | everything is done but COMMIT |
| `committed` | the transaction is committed, e-mails not queued yet |
| `done` | answered, or failed |

* **Rows** are the committed versions.  What a transaction has written is a function
  of its request and the row (`NewRow`), so it needs no variable: it becomes visible in
  `Commit`, with its notices.  A lock is being in a phase of `Holding` with the row in
  the batch.  `Write` waits for the locks and applies to the latest committed rows,
  without looking at their status again: that is what an `UPDATE ... WHERE id IN (...)`
  does under READ COMMITTED, and the CHECK on `activated_at`/`rejected_at` is the only
  thing that refuses.  `Insert` waits while another transaction has the file hash in
  doubt and then succeeds or hits `idx_credentials_file_hash_active`.
* **Submit** is one step: its transaction calls nothing but Postgres, holds no lock
  another handler could wait for and be waited by, and its own check is repeated by the
  unique index.
* **The chain** is external and modelled from its use: per-signer nonces, refusal of a
  hash that is issued, refusal of a token that is unknown or already revoked, whole
  batches.  `Send` fetches the nonce, and is refused by the gas estimate if the call
  would revert at that moment.  `Mine` happens at any time later, whether or not the
  request is still there.  A token id is a hash of issuer, nonce, holder and file hash;
  the record of those inputs stands for it (the holder is fixed by the credential).
* **River** inserts go through their own pool: `EnqueueExtract` changes `queued` at once
  and a failed insert leaves those before it.
* **Failures**: `Fail` ends a request in any phase in which code that can return an
  error runs, and is also the crash of the server at that point.  `PostSendFaults`
  decides whether a request may fail between `Send` and its commit.
* **Abstracted**: number, name, dates and metadata are one value `content`, since only
  the copy of number and dates in the token matters; validation of holders, types,
  organizations and competencies only refuses requests; the unique index on
  (organization, number) likewise; roles are checked before the handler runs.

### UserRoles and the code

`US` is `feature/user/user_service.go`.  A request is a slot that serves one call after
another, so that histories are not bounded by the number of requests; the bound on
concurrency is the number of slots.  `req[r].phase` is where its call is:

| phase | code |
|---|---|
| `admitted` | the middlewares have loaded the caller's row and asked the contract for the caller's role (`middleware/auth.go`), and the policies that need no target have passed |
| `read` | `FindByIds` inside the transaction, without locks, and the `PostFetch` policies (US 403-408, 452-458, 500-511, 553-559); `TransferSuperAdmin` relays from here (US 514) |
| `written` | the INSERT, UPDATE or soft delete has run and holds its row locks (US 183, 309, 434, 463, 560) |
| `sent` | `UpdateUserRole` or `TransferSuperAdmin` has relayed its transaction and waits in `waitMined` |

* **Rows** are the committed versions; what a request has written is `Written`, visible
  from `Commit`.  `Write` waits for the row locks; a soft delete looks again at
  `deleted_at`, because GORM adds that condition, and the other statements do not.
  `TransferSuperAdmin` writes its two rows and commits after the receipt, with nothing in
  between that others could see, so that is one step: it waits for the rows it writes.
* **The role of the caller** that the policies use is the one the middleware loaded
  (`req[r].rank`); the contract decides by the caller's role on chain when it is mined.
* **The contract** is external, after `ROLE.md` 215-245 and the calls of
  `infrastructure/chain/authority_service.go`: a batch is executed whole or refused
  whole, an Admin may neither touch nor assign Admin or above, a role may not be assigned
  again, `super_admin` comes by a transfer only, and a nonce serves once.  A nonce is
  the flag `fresh`: any mined call of the same signer clears it.
* **Failures** as in the lifecycle: `Fail` at any phase, after `Send` only with
  `PostSendFaults`.  A relayed transaction stays with its slot and is mined at any time;
  until then the slot takes no new call.
* **Abstracted**: an account and its wallet are one value; e-mail addresses, language,
  profile fields and units are left out, and with them `UpdateEmail`, `UpdateLanguage`
  and the token revocation after an e-mail change.  A batch carries one role for all its
  targets.  Sessions are the users with an unrevoked refresh token.

### Extraction and the code

`rows` has the four timestamps `ExtractState` looks at, set or not; `docs` the MongoDB
documents; `jobs` the unfinished River jobs. A call is in one of these phases:

| phase | code |
|---|---|
| `minting` | `mintCredentials` (CS 1735-1741) inserts one job after another, inside the transaction of Issue or Approve; the rows of an Issue are not visible, those of an Approve are locked (`Locked`) |
| `read` | `ReExtract` has found its targets failed, without a lock (CS 1532-1538) |
| `cleared` | `ClearExtractOutcome` is committed; jobs are inserted one after another (CS 1557) |
| `compensating` | an insert was answered with an error; that one credential is to be failed again (CS 1561) |

and a job goes `available`, `reading`, `loaded`, `documented`, one state per store that
`workExtract` touches; `failing` is a job whose last attempt is over and whose failure
`HandleError` has to stamp.

* **Inserts** go over River's pool, are not unique, and one that is answered with an error
  may have inserted. Jobs of a rolled back mint stay and run: `Load` finds no row and the
  attempt fails, and `HandleError` then updates nothing.
* **Updates** of the row (`Complete`, `HandleError`, `Clear`, `Compensate`) name the
  columns they set and never look at the others, so each is applied to the latest row.
* **Attempts** may fail at any step. A retry comes after a back-off of at least a second;
  unless `slow` is among the faults, a transaction that has inserted a job is over by then.
* **Crash** ends the calls; River rescues the jobs that ran, and discards without
  `HandleError` those that had no attempt left.
* **Abstracted**: file contents, text and embedding; what happens to a row after its
  approval other than extraction. `Room` bounds the unfinished jobs, not the code.

### Verification and the code

A call of `Verify` (CS 1235-1423) is in one of these phases:

| phase | code |
|---|---|
| `exact` | the upload is hashed; `FindByFileHashes` is next (CS 1247) |
| `chain` | rows were found; `verifyExactCredentialMatches` reads the registry |
| `cache` | no row has the bytes; `FindByHash` in MongoDB |
| `extract`, `compare` | the AI service extracts identifiers; it compares with the best candidate |
| `save` | `verifyCacheVerdict` |

* **The world** takes a step between any two of these: mints and revocations in the order
  of the lifecycle (registry first, then the commit, then the eviction, any of which may
  be the last), `seed-chain` over seeded rows, expiry, deletion and restoration of the
  parties, the TTL index.
* **History**: `unfit` and `calm` record, while a call runs, which credentials were never
  valid and which agreed with the registry all the time; the properties are about these,
  because a verdict can only be true of *some* moment of the call.
* **Abstracted**: bytes are a value; the facts of a token equal those of its row, since
  they are fixed at the mint; which candidate the AI service ranks first is any that is
  tied; scores are left out.

### Sessions and the code

`rows` are users, `tokens` rows of `user_tokens`. `revoke` and `store` are the two
statements of `GoogleLogin` (auth_service.go 73, 78-99), `rotate` is the transaction of
`Refresh` on a token read before it (101-161), `logout` and `email` are the sign-outs. A
token's `email` and `ended` are history: the address Google vouched for when its chain of
rotations began, and whether its owner was signed out since. `raced` is history too: two
calls were issuing tokens of one user at once. Then all three properties are false (two
sign-ins that overlap leave two sessions; a rotation that has read its token outlives a
logout), so they are stated for everything else.

### Taxonomy and UserUnits and the code

No method of these services opens a transaction. In `Taxonomy` a call is the step that
reads and accepts (`call[c].pc` names the statement to come) and the step that writes; a
call that is refused has no step. The constraints that decide at the write are
`IndexAllows` (partial unique indexes on `LOWER(name)`), `CheckAllows`
(activated-xor-rejected) and `Deletable`, `Linkable` (foreign keys); a batch of one id.
Credentials are a set of links here: what is asked of a reference before it is linked
differs by handler (`Usable` for Submit, Approve and Update; `Issuable` for Issue, which
asks only that a competency is active; active for LinkCompetencies).

In `UserUnits` an Update is up to nine statements (`UpdateSteps`), in the order of the
code: rename, switch off or on, parent; a refusal keeps what was written. The recursive
queries are least fixed points (`Descend`, `Climb`); `Terminates` guards the one with
UNION ALL, which would not end on a cycle. `Movers` are the calls that may set a parent.

### Notices and the code

The feed: `Store` in an open transaction waits for notices of the same key and does
nothing if one is there; `Page` is one query with the cursor of the page before. The mail:
`Enqueue` after the commit, `Fetch` to `Complete` are one attempt of
`CredentialNotificationWorker.Work`, `Restart` is a crash or a stop and a start with mail
enabled or not. `held`, `wrong` and `copies` are history of an attempt.

Each `*_...` variant that follows a comment `Variant:` is an alternative body of the
definition after it: the way that line could be wrong.  `PROJECT.json` names the
property each variant breaks.

## 3. Runs

Bounds: two credentials, two values for the editable fields, one officer (so that
nonces collide; nonces of different officers are independent), three concurrent
requests: the stale approval needs exactly three (approve, revoke, stale approve).
`Submit` and `Lapse` are not counted as requests.  Requests are one-shot, so `nonces` is
bounded by their number.

| run | instance | checks |
|---|---|---|
| `lifecycle_faults` | one file, all handlers, failures everywhere | types; `ActiveFilesDistinct`, `TokensExist`, `InboxTellsHistory`, `ActivatedIsQueued`, `MailFollowsCommit`, `ActivationIsBacked`, `RevocationIsOnChain`, and that the service implements `CredentialWorkflow` |
| `lifecycle_reliable` | two files, two requests, no Update, no failure after `Send`; `FairSpec` | `LiveTokensClaimed`: orphan tokens come from lost receipts and failed commits only, never from an interleaving; `ChainMirrorsRow`: the minted fields are the row's; `RequestsEnd` |

The restricted run is as strong as the code allows: with failures after `Send`
`LiveTokensClaimed` is false (the receipt is lost and the row rolls back), and with
concurrent edits `ChainMirrorsRow` is false (see the known divergences).  Each needs only
its own one of these conditions: the theorems of section 4 prove the first with Update
among the handlers and the second with failures after `Send`.

Runs of `UserRoles` (Root is the super administrator that `init-super-admin` stored; a
second and a third user are enough for a target, an administrator and a bystander; two
slots show every race of two calls, and slots are reused):

| run | instance | checks |
|---|---|---|
| `roles_agree` | three users, two slots, one target per call, no failure after `Send`; Store, Update and UpdateRole interleave, Delete, Restore and TransferSuperAdmin run alone | `RolesAgree`, `OfficeIsLive`, and that the rows implement `UserDirectory`: the handlers are right one at a time, and among calls that do not touch the trash the row locks are enough, with two signers and shared nonces |
| `roles_faults` | two users, two slots, batches of up to two; Store, UpdateRole, Delete, Restore interleave; failures everywhere; `FairSpec` | `SendsWhatItWrites`, `RowsFollowChain`, `RequestsEnd` |
| `roles_v_window` | Store, UpdateRole, Delete | **violated**: an UpdateRole changes a row that was trashed after it was read (US 424-426) |

With batches of two `roles_agree` also passes (1.9 million states), but takes longer than a
routine check should.

`Exclusive` names the handlers that the clients of an instance call only while no other
call runs; it is an assumption about clients, not a guard of the code.  `roles_agree` needs
it: without it TLC finds that a Restore between the read and the statement of a Delete
leaves a trashed user with a role on chain, that a Delete between the check and the block
of a transfer gives the office to a trashed user, and that two overlapping transfers leave
two live super administrators; and with failures after `Send` `RolesAgree` is false anyway:
a promotion that is rolled back is mined later, and the contract is then laxer than the
row, where ROLE.md:430 expects it to be stricter.  `roles_agree` switches the deadlock check off, because the only super
administrator may demote itself through `Update` and leave nobody who may call anything:
the system really stops there.

Runs of `Extraction`. The second attempt is the last, which has every kind of attempt
(the default of `CREDENTIAL_EXTRACT_WORKER_MAX_ATTEMPTS` is larger, and River treats the
attempts in between alike); three job slots give room for a leftover of a rolled back
mint, a job whose insert was reported as an error, and a fresh one:

| run | instance | checks |
|---|---|---|
| `extraction_jobs` | one credential, two calls, three jobs; refused inserts and rollbacks; `FairSpec` | `PendingIsBacked`: a pending row has a job, or a call that will give it one or fail it; `ExtractionEnds` |
| `extraction_faults` | two credentials, one call with batches of two, three jobs; every fault | `SucceededHasDocument` |

`PendingIsBacked` is about batches of one without crashes, because that is what the code
can promise: with a batch, an insert that is refused for the first of two cleared
credentials leaves the other pending without a job (CS 1565), and a crash between `Clear` and the inserts, or
in the last attempt, also leaves a row pending for ever (CREDENTIAL.md:708 counts on
ReExtract there). `slow` is out of that run too: a job that fails all its attempts
before the row of its mint is committed stamps nobody. For the same reason a single
attempt is not enough (`MaxAttempts = 1`): the job of an issuance finds no row before the
commit, fails for good, and the committed row is pending with nobody left; the code's
default is larger and its configuration does not refuse 1. `SucceededHasDocument` holds
under all of these.

The other runs:

| run | instance | checks |
|---|---|---|
| `verification` | two credentials of one file (one of them seeded or not), another file, one call | `AuthenticWasValid`, `RegisteredIsExact`, `WarningHasCause` |
| `sessions` | two users, three addresses, three tokens, two calls | `OneSession`, `SignOutHolds`, `SessionsMatchEmail` |
| `taxonomy` | one type, one organization, two competencies that may share a name, one credential, two calls | `NamesAreUnique`, `LinksAreApproved`, `ReviewIsFinal` |
| `units` | up to three units, one user, a call that edits and moves and one that stores, destroys and assigns | types, `ReferencesExist`, `Acyclic`, `InactiveCovers`, `SearchIsWhole` |
| `notices` | three notices, two of one moment and two of one key, pages of one, two addresses, one job with two attempts; `FairSpec` | types, `WalkIsComplete`, `CompletedWasSent`, `SentToHolder`, `JobsEnd` |

Their bounds: the verdicts depend on the credentials of one file and on one cache entry,
and calls only meet in the cache, where another call's entry is any entry; so one call and
a re-registered file show every case, and the proofs cover any number of calls. Two
sessions of one user and a third token show every replacement. Two calls on one reference
show every check-then-act. Three units are a unit with a parent and a child; `Acyclic`
and `InactiveCovers` need one mover and no overlap of calls that write flags: two moves
that overlap can close a cycle (the check and the write are statements of their own), and
two overlapping switches can leave an active unit below an inactive one, and the code does
nothing against either. Pages of one make every row a page boundary; one job suffices
because jobs share nothing.

Fairness (`FairSpec`): weak fairness of each request's steps, because a goroutine that is
not waiting runs on, and of mining, because `WaitMined` has no deadline of its own and the
service counts on the network.  No fairness for clients, time or failures.  `Quiet` is a
stutter of the idle service, so that deadlock stays checked: TLC reports a deadlock when
requests wait for each other, and there is none.  In `UserRoles` the row locks are asked
for again and again by new calls, so `Write` and `Commit` get strong fairness: Postgres
queues those who wait for a row, so a waiter whose row becomes free infinitely often gets
it.  In `Notices` a job that is available is worked and an attempt ends (River's
guarantee, and its default job timeout ends an attempt that hangs); nothing is assumed of readers, holders and restarts,
and a restart costs an attempt, so that jobs end in spite of it.  In `Extraction` calls and jobs get strong fairness for the same reason: an approval
that is repeated locks the row again and again, but locks are granted in order and a
back-off ends.

## 4. Proofs

Every safety invariant, action property and refinement that a passing run checks is also a
theorem, for every value of the constants.  Where the property is false without a
condition, the run meets the condition by its instance and the theorem names it as a
hypothesis; TLC gives the counterexample without it.

| hypothesis | of | why |
|---|---|---|
| `~PostSendFaults` | `NoTokenIsOrphaned` | a request that dies after its send leaves a token without a row |
| `"update" \notin Operations` | `ChainTellsTheRow` | an edit that overlaps an approval changes the row after the mint copied it |
| `Orderly`: `~PostSendFaults`, and Delete, Restore and TransferSuperAdmin run alone | `SourcesAgree`, `SuperAdminIsLive`, `DirectoryImplemented` | section 3, the runs of `UserRoles` |
| `Undisturbed`: only refused inserts and rolled back transactions; batches of one if inserts are refused; more than one attempt; finitely many credentials (so that a batch of one can be counted) | `NoPendingIsForgotten` | section 3, the runs of `Extraction` |
| `OneMover`: one call at a time sets parents | `ForestWithOneMover` | two moves close a cycle |

### Lifecycle

The theorems hold for every set of credentials, files, officers and requests, and, unless
a hypothesis is given, every choice of handlers and both values of `PostSendFaults`, from
the named assumptions of `CredentialLifecycle` (each credential has one file, handler names
are those of the module, `NoToken` is not a token, officers and contents exist).  So they
cover the interleavings of any number of requests, with batches of any size.

| theorem | states |
|---|---|
| `TypeCorrect` | `[]TypeOK` |
| `InvariantHolds`, `RevocationsInvariant` | `[]IInv`, `[]RInv` |
| `FilesAreUnique` | `[]ActiveFilesDistinct` |
| `RowsPointToTokens` | `[]TokensExist` |
| `InboxIsExact` | `[]InboxTellsHistory` |
| `JobsMatchRows` | `[]ActivatedIsQueued` |
| `MailIsBacked` | `[]MailFollowsCommit` |
| `ActivationsAreBacked` | `ActivationIsBacked` |
| `RevocationsAreOnChain` | `RevocationIsOnChain` |
| `WorkflowImplemented` | `Spec => Workflow!WSpec` under the refinement mapping |
| `NoTokenIsOrphaned` | `~PostSendFaults` gives `[]LiveTokensClaimed` |
| `ChainTellsTheRow` | no Update gives `[]ChainMirrorsRow` |

None of these properties is inductive: each speaks of committed rows, while what makes it
true is in requests that are half done.  `IInv` says what such a request can rely on:

* `TargetsStand`, `IdsApart`: what it read of its targets and cannot be undone by others
  (a stored row stays, an activated row stays activated, an id drawn by `Issue` is not
  stored by anybody else);
* `LocksHold`: from `Insert` or `Write` to the commit, batches are disjoint, the CHECK and
  the unique index stay satisfied;
* `SentIsBuilt`, `ChainConsistent`: the transaction it waits for carries the token ids it
  will store; every mined transaction of a signer has a nonce of its own, below the
  current one;
* `TokensFresh`: between the mint and the commit nobody else can know the new token, so
  nobody can have revoked it.  This is where the nonce matters: a token about to be
  minted has a nonce that no minted token has.

`RInv` adds what a revocation knows: a mint over a row that already has a token is mined
only once that token is revoked (`MintReplacesBurnt`), hence a revocation whose row got a
new token has read a token that is dead, and the contract will refuse its call
(`SeenStands`).  The proofs go action by action.

`LInv` is `RInv` with: a transaction on its way has its request still waiting for it
(`PendingIsAwaited`, where the absence of failures after the send is needed), it mints for
the batch it holds (`MintIsOfBatch`), and every token that is minted and not revoked is the
token of its activated row or about to become it (`LiveAreClaimed`).  The delicate step is
the commit of an approval over a row that already had a token: that token must be dead, and
it is, by `MintReplacesBurnt`.

`MInv` is `IInv` with: the rows a call mints have different files (`BatchDistinct`), so that
no two tokens have one id, in the registry or in a call (`IdsDistinct`); and the content a
call has relayed is the content that its commit leaves in the row (`ContentStands`; only
`Update` changes the content of a row that is stored).  `IdsDistinct` is what makes "the
token of the row" one token.  Failures after the send do no harm: the row of a token that was
mined and rolled back does not carry it, and `ChainMirrorsRow` asks nothing of it.

### Users and roles

`UserRolesProofs`, for every set of users, requests and handlers and every batch size; the
first four with failures everywhere:

| theorem | states |
|---|---|
| `TypeCorrect` | `[]TypeOK` |
| `WritersExcludeEachOther` | `[]OneWriter` |
| `SentIsWritten` | `[]SendsWhatItWrites` |
| `RowsNeverLead` | `RowsFollowChain` |
| `SourcesAgree` | `Orderly` gives `[]RolesAgree` |
| `SuperAdminIsLive` | `Orderly` gives `[]OfficeIsLive` |
| `DirectoryImplemented` | `Orderly` gives `Spec => ImplementsDirectory` |

`RInv` is `TypeOK /\ OneWriter /\ SendsWhatItWrites`: `SendsWhatItWrites` says that the
transaction a request waits for carries the roles its commit will write, and for a
restoration that role is read from the row again when it commits, so it is stable only
because of `OneWriter` (nobody else can change a row between the request's statement and
its commit).  `RowsFollowChain` then needs one look at `Commit`: its guard says the
transaction was mined, the invariant says it carried these roles.

`RolesAgree` is not inductive: it is silent about the users of a transaction that is mined
and not committed.  `AInv` says of these that the contract has the role of that
transaction (`Agrees`), so that the commit, which by `RInv` writes that role, closes the
gap.  For this two transactions under way must be about different users (`OneWriter` again,
and two calls of Store draw different ids, `NewUsersDiffer`); a handler that touches the
trash or the office has nobody beside it (`LoneRunsAlone`); no transaction outlives its
request (`TxOnlyWhenSent`); and what the policies found when they read is still so when the
rows are written (`Fits`): the users of an update are live, those of a restoration trashed,
those of a transfer live and different, and nothing but a transfer grants `super_admin`.
The refinement needs the same: each commit is the step of the directory only if its targets
are still in the state the directory asks for.

### Extraction

`ExtractionProofs`, for every set of credentials, calls and jobs, every batch size, number
of attempts and set of faults: `TypeCorrect` (`[]TypeOK`, with it that no job is attempted
more often than configured) and `DocumentFirst` (`[]SucceededHasDocument`).  `DInv` adds to
these that a job in `documented` has its document, which is what `Complete` relies on after
any number of other steps, and that an available job has an attempt left.

`NoPendingIsForgotten` (`Undisturbed` gives `[]PendingIsBacked`) has the invariant `BInv`:
what a minting call has inserted is still there (`Inserted`), because the jobs of a row
that is not visible yet have used at most one attempt and found nothing (`Fresh`), and
those of a locked row cannot stamp it; and where an insert may be refused a call is about
one credential (`Single`), so that the compensation covers all it has cleared.

### Sessions, taxonomy, verification, units, notices

These hold for all users, tokens, identifiers, names, credentials, files, units, notices,
page sizes, numbers of attempts and calls:

| module | theorems |
|---|---|
| `SessionsProofs` | `TypeCorrect`, `OneTokenPerUser` (`[]OneSession`), `SignOutsHold`, `AddressesAreProved` (`[]SessionsMatchEmail`) |
| `TaxonomyProofs` | `TypeCorrect`, `NamesStayUnique`, `LinksStayApproved`, `ReviewsStayFinal` (`ReviewIsFinal`) |
| `VerificationProofs` | `TypeCorrect`, `ValidWhenSaid` (`[]AuthenticWasValid`), `ExactComesFirst` (`[]RegisteredIsExact`), `WarningsAreCaused` |
| `UserUnitsProofs` | `TypeCorrect`, `NothingDangles` (`[]ReferencesExist`), `SearchesAreWhole` (`[]SearchIsWhole`), `InactiveIsInherited` (`[]InactiveCovers`), `ForestWithOneMover` (`OneMover` gives `[]Acyclic`) |
| `NoticesProofs` | `TypeCorrect`, `PagesAreComplete` (`[]WalkIsComplete`), `NoMailIsLostSilently` (`[]CompletedWasSent`), `MailFindsItsHolder` (`[]SentToHolder`) |

* `SInv`: a call that is about to store or to rotate is alone with its user (`Alone`: no
  live token, or only the one it has read, not ended and with the address of the row) until
  somebody touches that user's tokens, which is when `raced` is set.
* `TInv`: what a call has accepted stays true until it writes (`Sound`): a type or an
  organization it links was approved, an approval is never taken back (`Kept`, from the
  CHECK constraint), and an identifier that was deleted does not return; so the foreign key
  alone makes the link good. The indexes and the CHECK carry `Unique` and `Decided`.
* `VInv`: `Compared` says what a call that has read the rows knows when it reads the
  registry: a row not seen revoked, with parties and expiry as seen, was valid at some
  moment; a row that agreed with the registry all the time has not changed its state
  (`Progress`: a row and the registry cannot both move and agree before and after one
  step). `Registered` says that known bytes do not leave the exact comparison, since
  rows are never taken back.
* `TreeInv`: the units are a forest, and a call that is about to set a parent has an
  argument for it that nobody can spoil: a set of units that holds the unit it moves and
  all below it, and not the new parent (`Apart`).  Its check computed such a set by the
  recursive query; what others do meanwhile only adds fresh leaves, which can join or stay
  outside, and removes units, so the set survives without being the subtree any more.
* `TurnsInv`: either two flag writers have overlapped, or there is one at most and what it
  has read (`Sees`) is true: only `Destroy` and `Assign` run beside it, and `Destroy` takes
  no unit that is a parent.  Its statements are ordered so that every prefix leaves the
  flags covered, which is what makes a refusal half way harmless.
* The recursive queries are least fixed points over all sets of units, so what the proofs
  use of them are two facts: the result is closed (`DescendIsClosed`, `ClimbIsClosed`), and
  that of the downward query is within every closed set with its roots (`DescendIsLeast`).
* `NInv`: the pages shown so far are in order and end at the cursor, and every notice that
  matched on the first page and still does is on them or after the cursor (`WalkSafe`); a
  job whose mail is delivered has sent a copy, an attempt that is sending found mail enabled,
  and the address it sends to was held during the attempt (`MailSafe`).  New notices go
  anywhere in the order without disturbing this.

Two kinds of reasoning need a remark.  The library's induction theorems take an operator
as a parameter and are not usable with the provers at hand; where an extremal element is
needed (`Least` in `UserUnitsProofs`) the least-number principle is taken from the
well-foundedness of `<` on the naturals, which is stated about sets.  And sets of requests,
credentials, calls and users need not be finite, except the credentials in `Undisturbed`.

Only model-checked: liveness (`RequestsEnd` of the lifecycle and of the user service,
`ExtractionEnds`, `JobsEnd`), which rests on fairness and is beyond this prover, and the
violated property of `roles_v_window`.

## 5. Known divergences

Found while modelling; the first one is checked by a run, the others are behaviours of the
models that no property of a passing run forbids.

* `roles_v_window`: an UpdateRole changes a row that was trashed after it was read, and
  grants the role on chain, though US 424-426 says there is no such window.
* An Update that overlaps an approval changes a row that was reviewed (CS 891, against the
  comment CS 837-840 and CREDENTIAL.md:625); chain and row then differ for good. An approval
  that waited for a row which was approved and revoked meanwhile mints it again (CS 1037,
  CREDENTIAL.md:606). A mint whose receipt was lost can belong to a row that is then
  rejected (RS 202, CREDENTIAL.md:311).
* ReExtract of a batch leaves rows pending without a job when an insert is refused (CS 1565,
  against CS 1553-1555).
* The comment in middleware/auth.go:85-86 says that refresh tokens are revoked when a user
  is deleted. Delete does not touch them, and Refresh does not look at `deleted_at`: the
  session of before the deletion is there again after a restoration. The access token that
  Refresh returns is refused by the middleware as long as the user is deleted.
* Verify: the fuzzy path never asks whether the candidate was revoked, though CS 1423-1424
  says that revocation wins, so an authentic verdict of the AI service is outside
  `AuthenticWasValid`; errors of `FindVerifiableById` are taken for "no row"; verdicts other
  than authentic are remembered until the TTL even if the candidate is revoked or restored;
  the eviction after a revocation removes an entry that an exact match would hide anyway.
* Direct issuance and LinkCompetencies ask of a competency that it is active, while Submit
  and Approve also ask that it is approved (CS 260-392, 1651).
* Two approvals of one reference both succeed; the second overwrites the approver.
* A unit's rename writes the `active` flag that was read before (user_unit_service.go:94).
* `seed-chain` run again after it was interrupted between a mint and its row mints another
  token; `seed` after `init-super-admin` with another wallet stores a second super
  administrator, which init_super_admin.go says there may not be.
* SendEmail reports success when mail is disabled, and only the check in `Work` keeps a job
  from completing unsent. A retried mail may be sent again, up to `MaxAttempts` copies.
* Approve and LinkCompetencies use pooled repositories inside a unit of work that holds a
  connection: as many of them at once as `DB_MAX_OPEN_CONNS` (25) wait for each other.
* ROLE.md:396 lets an Admin restore an Admin, which the contract refuses every time.

## 6. Not modelled

* HTTP routing, decoding, translation, response envelopes and rate limits; overview and
  meta; read and pagination queries other than the feed: they change nothing.
* File storage: each file has a name of its own and no operation depends on whether the
  clean-up of a failed batch ran.
* The connection pool: see the known divergences; there is no promise to check.
* Wallet derivation and encryption; migrations; the benchmark command; the contents of the
  demonstration rows (what `seed` may store is the initial states of `UserUnits`,
  `Taxonomy`, `Notices`, `Sessions` and `Verification`, and `init-super-admin` that of
  `UserRoles`).
* The generated contract bindings, the mail transport and the Python service, except
  through the calls made to them. UpdateLanguage and the profile columns of users.
* Liveness of `TransferSuperAdmin` with failures after its receipt.

## 7. What is left

1. Theorems with weaker hypotheses: `RolesAgree` for transfers and restorations that run
   beside calls about other users; `PendingIsBacked` for the credentials of a batch before
   the first refused insert.
2. A model of the connection pool with the nested acquisition, once the code bounds it.
3. `Verification` composed with `CredentialLifecycle` itself instead of its `World`.
