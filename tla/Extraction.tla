----------------------------- MODULE Extraction -----------------------------
(***************************************************************************)
(* The extraction of a credential's text: jobs that mintCredentials and    *)
(* ReExtract insert into River's tables over a connection of their own,    *)
(* the worker of infrastructure/jobs/credential_extract_river.go, which    *)
(* writes MongoDB and then Postgres, and the timestamps of the row from    *)
(* which ExtractState is derived.                                          *)
(*                                                                         *)
(* The lifecycle's own races are left to CredentialLifecycle: a call that  *)
(* mints is here from its first enqueue to its commit, when the rows it    *)
(* approves are locked and the rows it issues are not visible.             *)
(***************************************************************************)
EXTENDS Naturals, FiniteSets

CONSTANTS Creds,        \* credentials
          Requests,     \* calls that may be served at the same time
          Jobs,         \* River jobs that may be unfinished at the same time
          MaxAttempts,  \* CREDENTIAL_EXTRACT_WORKER_MAX_ATTEMPTS
          MaxBatch,     \* the largest batch of a call
          Faults        \* what may fail besides an attempt of the worker

\* enqueue: an insert of a job is answered with an error, inserted or not.
\* commit:  a transaction is rolled back.
\* stamp:   the UPDATE that records a failure fails itself.
\* crash:   the server stops; River rescues its running jobs later.
\* slow:    a transaction outlasts the back-off of the jobs it has inserted.
FaultKinds == {"enqueue", "commit", "stamp", "crash", "slow"}

ASSUME AttemptsAssumption == MaxAttempts \in Nat \ {0}
ASSUME BatchAssumption == MaxBatch \in Nat
ASSUME FaultsAssumption == Faults \subseteq FaultKinds

\* A row of credentials: activated_at, extract_enqueued_at, extracted_at and
\* extract_failed_at, set or not.
Row == [stored: BOOLEAN, activated: BOOLEAN, enqueued: BOOLEAN,
        extracted: BOOLEAN, failed: BOOLEAN]

\* What a job is doing; "failing" has used up its attempts.
Working == {"reading", "loaded", "documented"}
Job == [state: {"none", "available", "failing"} \cup Working,
        cred: Creds, attempt: 0..MaxAttempts]

\* todo: the credentials whose job the call has not inserted yet.
Call == [phase: {"idle", "minting", "read", "cleared", "compensating"},
         batch: SUBSET Creds, todo: SUBSET Creds]

VARIABLES rows,  \* committed rows of credentials
          docs,  \* credentials with a document in credential_extractions
          jobs,  \* unfinished jobs of River
          call   \* what each request is doing

vars == <<rows, docs, jobs, call>>

Submitted == [stored |-> TRUE, activated |-> FALSE, enqueued |-> FALSE,
              extracted |-> FALSE, failed |-> FALSE]

Absent == [Submitted EXCEPT !.stored = FALSE]

Idle == [phase |-> "idle", batch |-> {}, todo |-> {}]

\* Some credentials have been submitted, the others are going to be issued.
Init ==
    /\ rows \in [Creds -> {Submitted, Absent}]
    /\ docs = {}
    /\ \E c \in Creds : jobs = [j \in Jobs |-> [state |-> "none", cred |-> c,
                                                attempt |-> 0]]
    /\ call = [r \in Requests |-> Idle]
-----------------------------------------------------------------------------
\* Credential.ExtractState(): failure wins over success.
ExtractState(c) == IF rows[c].failed THEN "failed"
                   ELSE IF rows[c].extracted THEN "succeeded"
                   ELSE IF rows[c].enqueued THEN "pending"
                   ELSE "unextracted"

JobsOf(c) == {j \in Jobs : jobs[j].state # "none" /\ jobs[j].cred = c}

BeingMinted(c) == \E r \in Requests : call[r].phase = "minting" /\ c \in call[r].batch

\* An uncommitted approval has changed the row.
Locked(c) == rows[c].stored /\ BeingMinted(c)

\* The bound on unfinished jobs leaves room for every call under way.
Room(S) == Cardinality({j \in Jobs : jobs[j].state = "none"}) >=
              Cardinality(S) + Cardinality({x \in Requests \X Creds :
                                               x[2] \in call[x[1]].batch})

Begin(r, phase, S, todo) ==
    /\ S # {} /\ Cardinality(S) <= MaxBatch /\ Room(S)
    /\ call[r].phase = "idle"
    /\ call' = [call EXCEPT ![r] = [phase |-> phase, batch |-> S, todo |-> todo]]

End(r) == call' = [call EXCEPT ![r] = Idle]

Ended(j) == [state |-> "none", cred |-> jobs[j].cred, attempt |-> 0]

\* EnqueueExtract: client.Insert, over River's own pool and without uniqueness.
Insert(c) ==
    \E j \in Jobs :
        /\ jobs[j].state = "none"
        /\ jobs' = [jobs EXCEPT ![j] = [state |-> "available", cred |-> c, attempt |-> 0]]
-----------------------------------------------------------------------------
(* Issue and Approve, from the mint to the commit.                          *)

\* Issue draws new ids, so nothing is known of them yet.
Mint(r, S) ==
    /\ \A c \in S : ~BeingMinted(c)
    /\ \/ \A c \in S : ~rows[c].stored /\ JobsOf(c) = {}
       \/ \A c \in S : rows[c].stored /\ ~rows[c].activated
    /\ Begin(r, "minting", S, S)
    /\ UNCHANGED <<rows, docs, jobs>>

EnqueueMinted(r, c) ==
    /\ call[r].phase = "minting" /\ c \in call[r].todo
    /\ Insert(c)
    /\ call' = [call EXCEPT ![r].todo = @ \ {c}]
    /\ UNCHANGED <<rows, docs>>

\* The error rolls the transaction back; jobs inserted before it stay.
MintedRefused(r, c) ==
    /\ "enqueue" \in Faults
    /\ call[r].phase = "minting" /\ c \in call[r].todo
    /\ Insert(c) \/ UNCHANGED jobs
    /\ End(r)
    /\ UNCHANGED <<rows, docs>>

CommitMint(r) ==
    /\ call[r].phase = "minting" /\ call[r].todo = {}
    /\ rows' = [c \in Creds |->
                   IF c \in call[r].batch
                   THEN [rows[c] EXCEPT !.stored = TRUE, !.activated = TRUE,
                                        !.enqueued = TRUE]
                   ELSE rows[c]]
    /\ End(r)
    /\ UNCHANGED <<docs, jobs>>

\* Of a mint, or of a ReExtract that has cleared nothing yet.
RollBack(r) ==
    /\ "commit" \in Faults
    /\ call[r].phase \in {"minting", "read"}
    /\ End(r)
    /\ UNCHANGED <<rows, docs, jobs>>
-----------------------------------------------------------------------------
(* ReExtract.                                                               *)

\* reExtractValidate, on rows that nothing locks.
ReadFailed(r, S) ==
    /\ \A c \in S : rows[c].stored /\ ExtractState(c) = "failed"
    /\ Begin(r, "read", S, {})
    /\ UNCHANGED <<rows, docs, jobs>>

\* ClearExtractOutcome and the commit.
Clear(r) ==
    /\ call[r].phase = "read"
    /\ \A c \in call[r].batch : ~Locked(c)
    /\ rows' = [c \in Creds |->
                   IF c \in call[r].batch
                   THEN [rows[c] EXCEPT !.enqueued = TRUE, !.extracted = FALSE,
                                        !.failed = FALSE]
                   ELSE rows[c]]
    /\ call' = [call EXCEPT ![r].phase = "cleared", ![r].todo = call[r].batch]
    /\ UNCHANGED <<docs, jobs>>

EnqueueCleared(r, c) ==
    /\ call[r].phase = "cleared" /\ c \in call[r].todo
    /\ Insert(c)
    /\ IF call[r].todo = {c} THEN End(r)
       ELSE call' = [call EXCEPT ![r].todo = @ \ {c}]
    /\ UNCHANGED <<rows, docs>>

\* The loop returns with the first error, after compensating for that one.
ClearedRefused(r, c) ==
    /\ "enqueue" \in Faults
    /\ call[r].phase = "cleared" /\ c \in call[r].todo
    /\ Insert(c) \/ UNCHANGED jobs
    /\ call' = [call EXCEPT ![r] = [phase |-> "compensating", batch |-> {c}, todo |-> {}]]
    /\ UNCHANGED <<rows, docs>>

\* Variant: the error is returned as it is.
Compensated_Nothing(c) == rows[c]

Compensated(c) == [rows[c] EXCEPT !.failed = TRUE]

\* reExtractCompensate; its own error is only logged.
Compensate(r) ==
    /\ call[r].phase = "compensating"
    /\ \A c \in call[r].batch : ~Locked(c)
    /\ \/ rows' = [c \in Creds |-> IF c \in call[r].batch THEN Compensated(c) ELSE rows[c]]
       \/ "stamp" \in Faults /\ UNCHANGED rows
    /\ End(r)
    /\ UNCHANGED <<docs, jobs>>
-----------------------------------------------------------------------------
(* River and the worker.                                                    *)

\* River retries after a back-off of at least a second.
Due(j) == jobs[j].attempt > 0 /\ "slow" \notin Faults => ~BeingMinted(jobs[j].cred)

Fetch(j) ==
    /\ jobs[j].state = "available" /\ Due(j)
    /\ jobs' = [jobs EXCEPT ![j].state = "reading", ![j].attempt = @ + 1]
    /\ UNCHANGED <<rows, docs, call>>

\* The file is read and decrypted, Python answers, and the row is there.
Load(j) ==
    /\ jobs[j].state = "reading" /\ rows[jobs[j].cred].stored
    /\ jobs' = [jobs EXCEPT ![j].state = "loaded"]
    /\ UNCHANGED <<rows, docs, call>>

\* Variant: an error of MongoDB is ignored.
Upserted_Ignored(j) == {docs, docs \cup {jobs[j].cred}}

Upserted(j) == {docs \cup {jobs[j].cred}}

Document(j) ==
    /\ jobs[j].state = "loaded"
    /\ docs' \in Upserted(j)
    /\ jobs' = [jobs EXCEPT ![j].state = "documented"]
    /\ UNCHANGED <<rows, call>>

\* Variant: the row is left alone.
Succeeded_Unstamped(c) == rows[c]

Succeeded(c) == [rows[c] EXCEPT !.extracted = TRUE]

\* extracted_at is set, whatever else the row says, and the job is completed.
Complete(j) ==
    LET c == jobs[j].cred
    IN  /\ jobs[j].state = "documented" /\ ~Locked(c)
        /\ rows' = [rows EXCEPT ![c] = Succeeded(c)]
        /\ jobs' = [jobs EXCEPT ![j] = Ended(j)]
        /\ UNCHANGED <<docs, call>>

Exhausted(j) == jobs[j].attempt >= MaxAttempts

\* An attempt fails, at any of its steps.
AttemptFails(j) ==
    /\ jobs[j].state \in Working
    /\ jobs' = [jobs EXCEPT ![j].state = IF Exhausted(j) THEN "failing" ELSE "available"]
    /\ UNCHANGED <<rows, docs, call>>

\* HandleError after the last attempt: workMarkFailed, whose own error is only
\* logged, and which changes nothing if the row does not exist.
HandleError(j) ==
    LET c == jobs[j].cred
    IN  /\ jobs[j].state = "failing" /\ ~Locked(c)
        /\ \/ rows' = [rows EXCEPT ![c].failed = @ \/ rows[c].stored]
           \/ "stamp" \in Faults /\ UNCHANGED rows
        /\ jobs' = [jobs EXCEPT ![j] = Ended(j)]
        /\ UNCHANGED <<docs, call>>

\* The server restarts.  River's rescuer makes a job that was running available
\* again, or discards it without a word when it has no attempt left.
Crash ==
    /\ "crash" \in Faults
    /\ call' = [r \in Requests |-> Idle]
    /\ jobs' = [j \in Jobs |->
                   IF jobs[j].state \notin Working \cup {"failing"} THEN jobs[j]
                   ELSE IF Exhausted(j) THEN Ended(j)
                   ELSE [jobs[j] EXCEPT !.state = "available"]]
    /\ UNCHANGED <<rows, docs>>
-----------------------------------------------------------------------------
Start(r) == \E S \in SUBSET Creds : Mint(r, S) \/ ReadFailed(r, S)

Refuse(r) == \E c \in Creds : MintedRefused(r, c) \/ ClearedRefused(r, c)

Proceed(r) == \/ \E c \in Creds : EnqueueMinted(r, c) \/ EnqueueCleared(r, c)
              \/ CommitMint(r) \/ Clear(r) \/ Compensate(r)

Work(j) == \/ Fetch(j) \/ Load(j) \/ Document(j) \/ Complete(j)
           \/ AttemptFails(j) \/ HandleError(j)

\* No call and no job is under way: the service may stay idle.
Quiet == /\ \A r \in Requests : call[r].phase = "idle"
         /\ \A j \in Jobs : jobs[j].state = "none"
         /\ UNCHANGED vars

Next == \/ \E r \in Requests : Start(r) \/ Proceed(r) \/ Refuse(r) \/ RollBack(r)
        \/ \E j \in Jobs : Work(j)
        \/ Crash \/ Quiet

Spec == Init /\ [][Next]_vars

\* A handler or a job that can go on does.  It may have to wait for a row that
\* one approval after another changes, but Postgres grants row locks in the
\* order they were asked for, and a back-off ends.
FairSpec == /\ Spec
            /\ \A r \in Requests : SF_vars(Proceed(r))
            /\ \A j \in Jobs : SF_vars(Work(j))
-----------------------------------------------------------------------------
(* Properties.                                                              *)

TypeOK == /\ rows \in [Creds -> Row]
          /\ docs \subseteq Creds
          /\ jobs \in [Jobs -> Job]
          /\ call \in [Requests -> Call]

\* Mongo is written before Postgres: a row that says the extraction succeeded has
\* its document, whatever crashed, failed or ran twice.
SucceededHasDocument == \A c \in Creds : rows[c].extracted => c \in docs

\* Who will bring a pending extraction to an end.
Backed(c) == \/ JobsOf(c) # {}
             \/ \E r \in Requests : \/ call[r].phase = "cleared" /\ c \in call[r].todo
                                    \/ call[r].phase = "compensating" /\ c \in call[r].batch

\* ReExtract takes failed extractions only, so a pending one must have a job, or
\* a call that will give it one or make it failed again: "so the operator can
\* retry the whole batch".
PendingIsBacked ==
    \A c \in Creds : rows[c].stored /\ ExtractState(c) = "pending" => Backed(c)

\* An extraction that is pending ends, with a document or as failed.
ExtractionEnds ==
    \A c \in Creds : ExtractState(c) = "pending" ~> ExtractState(c) \in {"succeeded", "failed"}
=============================================================================
