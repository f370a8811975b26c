-------------------------- MODULE ExtractionProofs --------------------------
(***************************************************************************)
(* Type correctness of Extraction, and that the document comes before the  *)
(* timestamp, for every number of credentials, calls and jobs and for all  *)
(* faults; then that no pending extraction is left to nobody, for the      *)
(* faults under which the code sees to that.                               *)
(***************************************************************************)
EXTENDS Extraction, FiniteSetTheorems, TLAPS

USE AttemptsAssumption

\* An attempt is left.
Retriable(j) == jobs[j].state = "available" => jobs[j].attempt < MaxAttempts

\* A job that has written its document, or a row that says so, has one.
DInv == /\ TypeOK
        /\ SucceededHasDocument
        /\ \A j \in Jobs : jobs[j].state = "documented" => jobs[j].cred \in docs
        /\ \A j \in Jobs : Retriable(j)

LEMMA InitDInv == Init => DInv
  <1>. SUFFICES ASSUME Init PROVE DInv OBVIOUS
  <1>1. PICK c \in Creds : jobs = [j \in Jobs |-> [state |-> "none", cred |-> c, attempt |-> 0]]
    BY DEF Init
  <1>2. Submitted \in Row /\ Absent \in Row
    BY DEF Submitted, Absent, Row
  <1>3. jobs \in [Jobs -> Job]
    BY <1>1, [state |-> "none", cred |-> c, attempt |-> 0] \in Job DEF Job
  <1>4. TypeOK
    BY <1>2, <1>3 DEF Init, TypeOK, Call, Idle
  <1>. QED BY <1>1, <1>4 DEF Init, DInv, Retriable, SucceededHasDocument, Submitted, Absent

\* What the parts of an action do to one variable.
LEMMA InsertIsTyped ==
  ASSUME DInv, NEW c \in Creds, Insert(c)
  PROVE  /\ jobs' \in [Jobs -> Job]
         /\ \A j \in Jobs : jobs'[j].state = "documented" => jobs'[j] = jobs[j]
         /\ \A j \in Jobs : Retriable(j)'
  BY DEF Retriable, DInv, TypeOK, Insert, Job, Working

LEMMA EndedIsTyped ==
  ASSUME DInv, NEW j \in Jobs
  PROVE  Ended(j) \in Job /\ Ended(j).state = "none"
  <1>1. jobs[j] \in Job BY DEF DInv, TypeOK
  <1>2. 0 \in 0..MaxAttempts OBVIOUS
  <1>. QED BY <1>1, <1>2 DEF Ended, Job

LEMMA EndIsTyped ==
  ASSUME DInv, NEW r \in Requests, End(r)
  PROVE  call' \in [Requests -> Call]
  BY DEF DInv, TypeOK, End, Idle, Call

\* What the updates of an outcome do to a row.
LEMMA RowIsStamped ==
  ASSUME NEW row \in Row, NEW b \in BOOLEAN
  PROVE  /\ [row EXCEPT !.failed = b] \in Row
         /\ [row EXCEPT !.failed = b].extracted = row.extracted
         /\ [row EXCEPT !.extracted = b] \in Row
  BY DEF Row

\* Steps that leave rows and documents alone.
LEMMA JobsOnly ==
  ASSUME DInv, UNCHANGED <<rows, docs>>,
         jobs' \in [Jobs -> Job], call' \in [Requests -> Call],
         \A j \in Jobs : jobs'[j].state = "documented" => jobs'[j] = jobs[j],
         \A j \in Jobs : Retriable(j)'
  PROVE  DInv'
  BY DEF DInv, TypeOK, SucceededHasDocument

\* Steps that write rows, but set no extracted_at.
LEMMA RowsOnly ==
  ASSUME DInv, UNCHANGED <<docs>>,
         rows' \in [Creds -> Row], call' \in [Requests -> Call],
         jobs' \in [Jobs -> Job],
         \A c \in Creds : rows'[c].extracted => rows[c].extracted,
         \A j \in Jobs : jobs'[j].state = "documented" => jobs'[j] = jobs[j],
         \A j \in Jobs : Retriable(j)'
  PROVE  DInv'
  BY DEF DInv, TypeOK, SucceededHasDocument

LEMMA NextDInv == DInv /\ [Next]_vars => DInv'
  <1>. SUFFICES ASSUME DInv, [Next]_vars PROVE DInv' OBVIOUS
  <1>. USE DEF DInv, TypeOK, Retriable
  <1>0. Jobs = Jobs /\ \A j \in Jobs : jobs[j] \in Job OBVIOUS
  <1>1. ASSUME NEW r \in Requests, NEW S \in SUBSET Creds, Mint(r, S) PROVE DInv'
    <2>1. call' \in [Requests -> Call] BY <1>1 DEF Mint, Begin, Call
    <2>. QED BY <1>1, <2>1, JobsOnly DEF Mint
  <1>2. ASSUME NEW r \in Requests, NEW S \in SUBSET Creds, ReadFailed(r, S) PROVE DInv'
    <2>1. call' \in [Requests -> Call] BY <1>2 DEF ReadFailed, Begin, Call
    <2>. QED BY <1>2, <2>1, JobsOnly DEF ReadFailed
  <1>3. ASSUME NEW r \in Requests, NEW c \in Creds, EnqueueMinted(r, c) PROVE DInv'
    <2>1. call' \in [Requests -> Call] BY <1>3 DEF EnqueueMinted, Call
    <2>. QED BY <1>3, <2>1, InsertIsTyped, JobsOnly DEF EnqueueMinted
  <1>4. ASSUME NEW r \in Requests, NEW c \in Creds, MintedRefused(r, c) PROVE DInv'
    <2>1. call' \in [Requests -> Call] BY <1>4, EndIsTyped DEF MintedRefused
    <2>2. /\ jobs' \in [Jobs -> Job]
          /\ \A j \in Jobs : jobs'[j].state = "documented" => jobs'[j] = jobs[j]
          /\ \A j \in Jobs : Retriable(j)'
      BY <1>4, InsertIsTyped DEF MintedRefused
    <2>. QED BY <1>4, <2>1, <2>2, JobsOnly DEF MintedRefused
  <1>5. ASSUME NEW r \in Requests, CommitMint(r) PROVE DInv'
    <2>1. /\ rows' \in [Creds -> Row]
          /\ \A c \in Creds : rows'[c].extracted => rows[c].extracted
      BY <1>5 DEF CommitMint, Row
    <2>. QED BY <1>5, <2>1, EndIsTyped, RowsOnly DEF CommitMint
  <1>6. ASSUME NEW r \in Requests, RollBack(r) PROVE DInv'
    BY <1>6, EndIsTyped, JobsOnly DEF RollBack
  <1>7. ASSUME NEW r \in Requests, Clear(r) PROVE DInv'
    <2>1. /\ rows' \in [Creds -> Row]
          /\ \A c \in Creds : rows'[c].extracted => rows[c].extracted
      BY <1>7 DEF Clear, Row
    <2>2. call' \in [Requests -> Call] BY <1>7 DEF Clear, Call
    <2>. QED BY <1>7, <2>1, <2>2, RowsOnly DEF Clear
  <1>8. ASSUME NEW r \in Requests, NEW c \in Creds, EnqueueCleared(r, c) PROVE DInv'
    <2>1. call' \in [Requests -> Call] BY <1>8, EndIsTyped DEF EnqueueCleared, Call
    <2>. QED BY <1>8, <2>1, InsertIsTyped, JobsOnly DEF EnqueueCleared
  <1>9. ASSUME NEW r \in Requests, NEW c \in Creds, ClearedRefused(r, c) PROVE DInv'
    <2>1. call' \in [Requests -> Call] BY <1>9 DEF ClearedRefused, Call
    <2>2. /\ jobs' \in [Jobs -> Job]
          /\ \A j \in Jobs : jobs'[j].state = "documented" => jobs'[j] = jobs[j]
          /\ \A j \in Jobs : Retriable(j)'
      BY <1>9, InsertIsTyped DEF ClearedRefused
    <2>. QED BY SMTT(30), <1>9, <2>1, <2>2, JobsOnly DEF ClearedRefused
  <1>10. ASSUME NEW r \in Requests, Compensate(r) PROVE DInv'
    <2>1. \A c \in Creds : /\ Compensated(c) \in Row
                          /\ Compensated(c).extracted = rows[c].extracted
      BY RowIsStamped DEF Compensated
    <2>2. /\ rows' \in [Creds -> Row]
          /\ \A c \in Creds : rows'[c].extracted => rows[c].extracted
      BY <1>10, <2>1 DEF Compensate
    <2>. QED BY <1>10, <2>2, EndIsTyped, RowsOnly DEF Compensate
  <1>11. ASSUME NEW j \in Jobs, Fetch(j) PROVE DInv'
    <2>1. jobs[j].attempt + 1 \in 0..MaxAttempts
      BY <1>11 DEF Fetch, Retriable, Job
    <2>2. jobs' \in [Jobs -> Job]
      BY <1>11, <2>1 DEF Fetch, Job, Working
    <2>3. \A k \in Jobs : Retriable(k)'
      BY <1>11 DEF Fetch, Retriable
    <2>. QED BY <1>11, <2>2, <2>3, JobsOnly DEF Fetch
  <1>12. ASSUME NEW j \in Jobs, Load(j) PROVE DInv'
    BY <1>12, JobsOnly DEF Load, Retriable, Job, Working
  <1>13. ASSUME NEW j \in Jobs, Document(j) PROVE DInv'
    BY <1>13 DEF Document, Upserted, Retriable, SucceededHasDocument, Job, Working
  <1>14. ASSUME NEW j \in Jobs, Complete(j) PROVE DInv'
    <2>. DEFINE c == jobs[j].cred
    <2>1. c \in Creds /\ c \in docs
      BY <1>14 DEF Complete, Job
    <2>2. Succeeded(c) \in Row
      BY <2>1, RowIsStamped DEF Succeeded
    <2>3. rows' \in [Creds -> Row]
      BY <1>14, <2>2 DEF Complete
    <2>4. SucceededHasDocument'
      BY <1>14, <2>1 DEF Complete, SucceededHasDocument
    <2>5. /\ jobs' \in [Jobs -> Job]
          /\ \A k \in Jobs : jobs'[k].state # "none" => jobs'[k] = jobs[k]
      BY <1>14, EndedIsTyped DEF Complete
    <2>. QED BY <1>14, <2>3, <2>4, <2>5 DEF Complete
  <1>15. ASSUME NEW j \in Jobs, AttemptFails(j) PROVE DInv'
    <2>1. /\ jobs' \in [Jobs -> Job]
          /\ \A k \in Jobs : jobs'[k].state = "documented" => jobs'[k] = jobs[k]
          /\ \A k \in Jobs : Retriable(k)'
      BY <1>15 DEF AttemptFails, Exhausted, Retriable, Job, Working
    <2>. QED BY <1>15, <2>1, JobsOnly DEF AttemptFails
  <1>16. ASSUME NEW j \in Jobs, HandleError(j) PROVE DInv'
    <2>. DEFINE c == jobs[j].cred
    <2>1. c \in Creds
      BY <1>16 DEF Job
    <2>2. /\ [rows[c] EXCEPT !.failed = @ \/ rows[c].stored] \in Row
          /\ [rows[c] EXCEPT !.failed = @ \/ rows[c].stored].extracted = rows[c].extracted
      BY <2>1, rows[c] \in Row, RowIsStamped, (rows[c].failed \/ rows[c].stored) \in BOOLEAN DEF Row
    <2>3. /\ rows' \in [Creds -> Row]
          /\ \A d \in Creds : rows'[d].extracted => rows[d].extracted
      BY <1>16, <2>1, <2>2 DEF HandleError
    <2>4. /\ jobs' \in [Jobs -> Job]
          /\ \A k \in Jobs : jobs'[k].state # "none" => jobs'[k] = jobs[k]
      BY <1>16, EndedIsTyped DEF HandleError
    <2>. QED BY <1>16, <2>3, <2>4, RowsOnly DEF HandleError
  <1>17. ASSUME Crash PROVE DInv'
    <2>1. call' \in [Requests -> Call] BY <1>17 DEF Crash, Idle, Call
    <2>. DEFINE rescued(k) == [jobs[k] EXCEPT !.state = "available"]
    <2>2. ASSUME NEW k \in Jobs
          PROVE  /\ jobs'[k] \in Job
                 /\ jobs'[k].state # "documented"
                 /\ Retriable(k)'
      <3>1. rescued(k) \in Job /\ rescued(k).state = "available" /\ rescued(k).attempt = jobs[k].attempt
        BY DEF Job
      <3>2. CASE jobs[k].state \notin Working \cup {"failing"}
        BY <1>17, <3>2 DEF Crash, Working
      <3>3. CASE jobs[k].state \in Working \cup {"failing"} /\ Exhausted(k)
        BY <1>17, <3>3, EndedIsTyped DEF Crash
      <3>4. CASE jobs[k].state \in Working \cup {"failing"} /\ ~Exhausted(k)
        <4>1. jobs'[k] = rescued(k)
          BY <1>17, <3>4 DEF Crash
        <4>2. jobs[k].attempt < MaxAttempts
          BY <3>4 DEF Exhausted, Job
        <4>. QED BY <3>1, <4>1, <4>2
      <3>. QED BY <3>2, <3>3, <3>4
    <2>3. jobs' \in [Jobs -> Job]
      BY <1>17, <2>2 DEF Crash
    <2>. QED BY <1>17, <2>1, <2>2, <2>3, JobsOnly DEF Crash
  <1>18. CASE UNCHANGED vars
    BY <1>18 DEF vars, Retriable, SucceededHasDocument
  <1>19. CASE Next
    BY <1>19, <1>1, <1>2, <1>3, <1>4, <1>5, <1>6, <1>7, <1>8, <1>9, <1>10, <1>11,
       <1>12, <1>13, <1>14, <1>15, <1>16, <1>17, <1>18
    DEF Next, Start, Proceed, Refuse, Work, Quiet
  <1>. QED BY <1>18, <1>19
-----------------------------------------------------------------------------
LEMMA DInvHolds == Spec => []DInv
  BY InitDInv, NextDInv, PTL DEF Spec

\* Every variable keeps its type; no job is attempted more than MaxAttempts times.
THEOREM TypeCorrect == Spec => []TypeOK
  <1>1. DInv => TypeOK BY DEF DInv
  <1>. QED BY <1>1, DInvHolds, PTL

\* MongoDB first: a row that says its extraction succeeded has its document,
\* whatever crashed, was refused or ran twice.
THEOREM DocumentFirst == Spec => []SucceededHasDocument
  <1>1. DInv => SucceededHasDocument BY DEF DInv
  <1>. QED BY <1>1, DInvHolds, PTL
-----------------------------------------------------------------------------
(* A pending extraction has somebody who ends it, as long as the server does *)
(* not die, recording a failure does not fail itself, and a transaction does *)
(* not outlast a back-off. Where an enqueue may be refused, calls are about  *)
(* one credential: the loop of a batch stops at the first refusal. A job     *)
(* that found no row yet must be tried once more.                            *)
Undisturbed == /\ Faults \subseteq {"enqueue", "commit"}
               /\ "enqueue" \in Faults => MaxBatch = 1
               /\ MaxAttempts > 1
               /\ IsFiniteSet(Creds)

\* The jobs of a call that mints wait for its commit: those of an approval for
\* the row's lock, and those of an issue, which find no row, for their back-off.
Inserted == \A r \in Requests : call[r].phase = "minting" =>
               \A c \in call[r].batch \ call[r].todo : JobsOf(c) # {}

Fresh == \A c \in Creds : BeingMinted(c) /\ ~rows[c].stored =>
            \A j \in JobsOf(c) : /\ jobs[j].state \in {"available", "reading"}
                                 /\ jobs[j].attempt <= 1

\* Where an enqueue may be refused, a set of credentials has one member at most.
Alone(S) == "enqueue" \in Faults => \A c, d \in S : c = d

Single == \A r \in Requests : call[r].todo \subseteq call[r].batch /\ Alone(call[r].batch)

BInv == DInv /\ PendingIsBacked /\ Inserted /\ Fresh /\ Single

Pending(c) == rows[c].stored /\ rows[c].enqueued /\ ~rows[c].extracted /\ ~rows[c].failed

LEMMA PendingMeans ==
  ASSUME NEW c
  PROVE  rows[c].stored /\ ExtractState(c) = "pending" <=> Pending(c)
  BY DEF ExtractState, Pending

LEMMA BackedMeans == PendingIsBacked <=> \A c \in Creds : Pending(c) => Backed(c)
  BY PendingMeans DEF PendingIsBacked

LEMMA InitBInv == Init => BInv
  <1>. SUFFICES ASSUME Init PROVE BInv OBVIOUS
  <1>1. \A r \in Requests : call[r] = Idle
    BY DEF Init
  <1>2. \A c \in Creds : ~Pending(c)
    BY DEF Init, Pending, Submitted, Absent
  <1>3. \A c \in Creds : ~BeingMinted(c)
    BY <1>1 DEF BeingMinted, Idle
  <1>. QED BY <1>1, <1>2, <1>3, InitDInv, BackedMeans DEF BInv, Inserted, Fresh, Single, Alone, Idle

LEMMA OneCredential ==
  ASSUME Undisturbed, NEW S \in SUBSET Creds, Cardinality(S) <= MaxBatch
  PROVE  Alone(S)
  <1>. SUFFICES ASSUME "enqueue" \in Faults PROVE \A c, d \in S : c = d
    BY DEF Alone
  <1>1. IsFiniteSet(S) /\ Cardinality(S) \in Nat /\ Cardinality(S) <= 1
    BY FS_Subset, FS_CardinalityType DEF Undisturbed
  <1>2. CASE Cardinality(S) = 0
    BY <1>1, <1>2, FS_EmptySet
  <1>3. CASE Cardinality(S) = 1
    BY <1>1, <1>3, FS_Singleton
  <1>. QED BY <1>1, <1>2, <1>3

LEMMA BackedLater ==
  ASSUME \A c \in Creds : Pending(c)' => Backed(c)'
  PROVE  PendingIsBacked'
  BY DEF PendingIsBacked, ExtractState, Pending

\* A step of a call that writes no row: jobs are inserted at most, and whom the
\* call backed has a job now or is backed by the call still.
LEMMA CallMoves ==
  ASSUME BInv, NEW r \in Requests, NEW k, k.todo \subseteq k.batch,
         Alone(k.batch),
         call' = [call EXCEPT ![r] = k], UNCHANGED rows,
         \A d \in Creds : \A j \in JobsOf(d) : j \in JobsOf(d)' /\ jobs'[j] = jobs[j],
         \A d \in Creds : \A j \in JobsOf(d)' :
            j \in JobsOf(d) \/ (jobs'[j].state = "available" /\ jobs'[j].attempt = 0),
         k.phase = "minting" =>
            \A d \in k.batch : /\ d \in k.todo \/ JobsOf(d)' # {}
                               /\ \/ call[r].phase = "minting" /\ d \in call[r].batch
                                  \/ rows[d].stored \/ JobsOf(d)' = {},
         \A d \in Creds : \/ call[r].phase = "cleared" /\ d \in call[r].todo
                          \/ call[r].phase = "compensating" /\ d \in call[r].batch
            => \/ JobsOf(d)' # {}
               \/ k.phase = "cleared" /\ d \in k.todo
               \/ k.phase = "compensating" /\ d \in k.batch
  PROVE  PendingIsBacked' /\ Inserted' /\ Fresh' /\ Single'
  <1>0. call \in [Requests -> Call] /\ \A q \in Requests : call[q].batch \subseteq Creds
    BY DEF BInv, DInv, TypeOK, Call
  <1>1. call'[r] = k /\ \A q \in Requests \ {r} : call'[q] = call[q]
    BY <1>0
  <1>2. \A c \in Creds : Pending(c)' <=> Pending(c)
    BY DEF Pending
  <1>3. ASSUME NEW c \in Creds, Backed(c) PROVE Backed(c)'
    <2>1. CASE JobsOf(c) # {}
      BY <2>1 DEF Backed
    <2>2. CASE \E q \in Requests \ {r} :
                  \/ call[q].phase = "cleared" /\ c \in call[q].todo
                  \/ call[q].phase = "compensating" /\ c \in call[q].batch
      BY <1>1, <2>2 DEF Backed
    <2>3. CASE \/ call[r].phase = "cleared" /\ c \in call[r].todo
               \/ call[r].phase = "compensating" /\ c \in call[r].batch
      BY <1>1, <2>3 DEF Backed
    <2>. QED BY <1>3, <2>1, <2>2, <2>3 DEF Backed
  <1>4. PendingIsBacked'
    BY <1>2, <1>3, BackedMeans, BackedLater DEF BInv
  <1>5. Inserted'
    <2>1. ASSUME NEW q \in Requests, call'[q].phase = "minting",
                 NEW c \in call'[q].batch \ call'[q].todo
          PROVE  JobsOf(c)' # {}
      <3>1. CASE q = r
        BY <1>1, <2>1, <3>1
      <3>2. CASE q # r
        <4>1. call'[q] = call[q]
          BY <1>1, <3>2
        <4>2. c \in Creds /\ JobsOf(c) # {}
          BY <1>0, <2>1, <4>1 DEF BInv, Inserted
        <4>. QED BY <4>2
      <3>. QED BY <3>1, <3>2
    <2>. QED BY <2>1 DEF Inserted
  <1>6. ASSUME NEW c \in Creds, BeingMinted(c)', ~rows[c].stored
        PROVE  BeingMinted(c) \/ JobsOf(c)' = {}
    BY <1>1, <1>6 DEF BeingMinted
  <1>7. ASSUME NEW c \in Creds, BeingMinted(c)', ~rows[c].stored, NEW j \in JobsOf(c)'
        PROVE  jobs'[j].state \in {"available", "reading"} /\ jobs'[j].attempt <= 1
    <2>1. CASE j \notin JobsOf(c)
      BY <1>7, <2>1
    <2>2. CASE j \in JobsOf(c)
      <3>1. BeingMinted(c)
        BY <1>6, <1>7
      <3>. QED BY <1>7, <2>2, <3>1 DEF BInv, Fresh
    <2>. QED BY <2>1, <2>2
  <1>8. Fresh'
    BY <1>7 DEF Fresh
  <1>9. Single'
    BY <1>1 DEF BInv, Single
  <1>. QED BY <1>4, <1>5, <1>8, <1>9

\* A job that is inserted is new to its credential, and the others stay.
LEMMA InsertMeans ==
  ASSUME BInv, NEW c \in Creds, Insert(c)
  PROVE  /\ \A d \in Creds : \A j \in JobsOf(d) : j \in JobsOf(d)' /\ jobs'[j] = jobs[j]
         /\ \A d \in Creds : \A j \in JobsOf(d)' :
               j \in JobsOf(d) \/ (jobs'[j].state = "available" /\ jobs'[j].attempt = 0)
         /\ JobsOf(c)' # {}
  <1>1. PICK i \in Jobs :
           /\ jobs[i].state = "none"
           /\ jobs' = [jobs EXCEPT ![i] = [state |-> "available", cred |-> c, attempt |-> 0]]
    BY DEF Insert
  <1>2. /\ jobs'[i] = [state |-> "available", cred |-> c, attempt |-> 0]
        /\ \A j \in Jobs \ {i} : jobs'[j] = jobs[j]
    BY <1>1 DEF BInv, DInv, TypeOK
  <1>3. i \in JobsOf(c)'
    BY <1>2 DEF JobsOf
  <1>. QED BY <1>1, <1>2, <1>3 DEF JobsOf

LEMMA NoInsert ==
  ASSUME UNCHANGED jobs
  PROVE  /\ \A d \in Creds : JobsOf(d)' = JobsOf(d)
         /\ \A d \in Creds : \A j \in JobsOf(d) : j \in JobsOf(d)' /\ jobs'[j] = jobs[j]
         /\ \A d \in Creds : \A j \in JobsOf(d)' :
               j \in JobsOf(d) \/ (jobs'[j].state = "available" /\ jobs'[j].attempt = 0)
  BY DEF JobsOf

LEMMA StartB ==
  ASSUME BInv, Undisturbed, NEW r \in Requests, Start(r)
  PROVE  PendingIsBacked' /\ Inserted' /\ Fresh' /\ Single'
  <1>1. PICK S \in SUBSET Creds : Mint(r, S) \/ ReadFailed(r, S)
    BY DEF Start
  <1>2. /\ UNCHANGED <<rows, docs, jobs>> /\ call[r].phase = "idle"
        /\ Alone(S)
    BY <1>1, OneCredential DEF Mint, ReadFailed, Begin
  <1>3. CASE Mint(r, S)
    <2>. DEFINE k == [phase |-> "minting", batch |-> S, todo |-> S]
    <2>1. call' = [call EXCEPT ![r] = k] /\ k.batch = S /\ k.todo = S
      BY <1>3 DEF Mint, Begin
    <2>2. \A d \in S : rows[d].stored \/ JobsOf(d)' = {}
      BY <1>2, <1>3, NoInsert DEF Mint
    <2>. HIDE DEF k
    <2>3. k.todo \subseteq k.batch /\ Alone(k.batch)
      BY <1>2, <2>1
    <2>4. \A d \in k.batch : /\ d \in k.todo \/ JobsOf(d)' # {}
                             /\ \/ call[r].phase = "minting" /\ d \in call[r].batch
                                \/ rows[d].stored \/ JobsOf(d)' = {}
      BY <2>1, <2>2
    <2>5. call[r].phase \notin {"cleared", "compensating"}
      BY <1>2
    <2>. QED BY <1>2, <2>1, <2>3, <2>4, <2>5, NoInsert, CallMoves
  <1>4. CASE ReadFailed(r, S)
    <2>. DEFINE k == [phase |-> "read", batch |-> S, todo |-> {}]
    <2>1. call' = [call EXCEPT ![r] = k] /\ k.batch = S /\ k.todo = {} /\ k.phase = "read"
      BY <1>4 DEF ReadFailed, Begin
    <2>. HIDE DEF k
    <2>. QED BY <1>2, <2>1, NoInsert, CallMoves
  <1>. QED BY <1>1, <1>3, <1>4

LEMMA IdleMeans == Idle.phase = "idle" /\ Idle.batch = {} /\ Idle.todo = {} /\ Alone(Idle.batch)
  BY DEF Idle, Alone

LEMMA EnqueueB ==
  ASSUME BInv, NEW r \in Requests, NEW c \in Creds,
         \/ EnqueueMinted(r, c) \/ EnqueueCleared(r, c)
         \/ MintedRefused(r, c) \/ ClearedRefused(r, c)
  PROVE  PendingIsBacked' /\ Inserted' /\ Fresh' /\ Single'
  <1>0. /\ call \in [Requests -> Call] /\ call[r] \in Call
        /\ call[r].todo \subseteq call[r].batch /\ call[r].batch \subseteq Creds
        /\ Alone(call[r].batch)
        /\ c \in call[r].todo
    BY DEF BInv, DInv, TypeOK, Single, Call, EnqueueMinted, EnqueueCleared, MintedRefused,
           ClearedRefused
  <1>1. /\ \A d \in Creds : \A j \in JobsOf(d) : j \in JobsOf(d)' /\ jobs'[j] = jobs[j]
        /\ \A d \in Creds : \A j \in JobsOf(d)' :
              j \in JobsOf(d) \/ (jobs'[j].state = "available" /\ jobs'[j].attempt = 0)
        /\ UNCHANGED rows
    BY InsertMeans, NoInsert DEF EnqueueMinted, EnqueueCleared, MintedRefused, ClearedRefused
  <1>2. ASSUME "enqueue" \in Faults PROVE call[r].batch = {c}
    BY <1>0, <1>2 DEF Alone
  <1>3. CASE EnqueueMinted(r, c)
    <2>. DEFINE k == [call[r] EXCEPT !.todo = @ \ {c}]
    <2>1. /\ call' = [call EXCEPT ![r] = k]
          /\ k.phase = "minting" /\ k.batch = call[r].batch /\ k.todo = call[r].todo \ {c}
          /\ call[r].phase = "minting"
      BY <1>0, <1>3 DEF EnqueueMinted, Call
    <2>2. JobsOf(c)' # {}
      BY <1>3, InsertMeans DEF EnqueueMinted
    <2>. HIDE DEF k
    <2>3. k.todo \subseteq k.batch /\ Alone(k.batch)
      BY <1>0, <2>1
    <2>4. ASSUME NEW d \in k.batch, d \notin k.todo PROVE JobsOf(d)' # {}
      <3>1. CASE d = c
        BY <2>2, <3>1
      <3>2. CASE d # c
        <4>1. d \in call[r].batch \ call[r].todo /\ d \in Creds
          BY <1>0, <2>1, <2>4, <3>2
        <4>2. JobsOf(d) # {}
          BY <2>1, <4>1 DEF BInv, Inserted
        <4>. QED BY <1>1, <4>1, <4>2
      <3>. QED BY <3>1, <3>2
    <2>5. \A d \in k.batch : /\ d \in k.todo \/ JobsOf(d)' # {}
                             /\ \/ call[r].phase = "minting" /\ d \in call[r].batch
                                \/ rows[d].stored \/ JobsOf(d)' = {}
      BY <2>1, <2>4
    <2>6. call[r].phase \notin {"cleared", "compensating"}
      BY <2>1
    <2>. QED BY <1>1, <2>1, <2>3, <2>5, <2>6, CallMoves
  <1>4. CASE EnqueueCleared(r, c)
    <2>1. JobsOf(c)' # {} /\ call[r].phase = "cleared"
      BY <1>4, InsertMeans DEF EnqueueCleared
    <2>2. CASE call[r].todo = {c}
      <3>1. call' = [call EXCEPT ![r] = Idle]
        BY <1>4, <2>2 DEF EnqueueCleared, End
      <3>. QED BY <1>0, <1>1, <2>1, <2>2, <3>1, IdleMeans, CallMoves
    <2>3. CASE call[r].todo # {c}
      <3>. DEFINE k == [call[r] EXCEPT !.todo = @ \ {c}]
      <3>1. /\ call' = [call EXCEPT ![r] = k]
            /\ k.phase = "cleared" /\ k.batch = call[r].batch /\ k.todo = call[r].todo \ {c}
        BY <1>0, <1>4, <2>3 DEF EnqueueCleared, Call
      <3>. HIDE DEF k
      <3>2. k.todo \subseteq k.batch /\ Alone(k.batch) /\ k.phase # "minting"
        BY <1>0, <3>1
      <3>3. \A d \in Creds : \/ call[r].phase = "cleared" /\ d \in call[r].todo
                             \/ call[r].phase = "compensating" /\ d \in call[r].batch
               => \/ JobsOf(d)' # {}
                  \/ k.phase = "cleared" /\ d \in k.todo
                  \/ k.phase = "compensating" /\ d \in k.batch
        BY <2>1, <3>1
      <3>. QED BY <1>1, <3>1, <3>2, <3>3, CallMoves
    <2>. QED BY <2>2, <2>3
  <1>5. CASE MintedRefused(r, c)
    <2>1. call' = [call EXCEPT ![r] = Idle] /\ call[r].phase = "minting"
      BY <1>5 DEF MintedRefused, End
    <2>. QED BY <1>1, <2>1, IdleMeans, CallMoves
  <1>6. CASE ClearedRefused(r, c)
    <2>. DEFINE k == [phase |-> "compensating", batch |-> {c}, todo |-> {}]
    <2>1. /\ call' = [call EXCEPT ![r] = k] /\ call[r].phase = "cleared"
          /\ k.phase = "compensating" /\ k.batch = {c} /\ k.todo = {}
          /\ "enqueue" \in Faults
      BY <1>6 DEF ClearedRefused
    <2>2. call[r].todo \subseteq {c}
      BY <1>0, <1>2, <2>1
    <2>. HIDE DEF k
    <2>3. k.todo \subseteq k.batch /\ Alone(k.batch) /\ k.phase # "minting"
      BY <2>1 DEF Alone
    <2>4. \A d \in Creds : \/ call[r].phase = "cleared" /\ d \in call[r].todo
                           \/ call[r].phase = "compensating" /\ d \in call[r].batch
             => \/ JobsOf(d)' # {}
                \/ k.phase = "cleared" /\ d \in k.todo
                \/ k.phase = "compensating" /\ d \in k.batch
      BY <2>1, <2>2
    <2>. QED BY <1>1, <2>1, <2>3, <2>4, CallMoves
  <1>. QED BY <1>3, <1>4, <1>5, <1>6

LEMMA RollBackB ==
  ASSUME BInv, NEW r \in Requests, RollBack(r)
  PROVE  PendingIsBacked' /\ Inserted' /\ Fresh' /\ Single'
  <1>1. /\ call' = [call EXCEPT ![r] = Idle] /\ UNCHANGED <<rows, jobs>>
        /\ call[r].phase \in {"minting", "read"}
    BY DEF RollBack, End
  <1>. QED BY <1>1, IdleMeans, NoInsert, CallMoves

\* A step of a call that writes rows: nothing is minted by it afterwards.
LEMMA RowsMove ==
  ASSUME BInv, NEW r \in Requests, NEW k, k.todo \subseteq k.batch,
         Alone(k.batch),
         k.phase # "minting",
         call' = [call EXCEPT ![r] = k], UNCHANGED jobs,
         \A d \in Creds : rows[d].stored => rows'[d].stored,
         \A d \in Creds : Pending(d)' =>
            \/ Pending(d) /\ ~(\/ call[r].phase = "cleared" /\ d \in call[r].todo
                               \/ call[r].phase = "compensating" /\ d \in call[r].batch)
            \/ JobsOf(d) # {}
            \/ k.phase = "cleared" /\ d \in k.todo
  PROVE  PendingIsBacked' /\ Inserted' /\ Fresh' /\ Single'
  <1>0. call \in [Requests -> Call]
    BY DEF BInv, DInv, TypeOK
  <1>1. call'[r] = k /\ \A q \in Requests \ {r} : call'[q] = call[q]
    BY <1>0
  <1>2. \A d : JobsOf(d)' = JobsOf(d)
    BY DEF JobsOf
  <1>3. ASSUME NEW d \in Creds, Pending(d)' PROVE Backed(d)'
    <2>1. CASE JobsOf(d) # {}
      BY <1>2, <2>1 DEF Backed
    <2>2. CASE k.phase = "cleared" /\ d \in k.todo
      BY <1>1, <2>2 DEF Backed
    <2>3. CASE Pending(d) /\ ~(\/ call[r].phase = "cleared" /\ d \in call[r].todo
                               \/ call[r].phase = "compensating" /\ d \in call[r].batch)
      <3>1. Backed(d)
        BY <2>3, BackedMeans DEF BInv
      <3>. QED BY <1>1, <1>2, <2>3, <3>1 DEF Backed
    <2>. QED BY <1>3, <2>1, <2>2, <2>3
  <1>4. Inserted'
    BY <1>1, <1>2 DEF BInv, Inserted
  <1>5. \A c \in Creds : BeingMinted(c)' => BeingMinted(c)
    BY <1>1 DEF BeingMinted
  <1>6. Fresh'
    BY <1>2, <1>5 DEF BInv, Fresh
  <1>7. Single'
    BY <1>1 DEF BInv, Single
  <1>. QED BY <1>3, <1>4, <1>6, <1>7, BackedLater

LEMMA WriteB ==
  ASSUME BInv, Undisturbed, NEW r \in Requests, CommitMint(r) \/ Clear(r) \/ Compensate(r)
  PROVE  PendingIsBacked' /\ Inserted' /\ Fresh' /\ Single'
  <1>0. /\ rows \in [Creds -> Row] /\ call \in [Requests -> Call] /\ call[r] \in Call
        /\ Alone(call[r].batch)
        /\ \A d \in Creds : rows[d] \in Row
        /\ UNCHANGED jobs
    BY DEF BInv, DInv, TypeOK, Single, CommitMint, Clear, Compensate
  <1>1. CASE CommitMint(r)
    <2>1. call' = [call EXCEPT ![r] = Idle] /\ call[r].phase = "minting"
      BY <1>1 DEF CommitMint, End
    <2>2. \A d \in Creds : d \in call[r].batch => rows'[d].stored /\ JobsOf(d) # {}
      BY <1>0, <1>1 DEF CommitMint, BInv, Inserted, Row
    <2>3. \A d \in Creds : d \notin call[r].batch => rows'[d] = rows[d]
      BY <1>1 DEF CommitMint
    <2>4. \A d \in Creds : rows[d].stored => rows'[d].stored
      BY <2>2, <2>3
    <2>5. \A d \in Creds : Pending(d)' => Pending(d) \/ JobsOf(d) # {}
      BY <2>2, <2>3 DEF Pending
    <2>. QED BY <1>0, <2>1, <2>4, <2>5, IdleMeans, RowsMove
  <1>2. CASE Clear(r)
    <2>. DEFINE k == [call[r] EXCEPT !.phase = "cleared", !.todo = call[r].batch]
    <2>1. /\ call' = [call EXCEPT ![r] = k] /\ call[r].phase = "read"
          /\ k.phase = "cleared" /\ k.todo = call[r].batch /\ k.batch = call[r].batch
      BY <1>0, <1>2 DEF Clear, Call
    <2>2. \A d \in Creds : d \in call[r].batch => rows'[d].stored = rows[d].stored
      BY <1>0, <1>2 DEF Clear, Row
    <2>3. \A d \in Creds : d \notin call[r].batch => rows'[d] = rows[d]
      BY <1>2 DEF Clear
    <2>4. \A d \in Creds : rows[d].stored => rows'[d].stored
      BY <2>2, <2>3
    <2>5. \A d \in Creds : Pending(d)' => Pending(d) \/ d \in k.todo
      BY <2>1, <2>3 DEF Pending
    <2>. HIDE DEF k
    <2>6. k.todo \subseteq k.batch /\ Alone(k.batch)
      BY <1>0, <2>1
    <2>7. \A d \in Creds : Pending(d)' =>
             \/ Pending(d) /\ ~(\/ call[r].phase = "cleared" /\ d \in call[r].todo
                                \/ call[r].phase = "compensating" /\ d \in call[r].batch)
             \/ JobsOf(d) # {}
             \/ k.phase = "cleared" /\ d \in k.todo
      BY <2>1, <2>5
    <2>. QED BY <1>0, <2>1, <2>4, <2>6, <2>7, RowsMove
  <1>3. CASE Compensate(r)
    <2>1. call' = [call EXCEPT ![r] = Idle] /\ call[r].phase = "compensating"
      BY <1>3 DEF Compensate, End
    <2>2. rows' = [c \in Creds |-> IF c \in call[r].batch THEN Compensated(c) ELSE rows[c]]
      BY <1>3 DEF Compensate, Undisturbed
    <2>3. \A d \in Creds : d \in call[r].batch =>
             rows'[d].stored = rows[d].stored /\ rows'[d].failed = TRUE
      BY <1>0, <2>2 DEF Compensated, Row
    <2>4. \A d \in Creds : d \notin call[r].batch => rows'[d] = rows[d]
      BY <2>2
    <2>5. \A d \in Creds : rows[d].stored => rows'[d].stored
      BY <2>3, <2>4
    <2>6. \A d \in Creds : Pending(d)' => Pending(d) /\ d \notin call[r].batch
      BY <2>3, <2>4 DEF Pending
    <2>. QED BY <1>0, <2>1, <2>5, <2>6, IdleMeans, RowsMove
  <1>. QED BY <1>1, <1>2, <1>3

\* A job that goes on.
LEMMA JobMoves ==
  ASSUME BInv, NEW j \in Jobs, NEW job, jobs' = [jobs EXCEPT ![j] = job],
         UNCHANGED <<rows, call>>,
         jobs[j].state # "none", job.state # "none", job.cred = jobs[j].cred,
         BeingMinted(job.cred) /\ ~rows[job.cred].stored =>
            job.state \in {"available", "reading"} /\ job.attempt <= 1
  PROVE  PendingIsBacked' /\ Inserted' /\ Fresh' /\ Single'
  <1>1. jobs'[j] = job /\ \A i \in Jobs \ {j} : jobs'[i] = jobs[i]
    BY DEF BInv, DInv, TypeOK
  <1>2. \A d : JobsOf(d)' = JobsOf(d)
    BY <1>1 DEF JobsOf
  <1>3. \A d : (Pending(d)' <=> Pending(d)) /\ (BeingMinted(d)' <=> BeingMinted(d))
    BY DEF Pending, BeingMinted
  <1>4. \A d \in Creds : Backed(d)' <=> Backed(d)
    BY <1>2 DEF Backed
  <1>5. PendingIsBacked'
    BY <1>3, <1>4, BackedMeans, BackedLater DEF BInv
  <1>6. Inserted' /\ Single'
    BY <1>2 DEF BInv, Inserted, Single
  <1>7. ASSUME NEW c \in Creds, BeingMinted(c), ~rows[c].stored, NEW i \in JobsOf(c)
        PROVE  jobs'[i].state \in {"available", "reading"} /\ jobs'[i].attempt <= 1
    BY <1>1, <1>7 DEF BInv, Fresh, JobsOf
  <1>8. Fresh'
    BY <1>2, <1>3, <1>7 DEF Fresh
  <1>. QED BY <1>5, <1>6, <1>8

\* A job that ends leaves an extraction that is not pending, and no call whose
\* transaction is open counts on it.
LEMMA JobEnds ==
  ASSUME BInv, NEW j \in Jobs, NEW c \in Creds, c = jobs[j].cred,
         jobs[j].state \notin {"none", "available", "reading"}, ~Locked(c),
         NEW row, row.stored = rows[c].stored, row.stored => row.extracted \/ row.failed,
         rows' = [rows EXCEPT ![c] = row], jobs' = [jobs EXCEPT ![j] = Ended(j)],
         UNCHANGED call
  PROVE  PendingIsBacked' /\ Inserted' /\ Fresh' /\ Single'
  <1>0. /\ rows'[c] = row /\ \A d \in Creds \ {c} : rows'[d] = rows[d]
        /\ \A i \in Jobs \ {j} : jobs'[i] = jobs[i]
        /\ jobs'[j].state = "none"
    BY EndedIsTyped DEF BInv, DInv, TypeOK
  <1>1. \A d : JobsOf(d)' = JobsOf(d) \ {j}
    BY <1>0 DEF JobsOf
  <1>2. \A d : d # c => JobsOf(d)' = JobsOf(d)
    BY <1>1 DEF JobsOf
  <1>3. ~BeingMinted(c)
    <2>1. j \in JobsOf(c)
      BY DEF JobsOf
    <2>. QED BY <2>1 DEF BInv, Fresh, Locked
  <1>4. \A d : BeingMinted(d)' <=> BeingMinted(d)
    BY DEF BeingMinted
  <1>5. ~Pending(c)'
    BY <1>0 DEF Pending
  <1>6. \A d \in Creds \ {c} : (Pending(d)' <=> Pending(d)) /\ (Backed(d)' <=> Backed(d))
    BY <1>0, <1>2 DEF Pending, Backed
  <1>7. PendingIsBacked'
    BY <1>5, <1>6, BackedMeans, BackedLater DEF BInv
  <1>8. Inserted'
    BY <1>2, <1>3 DEF BInv, Inserted, BeingMinted
  <1>9. Fresh'
    BY <1>0, <1>1, <1>3, <1>4 DEF BInv, Fresh, JobsOf
  <1>10. Single'
    BY DEF BInv, Single
  <1>. QED BY <1>7, <1>8, <1>9, <1>10

LEMMA WorkB ==
  ASSUME BInv, Undisturbed, NEW j \in Jobs, Work(j)
  PROVE  PendingIsBacked' /\ Inserted' /\ Fresh' /\ Single'
  <1>. DEFINE c == jobs[j].cred
  <1>0. /\ jobs \in [Jobs -> Job] /\ jobs[j] \in Job /\ c \in Creds
        /\ rows \in [Creds -> Row] /\ rows[c] \in Row
        /\ jobs[j].attempt \in 0..MaxAttempts
    BY DEF BInv, DInv, TypeOK, Job
  <1>1. jobs[j].state # "none" /\ BeingMinted(c) /\ ~rows[c].stored =>
           jobs[j].state \in {"available", "reading"} /\ jobs[j].attempt <= 1
    BY <1>0 DEF BInv, Fresh, JobsOf
  <1>2. CASE Fetch(j)
    <2>. DEFINE job == [jobs[j] EXCEPT !.state = "reading", !.attempt = @ + 1]
    <2>1. /\ jobs' = [jobs EXCEPT ![j] = job] /\ UNCHANGED <<rows, call>>
          /\ jobs[j].state = "available"
          /\ job.state = "reading" /\ job.cred = c /\ job.attempt = jobs[j].attempt + 1
      BY <1>0, <1>2 DEF Fetch, Job
    <2>2. BeingMinted(c) => jobs[j].attempt = 0
      BY <1>0, <1>2 DEF Fetch, Due, Undisturbed
    <2>. HIDE DEF job
    <2>3. BeingMinted(job.cred) => job.attempt <= 1
      BY <1>0, <2>1, <2>2
    <2>4. jobs[j].state # "none" /\ job.state # "none" /\ job.cred = jobs[j].cred
      BY <2>1
    <2>5. BeingMinted(job.cred) /\ ~rows[job.cred].stored =>
             job.state \in {"available", "reading"} /\ job.attempt <= 1
      BY <2>1, <2>3
    <2>. QED BY <2>1, <2>4, <2>5, JobMoves
  <1>3. CASE Load(j)
    <2>. DEFINE job == [jobs[j] EXCEPT !.state = "loaded"]
    <2>1. /\ jobs' = [jobs EXCEPT ![j] = job] /\ UNCHANGED <<rows, call>>
          /\ jobs[j].state = "reading" /\ rows[c].stored
          /\ job.state = "loaded" /\ job.cred = c
      BY <1>0, <1>3 DEF Load, Job
    <2>. HIDE DEF job
    <2>. QED BY <1>0, <2>1, JobMoves
  <1>4. CASE Document(j)
    <2>. DEFINE job == [jobs[j] EXCEPT !.state = "documented"]
    <2>1. /\ jobs' = [jobs EXCEPT ![j] = job] /\ UNCHANGED <<rows, call>>
          /\ jobs[j].state = "loaded"
          /\ job.state = "documented" /\ job.cred = c
      BY <1>0, <1>4 DEF Document, Job
    <2>. HIDE DEF job
    <2>. QED BY <1>0, <1>1, <2>1, JobMoves
  <1>5. CASE AttemptFails(j)
    <2>. DEFINE job == [jobs[j] EXCEPT !.state = IF Exhausted(j) THEN "failing" ELSE "available"]
    <2>1. /\ jobs' = [jobs EXCEPT ![j] = job] /\ UNCHANGED <<rows, call>>
          /\ jobs[j].state \in Working /\ jobs[j].state # "none"
          /\ job.cred = c /\ job.attempt = jobs[j].attempt
          /\ job.state = IF Exhausted(j) THEN "failing" ELSE "available"
      BY <1>0, <1>5 DEF AttemptFails, Job, Working
    <2>2. jobs[j].attempt <= 1 => ~Exhausted(j)
      BY <1>0 DEF Exhausted, Undisturbed
    <2>. HIDE DEF job
    <2>. QED BY <1>0, <1>1, <2>1, <2>2, JobMoves
  <1>6. CASE Complete(j)
    <2>1. /\ jobs[j].state = "documented" /\ ~Locked(c)
          /\ rows' = [rows EXCEPT ![c] = Succeeded(c)]
          /\ jobs' = [jobs EXCEPT ![j] = Ended(j)] /\ UNCHANGED call
      BY <1>6 DEF Complete
    <2>2. Succeeded(c).stored = rows[c].stored /\ Succeeded(c).extracted = TRUE
      BY <1>0 DEF Succeeded, Row
    <2>. HIDE DEF c
    <2>. QED BY <1>0, <2>1, <2>2, JobEnds DEF c
  <1>7. CASE HandleError(j)
    <2>. DEFINE row == [rows[c] EXCEPT !.failed = @ \/ rows[c].stored]
    <2>1. /\ jobs[j].state = "failing" /\ ~Locked(c)
          /\ rows' = [rows EXCEPT ![c] = row]
          /\ jobs' = [jobs EXCEPT ![j] = Ended(j)] /\ UNCHANGED call
      BY <1>0, <1>7 DEF HandleError, Undisturbed
    <2>2. row.stored = rows[c].stored /\ (row.stored => row.failed)
      BY <1>0 DEF Row
    <2>. HIDE DEF row
    <2>. QED BY <1>0, <2>1, <2>2, JobEnds
  <1>. QED BY <1>2, <1>3, <1>4, <1>5, <1>6, <1>7 DEF Work

LEMMA NextBInv == Undisturbed /\ BInv /\ [Next]_vars => BInv'
  <1>. SUFFICES ASSUME Undisturbed, BInv, [Next]_vars PROVE BInv' OBVIOUS
  <1>1. DInv'
    BY NextDInv DEF BInv
  <1>2. CASE UNCHANGED vars
    <2>1. UNCHANGED <<rows, docs, jobs, call>>
      BY <1>2 DEF vars
    <2>. QED BY <1>1, <2>1 DEF BInv, PendingIsBacked, ExtractState, Backed, Inserted, Fresh,
                Single, JobsOf, BeingMinted
  <1>3. CASE Quiet
    BY <1>2, <1>3 DEF Quiet
  <1>4. ~Crash
    BY DEF Crash, Undisturbed
  <1>5. CASE \E r \in Requests : Start(r) \/ Proceed(r) \/ Refuse(r) \/ RollBack(r)
    BY <1>1, <1>5, StartB, EnqueueB, WriteB, RollBackB DEF BInv, Proceed, Refuse
  <1>6. CASE \E j \in Jobs : Work(j)
    BY <1>1, <1>6, WorkB DEF BInv
  <1>. QED BY <1>2, <1>3, <1>4, <1>5, <1>6 DEF Next

\* No extraction stays pending for ever because nobody is left to end it: with
\* the faults of the hypothesis only, "so the operator can retry the whole batch".
THEOREM NoPendingIsForgotten == ASSUME Undisturbed PROVE Spec => []PendingIsBacked
  <1>1. BInv /\ [Next]_vars => BInv'
    BY NextBInv
  <1>2. BInv => PendingIsBacked
    BY DEF BInv
  <1>. QED BY InitBInv, <1>1, <1>2, PTL DEF Spec
=============================================================================
