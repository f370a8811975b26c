------------------------------ MODULE Notices ------------------------------
(***************************************************************************)
(* What a holder is told about the lifecycle of credentials: the in-app    *)
(* notices, which are rows of the transaction they announce, read page by  *)
(* page and marked as read; and the e-mails, which are River jobs inserted *)
(* after the commit and worked off by CredentialNotificationWorker.        *)
(*                                                                         *)
(* There is one holder: every statement has his id in its WHERE clause.    *)
(* The totals and the unread count, which only the badge shows, and the    *)
(* summary of the credential, which another query adds, are left out.      *)
(***************************************************************************)
EXTENDS Naturals, FiniteSets, Sequences, Functions

CONSTANTS N,           \* notices, numbered in the order of (created_at, id)
          CreatedAt,   \* the created_at of each, which may be the same
          KeyOf,       \* the credential and type of each
          Limit,       \* notices on a page
          Emails,      \* e-mail addresses
          MaxAttempts, \* attempts of a job
          MaxJobs      \* bound: jobs inserted

Notices == 1..N

ASSUME CountAssumption == N \in Nat
ASSUME CreatedAssumption ==
    /\ CreatedAt \in [Notices -> Nat]
    /\ \A m, n \in Notices : m < n => CreatedAt[m] <= CreatedAt[n]
ASSUME LimitAssumption == Limit \in Nat \ {0}
ASSUME AttemptsAssumption == MaxAttempts \in Nat \ {0}

\* started: the notices that matched the filter all the time since the first page.
Walk == [pc: {"idle", "walking", "done"}, unread: BOOLEAN, cursor: 0..N,
         shown: Seq(Notices), steady: SUBSET Notices]

Working == {"fetched", "sending", "delivered"}
\* to: where the attempt sends; held: the addresses the holder had, while not in
\* the trash, at some moment of the attempt; wrong: a mail went anywhere else.
Job == [state: {"none", "available", "completed", "cancelled", "discarded"} \cup Working,
        attempt: 0..MaxAttempts, to: SUBSET Emails, held: SUBSET Emails,
        copies: 0..MaxAttempts, wrong: BOOLEAN]

VARIABLES stored, \* is a notice absent, in an open transaction, or committed?
          read,   \* notices with a read_at
          walk,   \* the reader who loads one page after the other
          due,    \* notices whose transaction has committed and not enqueued yet
          jobs,   \* the job of each notice
          holder, \* the holder's e-mail address, and is he in the trash?
          enabled \* is mail enabled in the running server's configuration?

feed == <<stored, read, walk>>
mail == <<jobs, holder, enabled>>
vars == <<feed, due, mail>>

NoWalk == [pc |-> "idle", unread |-> FALSE, cursor |-> 0, shown |-> <<>>, steady |-> {}]
NoJob == [state |-> "none", attempt |-> 0, to |-> {}, held |-> {}, copies |-> 0,
          wrong |-> FALSE]

\* The histories that `seed' may have derived from the seeded credentials: rows
\* under different keys, some of them read, and no e-mails.
SeededNotices == {S \in SUBSET Notices : \A m, n \in S : KeyOf[m] = KeyOf[n] => m = n}

Init ==
    /\ \E S \in SeededNotices :
          /\ stored = [n \in Notices |-> IF n \in S THEN "committed" ELSE "no"]
          /\ read \in SUBSET S
    /\ walk = NoWalk
    /\ due = {}
    /\ jobs = [n \in Notices |-> NoJob]
    /\ holder \in [email: Emails, trashed: {FALSE}]
    /\ enabled = TRUE
-----------------------------------------------------------------------------
(* The feed. *)

Committed == {n \in Notices : stored[n] = "committed"}

\* The rows of a query with this filter, and with a cursor after the first page.
Filtered(unread) == IF unread THEN Committed \ read ELSE Committed

\* Variant: without the second half of the cursor.
Before_TimeOnly(n, c) == CreatedAt[n] < CreatedAt[c]

\* The id breaks the tie of notices that one statement has created.
Before(n, c) == \/ CreatedAt[n] < CreatedAt[c]
                \/ CreatedAt[n] = CreatedAt[c] /\ n < c

\* Store in an open transaction.  A notice of the same key is waited for, and
\* then nothing is inserted (OnConflict DoNothing) or the other was rolled back.
Store(n) ==
    /\ stored[n] = "no"
    /\ \A m \in Notices : KeyOf[m] = KeyOf[n] => stored[m] = "no"
    /\ stored' = [stored EXCEPT ![n] = "open"]
    /\ UNCHANGED <<read, walk, due, mail>>

\* Variant: the mail is enqueued whatever became of the transaction.
RollBack_Announced(n) ==
    /\ stored[n] = "open"
    /\ stored' = [stored EXCEPT ![n] = "no"]
    /\ due' = due \cup {n}
    /\ UNCHANGED <<read, walk, mail>>

RollBack(n) ==
    /\ stored[n] = "open"
    /\ stored' = [stored EXCEPT ![n] = "no"]
    /\ UNCHANGED <<read, walk, due, mail>>

\* The e-mail is not due before the commit.
Commit(n) ==
    /\ stored[n] = "open"
    /\ stored' = [stored EXCEPT ![n] = "committed"]
    /\ due' = due \cup {n}
    /\ UNCHANGED <<read, walk, mail>>

Marked(S) ==
    /\ read' = read \cup S
    /\ walk' = [walk EXCEPT !.steady = IF walk.unread THEN @ \ S ELSE @]
    /\ UNCHANGED <<stored, due, mail>>

MarkRead(n) == n \in Committed \ read /\ Marked({n})
MarkAllRead == Committed \ read # {} /\ Marked(Committed)

StartWalk ==
    /\ walk.pc = "idle"
    /\ \E unread \in BOOLEAN :
          walk' = [NoWalk EXCEPT !.pc = "walking", !.unread = unread,
                                 !.steady = Filtered(unread)]
    /\ UNCHANGED <<stored, read, due, mail>>

\* ORDER BY created_at DESC, id DESC LIMIT: the notices are numbered in this order.
IsPage(items, rows) ==
    /\ \A i, j \in DOMAIN items : i < j => items[j] < items[i]
    /\ \A n \in rows \ Range(items) : Len(items) = Limit /\ n < items[Limit]

\* List: one row more than the page holds tells whether there is another page;
\* the cursor is the last row shown.
Page ==
    LET rows == {n \in Filtered(walk.unread) : walk.cursor # 0 => Before(n, walk.cursor)}
    IN  /\ walk.pc = "walking"
        /\ \E k \in 0..Limit : \E items \in [1..k -> rows] :
              LET more == rows # Range(items)
              IN  /\ IsPage(items, rows)
                  /\ walk' = [walk EXCEPT !.shown = @ \o items,
                                          !.pc = IF more THEN "walking" ELSE "done",
                                          !.cursor = IF more THEN items[Limit] ELSE 0]
        /\ UNCHANGED <<stored, read, due, mail>>

CloseWalk ==
    /\ walk.pc # "idle"
    /\ walk' = NoWalk
    /\ UNCHANGED <<stored, read, due, mail>>

Feed == \/ \E n \in Notices : Store(n) \/ RollBack(n) \/ Commit(n) \/ MarkRead(n)
        \/ MarkAllRead \/ StartWalk \/ Page \/ CloseWalk
-----------------------------------------------------------------------------
(* The e-mails. *)

Inserted == {n \in Notices : jobs[n].state # "none"}
SetJob(n, job) == jobs' = [jobs EXCEPT ![n] = job]

\* enqueueLifecycleNotifications: nothing if mail is disabled; best effort.
Enqueue(n) ==
    /\ n \in due
    /\ due' = due \ {n}
    /\ \/ /\ enabled /\ Cardinality(Inserted) < MaxJobs
          /\ SetJob(n, [NoJob EXCEPT !.state = "available"])
       \/ UNCHANGED jobs
    /\ UNCHANGED <<feed, holder, enabled>>

Address == IF holder.trashed THEN {} ELSE {holder.email}

Fetch(n) ==
    /\ jobs[n].state = "available"
    /\ SetJob(n, [jobs[n] EXCEPT !.state = "fetched", !.attempt = @ + 1,
                                 !.held = Address])
    /\ UNCHANGED <<feed, due, holder, enabled>>

Exhausted(n) == jobs[n].attempt >= MaxAttempts

\* What River does with an error, and with a job whose server has died.
Retried(n) == [jobs[n] EXCEPT !.state = IF Exhausted(n) THEN "discarded" ELSE "available",
                              !.to = {}, !.held = {}]

Ended(n, state) == [jobs[n] EXCEPT !.state = state, !.to = {}, !.held = {}]

\* Variant: a job is postponed for as long as mail is disabled (river.JobSnooze).
Postponed_Snoozed(n) == [jobs[n] EXCEPT !.state = "available", !.attempt = @ - 1,
                                        !.held = {}]

Postponed(n) == Retried(n)

\* Variant: without the check in Work.
Held_Never(n) == FALSE

\* Work gives a job back while mail is disabled: SendEmail would report success.
Held(n) == ~enabled

\* Variant: DeletedAt is not looked at.
Recipient_AnyRow(n) == {holder.email}

Recipient(n) == Address

\* Work as far as the recipient, which is read without a transaction.
Work(n) ==
    /\ jobs[n].state = "fetched"
    /\ \/ Held(n) /\ SetJob(n, Postponed(n))
       \/ ~Held(n) /\ Recipient(n) = {} /\ SetJob(n, Ended(n, "cancelled"))
       \/ /\ ~Held(n) /\ Recipient(n) # {}
          /\ SetJob(n, [jobs[n] EXCEPT !.state = "sending", !.to = Recipient(n)])
    /\ UNCHANGED <<feed, due, holder, enabled>>

\* SendEmail does nothing when mail is disabled; the SMTP server has taken the
\* mail when DATA is closed.
Send(n) ==
    /\ jobs[n].state = "sending"
    /\ SetJob(n, IF enabled
                 THEN [jobs[n] EXCEPT !.state = "delivered", !.copies = @ + 1,
                                      !.wrong = @ \/ ~(jobs[n].to \subseteq jobs[n].held)]
                 ELSE [jobs[n] EXCEPT !.state = "delivered"])
    /\ UNCHANGED <<feed, due, holder, enabled>>

Complete(n) ==
    /\ jobs[n].state = "delivered"
    /\ SetJob(n, Ended(n, "completed"))
    /\ UNCHANGED <<feed, due, holder, enabled>>

\* At any step, and after the mail was taken as well.
AttemptFails(n) ==
    /\ jobs[n].state \in Working
    /\ SetJob(n, Retried(n))
    /\ UNCHANGED <<feed, due, holder, enabled>>

\* Running attempts see the addresses that come and go.
Moved(h) ==
    /\ holder' = h
    /\ jobs' = [n \in Notices |->
                   IF jobs[n].state \in Working
                   THEN [jobs[n] EXCEPT !.held = @ \cup IF h.trashed THEN {} ELSE {h.email}]
                   ELSE jobs[n]]
    /\ UNCHANGED <<feed, due, enabled>>

UpdateEmail(e) == ~holder.trashed /\ e # holder.email /\ Moved([holder EXCEPT !.email = e])
DeleteOrRestore == Moved([holder EXCEPT !.trashed = ~@])

\* The server stops and starts again, with another configuration perhaps; what
\* was due is forgotten, and River rescues the running jobs.
Restart ==
    /\ enabled' \in BOOLEAN
    /\ due' = {}
    /\ jobs' = [n \in Notices |-> IF jobs[n].state \in Working THEN Retried(n) ELSE jobs[n]]
    /\ UNCHANGED <<feed, holder>>

Attempt(n) == Fetch(n) \/ Work(n) \/ Send(n) \/ Complete(n) \/ AttemptFails(n)

Mail == \/ \E n \in Notices : Enqueue(n) \/ Attempt(n)
        \/ \E e \in Emails : UpdateEmail(e)
        \/ DeleteOrRestore \/ Restart

Next == Feed \/ Mail

Spec == Init /\ [][Next]_vars

\* River runs every job that is available and every attempt ends.
FairSpec == Spec /\ \A n \in Notices : WF_vars(Attempt(n))
-----------------------------------------------------------------------------
(* Properties *)

\* Types of the rows, the reader, the jobs and the holder.
TypeOK ==
    /\ stored \in [Notices -> {"no", "open", "committed"}]
    /\ read \subseteq Committed
    /\ walk \in Walk
    /\ due \subseteq Committed
    /\ jobs \in [Notices -> Job]
    /\ holder \in [email: Emails, trashed: BOOLEAN]
    /\ enabled \in BOOLEAN

\* Whoever loads page after page sees no notice twice, sees them from the newest
\* to the oldest, and misses none that was there from the first page to the
\* last, though others are committed anywhere in the order or marked as read.
WalkIsComplete ==
    /\ \A i, j \in 1..Len(walk.shown) : i < j => walk.shown[j] < walk.shown[i]
    /\ walk.pc = "done" => walk.steady \subseteq Range(walk.shown)

\* A job that is completed has put its mail on the way, also when the mail was
\* switched off between two attempts; an outage delays a mail or discards it.
CompletedWasSent == \A n \in Notices : jobs[n].state = "completed" => jobs[n].copies > 0

\* No mail goes to a holder who was in the trash for the whole of an attempt, or to
\* an address he had given up before the attempt began.
SentToHolder == \A n \in Notices : ~jobs[n].wrong

\* Every job ends: completed, cancelled, or discarded after its last attempt.
JobsEnd == \A n \in Notices :
    jobs[n].state = "available"
        ~> jobs[n].state \in {"completed", "cancelled", "discarded"}
=============================================================================
