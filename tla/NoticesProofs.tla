--------------------------- MODULE NoticesProofs ---------------------------
(***************************************************************************)
(* Theorems about Notices, for every number of notices, every history of   *)
(* timestamps and keys, every page size and every number of attempts: who  *)
(* loads page after page misses nothing, and no mail is lost silently or   *)
(* goes to somebody it is not meant for.                                   *)
(***************************************************************************)
EXTENDS Notices, SequenceTheorems, TLAPS

USE CountAssumption, LimitAssumption, AttemptsAssumption DEF Notices

(* The cursor names a notice and its moment; it means the notice. *)
LEMMA BeforeIsLess ==
    ASSUME NEW m \in Notices, NEW n \in Notices
    PROVE  Before(m, n) <=> m < n
<1>1. CreatedAt[m] \in Nat /\ CreatedAt[n] \in Nat /\ m \in Nat /\ n \in Nat
  BY CreatedAssumption
<1>2. m < n => CreatedAt[m] <= CreatedAt[n]
  BY CreatedAssumption
<1>3. n < m => CreatedAt[n] <= CreatedAt[m]
  BY CreatedAssumption
<1>4. m < n \/ m = n \/ n < m
  BY <1>1
<1> QED BY <1>1, <1>2, <1>3, <1>4 DEF Before

(* A page is a sequence, and so is what was shown with the page after it. *)
LEMMA Appended ==
    ASSUME NEW S, NEW s \in Seq(S), NEW k \in Nat, NEW t \in [1..k -> S]
    PROVE  /\ s \o t \in Seq(S)
           /\ Len(t) = k
           /\ Len(s \o t) = Len(s) + k
           /\ \A i \in 1..Len(s) : (s \o t)[i] = s[i]
           /\ \A i \in 1..k : (s \o t)[Len(s) + i] = t[i]
           /\ Range(s \o t) = Range(s) \cup Range(t)
<1>1. t \in Seq(S) /\ Len(t) = k /\ DOMAIN t = 1..k
  OBVIOUS
<1>2. /\ s \o t \in Seq(S) /\ Len(s \o t) = Len(s) + k
      /\ Len(s) \in Nat /\ DOMAIN s = 1..Len(s)
      /\ DOMAIN (s \o t) = 1..(Len(s) + k)
  BY <1>1
<1>3. \A i \in 1..Len(s) : (s \o t)[i] = s[i]
  BY <1>1, <1>2
<1>4. \A i \in 1..k : (s \o t)[Len(s) + i] = t[i]
  BY <1>1, <1>2
<1>5. \A i \in 1..(Len(s) + k) : i \in 1..Len(s) \/ \E j \in 1..k : i = Len(s) + j
  <2> TAKE i \in 1..(Len(s) + k)
  <2> SUFFICES ASSUME i \notin 1..Len(s) PROVE \E j \in 1..k : i = Len(s) + j
    OBVIOUS
  <2>1. i - Len(s) \in 1..k /\ i = Len(s) + (i - Len(s))
    BY <1>2
  <2> QED BY <2>1
<1>6. \A i \in 1..k : Len(s) + i \in 1..(Len(s) + k)
  BY <1>2
<1>7. 1..Len(s) \subseteq 1..(Len(s) + k)
  BY <1>2
<1>8. Range(s \o t) = Range(s) \cup Range(t)
  <2> DEFINE w == s \o t
  <2>1. \A i \in DOMAIN w : w[i] \in Range(s) \cup Range(t)
    BY <1>1, <1>2, <1>3, <1>4, <1>5 DEF Range
  <2>2. \A i \in DOMAIN s : s[i] \in Range(w)
    BY <1>2, <1>3, <1>7 DEF Range
  <2>3. \A i \in DOMAIN t : t[i] \in Range(w)
    BY <1>1, <1>2, <1>4, <1>6 DEF Range
  <2> HIDE DEF w
  <2> QED BY <2>1, <2>2, <2>3 DEF Range, w
<1> QED BY <1>1, <1>2, <1>3, <1>4, <1>8

-----------------------------------------------------------------------------
(* The invariant.  A running attempt has the addresses of its own time, and  *)
(* fewer copies were sent than attempts were begun; the notices that a       *)
(* reader may count on are shown already or lie behind his cursor.           *)

MailSafe(n) ==
    LET j == jobs[n]
    IN  /\ j.copies <= j.attempt /\ ~j.wrong
        /\ j.state = "available" => j.attempt < MaxAttempts
        /\ j.state \in {"fetched", "sending"} => j.copies < j.attempt
        /\ j.state = "sending" => enabled /\ j.to \subseteq j.held
        /\ j.state \in {"delivered", "completed"} => j.copies > 0
        /\ j.state \in Working => Address \subseteq j.held

WalkSafe ==
    /\ \A i, j \in 1..Len(walk.shown) : i < j => walk.shown[j] < walk.shown[i]
    /\ walk.pc = "walking" =>
          /\ \A i \in 1..Len(walk.shown) : walk.cursor # 0 /\ walk.cursor <= walk.shown[i]
          /\ walk.steady \subseteq Filtered(walk.unread)
          /\ \A n \in walk.steady : \/ n \in Range(walk.shown)
                                    \/ walk.cursor # 0 => n < walk.cursor
    /\ walk.pc = "done" => walk.steady \subseteq Range(walk.shown)

AllMailSafe == \A n \in Notices : MailSafe(n)

FeedTypes == /\ stored \in [Notices -> {"no", "open", "committed"}]
             /\ read \subseteq Committed
             /\ walk \in Walk
             /\ due \subseteq Committed

MailTypes == /\ jobs \in [Notices -> Job]
             /\ holder \in [email: Emails, trashed: BOOLEAN]
             /\ enabled \in BOOLEAN

NInv == FeedTypes /\ MailTypes /\ WalkSafe /\ AllMailSafe

LEMMA NInvTypes == NInv => TypeOK
BY DEF NInv, FeedTypes, MailTypes, TypeOK

LEMMA NoWalkIsSafe ==
    ASSUME walk' = NoWalk
    PROVE  walk' \in Walk /\ WalkSafe'
BY DEF NoWalk, Walk, WalkSafe

LEMMA NoJobType == NoJob \in Job
BY DEF NoJob, Job, Working

LEMMA InitN == Init => NInv
<1> SUFFICES ASSUME Init PROVE NInv
  OBVIOUS
<1>1. PICK S \in SeededNotices :
          /\ stored = [n \in Notices |-> IF n \in S THEN "committed" ELSE "no"]
          /\ read \in SUBSET S
  BY DEF Init
<1>2. FeedTypes
  <2>1. walk \in Walk
    BY DEF Init, NoWalk, Walk
  <2>2. S \subseteq Notices
    BY DEF SeededNotices
  <2> QED BY <1>1, <2>1, <2>2 DEF Init, FeedTypes, Committed
<1>3. MailTypes
  BY NoJobType DEF Init, MailTypes
<1>4. WalkSafe
  BY DEF Init, NoWalk, WalkSafe
<1>5. AllMailSafe
  BY DEF Init, AllMailSafe, MailSafe, NoJob, Working
<1> QED BY <1>2, <1>3, <1>4, <1>5 DEF NInv

-----------------------------------------------------------------------------
(* The feed. *)

(* More notices are committed, none is read. *)
LEMMA StoredOnly ==
    ASSUME NInv, NEW n \in Notices, NEW s \in {"no", "open", "committed"},
           stored[n] # "committed", stored' = [stored EXCEPT ![n] = s],
           UNCHANGED <<read, walk>>
    PROVE  /\ Committed \subseteq Committed'
           /\ stored' \in [Notices -> {"no", "open", "committed"}]
           /\ read' \subseteq Committed' /\ walk' \in Walk /\ WalkSafe'
<1>1. stored \in [Notices -> {"no", "open", "committed"}]
      /\ read \subseteq Committed /\ walk \in Walk /\ WalkSafe
  BY DEF NInv, FeedTypes
<1>2. stored' \in [Notices -> {"no", "open", "committed"}] /\ Committed \subseteq Committed'
  BY <1>1 DEF Committed
<1>3. Filtered(walk.unread) \subseteq Filtered(walk.unread)'
  BY <1>2 DEF Filtered
<1>4. WalkSafe'
  BY <1>1, <1>3 DEF WalkSafe
<1> QED BY <1>1, <1>2, <1>4

LEMMA MarkedFeed ==
    ASSUME NInv, NEW S \in SUBSET Committed, Marked(S)
    PROVE  FeedTypes' /\ WalkSafe'
<1>1. FeedTypes /\ WalkSafe /\ UNCHANGED <<stored, due>>
  BY DEF NInv, Marked
<1>2. Committed' = Committed
  BY <1>1 DEF Committed
<1>3. /\ walk' \in Walk
      /\ walk'.pc = walk.pc /\ walk'.unread = walk.unread /\ walk'.cursor = walk.cursor
      /\ walk'.shown = walk.shown
      /\ walk'.steady = IF walk.unread THEN walk.steady \ S ELSE walk.steady
  BY <1>1 DEF FeedTypes, Walk, Marked
<1>4. FeedTypes'
  BY <1>1, <1>2, <1>3 DEF FeedTypes, Marked
<1>5. walk.steady \subseteq Filtered(walk.unread) =>
          walk'.steady \subseteq Filtered(walk.unread)'
  BY <1>1, <1>2, <1>3 DEF Filtered, Marked
<1>6. WalkSafe'
  BY <1>1, <1>3, <1>5 DEF WalkSafe
<1> QED BY <1>4, <1>6

(* A page continues the order and leaves out nothing before its last notice. *)
LEMMA PageFeed ==
    ASSUME NInv, Page
    PROVE  walk' \in Walk /\ WalkSafe' /\ UNCHANGED <<stored, read, due, mail>>
<1> DEFINE rows == {n \in Filtered(walk.unread) : walk.cursor # 0 => Before(n, walk.cursor)}
<1>1. /\ FeedTypes /\ WalkSafe /\ walk \in Walk /\ walk.pc = "walking"
      /\ UNCHANGED <<stored, read, due, mail>>
  BY DEF NInv, FeedTypes, Page
<1>2. PICK k \in 0..Limit : \E items \in [1..k -> rows] :
          /\ IsPage(items, rows)
          /\ walk' = [walk EXCEPT !.shown = @ \o items,
                                  !.pc = IF rows # Range(items) THEN "walking" ELSE "done",
                                  !.cursor = IF rows # Range(items) THEN items[Limit] ELSE 0]
  BY DEF Page
<1>3. PICK items \in [1..k -> rows] :
          /\ IsPage(items, rows)
          /\ walk' = [walk EXCEPT !.shown = @ \o items,
                                  !.pc = IF rows # Range(items) THEN "walking" ELSE "done",
                                  !.cursor = IF rows # Range(items) THEN items[Limit] ELSE 0]
  BY <1>2
<1>4. rows \subseteq Notices /\ k \in Nat
  BY DEF Filtered, Committed
<1>5. /\ walk.shown \in Seq(Notices) /\ walk.cursor \in 0..N
      /\ walk.steady \subseteq Notices /\ walk.unread \in BOOLEAN
  BY <1>1 DEF Walk
<1>6. \A n \in rows : walk.cursor # 0 => n < walk.cursor
  BY <1>4, <1>5, BeforeIsLess
<1>7. \A n \in Filtered(walk.unread) : (walk.cursor # 0 => n < walk.cursor) => n \in rows
  BY <1>5, BeforeIsLess DEF Filtered, Committed
<1> HIDE DEF rows
<1>8. items \in [1..k -> Notices] /\ DOMAIN items = 1..k
  BY <1>3, <1>4
<1> DEFINE s == walk.shown
           l == Len(s)
           w == s \o items
<1>9. /\ w \in Seq(Notices) /\ Len(items) = k /\ Len(w) = l + k /\ l \in Nat
      /\ \A i \in 1..l : w[i] = s[i]
      /\ \A i \in 1..k : w[l + i] = items[i]
      /\ Range(w) = Range(s) \cup Range(items)
  <2>1. walk.shown \in Seq(Notices) /\ k \in Nat /\ items \in [1..k -> Notices]
    BY <1>4, <1>5, <1>8
  <2>2. Len(walk.shown) \in Nat
    BY <2>1
  <2> HIDE DEF Notices
  <2>3. /\ s \o items \in Seq(Notices)
        /\ Len(items) = k
        /\ Len(s \o items) = Len(s) + k
        /\ \A i \in 1..Len(s) : (s \o items)[i] = s[i]
        /\ \A i \in 1..k : (s \o items)[Len(s) + i] = items[i]
        /\ Range(s \o items) = Range(s) \cup Range(items)
    <3>1. ASSUME NEW x \in Seq(Notices), NEW j \in Nat, NEW y \in [1..j -> Notices]
          PROVE  /\ x \o y \in Seq(Notices)
                 /\ Len(y) = j
                 /\ Len(x \o y) = Len(x) + j
                 /\ \A i \in 1..Len(x) : (x \o y)[i] = x[i]
                 /\ \A i \in 1..j : (x \o y)[Len(x) + i] = y[i]
                 /\ Range(x \o y) = Range(x) \cup Range(y)
      BY ONLY <3>1, Appended
    <3> QED BY ONLY <2>1, <3>1
  <2> QED BY <2>2, <2>3
<1>10. \A i, j \in 1..k : i < j => items[j] < items[i]
  BY <1>3, <1>8 DEF IsPage
<1>11. \A n \in rows \ Range(items) : k = Limit /\ n < items[Limit]
  BY <1>3, <1>9 DEF IsPage
<1>12. \A i, j \in 1..l : i < j => s[j] < s[i]
  BY <1>1 DEF WalkSafe
<1>13. \A i \in 1..l : walk.cursor # 0 /\ walk.cursor <= s[i]
  BY <1>1 DEF WalkSafe
<1>14. \A i \in 1..l : s[i] \in Notices
  BY <1>5
<1>15. \A i \in 1..k : items[i] \in rows /\ items[i] \in Notices
  BY <1>3, <1>4
<1>16. \A i \in 1..l, j \in 1..k : items[j] < s[i]
  <2> TAKE i \in 1..l, j \in 1..k
  <2>1. items[j] < walk.cursor /\ walk.cursor <= s[i]
    BY <1>6, <1>13, <1>15
  <2>2. items[j] \in Nat /\ s[i] \in Nat /\ walk.cursor \in Nat
    BY <1>5, <1>14, <1>15
  <2> QED BY <2>1, <2>2
<1>17. \A i \in 1..(l + k) : i \in 1..l \/ (i - l \in 1..k /\ i = l + (i - l))
  BY <1>4, <1>9
<1> HIDE DEF l, w
<1>18. ASSUME NEW i \in 1..(l + k), NEW j \in 1..(l + k), i < j
       PROVE  w[j] < w[i]
  <2>1. CASE i \in 1..l /\ j \in 1..l
    BY <1>9, <1>12, <1>18, <2>1
  <2>2. CASE i \in 1..l /\ j \notin 1..l
    <3>1. j - l \in 1..k /\ w[j] = items[j - l]
      BY <1>9, <1>17, <2>2
    <3> QED BY <1>9, <1>16, <2>2, <3>1
  <2>3. CASE i \notin 1..l
    <3>1. i - l \in 1..k /\ w[i] = items[i - l]
      BY <1>9, <1>17, <2>3
    <3>2. j \notin 1..l
      BY <1>4, <1>9, <1>18, <2>3
    <3>3. j - l \in 1..k /\ w[j] = items[j - l]
      BY <1>9, <1>17, <3>2
    <3>4. i - l < j - l
      BY <1>4, <1>9, <1>18
    <3> QED BY <1>10, <3>1, <3>3, <3>4
  <2> QED BY <2>1, <2>2, <2>3
<1> DEFINE more == rows # Range(items)
<1>19. more => k = Limit /\ items[Limit] \in Notices /\ Limit \in 1..k
  <2> SUFFICES ASSUME more PROVE k = Limit /\ items[Limit] \in Notices /\ Limit \in 1..k
    OBVIOUS
  <2>1. Range(items) \subseteq rows
    BY <1>8, <1>15 DEF Range
  <2>2. PICK n \in rows : n \notin Range(items)
    BY <2>1
  <2>3. k = Limit
    BY <1>11, <2>2
  <2>4. Limit \in 1..k
    BY <2>3
  <2> QED BY <1>15, <2>3, <2>4
<1>20. /\ walk'.shown = w /\ walk'.pc = (IF more THEN "walking" ELSE "done")
       /\ walk'.cursor = (IF more THEN items[Limit] ELSE 0)
       /\ walk'.unread = walk.unread /\ walk'.steady = walk.steady
       /\ walk' \in Walk
  <2>1. (IF more THEN items[Limit] ELSE 0) \in 0..N
    BY <1>19
  <2> QED BY <1>1, <1>3, <1>9, <2>1 DEF Walk, w
<1>21. ASSUME more, NEW i \in 1..(l + k) PROVE items[Limit] # 0 /\ items[Limit] <= w[i]
  <2>1. items[Limit] \in Notices /\ k = Limit /\ Limit \in 1..k
    BY <1>19, <1>21
  <2>2. CASE i \in 1..l
    <3>1. w[i] \in Notices /\ items[Limit] < w[i]
      BY <1>9, <1>14, <1>16, <2>1, <2>2
    <3> QED BY <2>1, <3>1
  <2>3. CASE i \notin 1..l
    <3>1. i - l \in 1..k /\ w[i] = items[i - l]
      BY <1>9, <1>17, <2>3
    <3>2. i - l = Limit \/ i - l < Limit
      BY <2>1, <3>1
    <3>3. items[i - l] \in Notices
      BY <1>15, <3>1
    <3> QED BY <1>10, <2>1, <3>1, <3>2, <3>3
  <2> QED BY <2>2, <2>3
<1>22. ASSUME NEW n \in walk.steady
       PROVE  n \in Range(w) \/ (more /\ n < items[Limit])
  <2>1. n \in Filtered(walk.unread)
    BY <1>1 DEF WalkSafe
  <2>2. n \in Range(s) \/ (walk.cursor # 0 => n < walk.cursor)
    BY <1>1 DEF WalkSafe
  <2>3. CASE n \in Range(s)
    BY <1>9, <2>3
  <2>4. CASE n \in rows
    BY <1>9, <1>11, <2>4
  <2> QED BY <1>7, <2>1, <2>2, <2>3, <2>4
<1>23. Filtered(walk.unread)' = Filtered(walk.unread)
  BY <1>1, <1>20 DEF Filtered, Committed
<1> HIDE DEF more, s
<1>24. \A i, j \in 1..Len(walk'.shown) : i < j => walk'.shown[j] < walk'.shown[i]
  BY <1>9, <1>18, <1>20
<1>25. CASE more
  <2>1. walk'.pc = "walking" /\ walk'.cursor = items[Limit]
    BY <1>20, <1>25
  <2>2. \A i \in 1..Len(walk'.shown) : walk'.cursor # 0 /\ walk'.cursor <= walk'.shown[i]
    BY <1>9, <1>20, <1>21, <1>25, <2>1
  <2>3. walk'.steady \subseteq Filtered(walk.unread)'
    BY <1>1, <1>20, <1>23 DEF WalkSafe
  <2>4. \A n \in walk'.steady : n \in Range(walk'.shown) \/ n < walk'.cursor
    BY <1>20, <1>22, <2>1
  <2> QED BY <1>1, <1>20, <1>24, <2>1, <2>2, <2>3, <2>4 DEF WalkSafe
<1>26. CASE ~more
  <2>1. walk'.pc = "done" /\ walk'.steady \subseteq Range(walk'.shown)
    BY <1>20, <1>22, <1>26
  <2> QED BY <1>1, <1>20, <1>24, <2>1 DEF WalkSafe
<1> QED BY <1>25, <1>26

LEMMA MailUnchanged ==
    ASSUME NInv, UNCHANGED mail
    PROVE  MailTypes' /\ AllMailSafe'
BY DEF NInv, MailTypes, AllMailSafe, MailSafe, Address, mail

LEMMA FeedN ==
    ASSUME NInv, Feed
    PROVE  NInv'
<1>1. UNCHANGED mail
  BY DEF Feed, Store, RollBack, Commit, MarkRead, MarkAllRead, Marked, StartWalk, Page, CloseWalk
<1>2. MailTypes' /\ AllMailSafe'
  BY <1>1, MailUnchanged
<1>3. SUFFICES FeedTypes' /\ WalkSafe'
  BY <1>2 DEF NInv
<1>4. FeedTypes /\ WalkSafe /\ due \subseteq Committed /\ Committed \subseteq Notices
  BY DEF NInv, FeedTypes, Committed
<1>5. ASSUME NEW n \in Notices, Store(n) \/ RollBack(n) PROVE FeedTypes' /\ WalkSafe'
  <2>1. due' = due /\ UNCHANGED <<read, walk>> /\ stored[n] # "committed"
        /\ \E s \in {"no", "open", "committed"} : stored' = [stored EXCEPT ![n] = s]
    BY <1>5 DEF Store, RollBack
  <2> QED BY <1>4, <2>1, StoredOnly DEF FeedTypes
<1>6. ASSUME NEW n \in Notices, Commit(n) PROVE FeedTypes' /\ WalkSafe'
  <2>1. /\ Committed \subseteq Committed'
        /\ stored' \in [Notices -> {"no", "open", "committed"}]
        /\ read' \subseteq Committed' /\ walk' \in Walk /\ WalkSafe'
    BY <1>6, StoredOnly DEF Commit
  <2>2. n \in Committed'
    BY <1>4, <1>6 DEF Commit, Committed, FeedTypes
  <2>3. due' \subseteq Committed'
    BY <1>4, <1>6, <2>1, <2>2 DEF Commit
  <2> QED BY <2>1, <2>3 DEF FeedTypes
<1>7. ASSUME NEW n \in Notices, MarkRead(n) PROVE FeedTypes' /\ WalkSafe'
  <2>1. {n} \in SUBSET Committed /\ Marked({n})
    BY <1>7 DEF MarkRead
  <2> QED BY <2>1, MarkedFeed
<1>8. CASE MarkAllRead
  BY <1>8, MarkedFeed DEF MarkAllRead
<1>9. CASE StartWalk
  <2>1. PICK unread \in BOOLEAN :
            walk' = [NoWalk EXCEPT !.pc = "walking", !.unread = unread,
                                   !.steady = Filtered(unread)]
    BY <1>9 DEF StartWalk
  <2>2. UNCHANGED <<stored, read, due>> /\ Committed' = Committed
    BY <1>9 DEF StartWalk, Committed
  <2>3. /\ walk'.pc = "walking" /\ walk'.unread = unread /\ walk'.cursor = 0
        /\ walk'.shown = <<>> /\ walk'.steady = Filtered(unread)
        /\ walk' = [pc |-> "walking", unread |-> unread, cursor |-> 0, shown |-> <<>>,
                    steady |-> Filtered(unread)]
    BY <2>1 DEF NoWalk
  <2>4. Filtered(unread) \subseteq Notices /\ <<>> \in Seq(Notices)
    BY DEF Filtered, Committed
  <2>5. walk' \in Walk
    BY <2>3, <2>4 DEF Walk
  <2>6. Filtered(walk.unread)' = Filtered(unread)
    BY <2>2, <2>3 DEF Filtered
  <2>7. WalkSafe'
    BY <2>3, <2>6 DEF WalkSafe
  <2> QED BY <1>4, <2>2, <2>5, <2>7 DEF FeedTypes
<1>10. CASE Page
  BY <1>4, <1>10, PageFeed DEF FeedTypes, Committed
<1>11. CASE CloseWalk
  BY <1>4, <1>11, NoWalkIsSafe DEF CloseWalk, FeedTypes, Committed
<1> QED BY <1>5, <1>6, <1>7, <1>8, <1>9, <1>10, <1>11 DEF Feed

-----------------------------------------------------------------------------
(* The e-mails. *)

LEMMA JobType ==
    ASSUME NInv, NEW n \in Notices
    PROVE  jobs[n] \in Job /\ MailSafe(n) /\ jobs \in [Notices -> Job]
           /\ jobs[n].attempt \in 0..MaxAttempts /\ jobs[n].copies \in 0..MaxAttempts
BY DEF NInv, MailTypes, AllMailSafe, Job

(* What is left of an attempt that did not succeed. *)
LEMMA RetriedIsSafe ==
    ASSUME NInv, NEW n \in Notices
    PROVE  LET r == Retried(n)
           IN  /\ r \in Job /\ r.copies <= r.attempt /\ ~jobs[n].wrong /\ r.wrong = jobs[n].wrong
               /\ r.state \in {"available", "discarded"}
               /\ r.state = "available" => r.attempt < MaxAttempts
<1> DEFINE j == jobs[n]
<1>1. j \in Job /\ MailSafe(n)
  BY JobType
<1>2. /\ Retried(n).state = IF Exhausted(n) THEN "discarded" ELSE "available"
      /\ Retried(n).attempt = j.attempt /\ Retried(n).copies = j.copies
      /\ Retried(n).wrong = j.wrong
  BY <1>1 DEF Retried, Job
<1>3. j.attempt \in 0..MaxAttempts /\ ~(j.attempt >= MaxAttempts) => j.attempt < MaxAttempts
  OBVIOUS
<1>4. Retried(n) \in Job
  BY <1>1 DEF Retried, Job
<1> HIDE DEF j
<1> QED BY <1>1, <1>2, <1>3, <1>4 DEF MailSafe, Exhausted, j, Job

(* One job changes, and what it becomes is safe. *)
LEMMA OneJob ==
    ASSUME NInv, NEW n \in Notices, NEW job \in Job, SetJob(n, job),
           UNCHANGED <<feed, holder, enabled>>, due' \subseteq due,
           /\ job.copies <= job.attempt /\ ~job.wrong
           /\ job.state = "available" => job.attempt < MaxAttempts
           /\ job.state \in {"fetched", "sending"} => job.copies < job.attempt
           /\ job.state = "sending" => enabled /\ job.to \subseteq job.held
           /\ job.state \in {"delivered", "completed"} => job.copies > 0
           /\ job.state \in Working => Address \subseteq job.held
    PROVE  NInv'
<1>1. FeedTypes /\ MailTypes /\ WalkSafe /\ AllMailSafe
  BY DEF NInv
<1>2. FeedTypes' /\ WalkSafe'
  BY <1>1 DEF FeedTypes, WalkSafe, Filtered, Committed, feed
<1>3. jobs' \in [Notices -> Job] /\ jobs'[n] = job
      /\ \A m \in Notices \ {n} : jobs'[m] = jobs[m]
  BY <1>1 DEF MailTypes, SetJob
<1>4. MailTypes'
  BY <1>1, <1>3 DEF MailTypes
<1>5. Address' = Address
  BY DEF Address
<1>6. MailSafe(n)'
  BY <1>3, <1>5 DEF MailSafe
<1>7. ASSUME NEW m \in Notices \ {n} PROVE MailSafe(m)'
  BY <1>1, <1>3, <1>5, <1>7 DEF AllMailSafe, MailSafe
<1> QED BY <1>2, <1>4, <1>6, <1>7 DEF NInv, AllMailSafe

LEMMA EnqueueN ==
    ASSUME NInv, NEW n \in Notices, Enqueue(n)
    PROVE  NInv'
<1>1. due' \subseteq due /\ UNCHANGED <<feed, holder, enabled>>
  BY DEF Enqueue
<1>2. CASE SetJob(n, [NoJob EXCEPT !.state = "available"])
  <2> DEFINE job == [NoJob EXCEPT !.state = "available"]
  <2>1. /\ job.state = "available" /\ job.attempt = 0 /\ job.to = {}
        /\ job.held = {} /\ job.copies = 0 /\ job.wrong = FALSE
    BY DEF NoJob
  <2>2. job \in Job
    BY NoJobType DEF Job
  <2> HIDE DEF job
  <2>3. job.state \notin Working /\ 0 < MaxAttempts /\ job.copies <= job.attempt
    BY <2>1 DEF Working
  <2>4. SetJob(n, job)
    BY <1>2 DEF job
  <2> QED BY <1>1, <2>1, <2>2, <2>3, <2>4, OneJob
<1>3. CASE UNCHANGED jobs
  BY <1>1, <1>3, MailUnchanged
     DEF NInv, FeedTypes, WalkSafe, Filtered, Committed, feed, mail
<1> QED BY <1>2, <1>3 DEF Enqueue

LEMMA FetchN ==
    ASSUME NInv, NEW n \in Notices, Fetch(n)
    PROVE  NInv'
<1> DEFINE job == [jobs[n] EXCEPT !.state = "fetched", !.attempt = @ + 1, !.held = Address]
<1>1. /\ jobs[n] \in Job /\ MailSafe(n) /\ jobs[n].state = "available"
      /\ jobs[n].attempt \in 0..MaxAttempts /\ jobs[n].copies \in 0..MaxAttempts
  BY JobType DEF Fetch
<1>2. /\ job.state = "fetched" /\ job.attempt = jobs[n].attempt + 1
      /\ job.held = Address /\ job.copies = jobs[n].copies /\ job.wrong = jobs[n].wrong
  BY <1>1 DEF Job
<1>3. jobs[n].attempt < MaxAttempts /\ jobs[n].copies <= jobs[n].attempt /\ ~jobs[n].wrong
  BY <1>1 DEF MailSafe
<1>4. jobs[n].attempt + 1 \in 0..MaxAttempts /\ jobs[n].copies < jobs[n].attempt + 1
      /\ jobs[n].copies <= jobs[n].attempt + 1
  BY <1>1, <1>3
<1>5. Address \subseteq Emails
  BY DEF NInv, MailTypes, Address
<1>6. SetJob(n, job) /\ UNCHANGED <<feed, due, holder, enabled>>
  BY DEF Fetch
<1>7. job \in Job
  BY <1>1, <1>4, <1>5 DEF Job, Working
<1> HIDE DEF job
<1> QED BY <1>2, <1>3, <1>4, <1>6, <1>7, OneJob

LEMMA RetriedN ==
    ASSUME NInv, NEW n \in Notices, SetJob(n, Retried(n)),
           UNCHANGED <<feed, due, holder, enabled>>
    PROVE  NInv'
<1> DEFINE job == Retried(n)
<1>1. /\ job \in Job /\ job.copies <= job.attempt /\ ~job.wrong
      /\ job.state \in {"available", "discarded"}
      /\ job.state = "available" => job.attempt < MaxAttempts
  BY RetriedIsSafe
<1>2. SetJob(n, job)
  OBVIOUS
<1> HIDE DEF job
<1>3. job.state \notin Working \cup {"fetched", "sending", "delivered", "completed"}
  BY <1>1 DEF Working
<1> QED BY <1>1, <1>2, <1>3, OneJob

LEMMA EndedN ==
    ASSUME NInv, NEW n \in Notices, NEW state \in {"completed", "cancelled"},
           state = "completed" => jobs[n].copies > 0,
           SetJob(n, Ended(n, state)), UNCHANGED <<feed, due, holder, enabled>>
    PROVE  NInv'
<1> DEFINE job == Ended(n, state)
<1>1. jobs[n] \in Job /\ MailSafe(n)
  BY JobType
<1>2. /\ job.state = state /\ job.attempt = jobs[n].attempt
      /\ job.copies = jobs[n].copies /\ job.wrong = jobs[n].wrong
  BY <1>1 DEF Ended, Job
<1>3. SetJob(n, job)
  OBVIOUS
<1>4. job \in Job
  BY <1>1 DEF Job, Ended
<1> HIDE DEF job
<1>5. job.state \notin Working \cup {"available", "fetched", "sending", "delivered"}
  BY <1>2 DEF Working
<1>6. job.copies <= job.attempt /\ ~job.wrong
  BY <1>1, <1>2 DEF MailSafe
<1> QED BY <1>2, <1>3, <1>4, <1>5, <1>6, OneJob

LEMMA WorkN ==
    ASSUME NInv, NEW n \in Notices, Work(n)
    PROVE  NInv'
<1>1. UNCHANGED <<feed, due, holder, enabled>> /\ jobs[n].state = "fetched"
  BY DEF Work
<1>2. CASE SetJob(n, Postponed(n))
  BY <1>1, <1>2, RetriedN DEF Postponed
<1>3. CASE SetJob(n, Ended(n, "cancelled"))
  BY <1>1, <1>3, EndedN
<1>4. CASE ~Held(n) /\ SetJob(n, [jobs[n] EXCEPT !.state = "sending", !.to = Recipient(n)])
  <2> DEFINE job == [jobs[n] EXCEPT !.state = "sending", !.to = Recipient(n)]
  <2>1. jobs[n] \in Job /\ MailSafe(n)
    BY JobType
  <2>2. /\ job.state = "sending" /\ job.attempt = jobs[n].attempt
        /\ job.to = Address /\ job.held = jobs[n].held
        /\ job.copies = jobs[n].copies /\ job.wrong = jobs[n].wrong
    BY <2>1 DEF Job, Recipient
  <2>3. Address \subseteq Emails
    BY DEF NInv, MailTypes, Address
  <2>4. SetJob(n, job) /\ enabled
    BY <1>4 DEF Held
  <2>5. job \in Job
    BY <2>1, <2>3 DEF Job, Working, Recipient
  <2> HIDE DEF job
  <2>6. /\ job.copies <= job.attempt /\ job.copies < job.attempt /\ ~job.wrong
        /\ Address \subseteq job.held /\ job.to \subseteq job.held
    BY <1>1, <2>1, <2>2 DEF MailSafe, Working
  <2>7. job.state = "sending"
    BY <2>2
  <2> QED BY <1>1, <2>4, <2>5, <2>6, <2>7, OneJob
<1> QED BY <1>2, <1>3, <1>4 DEF Work

LEMMA SendN ==
    ASSUME NInv, NEW n \in Notices, Send(n)
    PROVE  NInv'
<1>1. /\ jobs[n] \in Job /\ MailSafe(n) /\ jobs[n].state = "sending"
      /\ jobs[n].attempt \in 0..MaxAttempts /\ jobs[n].copies \in 0..MaxAttempts
      /\ UNCHANGED <<feed, due, holder, enabled>>
  BY JobType DEF Send
<1>2. /\ enabled /\ jobs[n].to \subseteq jobs[n].held /\ ~jobs[n].wrong
      /\ jobs[n].copies < jobs[n].attempt /\ Address \subseteq jobs[n].held
  BY <1>1 DEF MailSafe, Working
<1> DEFINE job == [jobs[n] EXCEPT !.state = "delivered", !.copies = @ + 1,
                                  !.wrong = @ \/ ~(jobs[n].to \subseteq jobs[n].held)]
<1>3. SetJob(n, job)
  BY <1>2 DEF Send
<1>4. /\ job.state = "delivered" /\ job.attempt = jobs[n].attempt
      /\ job.held = jobs[n].held /\ job.copies = jobs[n].copies + 1
  BY <1>1, <1>2 DEF Job
<1>5. jobs[n].copies + 1 \in 0..MaxAttempts /\ jobs[n].copies + 1 <= jobs[n].attempt
      /\ jobs[n].copies + 1 > 0
  BY <1>1, <1>2
<1>6. job \in Job
  BY <1>1, <1>5 DEF Job, Working
<1>7. ~job.wrong
  BY <1>1, <1>2 DEF Job
<1> HIDE DEF job
<1> QED BY <1>1, <1>2, <1>3, <1>4, <1>5, <1>6, <1>7, OneJob

LEMMA AttemptN ==
    ASSUME NInv, NEW n \in Notices, Attempt(n)
    PROVE  NInv'
<1>1. CASE Complete(n)
  <2>1. jobs[n].copies > 0
    BY <1>1, JobType DEF Complete, MailSafe
  <2> QED BY <1>1, <2>1, EndedN DEF Complete
<1>2. CASE AttemptFails(n)
  BY <1>2, RetriedN DEF AttemptFails
<1> QED BY <1>1, <1>2, FetchN, WorkN, SendN DEF Attempt

(* Running attempts learn of every address that the holder gets. *)
LEMMA MovedN ==
    ASSUME NInv, NEW h \in [email: Emails, trashed: BOOLEAN], Moved(h)
    PROVE  NInv'
<1>1. FeedTypes /\ MailTypes /\ WalkSafe /\ AllMailSafe
  BY DEF NInv
<1>2. FeedTypes' /\ WalkSafe'
  BY <1>1 DEF Moved, FeedTypes, WalkSafe, Filtered, Committed, feed
<1> DEFINE A == IF h.trashed THEN {} ELSE {h.email}
<1>3. Address' = A /\ A \subseteq Emails
  BY DEF Moved, Address
<1>4. /\ holder' = h /\ enabled' = enabled
      /\ jobs' = [n \in Notices |->
                     IF jobs[n].state \in Working
                     THEN [jobs[n] EXCEPT !.held = @ \cup A] ELSE jobs[n]]
  BY DEF Moved
<1> HIDE DEF A
<1>5. ASSUME NEW n \in Notices PROVE jobs'[n] \in Job /\ MailSafe(n)'
  <2>1. jobs[n] \in Job /\ MailSafe(n)
    BY JobType
  <2>2. CASE jobs[n].state \notin Working
    <3>1. jobs'[n] = jobs[n]
      BY <1>4, <2>2
    <3> QED BY <1>4, <2>1, <2>2, <3>1 DEF MailSafe, Working
  <2>3. CASE jobs[n].state \in Working
    <3>1. jobs'[n] = [state |-> jobs[n].state, attempt |-> jobs[n].attempt,
                      to |-> jobs[n].to, held |-> jobs[n].held \cup A,
                      copies |-> jobs[n].copies, wrong |-> jobs[n].wrong]
      BY <1>4, <2>1, <2>3 DEF Job
    <3>2. jobs'[n] \in Job
      BY <1>3, <2>1, <3>1 DEF Job
    <3>3. Address' \subseteq jobs'[n].held /\ jobs[n].held \subseteq jobs'[n].held
      BY <1>3, <3>1
    <3> QED BY <1>4, <2>1, <3>1, <3>2, <3>3 DEF MailSafe
  <2> QED BY <2>2, <2>3
<1>6. MailTypes'
  BY <1>1, <1>4, <1>5 DEF MailTypes
<1> QED BY <1>2, <1>5, <1>6 DEF NInv, AllMailSafe

(* After a restart no attempt runs. *)
LEMMA RestartN ==
    ASSUME NInv, Restart
    PROVE  NInv'
<1>1. FeedTypes /\ MailTypes /\ WalkSafe /\ AllMailSafe
  BY DEF NInv
<1>2. FeedTypes' /\ WalkSafe'
  BY <1>1 DEF Restart, FeedTypes, WalkSafe, Filtered, Committed, feed
<1>3. ASSUME NEW n \in Notices PROVE jobs'[n] \in Job /\ MailSafe(n)'
  <2>1. jobs[n] \in Job /\ MailSafe(n)
    BY JobType
  <2>2. CASE jobs[n].state \notin Working
    <3>1. jobs'[n] = jobs[n]
      BY <2>2 DEF Restart
    <3> QED BY <2>1, <2>2, <3>1 DEF MailSafe, Working
  <2>3. CASE jobs[n].state \in Working
    <3> DEFINE r == Retried(n)
    <3>1. jobs'[n] = r
      BY <2>3 DEF Restart
    <3>2. /\ r \in Job /\ r.copies <= r.attempt /\ ~r.wrong
          /\ r.state \in {"available", "discarded"}
          /\ r.state = "available" => r.attempt < MaxAttempts
      BY RetriedIsSafe
    <3> HIDE DEF r
    <3> QED BY <3>1, <3>2 DEF MailSafe, Working
  <2> QED BY <2>2, <2>3
<1>4. MailTypes'
  BY <1>1, <1>3 DEF MailTypes, Restart
<1> QED BY <1>2, <1>3, <1>4 DEF NInv, AllMailSafe

LEMMA NextN == NInv /\ [Next]_vars => NInv'
<1> SUFFICES ASSUME NInv, [Next]_vars PROVE NInv'
  OBVIOUS
<1>1. CASE UNCHANGED vars
  BY <1>1, MailUnchanged
     DEF vars, mail, feed, NInv, FeedTypes, WalkSafe, Filtered, Committed
<1>2. holder \in [email: Emails, trashed: BOOLEAN]
  BY DEF NInv, MailTypes
<1>3. ASSUME NEW e \in Emails, UpdateEmail(e) PROVE NInv'
  BY <1>2, <1>3, MovedN DEF UpdateEmail
<1>4. CASE DeleteOrRestore
  BY <1>2, <1>4, MovedN DEF DeleteOrRestore
<1> QED BY <1>1, <1>3, <1>4, FeedN, EnqueueN, AttemptN, RestartN DEF Next, Mail

LEMMA NInvariant == Spec => []NInv
BY InitN, NextN, PTL DEF Spec

(* Types of the rows, the reader, the jobs and the holder. *)
THEOREM TypeCorrect == Spec => []TypeOK
BY NInvariant, NInvTypes, PTL

(* Who loads page after page sees no notice twice and misses none that was   *)
(* there from the first page on, though others are committed between two     *)
(* pages in any order, and though any number of them share a timestamp.      *)
THEOREM PagesAreComplete == Spec => []WalkIsComplete
<1>1. NInv => WalkIsComplete
  BY DEF NInv, WalkSafe, WalkIsComplete
<1> QED BY <1>1, NInvariant, PTL

(* A completed job has sent its mail: no switch of the configuration, no     *)
(* crash and no retry makes one that sent nothing look successful.           *)
THEOREM NoMailIsLostSilently == Spec => []CompletedWasSent
<1>1. NInv => CompletedWasSent
  BY DEF NInv, AllMailSafe, MailSafe, CompletedWasSent
<1> QED BY <1>1, NInvariant, PTL

(* Mail goes to an address that the holder had, outside of the trash, at     *)
(* some moment of the attempt.                                               *)
THEOREM MailFindsItsHolder == Spec => []SentToHolder
<1>1. NInv => SentToHolder
  BY DEF NInv, AllMailSafe, MailSafe, SentToHolder
<1> QED BY <1>1, NInvariant, PTL
=============================================================================
