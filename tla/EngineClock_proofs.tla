------------------------- MODULE EngineClock_proofs -------------------------
(***************************************************************************)
(* The dates of the retries.  A retry is never planned for a day on which  *)
(* the filter of retry() passes its record by, unless the attempt before   *)
(* it was judged on another day than the record was created: the handler   *)
(* compares the next date with 23:59 of the day of the failure, not of the *)
(* creation, and the two are the same day because dates only move on.      *)
(***************************************************************************)
EXTENDS EngineCalls_proofs

(* Days and dates.                                                         *)

LEMMA DayLength == UnitsPerDay \in Nat \ {0}
BY TimeAssumption DEF UnitsPerDay

LEMMA DayBounds ==
  ASSUME NEW t \in Nat
  PROVE  /\ StartOfDay(t) \in Nat
         /\ StartOfDay(t) <= t /\ t < StartOfDay(t) + UnitsPerDay
<1>1. t % UnitsPerDay \in 0 .. (UnitsPerDay - 1) /\ t % UnitsPerDay <= t
  BY DayLength
<1>2. QED
  BY <1>1, DayLength DEF StartOfDay

(* A day is the units from its start to the start of the next one.         *)
LEMMA SameDay ==
  ASSUME NEW s \in Nat, NEW t \in Nat,
         StartOfDay(s) <= t, t < StartOfDay(s) + UnitsPerDay
  PROVE  StartOfDay(t) = StartOfDay(s)
<1> DEFINE D == UnitsPerDay
           p == s \div D
           q == t \div D
<1>1. D \in Nat \ {0}
  BY DayLength
<1>2. /\ p \in Int /\ q \in Int
      /\ s = D * p + (s % D) /\ t = D * q + (t % D)
      /\ s % D \in 0 .. D - 1 /\ t % D \in 0 .. D - 1
  <2> HIDE DEF D
  <2>1. QED
    BY <1>1
<1>3. StartOfDay(s) = D * p /\ StartOfDay(t) = D * q
  BY <1>1, <1>2 DEF StartOfDay
<1> HIDE DEF D, p, q
<1>4. D * p <= D * q + (D - 1) /\ D * q < D * p + D
  BY <1>1, <1>2, <1>3 DEF D
<1>5. D * (p - q) < D /\ D * (q - p) < D
  BY <1>1, <1>2, <1>4
<1>6. p = q
  BY <1>1, <1>2, <1>5
<1>7. QED
  BY <1>3, <1>6

LEMMA LastMinute ==
  ASSUME NEW t \in Nat
  PROVE  AtLastMinute(t) \in Int /\ AtLastMinute(t) < StartOfDay(t) + UnitsPerDay
<1> DEFINE minutes == (MinutesPerDay - 1) * UnitsPerMinute
           seconds == t % UnitsPerMinute
<1>1. seconds \in Int /\ seconds < UnitsPerMinute
  BY TimeAssumption
<1>2. minutes \in Int /\ minutes = UnitsPerDay - UnitsPerMinute
  BY TimeAssumption DEF UnitsPerDay
<1>3. AtLastMinute(t) = StartOfDay(t) + minutes + seconds
  BY DEF AtLastMinute
<1> HIDE DEF minutes, seconds
<1>4. StartOfDay(t) \in Nat /\ UnitsPerDay \in Nat /\ UnitsPerMinute \in Nat
  BY DayBounds, DayLength, TimeAssumption
<1>5. QED
  BY <1>1, <1>2, <1>3, <1>4

(* A retry the check of midnight lets pass, planned for after a date of    *)
(* the day of the check, is of that day.                                   *)
LEMMA AllowedIsOfItsDay ==
  ASSUME NEW created \in Nat, NEW failed \in Nat, NEW next \in Nat,
         created <= next, StartOfDay(failed) = StartOfDay(created),
         AllowedToRetryIfBeforeMidnight(next, failed)
  PROVE  StartOfDay(next) = StartOfDay(created)
<1>1. next < StartOfDay(created) + UnitsPerDay
  BY LastMinute, DayBounds, DayLength DEF AllowedToRetryIfBeforeMidnight
<1>2. StartOfDay(created) <= next
  BY DayBounds
<1>3. QED
  BY <1>1, <1>2, SameDay

(* What lies between two dates of a day is of that day.                    *)
LEMMA BetweenDates ==
  ASSUME NEW created \in Nat, NEW failed \in Nat, NEW t \in Nat,
         created <= failed, failed <= t, StartOfDay(t) = StartOfDay(created)
  PROVE  StartOfDay(failed) = StartOfDay(created)
<1>1. StartOfDay(created) <= failed /\ failed < StartOfDay(created) + UnitsPerDay
  BY DayBounds, DayLength
<1>2. QED
  BY <1>1, SameDay

(* The filter of retry() selects a record on the day it was created.       *)
LEMMA FilterOfItsDay ==
  ASSUME NEW created \in Nat, NEW date \in Nat,
         StartOfDay(date) = StartOfDay(created)
  PROVE  InFilterWindow(created, date)
<1>1. AtLastMinute(date) < StartOfDay(created) + UnitsPerDay
  BY LastMinute
<1>2. QED
  BY <1>1, LastMinute, DayBounds, DayLength DEF InFilterWindow
-----------------------------------------------------------------------------
(* The dates of one transaction: nothing of it is planned for, or failed   *)
(* at, a date before its creation.                                         *)
Created(n) == {log[n].created} \union {w.doc.created : w \in Pending(n)}

AfterCreation(n) ==
  \A c \in Created(n) :
    /\ c <= now
    /\ log[n].due => c <= log[n].next
    /\ \A w \in Pending(n) : w.doc.due => c <= w.doc.next
    /\ \A j \in Jobs :
         /\ Active(j, n) => c <= rep[j][n].next
         /\ rep[j][n].pc = "failing"
              => c <= rep[j][n].failed /\ rep[j][n].failed <= now

DateInv == \A n \in Msgs : AfterCreation(n)

(* What a step may do to the reprocessings of n: one of them is taken up,  *)
(* at the date of the record, fails now or keeps its dates.                *)
RepDates(j, n) ==
  /\ Active(j, n)' => \/ Active(j, n) /\ rep'[j][n].next = rep[j][n].next
                      \/ log[n].due /\ rep'[j][n].next = log[n].next
  /\ rep'[j][n].pc = "failing"
       => \/ rep'[j][n].failed = now
          \/ rep[j][n].pc = "failing" /\ rep'[j][n].failed = rep[j][n].failed

(* Time passes, a write of n is applied or lost, a record is taken up or   *)
(* marked: no date is new.                                                 *)
DatesKept(n) ==
  /\ now <= now'
  /\ Pending(n)' \subseteq Pending(n)
  /\ log'[n].created \in Created(n)
  /\ log'[n].due => \/ log[n].due /\ log'[n].next = log[n].next
                    \/ \E w \in Pending(n) :
                         w.doc.due /\ log'[n].next = w.doc.next
  /\ \A j \in Jobs : RepDates(j, n)

(* create stores n, with the date of its creation.                         *)
FirstPlanned(n) ==
  /\ handler[n].pc # "done"
  /\ \E w \in Write :
        /\ Issued(n, w)
        /\ w.doc.created = now
        /\ w.doc.due => now <= w.doc.next
  /\ RepsSame(n)
  /\ UNCHANGED now

(* A new date is counted from the planned one.                             *)
PlannedAgain(n) ==
  /\ \E j \in Jobs, w \in Write :
        /\ Active(j, n)
        /\ Issued(n, w)
        /\ w.doc.created = log[n].created
        /\ rep[j][n].next <= w.doc.next
  /\ \A j \in Jobs : RepDates(j, n)
  /\ UNCHANGED now

DateNext(n) == DatesKept(n) \/ FirstPlanned(n) \/ PlannedAgain(n)
-----------------------------------------------------------------------------
(* The dates in naturals, for the comparisons.                             *)
LEMMA DateTypes ==
  ASSUME TypeOK, NEW n \in Msgs
  PROVE  /\ now \in Nat
         /\ log[n] \in Doc
         /\ log[n].next \in Nat /\ log[n].created \in Nat
         /\ \A w \in Pending(n) : w.doc.next \in Nat /\ w.doc.created \in Nat
         /\ Created(n) \subseteq Nat
         /\ \A j \in Jobs : /\ rep[j][n] \in Rep
                            /\ rep[j][n].next \in Nat
                            /\ rep[j][n].failed \in Nat
BY DEF TypeOK, Doc, Rep, Write, Pending, Created

LEMMA KeptAfterCreation ==
  ASSUME TypeOK, TypeOK', NEW n \in Msgs, AfterCreation(n), DatesKept(n)
  PROVE  AfterCreation(n)'
<1> USE DEF DatesKept
<1>1. ASSUME NEW c \in Created(n)' PROVE c \in Created(n)
  BY <1>1 DEF Created
<1>2. now \in Nat /\ now' \in Nat /\ Created(n) \subseteq Nat
  BY DateTypes DEF TypeOK
<1>3. ASSUME NEW c \in Created(n)
      PROVE  /\ c <= now'
             /\ log'[n].due => c <= log'[n].next
             /\ \A w \in Pending(n)' : w.doc.due => c <= w.doc.next
  BY <1>2 DEF AfterCreation
<1>4. ASSUME NEW c \in Created(n), NEW j \in Jobs
      PROVE  /\ Active(j, n)' => c <= rep'[j][n].next
             /\ rep'[j][n].pc = "failing"
                  => c <= rep'[j][n].failed /\ rep'[j][n].failed <= now'
  <2>1. RepDates(j, n) /\ rep[j][n].failed \in Nat
    BY DateTypes
  <2>2. QED
    BY <1>2, <2>1 DEF AfterCreation, RepDates
<1>5. QED
  BY <1>1, <1>3, <1>4 DEF AfterCreation

LEMMA FirstAfterCreation ==
  ASSUME TypeOK, NEW n \in Msgs, Untouched(n), AfterCreation(n),
         FirstPlanned(n)
  PROVE  AfterCreation(n)'
<1>1. PICK w \in Write :
        /\ Issued(n, w)
        /\ w.doc.created = now
        /\ w.doc.due => now <= w.doc.next
  BY DEF FirstPlanned
<1>2. now' = now /\ RepsSame(n) /\ log'[n] = log[n]
  BY <1>1 DEF FirstPlanned, Issued
<1>3. /\ ~log[n].due /\ Pending(n) = {}
      /\ \A j \in Jobs : ~Active(j, n)
  BY DEF FirstPlanned, Untouched
<1>4. Pending(n)' = {w}
  BY <1>1, <1>3 DEF Issued
<1>5. Created(n)' = {log[n].created, now}
  BY <1>1, <1>2, <1>4 DEF Created
<1>6. log[n].created <= now /\ log[n].created \in Nat /\ now \in Nat
  BY DateTypes DEF AfterCreation, Created
<1>7. w.doc.next \in Nat
  BY DEF Write, Doc
<1>8. QED
  BY <1>1, <1>2, <1>3, <1>4, <1>5, <1>6, <1>7
     DEF AfterCreation, RepsSame, Active

LEMMA AgainAfterCreation ==
  ASSUME TypeOK, NEW n \in Msgs, AfterCreation(n), PlannedAgain(n)
  PROVE  AfterCreation(n)'
<1>1. PICK j \in Jobs, w \in Write :
        /\ Active(j, n)
        /\ Issued(n, w)
        /\ w.doc.created = log[n].created
        /\ rep[j][n].next <= w.doc.next
  BY DEF PlannedAgain
<1>2. now' = now /\ log'[n] = log[n] /\ Pending(n)' = Pending(n) \union {w}
  BY <1>1 DEF PlannedAgain, Issued
<1>3. Created(n)' = Created(n)
  BY <1>1, <1>2 DEF Created
<1>4. ASSUME NEW c \in Created(n)
      PROVE  c <= w.doc.next
  <2>1. c <= rep[j][n].next
    BY <1>1 DEF AfterCreation
  <2>2. w.doc.next \in Nat
    BY DEF Write, Doc
  <2>3. QED
    BY <1>1, <2>1, <2>2, DateTypes
<1>5. ASSUME NEW c \in Created(n), NEW k \in Jobs
      PROVE  /\ Active(k, n)' => c <= rep'[k][n].next
             /\ rep'[k][n].pc = "failing"
                  => c <= rep'[k][n].failed /\ rep'[k][n].failed <= now
  <2>1. RepDates(k, n) /\ now \in Nat
    BY DateTypes DEF PlannedAgain
  <2>2. QED
    BY <2>1 DEF AfterCreation, RepDates
<1>6. QED
  BY <1>2, <1>3, <1>4, <1>5 DEF AfterCreation
-----------------------------------------------------------------------------
(* Every step of the engine is, for the dates of each transaction, one of  *)
(* DateNext.                                                               *)

(* A step that leaves the record and the reprocessings of n alone.         *)
LEMMA SameDates ==
  ASSUME NEW n \in Msgs, now <= now', Pending(n)' \subseteq Pending(n),
         UNCHANGED log[n], \A j \in Jobs : rep'[j][n] \in {rep[j][n], Idle}
  PROVE  DateNext(n)
<1>1. \A j \in Jobs : RepDates(j, n)
  BY DEF RepDates, Active, Idle
<1>2. QED
  BY <1>1 DEF DateNext, DatesKept, Created

LEMMA CreateDates ==
  ASSUME TypeOK, NEW m \in Msgs, Receive(m) \/ Handle(m), NEW n \in Msgs
  PROVE  DateNext(n)
<1> USE DEF dbVars, outcomeVars
<1>1. UNCHANGED <<now, rep>>
  BY DEF Receive, ReceiveMalformed, ReceiveUnbuildable, ReceiveTbkMall,
         ReceiveAndSend, Received,
         Handle, TokenReturned, TokenFails, FirstAnswerAccepted,
         FirstAnswerRefused, FirstCallFails, ScheduleRetry, GiveUp,
         RuleLookupFails
<1>2. now \in Nat
  BY DEF TypeOK
<1>3. ASSUME UNCHANGED <<log, writes>> PROVE DateNext(n)
  BY <1>1, <1>2, <1>3, SameDates DEF Pending
<1>4. ASSUME NEW due \in BOOLEAN, NEW next \in Nat, due => now <= next,
             handler[m].pc # "done",
             WriteBoth(m, Home[m], FirstDoc(m, due, next))
      PROVE  DateNext(n)
  <2> DEFINE doc == FirstDoc(m, due, next)
             w == [msg |-> m, home |-> Home[m], doc |-> doc]
  <2>1. /\ doc \in Doc /\ doc.due = due /\ doc.next = next
        /\ doc.created = now
    BY DEF FirstDoc, Doc, Handler, TypeOK
  <2>2. writes' = writes \union {w} /\ UNCHANGED log
    BY <1>4 DEF WriteBoth
  <2>3. w \in Write /\ w.msg = m /\ w.doc = doc
    <3> HIDE DEF doc
    <3>1. QED
      BY <2>1, EngineAssumption DEF Write
  <2> HIDE DEF w, doc
  <2>4. CASE n = m
    <3>1. Issued(n, w)
      BY <2>2, <2>3, <2>4 DEF Issued, Pending
    <3>2. QED
      BY <1>1, <1>4, <2>1, <2>3, <2>4, <3>1
         DEF DateNext, FirstPlanned, RepsSame
  <2>5. CASE n # m
    <3>1. Pending(n)' \subseteq Pending(n)
      BY <2>2, <2>3, <2>5 DEF Pending
    <3>2. QED
      BY <1>1, <1>2, <2>2, <3>1, SameDates
  <2>6. QED
    BY <2>4, <2>5
<1>5. CASE ScheduleRetry(m)
  <2>1. PICK rule \in Rules :
          WriteBoth(m, Home[m], FirstDoc(m, TRUE, now + DelayAfter(rule, 1)))
    BY <1>5 DEF ScheduleRetry
  <2>2. DelayAfter(rule, 1) \in Nat
    BY DelayType, EngineAssumption
  <2>3. /\ now + DelayAfter(rule, 1) \in Nat
        /\ now <= now + DelayAfter(rule, 1)
    BY <1>2, <2>2
  <2>4. QED
    BY <1>4, <1>5, <2>1, <2>3 DEF ScheduleRetry
<1>6. CASE FirstAnswerAccepted(m) \/ GiveUp(m)
  BY <1>4, <1>6 DEF FirstAnswerAccepted, GiveUp
<1>7. CASE ~(ScheduleRetry(m) \/ FirstAnswerAccepted(m) \/ GiveUp(m))
  BY <1>3, <1>7
     DEF Receive, ReceiveMalformed, ReceiveUnbuildable, ReceiveTbkMall,
         ReceiveAndSend, Received, Handle, TokenReturned, TokenFails,
         FirstAnswerRefused, FirstCallFails, RuleLookupFails
<1>8. QED
  BY <1>5, <1>6, <1>7

LEMMA StoreDates ==
  ASSUME TypeOK, NEW n \in Msgs,
         \/ \E w \in writes : RequestStored(w)
         \/ \E r \in replies : ResponseStored(r)
         \/ WriteLost
  PROVE  DateNext(n)
<1>1. UNCHANGED <<now, rep>> /\ writes' \subseteq writes /\ now \in Nat
  BY DEF RequestStored, ResponseStored, WriteLost, TypeOK
<1>2. CASE UNCHANGED log[n]
  BY <1>1, <1>2, SameDates DEF Pending
<1>3. ASSUME NEW w \in writes, RequestStored(w), w.msg = n PROVE DateNext(n)
  <2>1. w \in Pending(n) /\ log'[n] = w.doc /\ Pending(n)' \subseteq Pending(n)
    BY <1>1, <1>3 DEF RequestStored, TypeOK, Pending
  <2>2. \A j \in Jobs : RepDates(j, n)
    BY <1>1 DEF RepDates, Active
  <2>3. QED
    BY <1>1, <2>1, <2>2 DEF DateNext, DatesKept, Created
<1>4. ASSUME NEW w \in writes, RequestStored(w), w.msg # n
      PROVE  UNCHANGED log[n]
  BY <1>4 DEF RequestStored, TypeOK
<1>5. QED
  BY <1>2, <1>3, <1>4 DEF ResponseStored, WriteLost

(* retry: a batch takes up records that are due.                           *)
LEMMA JobDates ==
  ASSUME TypeOK, NEW j \in Jobs, Tick(j) \/ JobStep(j) \/ FlagExpires,
         NEW n \in Msgs
  PROVE  DateNext(n)
<1> USE DEF dbVars, outcomeVars
<1>1. UNCHANGED <<now, log, writes>> /\ now \in Nat
  BY DEF TypeOK, Tick, FlagExpires, JobStep, CloseGate, FlagStep, FlagFault,
         BatchStarted, BatchEmpty, BatchAborted, FetchFails, BatchSettled
<1>2. CASE BatchStarted(j) \/ BatchAborted(j)
  <2>1. PICK S \in SUBSET Fetchable(j) : StartAll(j, S)
    BY <1>2 DEF BatchStarted, BatchAborted, Batches
  <2>2. /\ rep'[j][n] = IF n \in S THEN StartOf(n) ELSE rep[j][n]
        /\ \A k \in Jobs \ {j} : rep'[k][n] = rep[k][n]
    BY <2>1 DEF StartAll, TypeOK
  <2>3. n \in S => log[n].due
    BY <2>1 DEF Fetchable, Selected
  <2>4. /\ StartOf(n).next = log[n].next
        /\ StartOf(n).pc = "failing" => StartOf(n).failed = now
    BY DEF StartOf
  <2>5. \A k \in Jobs : RepDates(k, n)
    BY <2>2, <2>3, <2>4 DEF RepDates, Active
  <2>6. QED
    BY <1>1, <2>5 DEF DateNext, DatesKept, Created, Pending
<1>3. CASE ~(BatchStarted(j) \/ BatchAborted(j))
  <2>1. UNCHANGED rep
    BY <1>3 DEF Tick, FlagExpires, JobStep, CloseGate, FlagStep, FlagFault,
                BatchEmpty, FetchFails, BatchSettled
  <2>2. QED
    BY <1>1, <2>1, SameDates DEF Pending
<1>4. QED
  BY <1>2, <1>3

(* reprocessTransaction keeps the date it was planned for, and takes the   *)
(* date of a failure when it fails.                                        *)
LEMMA ReprocessRepDates ==
  ASSUME TypeOK, NEW j \in Jobs, NEW m \in Msgs, Reprocess(j, m),
         NEW k \in Jobs, NEW n \in Msgs
  PROVE  RepDates(k, n)
<1>1. rep[j] \in [Msgs -> Rep] /\ rep[j][m] \in Rep
  BY DEF TypeOK
<1>2. Active(j, m)
  BY DEF Active, Reprocess, RecordMarked, MarkFails, SendAgain, AnswerAccepted,
         AnswerRefused, CallFails, AnswerSaved, SaveFails, Reschedule, Cancel,
         RetryRuleLookupFails, CancelSaved, CancelFails, CancelPublished
<1>3. ASSUME NEW pc \in RepPhases \ {"failing"}, RepAt(j, m, pc)
      PROVE  RepDates(j, m)
  <2>1. rep'[j][m] = [rep[j][m] EXCEPT !.pc = pc]
    BY <1>1, <1>3 DEF RepAt, TypeOK
  <2>2. QED
    BY <1>1, <1>2, <2>1 DEF Rep, RepDates
<1>4. ASSUME NEW err, RepFails(j, m, err) PROVE RepDates(j, m)
  <2>1. rep'[j][m] = [rep[j][m] EXCEPT !.pc = "failing", !.err = err,
                                       !.failed = now]
    BY <1>1, <1>4 DEF RepFails, TypeOK
  <2>2. QED
    BY <1>1, <1>2, <2>1 DEF Rep, RepDates
<1>5. Resolved(j, m) => RepDates(j, m)
  BY RepMoves DEF Idle, Active, RepDates
<1>6. \/ \E pc \in RepPhases \ {"failing"} : RepAt(j, m, pc)
      \/ \E err : RepFails(j, m, err)
      \/ Resolved(j, m)
  BY DEF RepPhases, Rejected, Reprocess, RecordMarked, MarkFails, SendAgain,
         AnswerAccepted, AnswerRefused, CallFails, AnswerSaved, SaveFails,
         Reschedule, Cancel, RetryRuleLookupFails, CancelSaved, CancelFails,
         CancelPublished
<1>7. CASE k = j /\ n = m
  BY <1>3, <1>4, <1>5, <1>6, <1>7
<1>8. CASE k # j \/ n # m
  <2>1. rep'[k][n] = rep[k][n]
    BY <1>8, ReprocessOthers
  <2>2. QED
    BY <2>1 DEF RepDates, Active
<1>9. QED
  BY <1>7, <1>8

LEMMA ReprocessDates ==
  ASSUME TypeOK, NEW j \in Jobs, NEW m \in Msgs, Reprocess(j, m),
         NEW n \in Msgs
  PROVE  DateNext(n)
<1> USE DEF dbVars, outcomeVars
<1>1. \A k \in Jobs : RepDates(k, n)
  BY ReprocessRepDates
<1>2. UNCHANGED now /\ now \in Nat
  BY DEF TypeOK, Reprocess, RecordMarked, MarkFails, SendAgain, AnswerAccepted,
         AnswerRefused, CallFails, AnswerSaved, SaveFails, Reschedule, Cancel,
         RetryRuleLookupFails, CancelSaved, CancelFails, CancelPublished
<1>3. CASE StoreSame(n)
  BY <1>1, <1>2, <1>3 DEF StoreSame, DateNext, DatesKept, Created
<1>4. CASE n = m /\ RecordMarked(j, m)
  <2>1. log[m] \in Doc /\ Pending(m)' = Pending(m)
    BY <1>4 DEF TypeOK, RecordMarked, Pending
  <2>2. ~log'[m].due /\ log'[m].created = log[m].created
    BY <1>4, <2>1 DEF RecordMarked, TypeOK, Doc
  <2>3. QED
    BY <1>1, <1>2, <1>4, <2>1, <2>2 DEF DateNext, DatesKept, Created
<1>5. CASE n = m /\ Reschedule(j, m)
  <2> DEFINE r == rep[j][m]
  <2>1. PICK rule \in Rules :
          WriteBoth(m, Home[j],
            [log[m] EXCEPT !.due = TRUE, !.retries = r.retries,
                           !.next = r.next + DelayAfter(rule, r.retries)])
    BY <1>5 DEF Reschedule
  <2> DEFINE next == r.next + DelayAfter(rule, r.retries)
             doc == [log[m] EXCEPT !.due = TRUE, !.retries = r.retries,
                                   !.next = next]
             w == [msg |-> m, home |-> Home[j], doc |-> doc]
  <2>2. log[m] \in Doc /\ r.retries \in Nat /\ next \in Nat /\ r.next <= next
    <3>1. log[m] \in Doc /\ r.retries \in Nat /\ r.next \in Nat
      BY DEF TypeOK, Rep
    <3>2. DelayAfter(rule, r.retries) \in Nat
      BY <3>1, DelayType, EngineAssumption
    <3>3. QED
      BY <3>1, <3>2
  <2>3. doc \in Doc /\ doc.next = next /\ doc.created = log[m].created
    <3> HIDE DEF next
    <3>1. QED
      BY <2>2 DEF Doc
  <2>4. writes' = writes \union {w} /\ UNCHANGED log
    BY <2>1 DEF WriteBoth
  <2>5. w \in Write /\ w.msg = m /\ w.doc = doc
    <3> HIDE DEF doc
    <3>1. QED
      BY <2>3, EngineAssumption DEF Write
  <2>6. Active(j, m)
    BY <1>5 DEF Reschedule, Active
  <2> HIDE DEF w, doc, next
  <2>7. Issued(m, w)
    BY <2>4, <2>5 DEF Issued, Pending
  <2>8. QED
    BY <1>1, <1>2, <1>5, <2>2, <2>3, <2>5, <2>6, <2>7
       DEF DateNext, PlannedAgain
<1>6. n # m => StoreSame(n)
  BY ReprocessOthers
<1>7. ~(RecordMarked(j, m) \/ Reschedule(j, m)) => StoreSame(n)
  BY DEF StoreSame, Pending, Reprocess, MarkFails, SendAgain, AnswerAccepted,
         AnswerRefused, CallFails, AnswerSaved, SaveFails, Cancel,
         RetryRuleLookupFails, CancelSaved, CancelFails, CancelPublished
<1>8. QED
  BY <1>3, <1>4, <1>5, <1>6, <1>7

LEMMA DateStep ==
  ASSUME TypeOK, [Next]_vars, NEW n \in Msgs
  PROVE  DateNext(n)
<1> USE DEF dbVars
<1>1. now \in Nat
  BY DEF TypeOK
<1>2. CASE UNCHANGED vars
  BY <1>1, <1>2, SameDates DEF vars, Pending
<1>3. CASE FlagExpires
  BY <1>1, <1>3, SameDates DEF FlagExpires, Pending
<1>4. CASE Advance
  BY <1>1, <1>4, SameDates DEF Advance, Pending
<1>5. ASSUME NEW i \in Instances, Die(i) PROVE DateNext(n)
  <2>1. UNCHANGED <<now, log>> /\ Pending(n)' \subseteq Pending(n)
    BY <1>5 DEF Die, Pending
  <2>2. \A j \in Jobs : rep'[j][n] \in {rep[j][n], Idle}
    BY <1>5 DEF Die
  <2>3. QED
    BY <1>1, <2>1, <2>2, SameDates
<1>6. QED
  BY <1>2, <1>3, <1>4, <1>5, CreateDates, StoreDates, JobDates, ReprocessDates
     DEF Next, Crash, UnhandledRejection

LEMMA DateInvInvariant == Spec => [](TypeOK /\ DateInv)
<1>1. Init => DateInv
  BY DEF Init, DateInv, AfterCreation, Created, Pending, NoDoc, Idle, Active
<1>2. TypeOK /\ FirstCallInv /\ DateInv /\ TypeOK' /\ [Next]_vars => DateInv'
  BY DateStep, KeptAfterCreation, FirstAfterCreation, AgainAfterCreation
     DEF DateNext, DateInv, FirstCallInv
<1>3. QED
  BY <1>1, <1>2, FirstCallInvInvariant, TypeCorrect, PTL DEF Spec
-----------------------------------------------------------------------------
(* The two places that plan a retry.                                       *)

LEMMA FirstOfItsDay ==
  ASSUME TypeOK, NEW rule \in Rules, NEW err, NEW business,
         RetryAfterCreate(err, business, rule, now)
  PROVE  InFilterWindow(now, now + DelayAfter(rule, 1))
<1> DEFINE next == now + DelayAfter(rule, 1)
<1>1. DelayAfter(rule, 1) \in Nat /\ now \in Nat
  BY DelayType, EngineAssumption DEF TypeOK
<1>2. next \in Nat /\ now <= next
  BY <1>1
<1>3. AllowedToRetryIfBeforeMidnight(next, now)
  BY DEF RetryAfterCreate
<1> HIDE DEF next
<1>4. QED
  BY <1>1, <1>2, <1>3, AllowedIsOfItsDay, FilterOfItsDay DEF next

LEMMA AgainOfItsDay ==
  ASSUME TypeOK, NEW n \in Msgs, AfterCreation(n), NEW j \in Jobs,
         rep[j][n].pc = "failing", NEW rule \in Rules, NEW business,
         RetryAfterReprocess(rep[j][n].err, business, rule,
             rep[j][n].retries, rep[j][n].next, rep[j][n].failed, now),
         StartOfDay(log[n].created) = StartOfDay(now)
  PROVE  InFilterWindow(log[n].created,
             rep[j][n].next + DelayAfter(rule, rep[j][n].retries))
<1> DEFINE created == log[n].created
           failed == rep[j][n].failed
           next == rep[j][n].next + DelayAfter(rule, rep[j][n].retries)
<1>1. /\ created <= failed /\ failed <= now
      /\ created <= rep[j][n].next
  BY DEF AfterCreation, Created, Active
<1>2. created \in Nat /\ failed \in Nat /\ now \in Nat /\ rep[j][n].next \in Nat
  BY DateTypes
<1>3. DelayAfter(rule, rep[j][n].retries) \in Nat
  BY DelayType, EngineAssumption DEF TypeOK, Rep
<1>4. next \in Nat /\ created <= next
  BY <1>1, <1>2, <1>3
<1>5. AllowedToRetryIfBeforeMidnight(next, failed)
  BY DEF RetryAfterReprocess
<1>6. StartOfDay(created) = StartOfDay(now)
  OBVIOUS
<1> HIDE DEF created, failed, next
<1>7. StartOfDay(failed) = StartOfDay(created)
  BY <1>1, <1>2, <1>6, BetweenDates
<1>8. InFilterWindow(created, next)
  BY <1>2, <1>4, <1>5, <1>7, AllowedIsOfItsDay, FilterOfItsDay
<1>9. QED
  BY <1>8 DEF created, next

(* The action of PlannedForItsDay.                                         *)
PlansForItsDay ==
  \A w \in writes' \ writes :
    w.doc.due /\ StartOfDay(w.doc.created) = StartOfDay(now)
      => InFilterWindow(w.doc.created, w.doc.next)

LEMMA PlanStep ==
  ASSUME TypeOK, DateInv, [Next]_vars
  PROVE  PlansForItsDay
<1> USE DEF dbVars, outcomeVars
<1>1. ASSUME writes' \subseteq writes PROVE PlansForItsDay
  BY <1>1 DEF PlansForItsDay
<1>2. ASSUME NEW m \in Msgs, ScheduleRetry(m) PROVE PlansForItsDay
  <2>1. PICK rule \in Rules :
          /\ RetryAfterCreate(handler[m].err, BusinessOf[m], rule, now)
          /\ WriteBoth(m, Home[m], FirstDoc(m, TRUE, now + DelayAfter(rule, 1)))
    BY <1>2 DEF ScheduleRetry
  <2>2. InFilterWindow(now, now + DelayAfter(rule, 1))
    BY <2>1, FirstOfItsDay
  <2>3. \A w \in writes' \ writes :
          w.doc.created = now /\ w.doc.next = now + DelayAfter(rule, 1)
    BY <2>1 DEF WriteBoth, FirstDoc
  <2>4. QED
    BY <2>2, <2>3 DEF PlansForItsDay
<1>3. ASSUME NEW m \in Msgs, FirstAnswerAccepted(m) \/ GiveUp(m)
      PROVE  PlansForItsDay
  <2>1. WriteBoth(m, Home[m], FirstDoc(m, FALSE, 0))
    BY <1>3 DEF FirstAnswerAccepted, GiveUp
  <2>2. \A w \in writes' \ writes : ~w.doc.due
    BY <2>1 DEF WriteBoth, FirstDoc
  <2>3. QED
    BY <2>2 DEF PlansForItsDay
<1>4. ASSUME NEW m \in Msgs, Receive(m) \/ Handle(m),
             ~(ScheduleRetry(m) \/ FirstAnswerAccepted(m) \/ GiveUp(m))
      PROVE  PlansForItsDay
  BY <1>1, <1>4
     DEF Receive, ReceiveMalformed, ReceiveUnbuildable, ReceiveTbkMall,
         ReceiveAndSend, Received, Handle, TokenReturned, TokenFails,
         FirstAnswerRefused, FirstCallFails, RuleLookupFails
<1>5. ASSUME NEW j \in Jobs, NEW m \in Msgs, Reschedule(j, m)
      PROVE  PlansForItsDay
  <2> DEFINE r == rep[j][m]
  <2>1. PICK rule \in Rules :
          /\ RetryAfterReprocess(r.err, BusinessOf[m], rule, r.retries,
                                 r.next, r.failed, now)
          /\ WriteBoth(m, Home[j],
                [log[m] EXCEPT !.due = TRUE, !.retries = r.retries,
                     !.next = r.next + DelayAfter(rule, r.retries)])
    BY <1>5 DEF Reschedule
  <2> DEFINE next == r.next + DelayAfter(rule, r.retries)
             doc == [log[m] EXCEPT !.due = TRUE, !.retries = r.retries,
                                   !.next = next]
  <2>2. rep[j][m].pc = "failing" /\ AfterCreation(m)
    BY <1>5 DEF Reschedule, DateInv
  <2>3. StartOfDay(log[m].created) = StartOfDay(now)
          => InFilterWindow(log[m].created, next)
    BY <2>1, <2>2, AgainOfItsDay
  <2>4. doc.next = next /\ doc.created = log[m].created
    <3>1. log[m] \in Doc
      BY DEF TypeOK
    <3> HIDE DEF next
    <3>2. QED
      BY <3>1 DEF Doc
  <2>5. WriteBoth(m, Home[j], doc)
    BY <2>1
  <2> HIDE DEF doc, next
  <2>6. \A w \in writes' \ writes : w.doc = doc
    BY <2>5 DEF WriteBoth
  <2>7. QED
    BY <2>3, <2>4, <2>6 DEF PlansForItsDay
<1>6. ASSUME NEW j \in Jobs, NEW m \in Msgs, Reprocess(j, m), ~Reschedule(j, m)
      PROVE  PlansForItsDay
  BY <1>1, <1>6 DEF Reprocess, RecordMarked, MarkFails, SendAgain,
         AnswerAccepted, AnswerRefused, CallFails, AnswerSaved, SaveFails,
         Cancel, RetryRuleLookupFails, CancelSaved, CancelFails,
         CancelPublished
<1>7. CASE /\ ~\E m \in Msgs : Receive(m) \/ Handle(m)
           /\ ~\E j \in Jobs, m \in Msgs : Reprocess(j, m)
  BY <1>1, <1>7
     DEF vars, Next, RequestStored, ResponseStored, WriteLost, Tick, JobStep,
         CloseGate, FlagStep, FlagFault, BatchStarted, BatchEmpty,
         BatchAborted, FetchFails, BatchSettled, FlagExpires, Crash,
         UnhandledRejection, Die, Advance
<1>8. QED
  BY <1>2, <1>3, <1>4, <1>5, <1>6, <1>7

(* A retry planned on the day its transaction was stored is planned for a  *)
(* date at which the filter of retry() selects it: whatever the rules and  *)
(* their delays, whatever fails, overlaps, is late or dies, and however    *)
(* long anything takes.  handlerErrorForReprocessTransaction judges by the *)
(* day of the failure; it can be trusted because that day lies between the *)
(* creation and the write, and the date counted from is never before the   *)
(* creation.  A failure after midnight is the case it does not cover.      *)
THEOREM PlannedOnItsDay == Spec => PlannedForItsDay
<1>1. TypeOK /\ DateInv /\ [Next]_vars => [PlansForItsDay]_vars
  BY PlanStep
<1>2. [PlansForItsDay]_vars <=>
        [\A w \in writes' \ writes :
           w.doc.due /\ StartOfDay(w.doc.created) = StartOfDay(now)
             => InFilterWindow(w.doc.created, w.doc.next)]_vars
  BY DEF PlansForItsDay
<1>3. QED
  BY <1>1, <1>2, DateInvInvariant, PTL DEF Spec, PlannedForItsDay
=============================================================================
