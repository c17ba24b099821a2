-------------------------- MODULE EngineLog_proofs --------------------------
(***************************************************************************)
(* The log of the attempts: the counter of a record is the number of calls *)
(* made, and where no write is rejected and no process is killed every one *)
(* of these calls has a response record in the end.                        *)
(***************************************************************************)
EXTENDS EngineCalls_proofs

(* The counter of a record that can be sent again is exact, and so is the  *)
(* number a reprocessing gives to its attempt.                             *)
ExactDoc(doc, n) == doc.due /\ doc.built => doc.retries = calls[n]

ExactAttempt(j, n) ==
  LET r == rep[j][n]
  IN  /\ r.pc \in {"marking", "marked"} => r.retries = calls[n] + 1
      /\ \/ r.pc \in {"calling", "saving"}
         \/ r.pc = "failing" /\ r.err # InternalError
         => r.retries = calls[n]

CountExact(n) ==
  /\ ExactDoc(log[n], n)
  /\ \A w \in Pending(n) : ExactDoc(w.doc, n)
  /\ \A j \in Jobs : ExactAttempt(j, n)

ExactInv == \A n \in Msgs : CountExact(n)

LEMMA ExactStep ==
  ASSUME TypeOK, BatchOwnsWork, OneReprocessing, NEW n \in Msgs,
         Untouched(n), CallsCountedFor(n), CountExact(n), MessageNext(n)
  PROVE  CountExact(n)'
<1> USE DEF CountExact, ExactDoc, ExactAttempt
<1>1. /\ calls[n] \in Nat /\ log[n] \in Doc
      /\ \A j \in Jobs : rep[j][n] \in Rep
  BY DEF TypeOK
<1>2. CASE Ebbs(n)
  <2>1. calls'[n] = calls[n] /\ log'[n] = log[n] /\ Pending(n)' \subseteq Pending(n)
    BY <1>2 DEF Ebbs
  <2>2. ASSUME NEW j \in Jobs PROVE ExactAttempt(j, n)'
    BY <1>2, <2>1 DEF Ebbs, RepEbbs, Idle
  <2>3. QED
    BY <2>1, <2>2
<1>3. CASE FirstMoves(n) \/ FirstSent(n)
  <2>1. /\ ~log[n].due /\ Pending(n) = {} /\ \A j \in Jobs : ~Active(j, n)
    BY <1>3 DEF FirstMoves, FirstSent, Untouched
  <2>2. QED
    BY <1>3, <2>1 DEF FirstMoves, FirstSent, StoreSame, RepsSame, Active
<1>4. CASE FirstAccepted(n) \/ FirstFailed(n)
  <2>1. PICK w \in Write : FirstEnds(n, w)
    BY <1>4 DEF FirstAccepted, FirstFailed
  <2>2. /\ ~log[n].due /\ Pending(n) = {} /\ \A j \in Jobs : ~Active(j, n)
        /\ handler[n].built => calls[n] = 1
    BY <2>1 DEF FirstEnds, Untouched
  <2>3. Pending(n)' = {w} /\ log'[n] = log[n] /\ ExactDoc(w.doc, n)'
    BY <2>1, <2>2 DEF FirstEnds, Issued
  <2>4. QED
    BY <2>1, <2>2, <2>3 DEF FirstEnds, RepsSame, Active
<1>5. CASE Stored(n)
  BY <1>5 DEF Stored, RepsSame
<1>6. ASSUME NEW j \in Jobs, Taken(j, n) PROVE CountExact(n)'
  <2>1. UNCHANGED <<log[n], calls[n]>> /\ Pending(n)' = Pending(n)
    BY <1>6 DEF Taken, StoreSame
  <2>2. ExactAttempt(j, n)'
    BY <1>1, <1>6, <2>1 DEF Taken, StartOf, Doc
  <2>3. \A k \in Jobs \ {j} : ExactAttempt(k, n)'
    BY <1>6, <2>1 DEF Taken, OtherReps
  <2>4. QED
    BY <2>1, <2>2, <2>3
<1>7. ASSUME NEW j \in Jobs,
             \/ Marked(j, n) \/ SentAgain(j, n) \/ Accepted(j, n)
             \/ Refused(j, n) \/ Rescheduled(j, n)
      PROVE  CountExact(n)'
  <2>1. Active(j, n)
    BY <1>7 DEF Marked, SentAgain, Accepted, Refused, Rescheduled, Active
  <2>2. Pending(n) = {}
    BY <2>1 DEF CallsCountedFor, LastWord
  <2>3. \A k \in Jobs \ {j} : ~Active(k, n)'
    BY <1>7, <2>1 DEF OneReprocessing, Marked, SentAgain, Accepted, Refused,
                      Rescheduled, OtherReps, Active
  <2>4. \A k \in Jobs \ {j} : ExactAttempt(k, n)'
    BY <2>3 DEF Active
  <2>5. CASE Marked(j, n)
    BY <1>1, <2>2, <2>4, <2>5 DEF Marked
  <2>6. CASE SentAgain(j, n)
    <3>1. ~log[n].due
      BY <2>1, <2>6 DEF SentAgain, CallsCountedFor, AttemptCounted
    <3>2. QED
      BY <1>1, <2>2, <2>4, <2>6, <3>1 DEF SentAgain, StoreSame
  <2>7. CASE Accepted(j, n) \/ Refused(j, n)
    BY <1>1, <2>2, <2>4, <2>7 DEF Accepted, Refused, StoreSame
  <2>8. CASE Rescheduled(j, n)
    <3>1. ~Active(j, n)'
      BY <2>1, <2>8 DEF Rescheduled, BatchOwnsWork, Active, Idle
    <3>2. PICK w \in Write :
            Issued(n, w) /\ w.doc.retries = rep[j][n].retries
      BY <2>8 DEF Rescheduled
    <3>3. Pending(n)' = {w} /\ UNCHANGED <<log[n], calls[n]>>
      BY <2>2, <2>8, <3>2 DEF Issued, Rescheduled
    <3>4. rep[j][n].retries = calls[n]
      BY <2>8 DEF Rescheduled
    <3>5. QED
      BY <2>4, <3>1, <3>2, <3>3, <3>4 DEF Active
  <2>9. QED
    BY <1>7, <2>5, <2>6, <2>7, <2>8
<1>8. QED
  BY <1>2, <1>3, <1>4, <1>5, <1>6, <1>7 DEF MessageNext
-----------------------------------------------------------------------------
(* Who answers for the response record of attempt k: it is stored or on    *)
(* its way, or create or a reprocessing will issue or await it.            *)
Recorded(k, n) ==
  k \in responses[n] \/ \E r \in replies : r.msg = n /\ r.attempt = k

FirstCarries(n) == handler[n].pc \in {"calling", "failing"}

Carries(j, n, k) ==
  /\ rep[j][n].retries = k
  /\ rep[j][n].pc \in {"calling", "saving", "failing", "cancelling"}

Accounted(k, n) ==
  \/ Recorded(k, n)
  \/ k = 1 /\ FirstCarries(n)
  \/ \E j \in Jobs : Carries(j, n, k)

LogInv == \A n \in Msgs : \A k \in 1 .. calls[n] : Accounted(k, n)

(* No database call is rejected, and no process is killed.                 *)
CalmDeployment == SoundDeployment /\ ~MongoMayFail /\ ~MayCrash

(* What a step does about the response records of n.                       *)
RecordsKept(n) == \A k \in Nat : Recorded(k, n) => Recorded(k, n)'

KeepsLog(n) ==
  /\ RecordsKept(n)
  /\ FirstCarries(n) => FirstCarries(n)' \/ Recorded(1, n)'
  /\ \A j \in Jobs, k \in Nat :
       Carries(j, n, k) => Carries(j, n, k)' \/ Recorded(k, n)'

LEMMA ReplyIssued ==
  ASSUME NEW m \in Msgs, NEW home, NEW doc, WriteBoth(m, home, doc)
  PROVE  Recorded(doc.retries, m)' /\ \A n \in Msgs : RecordsKept(n)
<1> DEFINE reply == [msg |-> m, home |-> home, attempt |-> doc.retries]
<1>1. replies' = replies \union {reply} /\ responses' = responses
  BY DEF WriteBoth
<1>2. reply.msg = m /\ reply.attempt = doc.retries
  OBVIOUS
<1> HIDE DEF reply
<1>3. QED
  BY <1>1, <1>2 DEF Recorded, RecordsKept

LEMMA LogSame ==
  ASSUME NEW n \in Msgs, UNCHANGED <<responses, replies, handler[n]>>,
         \A j \in Jobs : rep'[j][n] = rep[j][n]
  PROVE  KeepsLog(n)
BY DEF KeepsLog, RecordsKept, Recorded, FirstCarries, Carries

LEMMA CreateKeepsLog ==
  ASSUME ~MongoMayFail, ~CacheMayFail, TypeOK,
         NEW m \in Msgs, Receive(m) \/ Handle(m), NEW n \in Msgs
  PROVE  KeepsLog(n)
<1> USE DEF TypeOK, dbVars
<1>1. UNCHANGED rep
  BY DEF Receive, ReceiveMalformed, ReceiveUnbuildable, ReceiveTbkMall,
         ReceiveAndSend, Received, Handle, TokenReturned, TokenFails,
         FirstAnswerAccepted, FirstAnswerRefused, FirstCallFails,
         ScheduleRetry, GiveUp, RuleLookupFails
<1>2. n # m => UNCHANGED handler[n]
  BY DEF Receive, ReceiveMalformed, ReceiveUnbuildable, ReceiveTbkMall,
         ReceiveAndSend, Handle, TokenReturned, TokenFails,
         FirstAnswerAccepted, FirstAnswerRefused, FirstCallFails,
         ScheduleRetry, GiveUp, RuleLookupFails, HandlerAt, HandlerDone
<1>3. CASE FirstAnswerAccepted(m) \/ ScheduleRetry(m) \/ GiveUp(m)
  <2>1. PICK due, next : WriteBoth(m, Home[m], FirstDoc(m, due, next))
    BY <1>3 DEF FirstAnswerAccepted, ScheduleRetry, GiveUp
  <2>2. FirstDoc(m, due, next).retries = 1
    BY DEF FirstDoc
  <2>3. Recorded(1, m)' /\ RecordsKept(n)
    BY <2>1, <2>2, ReplyIssued
  <2>4. QED
    BY <1>1, <1>2, <2>3 DEF KeepsLog, FirstCarries, Carries
<1>4. CASE ~(FirstAnswerAccepted(m) \/ ScheduleRetry(m) \/ GiveUp(m))
  <2>1. UNCHANGED <<responses, replies>>
    BY <1>4 DEF Receive, ReceiveMalformed, ReceiveUnbuildable, ReceiveTbkMall,
         ReceiveAndSend, Received, Handle, TokenReturned, TokenFails,
         FirstAnswerRefused, FirstCallFails, RuleLookupFails
  <2>2. FirstCarries(m) => FirstCarries(m)'
    BY <1>4 DEF FirstCarries, Receive, ReceiveMalformed, ReceiveUnbuildable,
         ReceiveTbkMall, ReceiveAndSend, Received, Handle, TokenReturned,
         TokenFails, FirstAnswerRefused, FirstCallFails, RuleLookupFails,
         HandlerAt
  <2>3. QED
    BY <1>1, <1>2, <2>1, <2>2
       DEF KeepsLog, RecordsKept, Recorded, FirstCarries, Carries
<1>5. QED
  BY <1>3, <1>4

LEMMA ReprocessKeepsLog ==
  ASSUME ~MongoMayFail, ~CacheMayFail, TypeOK,
         NEW j \in Jobs, NEW m \in Msgs, Reprocess(j, m), NEW n \in Msgs
  PROVE  KeepsLog(n)
<1> USE DEF TypeOK, dbVars
<1>1. UNCHANGED handler[n]
  BY ReprocessOthers
<1>2. \A i \in Jobs, k \in Nat :
        (i # j \/ n # m) /\ Carries(i, n, k) => Carries(i, n, k)'
  BY ReprocessOthers DEF Carries
<1>3. ASSUME RecordsKept(n),
             n = m => \A k \in Nat :
               Carries(j, m, k) => Carries(j, m, k)' \/ Recorded(k, m)'
      PROVE  KeepsLog(n)
  BY <1>1, <1>2, <1>3 DEF KeepsLog, FirstCarries
<1>4. ASSUME UNCHANGED <<responses, replies>>
      PROVE  RecordsKept(n)
  BY <1>4 DEF RecordsKept, Recorded
<1>5. CASE Answered(m, j) /\ UNCHANGED replies
  <2>1. responses' = [responses EXCEPT ![m] = @ \union {rep[j][m].retries}]
    BY <1>5 DEF Answered
  <2>2. RecordsKept(n)
    BY <1>5, <2>1 DEF RecordsKept, Recorded
  <2>3. \A k \in Nat : k = rep[j][m].retries => Recorded(k, m)'
    BY <2>1 DEF Recorded
  <2>4. QED
    BY <1>3, <2>2, <2>3 DEF Carries
<1>6. CASE Reschedule(j, m)
  <2>1. PICK doc :
          doc.retries = rep[j][m].retries /\ WriteBoth(m, Home[j], doc)
    <3>1. PICK next : WriteBoth(m, Home[j],
            [log[m] EXCEPT !.due = TRUE, !.retries = rep[j][m].retries,
                           !.next = next])
      BY <1>6 DEF Reschedule
    <3>2. log[m] \in Doc
      OBVIOUS
    <3>3. QED
      BY <3>1, <3>2 DEF Doc
  <2>2. RecordsKept(n)
    BY <2>1, ReplyIssued
  <2>3. \A k \in Nat : k = rep[j][m].retries => Recorded(k, m)'
    BY <2>1, ReplyIssued
  <2>4. QED
    BY <1>3, <2>2, <2>3 DEF Carries
<1>7. CASE SendAgain(j, m) \/ RecordMarked(j, m) \/ CancelPublished(j, m)
  <2>1. UNCHANGED <<responses, replies>>
    BY <1>7 DEF SendAgain, RecordMarked, CancelPublished
  <2>2. \A k \in Nat : ~Carries(j, m, k)
    BY <1>7 DEF SendAgain, RecordMarked, CancelPublished, Carries
  <2>3. QED
    BY <1>3, <1>4, <2>1, <2>2
<1>8. CASE \/ AnswerAccepted(j, m) \/ AnswerRefused(j, m) \/ CallFails(j, m)
           \/ Cancel(j, m)
  <2>1. UNCHANGED <<responses, replies>>
    BY <1>8 DEF AnswerAccepted, AnswerRefused, CallFails, Cancel
  <2>2. /\ rep'[j][m].pc \in {"saving", "failing", "cancelling"}
        /\ rep'[j][m].retries = rep[j][m].retries
    BY <1>8, RepMoves DEF AnswerAccepted, AnswerRefused, CallFails, Cancel
  <2>3. QED
    BY <1>3, <1>4, <2>1, <2>2 DEF Carries
<1>9. CASE AnswerSaved(j, m) \/ CancelSaved(j, m)
  BY <1>5, <1>9 DEF AnswerSaved, CancelSaved
<1>10. QED
  BY <1>6, <1>7, <1>8, <1>9 DEF Reprocess, MarkFails, SaveFails,
       RetryRuleLookupFails, CancelFails

LEMMA StoreKeepsLog ==
  ASSUME ~MongoMayFail, TypeOK, NEW n \in Msgs,
         \/ \E w \in writes : RequestStored(w)
         \/ \E r \in replies : ResponseStored(r)
         \/ WriteLost
  PROVE  KeepsLog(n)
<1> USE DEF TypeOK
<1>1. ASSUME NEW w \in writes, RequestStored(w) PROVE KeepsLog(n)
  BY <1>1, LogSame DEF RequestStored
<1>2. ASSUME NEW r \in replies, ResponseStored(r) PROVE KeepsLog(n)
  <2>1. /\ responses' = [responses EXCEPT ![r.msg] = @ \union {r.attempt}]
        /\ replies' = replies \ {r} /\ UNCHANGED <<handler, rep>>
    BY <1>2 DEF ResponseStored
  <2>2. \A k \in responses[n] : k \in responses'[n]
    BY <2>1
  <2>3. r.msg = n => r.attempt \in responses'[n]
    BY <2>1
  <2>4. RecordsKept(n)
    BY <2>1, <2>2, <2>3 DEF RecordsKept, Recorded
  <2>5. QED
    BY <2>1, <2>4 DEF KeepsLog, FirstCarries, Carries
<1>3. ~WriteLost
  BY DEF WriteLost
<1>4. QED
  BY <1>1, <1>2, <1>3

(* No process dies: an unhandled rejection needs a reprocessing that is    *)
(* alive while nobody waits for its batch.                                 *)
NoneRejected == \A j \in Jobs, m \in Msgs : rep[j][m].pc # "rejected"

LEMMA NoneRejectedStep ==
  ASSUME TypeOK, BatchOwnsWork, NoneRejected, [Next]_vars
  PROVE  NoneRejected'
<1> SUFFICES ASSUME NEW j \in Jobs, NEW n \in Msgs
             PROVE  rep'[j][n].pc # "rejected"
  BY DEF NoneRejected
<1>1. rep[j][n].pc # "rejected" /\ Idle.pc # "rejected" /\ StartOf(n).pc # "rejected"
  BY DEF NoneRejected, Idle, StartOf
<1>2. ASSUME rep'[j][n] \in {rep[j][n], Idle, StartOf(n)}
      PROVE  rep'[j][n].pc # "rejected"
  BY <1>1, <1>2
<1>3. ASSUME NEW i \in Jobs, NEW m \in Msgs, Reprocess(i, m)
      PROVE  rep'[j][n].pc # "rejected"
  <2>1. CASE i # j \/ m # n
    BY <1>2, <1>3, <2>1, ReprocessOthers
  <2>2. CASE i = j /\ m = n
    <3>1. Active(j, n)
      BY <1>3, <2>2 DEF Active, Reprocess, RecordMarked, MarkFails, SendAgain,
           AnswerAccepted, AnswerRefused, CallFails, AnswerSaved, SaveFails,
           Reschedule, Cancel, RetryRuleLookupFails, CancelSaved, CancelFails,
           CancelPublished
    <3>2. Rejected(j, n) => rep'[j][n] = Idle
      BY <3>1, RepMoves DEF Rejected, BatchOwnsWork
    <3>3. \/ Resolved(j, n) \/ Rejected(j, n)
          \/ \E err : RepFails(j, n, err)
          \/ RepAt(j, n, "marked") \/ RepAt(j, n, "calling")
          \/ RepAt(j, n, "saving") \/ RepAt(j, n, "cancelling")
          \/ RepAt(j, n, "publishing")
      BY <1>3, <2>2
         DEF Reprocess, RecordMarked, MarkFails, SendAgain, AnswerAccepted,
             AnswerRefused, CallFails, AnswerSaved, SaveFails, Reschedule,
             Cancel, RetryRuleLookupFails, CancelSaved, CancelFails,
             CancelPublished
    <3>4. QED
      BY <1>1, <3>2, <3>3, RepMoves
  <2>3. QED
    BY <2>1, <2>2
<1>4. ASSUME NEW i \in Jobs, Tick(i) \/ JobStep(i)
      PROVE  rep'[j][n].pc # "rejected"
  <2>1. CASE BatchStarted(i) \/ BatchAborted(i)
    <3>1. PICK S \in SUBSET Fetchable(i) : StartAll(i, S)
      BY <2>1 DEF BatchStarted, BatchAborted, Batches
    <3>2. rep'[j][n] \in {rep[j][n], StartOf(n)}
      BY <3>1 DEF StartAll, TypeOK
    <3>3. QED
      BY <1>2, <3>2
  <2>2. CASE ~(BatchStarted(i) \/ BatchAborted(i))
    BY <1>2, <1>4, <2>2 DEF Tick, JobStep, CloseGate, FlagStep, FlagFault,
                            BatchEmpty, FetchFails, BatchSettled
  <2>3. QED
    BY <2>1, <2>2
<1>5. ASSUME NEW i \in Instances, Die(i) PROVE rep'[j][n].pc # "rejected"
  BY <1>2, <1>5 DEF Die
<1>6. ASSUME NEW m \in Msgs, Receive(m) \/ Handle(m) PROVE UNCHANGED rep
  BY <1>6 DEF Receive, ReceiveMalformed, ReceiveUnbuildable, ReceiveTbkMall,
         ReceiveAndSend, Received, Handle, TokenReturned, TokenFails,
         FirstAnswerAccepted, FirstAnswerRefused, FirstCallFails,
         ScheduleRetry, GiveUp, RuleLookupFails
<1>7. QED
  BY <1>2, <1>3, <1>4, <1>5, <1>6
     DEF Next, RequestStored, ResponseStored, WriteLost, FlagExpires, Crash,
         UnhandledRejection, Advance, vars

LEMMA LogKept ==
  ASSUME CalmDeployment, TypeOK, BatchOwnsWork, NoneRejected, [Next]_vars,
         NEW n \in Msgs
  PROVE  KeepsLog(n)
<1> USE DEF dbVars
<1>1. ~MongoMayFail /\ ~CacheMayFail
  BY DEF CalmDeployment, SoundDeployment, Gate!LockAssumptions
<1>2. ~\E i \in Instances : Crash(i) \/ UnhandledRejection(i)
  BY DEF CalmDeployment, Crash, UnhandledRejection, NoneRejected
<1>3. CASE FlagExpires \/ Advance \/ UNCHANGED vars
  BY <1>3, LogSame DEF FlagExpires, Advance, vars
<1>4. ASSUME NEW j \in Jobs, Tick(j) \/ JobStep(j) PROVE KeepsLog(n)
  <2>1. CASE BatchStarted(j) \/ BatchAborted(j)
    <3>1. UNCHANGED <<handler, responses, replies>>
      BY <2>1 DEF BatchStarted, BatchAborted
    <3>2. PICK S \in SUBSET Fetchable(j) : StartAll(j, S)
      BY <2>1 DEF BatchStarted, BatchAborted, Batches
    <3>3. ~Active(j, n)
      BY <2>1 DEF BatchStarted, BatchAborted, Gate!BatchStarted,
                  Gate!BatchAborted, BatchOwnsWork
    <3>4. \A k \in Jobs \ {j} : rep'[k][n] = rep[k][n]
      BY <3>2 DEF StartAll
    <3>5. QED
      BY <3>1, <3>3, <3>4
         DEF KeepsLog, RecordsKept, Recorded, FirstCarries, Carries, Active
  <2>2. CASE ~(BatchStarted(j) \/ BatchAborted(j))
    BY <1>4, <2>2, LogSame DEF Tick, JobStep, CloseGate, FlagStep, FlagFault,
                               BatchEmpty, FetchFails, BatchSettled
  <2>3. QED
    BY <2>1, <2>2
<1>5. QED
  BY <1>1, <1>2, <1>3, <1>4, CreateKeepsLog, ReprocessKeepsLog, StoreKeepsLog
     DEF Next

(* A call that is made is accounted for by the one who makes it.           *)
LEMMA LogStep ==
  ASSUME TypeOK, NEW n \in Msgs, Untouched(n), CountExact(n), MessageNext(n),
         KeepsLog(n), \A k \in 1 .. calls[n] : Accounted(k, n)
  PROVE  \A k \in 1 .. calls'[n] : Accounted(k, n)'
<1>1. calls[n] \in Nat
  BY DEF TypeOK
<1>2. ASSUME NEW k \in Nat, Accounted(k, n) PROVE Accounted(k, n)'
  <2>1. CASE Recorded(k, n)
    BY <2>1 DEF KeepsLog, RecordsKept, Accounted
  <2>2. CASE k = 1 /\ FirstCarries(n)
    BY <2>2 DEF KeepsLog, Accounted
  <2>3. ASSUME NEW j \in Jobs, Carries(j, n, k) PROVE Accounted(k, n)'
    BY <2>3 DEF KeepsLog, Accounted
  <2>4. QED
    BY <1>2, <2>1, <2>2, <2>3 DEF Accounted
<1>3. CASE calls'[n] = calls[n]
  BY <1>1, <1>2, <1>3
<1>4. CASE FirstSent(n)
  <2>1. calls'[n] = 1 /\ FirstCarries(n)'
    BY <1>4 DEF FirstSent, Untouched, FirstCarries
  <2>2. QED
    BY <2>1 DEF Accounted
<1>5. ASSUME NEW j \in Jobs, SentAgain(j, n)
      PROVE  \A k \in 1 .. calls'[n] : Accounted(k, n)'
  <2>1. calls'[n] = calls[n] + 1 /\ rep'[j][n].retries = calls[n] + 1
    BY <1>5 DEF SentAgain, CountExact, ExactAttempt
  <2>2. \A k \in Nat : k = calls[n] + 1 => Accounted(k, n)'
    BY <1>5, <2>1 DEF SentAgain, Carries, Accounted
  <2>3. \A k \in 1 .. calls'[n] : k \in 1 .. calls[n] \/ k = calls[n] + 1
    BY <1>1, <2>1
  <2>4. QED
    BY <1>1, <1>2, <2>2, <2>3
<1>6. QED
  BY <1>3, <1>4, <1>5 DEF MessageNext, Ebbs, FirstMoves, FirstAccepted,
       FirstFailed, FirstEnds, Stored, Taken, Marked, Accepted, Refused,
       Rescheduled
-----------------------------------------------------------------------------
LEMMA ExactInvariant ==
  ASSUME SoundDeployment
  PROVE  Spec => [](TypeOK /\ BatchInv /\ CallsInv /\ ExactInv)
<1>1. Init => ExactInv
  BY DEF Init, ExactInv, CountExact, ExactDoc, ExactAttempt, Pending, NoDoc,
         Idle
<1>2. TypeOK /\ BatchInv /\ CallsInv /\ ExactInv /\ [Next]_vars => ExactInv'
  BY BatchInvExcludes, MessageStep, ExactStep DEF BatchInv, CallsInv, ExactInv
<1>3. QED
  BY <1>1, <1>2, CallsInvInvariant, PTL DEF Spec

(* In the deployment the flag is written for, whatever the database, the   *)
(* producer and crashes do, a record that is due to be sent again counts   *)
(* exactly the calls made.                                                 *)
THEOREM DueCounterExact ==
  ASSUME SoundDeployment
  PROVE  Spec => []CounterExact
<1>1. ExactInv => CounterExact
  BY DEF ExactInv, CountExact, ExactDoc, CounterExact
<1>2. QED
  BY <1>1, ExactInvariant, PTL

(* In the deployment the flag is written for, while no database call is    *)
(* rejected and no process is killed, the log is complete: once nothing is *)
(* in hand for a transaction, every attempt made has its response record,  *)
(* under its own number. Token errors and failed publications included.    *)
THEOREM EveryAttemptRecorded ==
  ASSUME CalmDeployment
  PROVE  Spec => []AttemptsRecorded
<1>1. SoundDeployment
  BY DEF CalmDeployment
<1>2. Init => LogInv /\ NoneRejected
  BY DEF Init, LogInv, NoneRejected, Idle
<1>3. TypeOK /\ BatchInv /\ NoneRejected /\ [Next]_vars => NoneRejected'
  BY NoneRejectedStep DEF BatchInv
<1>4. TypeOK /\ BatchInv /\ CallsInv /\ ExactInv /\ NoneRejected /\ LogInv
        /\ [Next]_vars => LogInv'
  BY MessageStep, LogKept, LogStep DEF BatchInv, CallsInv, ExactInv, LogInv
<1>5. ASSUME LogInv, NEW m \in Msgs, ~InHand(m), NEW k \in 1 .. calls[m]
      PROVE  k \in responses[m]
  <2>1. Accounted(k, m)
    BY <1>5 DEF LogInv
  <2>2. QED
    BY <1>5, <2>1
       DEF InHand, Accounted, Recorded, FirstCarries, Carries, Active
<1>6. LogInv => AttemptsRecorded
  BY <1>5 DEF AttemptsRecorded
<1>7. QED
  BY <1>1, <1>2, <1>3, <1>4, <1>6, ExactInvariant, PTL DEF Spec
=============================================================================
