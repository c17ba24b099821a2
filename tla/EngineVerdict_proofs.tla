------------------------ MODULE EngineVerdict_proofs ------------------------
(***************************************************************************)
(* One verdict for a transaction, where no database or token call fails:   *)
(* it is published as cancelled once at most, and not after it has been    *)
(* accepted.  The process may die at any point and publications may fail.  *)
(***************************************************************************)
EXTENDS EngineCalls_proofs

SureDeployment ==
  /\ SoundDeployment
  /\ ~MongoMayFail
  /\ TokenErrors = {}

(* What a step does about n besides MessageNext.                           *)

(* A result is published by create when it gives up, and by a reprocessing *)
(* whose cancellation has been stored.                                     *)
Publishes(n) ==
  /\ published'[n] \in {published[n], published[n] + 1}
  /\ UNCHANGED accepted[n]
  /\ \/ /\ handler[n].pc = "failing" /\ handler'[n] = Done
        /\ \E w \in Write : Issued(n, w) /\ ~w.doc.due
        /\ RepsSame(n)
     \/ /\ \E j \in Jobs :
             /\ rep[j][n].pc = "publishing"
             /\ rep'[j][n] = Idle \/ job[j] # "running"
             /\ OtherReps(j, n)
        /\ StoreSame(n) /\ UNCHANGED handler[n]

(* A reprocessing does not fail before its call or after its answer, and   *)
(* the errors the rules may retry come with a built request.               *)
Sure(n) ==
  /\ published'[n] = published[n] \/ Publishes(n)
  /\ \A j \in Jobs :
       /\ rep[j][n].pc = "saving" => rep'[j][n] \in {rep[j][n], Idle}
       /\ rep[j][n].pc = "marking" =>
            rep'[j][n].pc \in {"marking", "marked", "idle"}
  /\ handler'[n] # handler[n] /\ handler'[n].pc = "failing" =>
       handler'[n].built \/ handler'[n].err = InternalError
  /\ handler[n].pc = "failing" /\ handler'[n].pc # "failing" =>
       \A w \in Pending(n)' \ Pending(n) :
          w.doc.due => handler[n].err # InternalError
-----------------------------------------------------------------------------
LEMMA FirstAttemptNotRetried ==
  ASSUME NEW rule \in Rules, NEW business, NEW t
  PROVE  ~RetryAfterCreate(InternalError, business, rule, t)
<1>1. "none" \notin rule.failCodes
  BY EngineAssumption DEF IsRule
<1>2. "none" \notin TimeoutCodes
  BY InternalErrorAssumption
<1>3. QED
  BY <1>1, <1>2 DEF RetryAfterCreate, AllowedToRetry, InternalError, Error

LEMMA PublishCounts ==
  ASSUME TypeOK, NEW m \in Msgs, Publish(m)
  PROVE  /\ published'[m] \in {published[m], published[m] + 1}
         /\ \A n \in Msgs \ {m} : published'[n] = published[n]
<1>1. PICK sent \in SentResults(m) :
        published' = [published EXCEPT
            ![m] = IF @ + sent <= PublishBound THEN @ + sent ELSE @]
  BY DEF Publish
<1>2. sent \in {0, 1}
  BY <1>1 DEF SentResults
<1>3. published \in [Msgs -> 0 .. PublishBound] /\ published[m] \in Nat
  BY EngineAssumption DEF TypeOK
<1>4. QED
  BY <1>1, <1>2, <1>3

(* The steps that publish nothing and touch neither reprocessings nor      *)
(* handlers, or only let them go.                                          *)
LEMMA SureQuiet ==
  ASSUME NEW n \in Msgs, published'[n] = published[n],
         handler'[n] \in {handler[n], Done},
         \A j \in Jobs : rep'[j][n] \in {rep[j][n], Idle},
         Pending(n)' \subseteq Pending(n)
  PROVE  Sure(n)
BY DEF Sure, Done, Idle

LEMMA SureCreate ==
  ASSUME SureDeployment, TypeOK, NEW m \in Msgs, Receive(m) \/ Handle(m),
         NEW n \in Msgs
  PROVE  Sure(n)
<1> USE DEF TypeOK, dbVars, outcomeVars, RepsSame, StoreSame
<1>1. UNCHANGED rep
  BY DEF Receive, ReceiveMalformed, ReceiveUnbuildable, ReceiveTbkMall,
         ReceiveAndSend, Received, Handle, TokenReturned, TokenFails,
         FirstAnswerAccepted, FirstAnswerRefused, FirstCallFails,
         ScheduleRetry, GiveUp, RuleLookupFails
<1>2. ASSUME NEW home, NEW doc, WriteBoth(m, home, doc)
      PROVE  \A w \in Pending(n)' \ Pending(n) :
               n = m /\ w = [msg |-> m, home |-> home, doc |-> doc]
  BY <1>2 DEF WriteBoth, Pending
<1>3. CASE n # m
  <2>1. handler'[n] = handler[n]
    BY <1>3 DEF Receive, ReceiveMalformed, ReceiveUnbuildable, ReceiveTbkMall,
         ReceiveAndSend, Handle, TokenReturned, TokenFails,
         FirstAnswerAccepted, FirstAnswerRefused, FirstCallFails,
         ScheduleRetry, GiveUp, RuleLookupFails, HandlerAt, HandlerDone
  <2>2. published'[n] = published[n]
    <3>1. CASE GiveUp(m)
      BY <1>3, <3>1, PublishCounts DEF GiveUp
    <3>2. CASE ~GiveUp(m)
      BY <3>2 DEF Receive, ReceiveMalformed, ReceiveUnbuildable,
         ReceiveTbkMall, ReceiveAndSend, Received, Handle, TokenReturned,
         TokenFails, FirstAnswerAccepted, FirstAnswerRefused, FirstCallFails,
         ScheduleRetry, RuleLookupFails
    <3>3. QED
      BY <3>1, <3>2
  <2>3. StoreSame(n)
    <3>1. ASSUME NEW home, NEW doc, WriteBoth(m, home, doc) PROVE StoreSame(n)
      BY <1>3, <3>1 DEF WriteBoth, Pending
    <3>2. CASE FirstAnswerAccepted(m) \/ ScheduleRetry(m) \/ GiveUp(m)
      BY <3>1, <3>2 DEF FirstAnswerAccepted, ScheduleRetry, GiveUp
    <3>3. CASE ~(FirstAnswerAccepted(m) \/ ScheduleRetry(m) \/ GiveUp(m))
      BY <3>3 DEF Receive, ReceiveMalformed, ReceiveUnbuildable,
         ReceiveTbkMall, ReceiveAndSend, Received, Handle, TokenReturned,
         TokenFails, FirstAnswerRefused, FirstCallFails, RuleLookupFails,
         Pending
    <3>4. QED
      BY <3>2, <3>3
  <2>4. QED
    BY <1>1, <2>1, <2>2, <2>3, SureQuiet
<1>4. CASE n = m
  <2>1. CASE Receive(m) \/ TokenReturned(m) \/ FirstAnswerRefused(m)
               \/ FirstCallFails(m) \/ RuleLookupFails(m)
    <3>1. published'[m] = published[m] /\ Pending(m)' = Pending(m)
      BY <2>1 DEF Receive, ReceiveMalformed, ReceiveUnbuildable,
         ReceiveTbkMall, ReceiveAndSend, Received, TokenReturned,
         FirstAnswerRefused, FirstCallFails, RuleLookupFails, Pending
    <3>2. handler'[m].pc = "failing" =>
             handler'[m].built \/ handler'[m].err = InternalError
      BY <2>1 DEF Receive, ReceiveMalformed, ReceiveUnbuildable,
         ReceiveTbkMall, ReceiveAndSend, TokenReturned, FirstAnswerRefused,
         FirstCallFails, RuleLookupFails, HandlerAt, HandlerDone, Done
    <3>3. QED
      BY <1>1, <1>4, <3>1, <3>2 DEF Sure
  <2>2. CASE TokenFails(m)
    BY <2>2 DEF TokenFails, SureDeployment
  <2>3. CASE FirstAnswerAccepted(m)
    <3>1. /\ handler[m].pc = "calling" /\ handler'[m] = Done
          /\ published'[m] = published[m]
      BY <2>3 DEF FirstAnswerAccepted, HandlerDone
    <3>2. QED
      BY <1>1, <1>4, <3>1 DEF Sure, Done
  <2>4. CASE ScheduleRetry(m)
    <3>1. handler'[m] = Done /\ published'[m] = published[m]
      BY <2>4 DEF ScheduleRetry, HandlerDone
    <3>2. handler[m].err # InternalError
      BY <2>4, FirstAttemptNotRetried DEF ScheduleRetry
    <3>3. QED
      BY <1>1, <1>4, <3>1, <3>2 DEF Sure, Done
  <2>5. CASE GiveUp(m)
    <3>1. /\ handler[m].pc = "failing" /\ handler'[m] = Done
          /\ UNCHANGED accepted[m]
      BY <2>5 DEF GiveUp, HandlerDone
    <3>2. published'[m] \in {published[m], published[m] + 1}
      BY <2>5, PublishCounts DEF GiveUp
    <3> DEFINE doc == FirstDoc(m, FALSE, 0)
               w == [msg |-> m, home |-> Home[m], doc |-> doc]
    <3>3. doc \in Doc /\ ~doc.due
      BY DEF FirstDoc, Doc, Handler
    <3>4. WriteBoth(m, Home[m], doc)
      BY <2>5 DEF GiveUp
    <3>5. w \in Write /\ w.msg = m /\ w.doc = doc
      <4> HIDE DEF doc
      <4>1. QED
        BY <3>3, EngineAssumption DEF Write
    <3>6. writes' = writes \union {w} /\ UNCHANGED log
      BY <3>4 DEF WriteBoth
    <3> HIDE DEF w, doc
    <3>7. Pending(m)' = Pending(m) \union {w}
      BY <3>5, <3>6 DEF Pending
    <3>8. Publishes(m)
      BY <1>1, <3>1, <3>2, <3>3, <3>5, <3>6, <3>7 DEF Publishes, Issued
    <3>9. QED
      BY <1>1, <1>4, <3>1, <3>3, <3>5, <3>7, <3>8 DEF Sure, Done
  <2>6. QED
    BY <2>1, <2>2, <2>3, <2>4, <2>5 DEF Handle
<1>5. QED
  BY <1>3, <1>4

LEMMA SureReprocess ==
  ASSUME SureDeployment, TypeOK, NEW j \in Jobs, NEW m \in Msgs,
         Reprocess(j, m), NEW n \in Msgs
  PROVE  Sure(n)
<1> USE DEF dbVars, outcomeVars
<1>1. UNCHANGED handler
  BY ReprocessOthers
<1>2. CASE n # m
  <2>1. published'[n] = published[n]
    <3>1. CASE CancelPublished(j, m)
      BY <1>2, <3>1, PublishCounts DEF CancelPublished
    <3>2. CASE ~CancelPublished(j, m)
      BY <3>2 DEF Reprocess, RecordMarked, MarkFails, SendAgain,
         AnswerAccepted, AnswerRefused, CallFails, AnswerSaved, SaveFails,
         Reschedule, Cancel, RetryRuleLookupFails, CancelSaved, CancelFails
    <3>3. QED
      BY <3>1, <3>2
  <2>2. StoreSame(n) /\ \A k \in Jobs : rep'[k][n] = rep[k][n]
    BY <1>2, ReprocessOthers
  <2>3. QED
    BY <1>1, <2>1, <2>2, SureQuiet DEF StoreSame
<1>3. CASE n = m
  <2>1. OtherReps(j, m)
    BY ReprocessOthers DEF OtherReps
  <2>2. CASE CancelPublished(j, m)
    <3>1. /\ rep[j][m].pc = "publishing" /\ Rejected(j, m)
          /\ UNCHANGED <<log, writes, accepted>>
      BY <2>2 DEF CancelPublished
    <3>2. rep'[j][m] = Idle \/ job[j] # "running"
      BY <3>1, RepMoves DEF Rejected
    <3>3. published'[m] \in {published[m], published[m] + 1}
      BY <2>2, PublishCounts DEF CancelPublished
    <3>4. Publishes(m)
      BY <1>1, <2>1, <3>1, <3>2, <3>3 DEF Publishes, StoreSame, Pending
    <3>5. QED
      BY <1>1, <1>3, <2>1, <3>1, <3>4 DEF Sure, OtherReps
  <2>3. CASE ~CancelPublished(j, m)
    <3>1. published'[m] = published[m]
      BY <2>3 DEF Reprocess, RecordMarked, MarkFails, SendAgain,
         AnswerAccepted, AnswerRefused, CallFails, AnswerSaved, SaveFails,
         Reschedule, Cancel, RetryRuleLookupFails, CancelSaved, CancelFails
    <3>2. ~MarkFails(j, m) /\ ~SaveFails(j, m) /\ ~CancelFails(j, m)
      BY DEF MarkFails, SaveFails, CancelFails, SureDeployment
    <3>3. rep[j][m].pc = "saving" => rep'[j][m] = Idle
      BY <2>3, <3>2, RepMoves DEF Reprocess, RecordMarked, SendAgain,
         AnswerAccepted, AnswerRefused, CallFails, AnswerSaved, Reschedule,
         Cancel, RetryRuleLookupFails, CancelSaved
    <3>4. rep[j][m].pc = "marking" => rep'[j][m].pc = "marked"
      BY <2>3, <3>2, RepMoves DEF Reprocess, RecordMarked, SendAgain,
         AnswerAccepted, AnswerRefused, CallFails, AnswerSaved, Reschedule,
         Cancel, RetryRuleLookupFails, CancelSaved
    <3>5. QED
      BY <1>1, <1>3, <2>1, <3>1, <3>3, <3>4 DEF Sure, OtherReps
  <2>4. QED
    BY <2>2, <2>3
<1>4. QED
  BY <1>2, <1>3

LEMMA SureStep ==
  ASSUME SureDeployment, TypeOK, BatchOwnsWork, [Next]_vars, NEW n \in Msgs
  PROVE  Sure(n)
<1> USE DEF dbVars, outcomeVars
<1>1. ASSUME NEW i \in Instances, Die(i) PROVE Sure(n)
  <2>1. UNCHANGED published /\ handler'[n] \in {handler[n], Done}
    BY <1>1 DEF Die
  <2>2. \A j \in Jobs : rep'[j][n] \in {rep[j][n], Idle}
    BY <1>1 DEF Die
  <2>3. Pending(n)' \subseteq Pending(n)
    BY <1>1 DEF Die, Pending
  <2>4. QED
    BY <2>1, <2>2, <2>3, SureQuiet
<1>2. ASSUME UNCHANGED <<handler, rep, published>>, writes' \subseteq writes
      PROVE  Sure(n)
  BY <1>2, SureQuiet DEF Pending
<1>3. ASSUME \/ \E w \in writes : RequestStored(w)
             \/ \E r \in replies : ResponseStored(r)
             \/ WriteLost \/ FlagExpires \/ Advance \/ UNCHANGED vars
      PROVE  Sure(n)
  BY <1>2, <1>3 DEF RequestStored, ResponseStored, WriteLost, FlagExpires,
                    Advance, vars
<1>4. ASSUME NEW j \in Jobs, Tick(j) \/ JobStep(j) PROVE Sure(n)
  <2>1. CASE BatchStarted(j) \/ BatchAborted(j)
    <3>1. UNCHANGED <<handler, published, writes>>
      BY <2>1 DEF BatchStarted, BatchAborted
    <3>2. PICK S \in SUBSET Fetchable(j) : StartAll(j, S)
      BY <2>1 DEF BatchStarted, BatchAborted, Batches
    <3>3. ~Active(j, n)
      BY <2>1 DEF BatchStarted, BatchAborted, Gate!BatchStarted,
                  Gate!BatchAborted, BatchOwnsWork
    <3>4. \A k \in Jobs \ {j} : rep'[k][n] = rep[k][n]
      BY <3>2 DEF StartAll
    <3>5. QED
      BY <3>1, <3>3, <3>4 DEF Sure, Pending, Active
  <2>2. CASE ~(BatchStarted(j) \/ BatchAborted(j))
    BY <1>2, <1>4, <2>2 DEF Tick, JobStep, CloseGate, FlagStep, FlagFault,
                            BatchEmpty, FetchFails, BatchSettled
  <2>3. QED
    BY <2>1, <2>2
<1>5. QED
  BY <1>1, <1>3, <1>4, SureCreate, SureReprocess
     DEF Next, Crash, UnhandledRejection
-----------------------------------------------------------------------------
(* A transaction with a verdict is out of the engine's hands: no record,   *)
(* write or reprocessing of it can lead to a call or a publication.        *)
HandlerOpen(n) ==
  /\ handler[n].pc # "done" => published[n] = 0
  /\ handler[n].pc = "failing" /\ handler[n].err # InternalError
       => handler[n].built

DueOpen(n) ==
  /\ log[n].due => log[n].built /\ published[n] = 0
  /\ \A w \in Pending(n) : w.doc.due => w.doc.built /\ published[n] = 0

ReprocessingOpen(j, n) ==
  Active(j, n) =>
    /\ published[n] = 0 /\ log[n].built
    /\ rep[j][n].pc # "saving" => accepted[n] = {}
    /\ rep[j][n].pc # "marking" => ~log[n].due

VerdictFor(n) ==
  /\ published[n] <= 1
  /\ accepted[n] # {} => published[n] = 0
  /\ HandlerOpen(n) /\ DueOpen(n)
  /\ \A j \in Jobs : ReprocessingOpen(j, n)

VerdictInv == \A n \in Msgs : VerdictFor(n)

(* A step that publishes the verdict.                                      *)
LEMMA PublishStep ==
  ASSUME TypeOK, BatchOwnsWork, OneReprocessing, NEW n \in Msgs,
         Untouched(n), CallsCountedFor(n), VerdictFor(n), Publishes(n)
  PROVE  VerdictFor(n)'
<1> USE DEF VerdictFor, HandlerOpen, DueOpen, ReprocessingOpen
<1>1. published[n] \in Nat
  BY EngineAssumption DEF TypeOK
<1>2. CASE handler[n].pc = "failing" /\ handler'[n] = Done
  <2>1. /\ published[n] = 0 /\ accepted[n] = {} /\ Pending(n) = {}
        /\ ~log[n].due /\ \A j \in Jobs : ~Active(j, n)
    BY <1>2 DEF Untouched
  <2>2. PICK w \in Write : Issued(n, w) /\ ~w.doc.due
    BY <1>2 DEF Publishes, Done
  <2>3. UNCHANGED log[n] /\ Pending(n)' = {w}
    BY <2>1, <2>2 DEF Issued
  <2>4. RepsSame(n)
    BY <1>2 DEF Publishes, Done
  <2>5. \A j \in Jobs : ~Active(j, n)'
    BY <2>1, <2>4 DEF RepsSame, Active
  <2>6. published'[n] <= 1 /\ accepted'[n] = {}
    BY <1>1, <2>1 DEF Publishes
  <2>7. QED
    BY <1>2, <2>1, <2>2, <2>3, <2>5, <2>6 DEF Done
<1>3. ASSUME NEW j \in Jobs, rep[j][n].pc = "publishing",
             rep'[j][n] = Idle \/ job[j] # "running",
             OtherReps(j, n), StoreSame(n), UNCHANGED handler[n]
      PROVE  VerdictFor(n)'
  <2>1. Active(j, n) /\ rep'[j][n] = Idle
    BY <1>3 DEF Active, BatchOwnsWork
  <2>2. \A k \in Jobs : ~Active(k, n)'
    BY <1>3, <2>1 DEF OneReprocessing, OtherReps, Active, Idle
  <2>3. /\ published[n] = 0 /\ accepted[n] = {} /\ ~log[n].due
        /\ Pending(n) = {} /\ handler[n].pc = "done"
    BY <1>3, <2>1 DEF CallsCountedFor, LastWord, Untouched
  <2>4. published'[n] <= 1 /\ accepted'[n] = {}
    BY <1>1, <2>3 DEF Publishes
  <2>5. QED
    BY <1>3, <2>2, <2>3, <2>4 DEF StoreSame
<1>4. QED
  BY <1>2, <1>3 DEF Publishes

LEMMA VerdictStep ==
  ASSUME TypeOK, BatchOwnsWork, OneReprocessing, NEW n \in Msgs,
         Untouched(n), CallsCountedFor(n), VerdictFor(n),
         MessageNext(n), Sure(n)
  PROVE  VerdictFor(n)'
<1> USE DEF VerdictFor, HandlerOpen, DueOpen, ReprocessingOpen
<1>1. CASE Publishes(n)
  BY <1>1, PublishStep
<1> SUFFICES ASSUME published'[n] = published[n]
             PROVE  VerdictFor(n)'
  BY <1>1 DEF Sure
<1>2. HandlerOpen(n)'
  <2>1. handler'[n].pc # "done" => published[n] = 0
    BY DEF MessageNext, Ebbs, FirstMoves, FirstSent, FirstAccepted, FirstFailed,
        FirstEnds, Stored, Taken, Marked, SentAgain, Accepted, Refused,
        Rescheduled, Done
  <2>2. QED
    BY <2>1 DEF Sure
<1>3. CASE Ebbs(n)
  <2>1. accepted'[n] = accepted[n] /\ DueOpen(n)'
    BY <1>3 DEF Ebbs
  <2>2. ASSUME NEW j \in Jobs PROVE ReprocessingOpen(j, n)'
    BY <1>3 DEF Ebbs, RepEbbs, Sure, Active, Idle
  <2>3. QED
    BY <1>2, <2>1, <2>2
<1>4. CASE FirstMoves(n) \/ FirstSent(n)
  BY <1>2, <1>4 DEF FirstMoves, FirstSent, StoreSame, RepsSame, Active
<1>5. CASE FirstAccepted(n)
  <2>1. handler[n].pc # "done"
    BY <1>5 DEF FirstAccepted, FirstEnds
  <2>2. published[n] = 0 /\ Pending(n) = {} /\ \A j \in Jobs : ~Active(j, n)
    BY <2>1 DEF Untouched
  <2>3. PICK w \in Write : FirstEnds(n, w) /\ ~w.doc.due
    BY <1>5 DEF FirstAccepted
  <2>4. DueOpen(n)'
    BY <2>2, <2>3 DEF FirstEnds, Issued
  <2>5. \A j \in Jobs : ~Active(j, n)'
    BY <2>2, <2>3 DEF FirstEnds, RepsSame, Active
  <2>6. QED
    BY <1>2, <2>2, <2>4, <2>5
<1>6. CASE FirstFailed(n)
  <2>1. PICK w \in Write :
          /\ FirstEnds(n, w)
          /\ handler[n].pc = "failing" /\ UNCHANGED accepted[n]
    BY <1>6 DEF FirstFailed
  <2>2. /\ published[n] = 0 /\ Pending(n) = {} /\ accepted[n] = {}
        /\ \A j \in Jobs : ~Active(j, n)
    BY <2>1 DEF FirstEnds, Untouched
  <2>3. w.doc.due => w.doc.built
    <3>1. w \in Pending(n)' \ Pending(n) /\ handler'[n].pc = "done"
      BY <2>1, <2>2 DEF FirstEnds, Issued, Done
    <3>2. w.doc.due => handler[n].err # InternalError
      BY <2>1, <3>1 DEF Sure
    <3>3. QED
      BY <2>1, <3>2 DEF FirstEnds
  <2>4. DueOpen(n)'
    BY <2>1, <2>2, <2>3 DEF FirstEnds, Issued
  <2>5. \A j \in Jobs : ~Active(j, n)'
    BY <2>1, <2>2 DEF FirstEnds, RepsSame, Active
  <2>6. QED
    BY <1>2, <2>1, <2>2, <2>4, <2>5
<1>7. CASE Stored(n)
  <2>1. PICK w \in Pending(n) :
          log'[n] = w.doc /\ Pending(n)' = Pending(n) \ {w}
    BY <1>7 DEF Stored
  <2>2. \A j \in Jobs : ~Active(j, n) /\ ~Active(j, n)'
    BY <1>7, <2>1 DEF Stored, RepsSame, Active, CallsCountedFor, LastWord
  <2>3. QED
    BY <1>2, <1>7, <2>1, <2>2 DEF Stored
<1>8. ASSUME NEW j \in Jobs, Taken(j, n) PROVE VerdictFor(n)'
  <2>1. log[n].due /\ log[n].built /\ published[n] = 0 /\ accepted[n] = {}
    BY <1>8 DEF Taken, CallsCountedFor, DueCounted
  <2>2. rep'[j][n].pc = "marking"
    BY <1>8, <2>1 DEF Taken, StartOf
  <2>3. UNCHANGED <<log[n], accepted[n]>> /\ Pending(n)' = Pending(n)
    BY <1>8 DEF Taken, StoreSame
  <2>4. \A k \in Jobs \ {j} : ReprocessingOpen(k, n)'
    BY <1>8, <2>3 DEF Taken, OtherReps, Active
  <2>5. QED
    BY <1>2, <2>1, <2>2, <2>3, <2>4
<1>9. ASSUME NEW j \in Jobs,
             \/ Marked(j, n) \/ SentAgain(j, n) \/ Accepted(j, n)
             \/ Refused(j, n) \/ Rescheduled(j, n)
      PROVE  VerdictFor(n)'
  <2>1. Active(j, n)
    BY <1>9 DEF Marked, SentAgain, Accepted, Refused, Rescheduled, Active
  <2>2. /\ published[n] = 0 /\ log[n].built /\ Pending(n) = {}
    BY <2>1 DEF CallsCountedFor, LastWord
  <2>3. \A k \in Jobs \ {j} : ~Active(k, n)'
    BY <1>9, <2>1 DEF OneReprocessing, Marked, SentAgain, Accepted, Refused,
                      Rescheduled, OtherReps, Active
  <2>4. CASE Marked(j, n)
    BY <1>2, <2>1, <2>2, <2>3, <2>4 DEF Marked
  <2>5. CASE SentAgain(j, n) \/ Accepted(j, n) \/ Refused(j, n)
    BY <1>2, <2>1, <2>2, <2>3, <2>5
       DEF SentAgain, Accepted, Refused, StoreSame
  <2>6. CASE Rescheduled(j, n)
    <3>1. ~Active(j, n)'
      BY <2>1, <2>6 DEF Rescheduled, BatchOwnsWork, Active, Idle
    <3>2. PICK w \in Write : Issued(n, w) /\ w.doc.built = log[n].built
      BY <2>6 DEF Rescheduled
    <3>3. Pending(n)' = {w} /\ UNCHANGED log[n]
      BY <2>2, <3>2 DEF Issued
    <3>4. QED
      BY <1>2, <2>2, <2>3, <2>6, <3>1, <3>2, <3>3 DEF Rescheduled
  <2>7. QED
    BY <1>9, <2>4, <2>5, <2>6
<1>10. QED
  BY <1>3, <1>4, <1>5, <1>6, <1>7, <1>8, <1>9 DEF MessageNext

LEMMA VerdictInvInvariant ==
  ASSUME SureDeployment
  PROVE  Spec => [](TypeOK /\ BatchInv /\ CallsInv /\ VerdictInv)
<1>1. SoundDeployment
  BY DEF SureDeployment
<1>2. Spec => [](TypeOK /\ BatchInv /\ CallsInv)
  BY <1>1, CallsInvInvariant
<1>3. Init => VerdictInv
  BY DEF Init, VerdictInv, VerdictFor, HandlerOpen, DueOpen, ReprocessingOpen,
         Pending, NoDoc, Idle, Active
<1>4. TypeOK /\ BatchInv /\ CallsInv /\ VerdictInv /\ [Next]_vars => VerdictInv'
  BY BatchInvExcludes, MessageStep, SureStep, VerdictStep
     DEF BatchInv, CallsInv, VerdictInv
<1>5. QED
  BY <1>2, <1>3, <1>4, PTL DEF Spec

(* In the deployment the flag is written for, with a database and a token  *)
(* service that answer, every transaction has one verdict at most: it is   *)
(* published as cancelled once, and never once it was accepted, whatever   *)
(* the acquirer answers, publications fail, and the process dies.          *)
THEOREM VerdictOnce ==
  ASSUME SureDeployment
  PROVE  Spec => []OneVerdict
<1>1. VerdictInv => OneVerdict
  BY DEF VerdictInv, VerdictFor, OneVerdict
<1>2. QED
  BY <1>1, VerdictInvInvariant, PTL
=============================================================================
