------------------------ MODULE EngineOutcome_proofs ------------------------
(***************************************************************************)
(* The engine implements TransactionOutcome: every step starts, sends,     *)
(* accepts or cancels one transaction, or is a stutter.  Attempts stay     *)
(* below the bound of the rules, none is made once there is a verdict, and *)
(* a verdict is final.                                                     *)
(***************************************************************************)
EXTENDS EngineVerdict_proofs

(* What a step may do to the outcome of m and to the count of its calls.   *)
OutcomeMoves(m) ==
  \/ OutcomeOf(m)' = OutcomeOf(m) /\ calls'[m] = calls[m]
  \/ /\ OutcomeOf(m) = "waiting" /\ OutcomeOf(m)' = "open"
     /\ calls'[m] \in {0, 1}
  \/ /\ OutcomeOf(m) = "open" /\ OutcomeOf(m)' = "open"
     /\ calls[m] < MaxAttempts /\ calls'[m] = calls[m] + 1
  \/ /\ OutcomeOf(m) = "open" /\ OutcomeOf(m)' = "accepted"
     /\ calls[m] > 0 /\ calls'[m] = calls[m]
  \/ /\ OutcomeOf(m) = "open" /\ OutcomeOf(m)' = "cancelled"
     /\ calls'[m] = calls[m]

OutcomeSame(m) == OutcomeOf(m)' = OutcomeOf(m) /\ calls'[m] = calls[m]

(* What the refinement mapping says of one transaction.                    *)
LEMMA OutcomeValues ==
  ASSUME TypeOK, NEW m \in Msgs
  PROVE  /\ accepted[m] # {} => OutcomeOf(m) = "accepted"
         /\ accepted[m] = {} /\ published[m] # 0 => OutcomeOf(m) = "cancelled"
         /\ accepted[m] = {} /\ published[m] = 0 /\ handler[m].pc = "queued"
              => OutcomeOf(m) = "waiting"
         /\ accepted[m] = {} /\ published[m] = 0 /\ handler[m].pc # "queued"
              => OutcomeOf(m) = "open"
<1>1. published[m] \in Nat
  BY EngineAssumption DEF TypeOK
<1>2. QED
  BY <1>1 DEF OutcomeOf, Settled

LEMMA OutcomeValuesNext ==
  ASSUME TypeOK', NEW m \in Msgs
  PROVE  /\ accepted'[m] # {} => OutcomeOf(m)' = "accepted"
         /\ accepted'[m] = {} /\ published'[m] # 0 => OutcomeOf(m)' = "cancelled"
         /\ accepted'[m] = {} /\ published'[m] = 0 /\ handler'[m].pc = "queued"
              => OutcomeOf(m)' = "waiting"
         /\ accepted'[m] = {} /\ published'[m] = 0 /\ handler'[m].pc # "queued"
              => OutcomeOf(m)' = "open"
<1>1. published'[m] \in Nat
  BY EngineAssumption DEF TypeOK
<1>2. QED
  BY <1>1 DEF OutcomeOf, Settled

LEMMA SameOutcome ==
  ASSUME NEW m \in Msgs,
         UNCHANGED <<calls[m], accepted[m], published[m]>>,
         handler'[m].pc = "queued" <=> handler[m].pc = "queued"
  PROVE  OutcomeSame(m)
BY DEF OutcomeSame, OutcomeOf, Settled

(* A step that moves the outcome of one transaction is a step of the       *)
(* abstract specification.                                                 *)
LEMMA OneOutcomeMoves ==
  ASSUME TypeOK, TypeOK', NEW m \in Msgs, OutcomeMoves(m),
         \A n \in Msgs \ {m} : OutcomeSame(n)
  PROVE  [Outcome!Next]_(Outcome!vars)
<1> DEFINE out == [n \in Msgs |-> OutcomeOf(n)]
<1>1. calls \in [Msgs -> Nat] /\ calls' \in [Msgs -> Nat]
  BY DEF TypeOK
<1>2. \A n \in Msgs \ {m} : calls'[n] = calls[n]
  BY DEF OutcomeSame
<1>3. calls' = [calls EXCEPT ![m] = calls'[m]]
  BY <1>1, <1>2
<1>4. out' = [out EXCEPT ![m] = OutcomeOf(m)'] /\ out[m] = OutcomeOf(m)
  BY DEF OutcomeSame
<1>5. out \in [Msgs -> {OutcomeOf(n) : n \in Msgs}]
  OBVIOUS
<1>6. CASE OutcomeOf(m)' = OutcomeOf(m) /\ calls'[m] = calls[m]
  <2>1. out' = out /\ calls' = calls
    <3> HIDE DEF out
    <3>1. QED
      BY <1>1, <1>3, <1>4, <1>5, <1>6
  <2>2. QED
    BY <2>1 DEF Outcome!vars
<1>7. CASE /\ OutcomeOf(m) = "waiting" /\ OutcomeOf(m)' = "open"
           /\ calls'[m] \in {0, 1}
  <2>1. Outcome!Start(m)
    BY <1>3, <1>4, <1>7 DEF Outcome!Start, Outcome!Becomes
  <2>2. QED
    BY <2>1 DEF Outcome!Next
<1>8. CASE /\ OutcomeOf(m) = "open" /\ OutcomeOf(m)' = "open"
           /\ calls[m] < MaxAttempts /\ calls'[m] = calls[m] + 1
  <2>1. out' = out
    <3> HIDE DEF out
    <3>1. QED
      BY <1>4, <1>5, <1>8
  <2>2. Outcome!Send(m)
    BY <1>3, <1>4, <1>8, <2>1 DEF Outcome!Send
  <2>3. QED
    BY <2>2 DEF Outcome!Next
<1>9. CASE /\ OutcomeOf(m) = "open" /\ OutcomeOf(m)' = "accepted"
           /\ calls[m] > 0 /\ calls'[m] = calls[m]
  <2>1. calls' = calls
    BY <1>1, <1>3, <1>9
  <2>2. Outcome!Succeed(m)
    BY <1>4, <1>9, <2>1 DEF Outcome!Succeed, Outcome!Becomes
  <2>3. QED
    BY <2>2 DEF Outcome!Next
<1>10. CASE /\ OutcomeOf(m) = "open" /\ OutcomeOf(m)' = "cancelled"
            /\ calls'[m] = calls[m]
  <2>1. calls' = calls
    BY <1>1, <1>3, <1>10
  <2>2. Outcome!Cancel(m)
    BY <1>4, <1>10, <2>1 DEF Outcome!Cancel, Outcome!Becomes
  <2>3. QED
    BY <2>2 DEF Outcome!Next
<1>11. QED
  BY <1>6, <1>7, <1>8, <1>9, <1>10 DEF OutcomeMoves

LEMMA NoOutcomeMoves ==
  ASSUME TypeOK, TypeOK', \A n \in Msgs : OutcomeSame(n)
  PROVE  [Outcome!Next]_(Outcome!vars)
<1>1. calls' = calls
  BY DEF TypeOK, OutcomeSame
<1>2. [n \in Msgs |-> OutcomeOf(n)]' = [n \in Msgs |-> OutcomeOf(n)]
  BY DEF OutcomeSame
<1>3. QED
  BY <1>1, <1>2 DEF Outcome!vars
-----------------------------------------------------------------------------
(* The step of the engine, seen from the transaction it is about.          *)

OutcomeInv ==
  /\ BatchInv /\ CallsInv /\ VerdictInv
  /\ FirstCallInv /\ CallsBounded

LEMMA PublishMoves ==
  ASSUME TypeOK, TypeOK', OutcomeInv, NEW n \in Msgs, MessageNext(n),
         Publishes(n)
  PROVE  OutcomeMoves(n)
<1>1. /\ Untouched(n) /\ CallsCountedFor(n) /\ VerdictFor(n)
      /\ BatchOwnsWork /\ OneReprocessing
  BY BatchInvExcludes DEF OutcomeInv, CallsInv, VerdictInv, BatchInv
<1>2. published[n] = 0 /\ accepted[n] = {} /\ handler[n].pc # "queued"
  <2>1. CASE handler[n].pc = "failing"
    BY <1>1, <2>1 DEF Untouched, VerdictFor, HandlerOpen
  <2>2. ASSUME NEW j \in Jobs, rep[j][n].pc = "publishing"
        PROVE  published[n] = 0 /\ accepted[n] = {} /\ handler[n].pc = "done"
    BY <1>1, <2>2 DEF Untouched, VerdictFor, ReprocessingOpen, Active
  <2>3. QED
    BY <2>1, <2>2 DEF Publishes
<1>3. handler'[n].pc # "queued" /\ accepted'[n] = {}
  BY <1>2 DEF Publishes, Done
<1>4. calls'[n] = calls[n]
  <2>1. ~FirstSent(n)
    BY DEF Publishes, FirstSent, Done
  <2>2. ASSUME NEW k \in Jobs, SentAgain(k, n) PROVE FALSE
    <3>1. Active(k, n) /\ handler[n].pc = "done"
      BY <1>1, <2>2 DEF SentAgain, Active, Untouched
    <3>2. PICK j \in Jobs : rep[j][n].pc = "publishing"
      BY <3>1 DEF Publishes
    <3>3. j = k
      BY <1>1, <3>1, <3>2 DEF OneReprocessing, Active
    <3>4. QED
      BY <2>2, <3>2, <3>3 DEF SentAgain
  <2>3. QED
    BY <2>1, <2>2 DEF MessageNext, Ebbs, FirstMoves, FirstAccepted,
         FirstFailed, FirstEnds, Stored, Taken, Marked, Accepted, Refused,
         Rescheduled
<1>5. QED
  BY <1>2, <1>3, <1>4, OutcomeValues, OutcomeValuesNext DEF OutcomeMoves

LEMMA OneMoves ==
  ASSUME RulesHaveBound, TypeOK, TypeOK', OutcomeInv, CallsBounded',
         NEW n \in Msgs, MessageNext(n), Sure(n)
  PROVE  OutcomeMoves(n)
<1>1. /\ Untouched(n) /\ CallsCountedFor(n) /\ VerdictFor(n)
      /\ CallsBehind(n)
  BY DEF OutcomeInv, CallsInv, VerdictInv, FirstCallInv
<1>2. CASE Publishes(n)
  BY <1>2, PublishMoves
<1> SUFFICES ASSUME published'[n] = published[n]
             PROVE  OutcomeMoves(n)
  BY <1>2 DEF Sure
<1>3. calls[n] \in Nat /\ MaxAttempts \in Nat /\ 2 <= MaxAttempts
  BY MaxAttemptsBounds DEF TypeOK
<1>4. handler[n].pc # "done" => accepted[n] = {} /\ published[n] = 0
  BY <1>1 DEF Untouched, VerdictFor, HandlerOpen
<1>5. ASSUME UNCHANGED <<calls[n], accepted[n]>>,
             handler'[n].pc = "queued" <=> handler[n].pc = "queued"
      PROVE  OutcomeMoves(n)
  BY <1>5, SameOutcome DEF OutcomeMoves, OutcomeSame
<1>6. ASSUME handler[n].pc = "queued", handler'[n].pc # "queued",
             UNCHANGED accepted[n], calls'[n] \in {0, 1}
      PROVE  OutcomeMoves(n)
  BY <1>4, <1>6, OutcomeValues, OutcomeValuesNext DEF OutcomeMoves
<1>7. CASE Ebbs(n)
  <2>1. CASE handler'[n] = handler[n] \/ handler[n].pc # "queued"
    BY <1>5, <1>7, <2>1 DEF Ebbs, Done
  <2>2. CASE handler'[n] = Done /\ handler[n].pc = "queued"
    BY <1>1, <1>6, <1>7, <2>2 DEF Ebbs, Done, Untouched
  <2>3. QED
    BY <1>7, <2>1, <2>2 DEF Ebbs
<1>8. CASE FirstMoves(n)
  BY <1>1, <1>5, <1>6, <1>8 DEF FirstMoves, Untouched
<1>9. CASE FirstSent(n)
  <2>1. calls[n] = 0 /\ calls'[n] = 1
    BY <1>1, <1>9 DEF FirstSent, Untouched
  <2>2. CASE handler[n].pc = "queued"
    BY <1>6, <1>9, <2>1, <2>2 DEF FirstSent
  <2>3. CASE handler[n].pc # "queued"
    BY <1>3, <1>4, <1>9, <2>1, <2>3, OutcomeValues, OutcomeValuesNext
       DEF FirstSent, OutcomeMoves
  <2>4. QED
    BY <2>2, <2>3
<1>10. ASSUME accepted[n] = {}, published[n] = 0, handler[n].pc # "queued",
              handler'[n].pc # "queued", calls[n] > 0, calls'[n] = calls[n]
       PROVE  OutcomeMoves(n)
  BY <1>10, OutcomeValues, OutcomeValuesNext DEF OutcomeMoves
<1>11. CASE FirstAccepted(n)
  <2>1. handler[n].pc = "calling" /\ calls[n] = 1
    BY <1>1, <1>11 DEF FirstAccepted, Untouched
  <2>2. handler'[n] = Done /\ calls'[n] = calls[n]
    BY <1>11 DEF FirstAccepted, FirstEnds
  <2>3. QED
    BY <1>4, <1>10, <2>1, <2>2 DEF Done
<1>12. CASE FirstFailed(n)
  BY <1>5, <1>12 DEF FirstFailed, FirstEnds, Done
<1>13. CASE Stored(n)
  BY <1>5, <1>13 DEF Stored
<1>14. ASSUME NEW j \in Jobs,
              Taken(j, n) \/ Marked(j, n) \/ Refused(j, n) \/ Rescheduled(j, n)
       PROVE  OutcomeMoves(n)
  BY <1>5, <1>14 DEF Taken, Marked, Refused, Rescheduled
<1>15. ASSUME NEW j \in Jobs, SentAgain(j, n) PROVE OutcomeMoves(n)
  <2>1. Active(j, n)
    BY <1>15 DEF SentAgain, Active
  <2>2. /\ accepted[n] = {} /\ published[n] = 0
        /\ handler[n].pc = "done" /\ handler'[n].pc = "done"
    BY <1>1, <1>15, <2>1 DEF SentAgain, VerdictFor, ReprocessingOpen, Untouched
  <2>3. calls'[n] <= MaxAttempts
    BY DEF CallsBounded
  <2>4. calls[n] < MaxAttempts
    BY <1>3, <1>15, <2>3 DEF SentAgain
  <2>5. QED
    BY <1>15, <2>2, <2>4, OutcomeValues, OutcomeValuesNext
       DEF SentAgain, OutcomeMoves
<1>16. ASSUME NEW j \in Jobs, Accepted(j, n) PROVE OutcomeMoves(n)
  <2>1. Active(j, n) /\ calls[n] >= 2
    BY <1>1, <1>16 DEF Accepted, Active, CallsBehind
  <2>2. /\ accepted[n] = {} /\ published[n] = 0
        /\ handler[n].pc = "done" /\ handler'[n].pc = "done"
    BY <1>1, <1>16, <2>1 DEF Accepted, VerdictFor, ReprocessingOpen, Untouched
  <2>3. QED
    BY <1>3, <1>10, <1>16, <2>1, <2>2 DEF Accepted
<1>17. QED
  BY <1>7, <1>8, <1>9, <1>11, <1>12, <1>13, <1>14, <1>15, <1>16
     DEF MessageNext
-----------------------------------------------------------------------------
(* Of the transactions a step is not about, nothing changes.               *)

LEMMA CreateOthers ==
  ASSUME TypeOK, NEW m \in Msgs, Receive(m) \/ Handle(m),
         NEW n \in Msgs \ {m}
  PROVE  OutcomeSame(n)
<1> USE DEF TypeOK, outcomeVars
<1>1. UNCHANGED <<handler[n], calls[n], accepted[n]>>
  BY DEF Receive, ReceiveMalformed, ReceiveUnbuildable, ReceiveTbkMall,
         ReceiveAndSend, Received, Handle, TokenReturned, TokenFails,
         FirstAnswerAccepted, FirstAnswerRefused, FirstCallFails,
         ScheduleRetry, GiveUp, RuleLookupFails, HandlerAt, HandlerDone,
         Send, Accept
<1>2. UNCHANGED published[n]
  <2>1. CASE GiveUp(m)
    BY <2>1, PublishCounts DEF GiveUp
  <2>2. CASE ~GiveUp(m)
    BY <2>2 DEF Receive, ReceiveMalformed, ReceiveUnbuildable, ReceiveTbkMall,
         ReceiveAndSend, Received, Handle, TokenReturned, TokenFails,
         FirstAnswerAccepted, FirstAnswerRefused, FirstCallFails,
         ScheduleRetry, RuleLookupFails
  <2>3. QED
    BY <2>1, <2>2
<1>3. QED
  BY <1>1, <1>2, SameOutcome

LEMMA ReprocessLeavesOthers ==
  ASSUME TypeOK, NEW j \in Jobs, NEW m \in Msgs, Reprocess(j, m),
         NEW n \in Msgs \ {m}
  PROVE  OutcomeSame(n)
<1> USE DEF outcomeVars
<1>1. UNCHANGED <<handler[n], calls[n], accepted[n]>>
  BY ReprocessOthers
<1>2. UNCHANGED published[n]
  <2>1. CASE CancelPublished(j, m)
    BY <2>1, PublishCounts DEF CancelPublished
  <2>2. CASE ~CancelPublished(j, m)
    BY <2>2 DEF Reprocess, RecordMarked, MarkFails, SendAgain, AnswerAccepted,
         AnswerRefused, CallFails, AnswerSaved, SaveFails, Reschedule, Cancel,
         RetryRuleLookupFails, CancelSaved, CancelFails
  <2>3. QED
    BY <2>1, <2>2
<1>3. QED
  BY <1>1, <1>2, SameOutcome

(* The database, the jobs, a crash and the clock touch no outcome.         *)
LEMMA OtherStepsSame ==
  ASSUME TypeOK, [Next]_vars,
         ~\E m \in Msgs : Receive(m) \/ Handle(m),
         ~\E j \in Jobs, m \in Msgs : Reprocess(j, m),
         NEW n \in Msgs
  PROVE  OutcomeSame(n)
<1> USE DEF outcomeVars
<1>1. UNCHANGED outcomeVars
  BY DEF Next, RequestStored, ResponseStored, WriteLost, Tick, JobStep,
         CloseGate, FlagStep, FlagFault, BatchStarted, BatchEmpty,
         BatchAborted, FetchFails, BatchSettled, FlagExpires, Crash,
         UnhandledRejection, Die, Advance, vars
<1>2. handler'[n].pc = "queued" <=> handler[n].pc = "queued"
  <2>1. ASSUME NEW i \in Instances, Die(i)
        PROVE  handler'[n].pc = "queued" <=> handler[n].pc = "queued"
    BY <2>1 DEF Die, Done
  <2>2. CASE ~\E i \in Instances : Die(i)
    BY <2>2 DEF Next, RequestStored, ResponseStored, WriteLost, Tick, JobStep,
         CloseGate, FlagStep, FlagFault, BatchStarted, BatchEmpty,
         BatchAborted, FetchFails, BatchSettled, FlagExpires, Crash,
         UnhandledRejection, Advance, vars
  <2>3. QED
    BY <2>1, <2>2
<1>3. QED
  BY <1>1, <1>2, SameOutcome

LEMMA OutcomeStep ==
  ASSUME SureDeployment, RulesHaveBound, TypeOK, TypeOK', OutcomeInv,
         CallsBounded', [Next]_vars
  PROVE  [Outcome!Next]_(Outcome!vars)
<1>1. \A n \in Msgs : OutcomeMoves(n)
  BY MessageStep, SureStep, OneMoves DEF OutcomeInv, BatchInv
<1>2. CASE \E m \in Msgs : Receive(m) \/ Handle(m)
  <2>1. PICK m \in Msgs : Receive(m) \/ Handle(m)
    BY <1>2
  <2>2. \A n \in Msgs \ {m} : OutcomeSame(n)
    BY <2>1, CreateOthers
  <2>3. QED
    BY <1>1, <2>2, OneOutcomeMoves
<1>3. CASE \E j \in Jobs, m \in Msgs : Reprocess(j, m)
  <2>1. PICK j \in Jobs, m \in Msgs : Reprocess(j, m)
    BY <1>3
  <2>2. \A n \in Msgs \ {m} : OutcomeSame(n)
    BY <2>1, ReprocessLeavesOthers
  <2>3. QED
    BY <1>1, <2>2, OneOutcomeMoves
<1>4. CASE /\ ~\E m \in Msgs : Receive(m) \/ Handle(m)
           /\ ~\E j \in Jobs, m \in Msgs : Reprocess(j, m)
  BY <1>4, OtherStepsSame, NoOutcomeMoves
<1>5. QED
  BY <1>2, <1>3, <1>4

(* In the deployment the flag is written for, with a database and a token  *)
(* service that answer, the engine implements TransactionOutcome: a        *)
(* transaction is sent only between its reception and its verdict and no   *)
(* more often than the rules allow, is accepted only after it was sent,    *)
(* and keeps its verdict for ever.  The acquirer may answer anything,      *)
(* publications may fail and the process may die.                          *)
THEOREM EngineImplementsOutcome ==
  ASSUME SureDeployment, RulesHaveBound
  PROVE  Spec => ImplementsOutcome
<1>1. SoundDeployment
  BY DEF SureDeployment
<1>2. Spec => [](TypeOK /\ OutcomeInv)
  <2>1. Spec => [](TypeOK /\ BatchInv /\ CallsInv /\ VerdictInv)
    BY VerdictInvInvariant
  <2>2. Spec => []CallsBounded
    BY <1>1, CallsNeverExceedRules
  <2>3. QED
    BY <2>1, <2>2, FirstCallInvInvariant, PTL DEF OutcomeInv
<1>3. Init => Outcome!Init
  BY DEF Init, Outcome!Init, OutcomeOf, Settled
<1>4. TypeOK /\ OutcomeInv /\ TypeOK' /\ OutcomeInv' /\ [Next]_vars
        => [Outcome!Next]_(Outcome!vars)
  BY OutcomeStep DEF OutcomeInv
<1>5. QED
  BY <1>2, <1>3, <1>4, PTL DEF Spec, ImplementsOutcome, Outcome!Spec
=============================================================================
