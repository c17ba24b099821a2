------------------------- MODULE RetryEngine_proofs -------------------------
(***************************************************************************)
(* Proofs about the retry engine, for any number of deliveries, jobs,      *)
(* processes and rules, and any kind of error.                             *)
(***************************************************************************)
EXTENDS RetryEngine, TLAPS

GateProofs == INSTANCE JobGate_proofs WITH MayCrash <- TRUE
-----------------------------------------------------------------------------
(* The delay of every rule is a natural number: a date stays a date.       *)
LEMMA DelayType ==
  ASSUME NEW rule, IsRule(rule), NEW n \in Nat
  PROVE  DelayAfter(rule, n) \in Nat
<1>1. GetTimeValueByType(rule, n) \in Nat
  BY DEF GetTimeValueByType, IsRule
<1>2. QED
  BY <1>1, TimeAssumption DEF DelayAfter, BuildSeconds

(* Every step of the engine is a step of the job flag, or none.            *)
LEMMA GateStep ==
  ASSUME Gate!TypeOK, [Next]_vars
  PROVE  [Gate!Next]_(Gate!vars)
<1> USE DEF Gate!vars, gateVars
<1>1. ASSUME NEW m \in Msgs, Receive(m) PROVE UNCHANGED gateVars
  BY <1>1 DEF Receive, ReceiveMalformed, ReceiveUnbuildable, ReceiveTbkMall,
              ReceiveAndSend, Received
<1>2. ASSUME NEW m \in Msgs, Handle(m) PROVE UNCHANGED gateVars
  BY <1>2 DEF Handle, TokenReturned, TokenFails, FirstAnswerAccepted,
              FirstAnswerRefused, FirstCallFails, ScheduleRetry, GiveUp,
              RuleLookupFails
<1>3. ASSUME NEW w \in writes, RequestStored(w) PROVE UNCHANGED gateVars
  BY <1>3 DEF RequestStored
<1>4. ASSUME NEW r \in replies, ResponseStored(r) PROVE UNCHANGED gateVars
  BY <1>4 DEF ResponseStored
<1>5. CASE WriteLost
  BY <1>5 DEF WriteLost
<1>6. ASSUME NEW j \in Jobs, Tick(j) PROVE Gate!Next
  BY <1>6 DEF Tick, Gate!Next, Gate!Quiet
<1>7. ASSUME NEW j \in Jobs, JobStep(j) PROVE Gate!Next
  BY <1>7 DEF JobStep, CloseGate, FlagStep, FlagFault, BatchStarted,
              BatchEmpty, BatchAborted, FetchFails, BatchSettled,
              Gate!Next, Gate!Quiet, Gate!Faults, Gate!Proceed, Gate!Batch
<1>8. CASE FlagExpires
  BY <1>8 DEF FlagExpires, Gate!Next, Gate!Quiet
<1>9. ASSUME NEW j \in Jobs, NEW m \in Msgs, Reprocess(j, m)
      PROVE  UNCHANGED gateVars
  BY <1>9 DEF Reprocess, RecordMarked, MarkFails, SendAgain, AnswerAccepted,
              AnswerRefused, CallFails, AnswerSaved, SaveFails, Reschedule,
              Cancel, RetryRuleLookupFails, CancelSaved, CancelFails,
              CancelPublished
<1>10. ASSUME NEW i \in Instances, Crash(i) \/ UnhandledRejection(i)
       PROVE  [Gate!Next]_(Gate!vars)
  <2>1. Gate!Kill(i)
    BY <1>10 DEF Crash, UnhandledRejection, Die
  <2>2. CASE \E j \in Jobs : Home[j] = i /\ job[j] # "idle"
    BY <2>1, <2>2 DEF Gate!Next, Gate!Faults, Gate!Crash
  <2>3. CASE \A j \in Jobs : Home[j] = i => job[j] = "idle"
    <3>1. job' = [j \in Jobs |-> job[j]]
      BY <2>1, <2>3 DEF Gate!Kill
    <3>2. QED
      BY <2>1, <3>1 DEF Gate!TypeOK, Gate!Kill
  <2>4. QED
    BY <2>2, <2>3
<1>11. CASE Advance
  BY <1>11 DEF Advance
<1>12. CASE UNCHANGED vars
  BY <1>12 DEF vars
<1>13. QED
  BY <1>1, <1>2, <1>3, <1>4, <1>5, <1>6, <1>7, <1>8, <1>9, <1>10, <1>11,
     <1>12 DEF Next

(* Gate and GateProofs are the same instance of JobGate.                   *)
LEMMA SameGate ==
  /\ Gate!vars = GateProofs!vars
  /\ Gate!TypeOK <=> GateProofs!TypeOK
  /\ (Gate!TypeOK)' <=> (GateProofs!TypeOK)'
  /\ Gate!Next <=> GateProofs!Next
<1>1. /\ Gate!vars = GateProofs!vars
      /\ Gate!TypeOK <=> GateProofs!TypeOK
      /\ (Gate!TypeOK)' <=> (GateProofs!TypeOK)'
  BY DEF Gate!vars, GateProofs!vars, Gate!TypeOK, GateProofs!TypeOK,
         Gate!FlagValues, GateProofs!FlagValues, Gate!Phases, GateProofs!Phases
<1>2. ASSUME NEW j \in Jobs
      PROVE  /\ Gate!Tick(j) <=> GateProofs!Tick(j)
             /\ Gate!Proceed(j) <=> GateProofs!Proceed(j)
             /\ Gate!CacheFault(j) <=> GateProofs!CacheFault(j)
  <2> USE DEF Gate!Goto, GateProofs!Goto
  <2>1. Gate!Tick(j) <=> GateProofs!Tick(j)
    BY DEF Gate!Tick, GateProofs!Tick, Gate!Entering, GateProofs!Entering
  <2>2. Gate!Proceed(j) <=> GateProofs!Proceed(j)
    BY DEF Gate!Proceed, GateProofs!Proceed, Gate!Batch, GateProofs!Batch,
           Gate!ReadGate, GateProofs!ReadGate,
           Gate!CloseGate, GateProofs!CloseGate,
           Gate!BatchStarted, GateProofs!BatchStarted,
           Gate!BatchEmpty, GateProofs!BatchEmpty,
           Gate!BatchAborted, GateProofs!BatchAborted,
           Gate!BatchSettled, GateProofs!BatchSettled,
           Gate!OpenGate, GateProofs!OpenGate,
           Gate!Reopen, GateProofs!Reopen
  <2>3. Gate!CacheFault(j) <=> GateProofs!CacheFault(j)
    BY DEF Gate!CacheFault, GateProofs!CacheFault,
           Gate!ReadFails, GateProofs!ReadFails,
           Gate!CloseFails, GateProofs!CloseFails,
           Gate!OpenFails, GateProofs!OpenFails,
           Gate!ReopenFails, GateProofs!ReopenFails
  <2>4. QED
    BY <2>1, <2>2, <2>3
<1>3. Gate!Expire <=> GateProofs!Expire
  BY DEF Gate!Expire, GateProofs!Expire, Gate!InGate, GateProofs!InGate
<1>4. \A i \in Instances : Gate!Crash(i) <=> GateProofs!Crash(i)
  BY DEF Gate!Crash, GateProofs!Crash, Gate!Kill, GateProofs!Kill
<1>5. Gate!Next <=> GateProofs!Next
  BY <1>2, <1>3, <1>4 DEF Gate!Next, GateProofs!Next, Gate!Quiet,
                          GateProofs!Quiet, Gate!Faults, GateProofs!Faults
<1>6. QED
  BY <1>1, <1>5

LEMMA SameGateInv ==
  /\ Gate!LockAssumptions <=> GateProofs!LockAssumptions
  /\ Gate!GateInv <=> GateProofs!GateInv
  /\ (Gate!GateInv)' <=> (GateProofs!GateInv)'
BY DEF Gate!LockAssumptions, GateProofs!LockAssumptions,
       Gate!GateInv, GateProofs!GateInv,
       Gate!OneBatchAtATime, GateProofs!OneBatchAtATime,
       Gate!InGate, GateProofs!InGate, Gate!Entering, GateProofs!Entering
-----------------------------------------------------------------------------
(* What the helpers of the actions leave in the types of TypeOK.           *)

LEMMA RepTypes ==
  ASSUME TypeOK, NEW j \in Jobs, NEW m \in Msgs
  PROVE  /\ \A pc \in RepPhases :
              RepAt(j, m, pc) => rep' \in [Jobs -> [Msgs -> Rep]]
         /\ \A err \in Errors :
              RepFails(j, m, err) => rep' \in [Jobs -> [Msgs -> Rep]]
         /\ Resolved(j, m) => rep' \in [Jobs -> [Msgs -> Rep]]
         /\ Rejected(j, m) => rep' \in [Jobs -> [Msgs -> Rep]]
<1> USE DEF Rep
<1>1. rep[j] \in [Msgs -> Rep] /\ rep[j][m] \in Rep
  BY DEF TypeOK
<1>2. ASSUME NEW pc \in RepPhases, RepAt(j, m, pc)
      PROVE  rep' \in [Jobs -> [Msgs -> Rep]]
  <2>1. [rep[j][m] EXCEPT !.pc = pc] \in Rep
    BY <1>1
  <2>2. rep' = [rep EXCEPT ![j] = [rep[j] EXCEPT
                  ![m] = [rep[j][m] EXCEPT !.pc = pc]]]
    BY <1>1, <1>2 DEF RepAt, TypeOK
  <2>3. QED
    BY <1>1, <2>1, <2>2 DEF TypeOK
<1>3. ASSUME NEW err \in Errors, RepFails(j, m, err)
      PROVE  rep' \in [Jobs -> [Msgs -> Rep]]
  <2> DEFINE new == [rep[j][m] EXCEPT !.pc = "failing", !.err = err,
                                      !.failed = now]
  <2>1. new \in Rep
    BY <1>1 DEF RepPhases, TypeOK
  <2>2. rep' = [rep EXCEPT ![j] = [rep[j] EXCEPT ![m] = new]]
    BY <1>1, <1>3 DEF RepFails, TypeOK
  <2>3. QED
    BY <1>1, <2>1, <2>2 DEF TypeOK
<1>4. ASSUME Resolved(j, m) PROVE rep' \in [Jobs -> [Msgs -> Rep]]
  <2>1. Idle \in Rep
    BY DEF Idle, RepPhases, Errors
  <2>2. rep' = [rep EXCEPT ![j] = [rep[j] EXCEPT ![m] = Idle]]
    BY <1>1, <1>4 DEF Resolved, TypeOK
  <2>3. QED
    BY <1>1, <2>1, <2>2 DEF TypeOK
<1>5. QED
  BY <1>2, <1>3, <1>4 DEF Rejected, RepPhases

LEMMA WriteTypes ==
  ASSUME TypeOK, NEW m \in Msgs, NEW home \in Instances, NEW doc \in Doc,
         WriteBoth(m, home, doc)
  PROVE  /\ writes' \subseteq Write
         /\ replies' \subseteq Reply
         /\ log' \in [Msgs -> Doc]
         /\ responses' \in [Msgs -> SUBSET Nat]
BY DEF TypeOK, WriteBoth, Write, Reply, Doc

LEMMA PublishType ==
  ASSUME TypeOK, NEW m \in Msgs, Publish(m)
  PROVE  published' \in [Msgs -> 0 .. PublishBound]
<1>1. PICK sent \in SentResults(m) :
        published' = [published EXCEPT
            ![m] = IF @ + sent <= PublishBound THEN @ + sent ELSE @]
  BY DEF Publish
<1>2. sent \in {0, 1}
  BY <1>1 DEF SentResults
<1>3. published \in [Msgs -> 0 .. PublishBound] /\ PublishBound \in Nat
  BY EngineAssumption DEF TypeOK
<1>4. published[m] \in 0 .. PublishBound
  BY <1>3
<1>5. (IF published[m] + sent <= PublishBound
       THEN published[m] + sent ELSE published[m]) \in 0 .. PublishBound
  BY <1>2, <1>3, <1>4
<1>6. QED
  BY <1>1, <1>3, <1>5

LEMMA HandlerTypes ==
  ASSUME TypeOK, NEW m \in Msgs
  PROVE  /\ \A pc \in HandlerPhases, err \in Errors, built \in BOOLEAN :
              HandlerAt(m, pc, err, built) => handler' \in [Msgs -> Handler]
         /\ HandlerDone(m) => handler' \in [Msgs -> Handler]
<1>1. Done \in Handler
  BY DEF Done, Handler, HandlerPhases, Errors
<1>2. handler \in [Msgs -> Handler]
  BY DEF TypeOK
<1>3. ASSUME NEW pc \in HandlerPhases, NEW err \in Errors,
             NEW built \in BOOLEAN, HandlerAt(m, pc, err, built)
      PROVE  handler' \in [Msgs -> Handler]
  <2>1. [pc |-> pc, err |-> err, built |-> built] \in Handler
    BY DEF Handler
  <2>2. QED
    BY <1>2, <1>3, <2>1 DEF HandlerAt
<1>4. ASSUME HandlerDone(m) PROVE handler' \in [Msgs -> Handler]
  BY <1>1, <1>2, <1>4 DEF HandlerDone
<1>5. QED
  BY <1>3, <1>4
-----------------------------------------------------------------------------
LEMMA ReceiveType ==
  ASSUME TypeOK, NEW m \in Msgs, Receive(m)
  PROVE  TypeOK'
<1>1. handler' \in [Msgs -> Handler]
  <2>1. InternalError \in Errors /\ {"failing", "fetchingToken", "calling"}
          \subseteq HandlerPhases
    BY DEF Errors, HandlerPhases
  <2>2. QED
    BY <2>1, HandlerTypes DEF Receive, ReceiveMalformed, ReceiveUnbuildable,
                              ReceiveTbkMall, ReceiveAndSend
<1>2. calls' \in [Msgs -> Nat]
  <2>1. calls \in [Msgs -> Nat] /\ calls[m] + 1 \in Nat
    BY DEF TypeOK
  <2>2. calls' = calls \/ calls' = [calls EXCEPT ![m] = calls[m] + 1]
    BY DEF Receive, ReceiveMalformed, ReceiveUnbuildable, ReceiveTbkMall,
           ReceiveAndSend, Send
  <2>3. QED
    BY <2>1, <2>2
<1>3. UNCHANGED <<now, gateVars, today, dbVars, rep, accepted, published>>
  BY DEF Receive, ReceiveMalformed, ReceiveUnbuildable, ReceiveTbkMall,
         ReceiveAndSend, Received
<1>4. QED
  BY <1>1, <1>2, <1>3 DEF TypeOK, Gate!TypeOK, gateVars, dbVars

LEMMA HandleType ==
  ASSUME TypeOK, NEW m \in Msgs, Handle(m)
  PROVE  TypeOK'
<1> USE DEF gateVars, dbVars, outcomeVars
<1>1. /\ InternalError \in Errors
      /\ TokenErrors \subseteq Errors
      /\ AcquirerErrors \subseteq Errors
      /\ \A s \in AnswerStatuses : ErrorOfAnswer(s) \in Errors
      /\ {"failing", "calling", "done"} \subseteq HandlerPhases
  BY DEF Errors, HandlerPhases
<1>2. handler[m].built \in BOOLEAN /\ Home[m] \in Instances
  BY EngineAssumption DEF TypeOK, Handler
<1>3. \A due \in BOOLEAN, next \in Nat : FirstDoc(m, due, next) \in Doc
  BY <1>2 DEF FirstDoc, Doc, TypeOK
<1>4. CASE TokenReturned(m)
  <2>1. handler' \in [Msgs -> Handler]
    BY <1>1, <1>4, HandlerTypes DEF TokenReturned
  <2>2. calls' \in [Msgs -> Nat]
    BY <1>4 DEF TokenReturned, Send, TypeOK
  <2>3. QED
    BY <1>4, <2>1, <2>2 DEF TokenReturned, TypeOK, Gate!TypeOK
<1>5. CASE TokenFails(m)
  BY <1>1, <1>5, HandlerTypes DEF TokenFails, TypeOK, Gate!TypeOK
<1>6. CASE FirstAnswerAccepted(m)
  <2>1. accepted' \in [Msgs -> SUBSET AnswerStatuses]
    BY <1>6 DEF FirstAnswerAccepted, Accept, TypeOK
  <2>2. handler' \in [Msgs -> Handler]
    BY <1>6, HandlerTypes DEF FirstAnswerAccepted
  <2>3. WriteBoth(m, Home[m], FirstDoc(m, FALSE, 0))
    BY <1>6 DEF FirstAnswerAccepted
  <2>4. QED
    BY <1>2, <1>3, <1>6, <2>1, <2>2, <2>3, WriteTypes
       DEF FirstAnswerAccepted, TypeOK, Gate!TypeOK
<1>7. CASE FirstAnswerRefused(m)
  BY <1>1, <1>7, HandlerTypes DEF FirstAnswerRefused, TypeOK, Gate!TypeOK
<1>8. CASE FirstCallFails(m)
  BY <1>1, <1>8, HandlerTypes DEF FirstCallFails, TypeOK, Gate!TypeOK
<1>9. CASE ScheduleRetry(m)
  <2>1. PICK rule \in Rules :
          WriteBoth(m, Home[m], FirstDoc(m, TRUE, now + DelayAfter(rule, 1)))
    BY <1>9 DEF ScheduleRetry
  <2>2. now + DelayAfter(rule, 1) \in Nat
    BY DelayType, EngineAssumption DEF TypeOK
  <2>3. handler' \in [Msgs -> Handler]
    BY <1>9, HandlerTypes DEF ScheduleRetry
  <2>4. QED
    BY <1>2, <1>3, <1>9, <2>1, <2>2, <2>3, WriteTypes
       DEF ScheduleRetry, TypeOK, Gate!TypeOK
<1>10. CASE GiveUp(m)
  <2>1. handler' \in [Msgs -> Handler]
    BY <1>10, HandlerTypes DEF GiveUp
  <2>2. published' \in [Msgs -> 0 .. PublishBound]
    BY <1>10, PublishType DEF GiveUp
  <2>3. WriteBoth(m, Home[m], FirstDoc(m, FALSE, 0))
    BY <1>10 DEF GiveUp
  <2>4. QED
    BY <1>2, <1>3, <1>10, <2>1, <2>2, <2>3, WriteTypes
       DEF GiveUp, TypeOK, Gate!TypeOK
<1>11. CASE RuleLookupFails(m)
  BY <1>11, HandlerTypes DEF RuleLookupFails, TypeOK, Gate!TypeOK
<1>12. QED
  BY <1>4, <1>5, <1>6, <1>7, <1>8, <1>9, <1>10, <1>11 DEF Handle

LEMMA WriteStepType ==
  ASSUME TypeOK,
         \/ \E w \in writes : RequestStored(w)
         \/ \E r \in replies : ResponseStored(r)
         \/ WriteLost
  PROVE  TypeOK'
<1> USE DEF TypeOK, Gate!TypeOK, gateVars, outcomeVars
<1>1. ASSUME NEW w \in writes, RequestStored(w) PROVE TypeOK'
  <2>1. w.msg \in Msgs /\ w.doc \in Doc
    BY DEF Write
  <2>2. log' \in [Msgs -> Doc]
    BY <1>1, <2>1 DEF RequestStored
  <2>3. QED
    BY <1>1, <2>2 DEF RequestStored
<1>2. ASSUME NEW r \in replies, ResponseStored(r) PROVE TypeOK'
  <2>1. r.msg \in Msgs /\ r.attempt \in Nat
    BY DEF Reply
  <2>2. responses' \in [Msgs -> SUBSET Nat]
    BY <1>2, <2>1 DEF ResponseStored
  <2>3. QED
    BY <1>2, <2>2 DEF ResponseStored
<1>3. CASE WriteLost
  BY <1>3 DEF WriteLost
<1>4. QED
  BY <1>1, <1>2, <1>3
-----------------------------------------------------------------------------
(* The batch starts a reprocessing with the stored counter plus one.       *)
LEMMA StartType ==
  ASSUME TypeOK, NEW j \in Jobs, NEW S \in SUBSET Msgs, StartAll(j, S)
  PROVE  rep' \in [Jobs -> [Msgs -> Rep]]
<1>1. \A m \in Msgs : StartOf(m) \in Rep
  BY DEF StartOf, Rep, RepPhases, Errors, TypeOK, Doc
<1>2. rep \in [Jobs -> [Msgs -> Rep]]
  BY DEF TypeOK
<1>3. [m \in Msgs |-> IF m \in S THEN StartOf(m) ELSE rep[j][m]]
        \in [Msgs -> Rep]
  BY <1>1, <1>2
<1>4. QED
  BY <1>2, <1>3 DEF StartAll

LEMMA JobStepType ==
  ASSUME TypeOK, (Gate!TypeOK)', NEW j \in Jobs,
         Tick(j) \/ JobStep(j) \/ FlagExpires
  PROVE  TypeOK'
<1> USE DEF dbVars, outcomeVars
<1>1. CASE Tick(j) \/ FlagExpires
  BY <1>1 DEF Tick, FlagExpires, TypeOK
<1>2. CASE CloseGate(j)
  <2>1. today' \in [Jobs -> Nat]
    BY <1>2 DEF CloseGate, TypeOK
  <2>2. QED
    BY <1>2, <2>1 DEF CloseGate, TypeOK
<1>3. CASE FlagStep(j) \/ FlagFault(j)
  BY <1>3 DEF FlagStep, FlagFault, TypeOK
<1>4. CASE BatchStarted(j) \/ BatchAborted(j)
  <2>1. PICK S \in SUBSET Msgs : StartAll(j, S)
    BY <1>4 DEF BatchStarted, BatchAborted, Batches, Fetchable
  <2>2. rep' \in [Jobs -> [Msgs -> Rep]]
    BY <2>1, StartType
  <2>3. Fetched(j)
    BY <1>4 DEF BatchStarted, BatchAborted
  <2>4. today' \in [Jobs -> Nat]
    BY <2>3 DEF Fetched, TypeOK
  <2>5. QED
    BY <1>4, <2>2, <2>4 DEF BatchStarted, BatchAborted, TypeOK
<1>5. CASE BatchEmpty(j) \/ FetchFails(j)
  <2>1. today' \in [Jobs -> Nat]
    BY <1>5 DEF BatchEmpty, FetchFails, Fetched, TypeOK
  <2>2. QED
    BY <1>5, <2>1 DEF BatchEmpty, FetchFails, TypeOK
<1>6. CASE BatchSettled(j)
  BY <1>6 DEF BatchSettled, TypeOK
<1>7. QED
  BY <1>1, <1>2, <1>3, <1>4, <1>5, <1>6 DEF JobStep
-----------------------------------------------------------------------------
LEMMA ReprocessType ==
  ASSUME TypeOK, NEW j \in Jobs, NEW m \in Msgs, Reprocess(j, m)
  PROVE  TypeOK'
<1> USE DEF gateVars, dbVars, outcomeVars
<1>1. rep' \in [Jobs -> [Msgs -> Rep]]
  <2>1. /\ InternalError \in Errors
        /\ AcquirerErrors \subseteq Errors
        /\ \A s \in AnswerStatuses : ErrorOfAnswer(s) \in Errors
        /\ {"marked", "calling", "saving", "cancelling", "publishing"}
             \subseteq RepPhases
    BY DEF Errors, RepPhases
  <2>2. \/ \E pc \in RepPhases : RepAt(j, m, pc)
        \/ \E err \in Errors : RepFails(j, m, err)
        \/ Resolved(j, m)
        \/ Rejected(j, m)
    BY <2>1 DEF Reprocess, RecordMarked, MarkFails, SendAgain, AnswerAccepted,
                AnswerRefused, CallFails, AnswerSaved, SaveFails, Reschedule,
                Cancel, RetryRuleLookupFails, CancelSaved, CancelFails,
                CancelPublished
  <2>3. QED
    BY <2>2, RepTypes
<1>2. rep[j][m].retries \in Nat /\ rep[j][m].next \in Nat
  BY DEF TypeOK, Rep
<1>3. Answered(m, j) => responses' \in [Msgs -> SUBSET Nat]
  BY <1>2 DEF Answered, TypeOK
<1>4. CASE RecordMarked(j, m)
  <2>1. log' \in [Msgs -> Doc]
    BY <1>2, <1>4 DEF RecordMarked, TypeOK, Doc
  <2>2. QED
    BY <1>1, <1>4, <2>1 DEF RecordMarked, TypeOK, Gate!TypeOK
<1>5. CASE MarkFails(j, m) \/ AnswerRefused(j, m) \/ CallFails(j, m)
             \/ Cancel(j, m) \/ RetryRuleLookupFails(j, m)
  BY <1>1, <1>5 DEF MarkFails, AnswerRefused, CallFails, Cancel,
                    RetryRuleLookupFails, TypeOK, Gate!TypeOK
<1>6. CASE SendAgain(j, m)
  <2>1. calls' \in [Msgs -> Nat]
    BY <1>6 DEF SendAgain, Send, TypeOK
  <2>2. QED
    BY <1>1, <1>6, <2>1 DEF SendAgain, TypeOK, Gate!TypeOK
<1>7. CASE AnswerAccepted(j, m)
  <2>1. accepted' \in [Msgs -> SUBSET AnswerStatuses]
    BY <1>7 DEF AnswerAccepted, Accept, TypeOK
  <2>2. QED
    BY <1>1, <1>7, <2>1 DEF AnswerAccepted, TypeOK, Gate!TypeOK
<1>8. CASE AnswerSaved(j, m) \/ SaveFails(j, m) \/ CancelSaved(j, m)
             \/ CancelFails(j, m)
  <2>1. responses' \in [Msgs -> SUBSET Nat]
    BY <1>3, <1>8 DEF AnswerSaved, SaveFails, CancelSaved, CancelFails, TypeOK
  <2>2. QED
    BY <1>1, <1>8, <2>1 DEF AnswerSaved, SaveFails, CancelSaved, CancelFails,
                            TypeOK, Gate!TypeOK
<1>9. CASE Reschedule(j, m)
  <2>1. PICK rule \in Rules :
          WriteBoth(m, Home[j],
             [log[m] EXCEPT !.due = TRUE, !.retries = rep[j][m].retries,
                !.next = rep[j][m].next + DelayAfter(rule, rep[j][m].retries)])
    BY <1>9 DEF Reschedule
  <2>2. DelayAfter(rule, rep[j][m].retries) \in Nat
    BY <1>2, DelayType, EngineAssumption
  <2>3. [log[m] EXCEPT !.due = TRUE, !.retries = rep[j][m].retries,
           !.next = rep[j][m].next + DelayAfter(rule, rep[j][m].retries)]
          \in Doc
    <3>1. log[m] \in Doc
      BY DEF TypeOK
    <3>2. rep[j][m].next + DelayAfter(rule, rep[j][m].retries) \in Nat
      BY <1>2, <2>2
    <3>3. QED
      BY <1>2, <3>1, <3>2 DEF Doc
  <2>4. Home[j] \in Instances
    BY EngineAssumption
  <2>5. QED
    BY <1>1, <1>9, <2>1, <2>3, <2>4, WriteTypes
       DEF Reschedule, TypeOK, Gate!TypeOK
<1>10. CASE CancelPublished(j, m)
  <2>1. published' \in [Msgs -> 0 .. PublishBound]
    BY <1>10, PublishType DEF CancelPublished
  <2>2. QED
    BY <1>1, <1>10, <2>1 DEF CancelPublished, TypeOK, Gate!TypeOK
<1>11. QED
  BY <1>4, <1>5, <1>6, <1>7, <1>8, <1>9, <1>10 DEF Reprocess

LEMMA DieType ==
  ASSUME TypeOK, (Gate!TypeOK)', NEW i \in Instances, Die(i)
  PROVE  TypeOK'
<1> USE DEF outcomeVars
<1>1. Done \in Handler
  BY DEF Done, Handler, HandlerPhases, Errors
<1>2. Idle \in Rep
  BY DEF Idle, Rep, RepPhases, Errors
<1>3. handler' \in [Msgs -> Handler]
  BY <1>1 DEF Die, TypeOK
<1>4. rep' \in [Jobs -> [Msgs -> Rep]]
  BY <1>2 DEF Die, TypeOK
<1>5. writes' \subseteq Write /\ replies' \subseteq Reply
  BY DEF Die, TypeOK
<1>6. QED
  BY <1>3, <1>4, <1>5 DEF Die, TypeOK
-----------------------------------------------------------------------------
LEMMA TypeStep ==
  ASSUME TypeOK, [Next]_vars
  PROVE  TypeOK'
<1>1. (Gate!TypeOK)'
  <2>1. Gate!TypeOK
    BY DEF TypeOK
  <2>2. GateProofs!TypeOK
    BY <2>1, SameGate
  <2>3. [Gate!Next]_(Gate!vars)
    BY <2>1, GateStep
  <2>4. [GateProofs!Next]_(GateProofs!vars)
    BY <2>3, SameGate DEF Gate!vars, GateProofs!vars
  <2>5. \A j \in Jobs : Home[j] \in Instances
    BY EngineAssumption
  <2>6. (GateProofs!TypeOK)'
    BY <2>2, <2>4, <2>5, GateProofs!GateTypeStep
  <2>7. QED
    BY <2>6, SameGate
<1>2. CASE Advance
  BY <1>2 DEF Advance, TypeOK, Gate!TypeOK, gateVars, dbVars, outcomeVars
<1>3. CASE UNCHANGED vars
  BY <1>3 DEF vars, TypeOK, Gate!TypeOK, gateVars, dbVars, outcomeVars
<1>4. CASE FlagExpires
  BY <1>1, <1>4 DEF FlagExpires, TypeOK, dbVars, outcomeVars
<1>5. QED
  BY <1>1, <1>2, <1>3, <1>4, ReceiveType, HandleType, WriteStepType,
     JobStepType, ReprocessType, DieType
     DEF Next, Crash, UnhandledRejection

(* Every variable of the engine stays in its type: the stored counters and *)
(* dates are natural numbers, whatever the rules answer.                   *)
THEOREM TypeCorrect == Spec => []TypeOK
<1>1. Init => TypeOK
  BY EngineAssumption
     DEF Init, TypeOK, Gate!Init, Gate!TypeOK, Gate!FlagValues, Gate!Phases,
         Handler, HandlerPhases, Errors, Doc, NoDoc, Rep, RepPhases, Idle
<1>2. TypeOK /\ [Next]_vars => TypeOK'
  BY TypeStep
<1>3. QED
  BY <1>1, <1>2, PTL DEF Spec
-----------------------------------------------------------------------------
(* The batch and the flag hold together: a reprocessing is only alive      *)
(* while the execution that started it is waiting for its batch.           *)
BatchOwnsWork ==
    \A j \in Jobs, m \in Msgs : Active(j, m) => job[j] = "running"

BatchInv == Gate!GateInv /\ BatchOwnsWork

(* A step of reprocessTransaction wakes no other reprocessing.             *)
LEMMA ReprocessWakesNone ==
  ASSUME TypeOK, NEW j \in Jobs, NEW m \in Msgs, Reprocess(j, m)
  PROVE  \A k \in Jobs, n \in Msgs : Active(k, n)' => Active(k, n)
<1>1. Active(j, m)
  BY DEF Active, Reprocess, RecordMarked, MarkFails, SendAgain, AnswerAccepted,
         AnswerRefused, CallFails, AnswerSaved, SaveFails, Reschedule, Cancel,
         RetryRuleLookupFails, CancelSaved, CancelFails, CancelPublished
<1>2. \E new : rep' = [rep EXCEPT ![j] = [rep[j] EXCEPT ![m] = new]]
  <2>1. rep[j] \in [Msgs -> Rep]
    BY DEF TypeOK
  <2>2. ASSUME NEW pc, RepAt(j, m, pc)
        PROVE  rep' = [rep EXCEPT ![j] = [rep[j] EXCEPT
                         ![m] = [rep[j][m] EXCEPT !.pc = pc]]]
    BY <2>1, <2>2 DEF RepAt, TypeOK
  <2>3. ASSUME NEW err, RepFails(j, m, err)
        PROVE  rep' = [rep EXCEPT ![j] = [rep[j] EXCEPT
                         ![m] = [rep[j][m] EXCEPT !.pc = "failing",
                                    !.err = err, !.failed = now]]]
    BY <2>1, <2>3 DEF RepFails, TypeOK
  <2>4. ASSUME Resolved(j, m)
        PROVE  rep' = [rep EXCEPT ![j] = [rep[j] EXCEPT ![m] = Idle]]
    BY <2>1, <2>4 DEF Resolved, TypeOK
  <2>5. \/ \E pc : RepAt(j, m, pc)
        \/ \E err : RepFails(j, m, err)
        \/ Resolved(j, m)
    BY DEF Rejected, Reprocess, RecordMarked, MarkFails, SendAgain,
           AnswerAccepted, AnswerRefused, CallFails, AnswerSaved, SaveFails,
           Reschedule, Cancel, RetryRuleLookupFails, CancelSaved, CancelFails,
           CancelPublished
  <2>6. QED
    BY <2>2, <2>3, <2>4, <2>5
<1>3. QED
  BY <1>1, <1>2 DEF Active, TypeOK

(* A step of the job keeps what its batch started under its own wing: the  *)
(* loop over the batch does not throw when every record has headers.       *)
LEMMA JobOwnsWork ==
  ASSUME SoundDeployment, TypeOK, BatchOwnsWork, NEW j \in Jobs, JobStep(j)
  PROVE  BatchOwnsWork'
<1> USE DEF BatchOwnsWork, Active, TypeOK, Gate!TypeOK, Gate!Goto
<1>1. CASE CloseGate(j)
  BY <1>1 DEF CloseGate, Gate!CloseGate
<1>2. CASE FlagStep(j)
  BY <1>2 DEF FlagStep, Gate!ReadGate, Gate!OpenGate, Gate!Reopen
<1>3. CASE FlagFault(j)
  BY <1>3 DEF FlagFault, Gate!CacheFault, Gate!ReadFails, Gate!CloseFails,
              Gate!OpenFails, Gate!ReopenFails
<1>4. CASE BatchStarted(j)
  <2>1. PICK S \in SUBSET Msgs : StartAll(j, S)
    BY <1>4 DEF BatchStarted, Batches, Fetchable
  <2>2. \A k \in Jobs : k # j => rep'[k] = rep[k]
    BY <2>1 DEF StartAll
  <2>3. job' = [job EXCEPT ![j] = "running"]
    BY <1>4 DEF BatchStarted, Gate!BatchStarted
  <2>4. QED
    BY <2>2, <2>3
<1>5. CASE BatchEmpty(j)
  BY <1>5 DEF BatchEmpty, Gate!BatchEmpty
<1>6. CASE BatchAborted(j)
  BY <1>6 DEF BatchAborted, SoundDeployment
<1>7. CASE FetchFails(j)
  BY <1>7 DEF FetchFails, Gate!BatchAborted
<1>8. CASE BatchSettled(j)
  BY <1>8 DEF BatchSettled, Gate!BatchSettled
<1>9. QED
  BY <1>1, <1>2, <1>3, <1>4, <1>5, <1>6, <1>7, <1>8 DEF JobStep

LEMMA BatchOwnsWorkStep ==
  ASSUME SoundDeployment, TypeOK, BatchOwnsWork, [Next]_vars
  PROVE  BatchOwnsWork'
<1> USE DEF BatchOwnsWork, Active
<1>1. CASE UNCHANGED <<job, rep>>
  BY <1>1
<1>2. ASSUME NEW m \in Msgs, Receive(m) \/ Handle(m)
      PROVE  UNCHANGED <<job, rep>>
  BY <1>2 DEF gateVars,
       Receive, ReceiveMalformed, ReceiveUnbuildable, ReceiveTbkMall,
       ReceiveAndSend, Received,
       Handle, TokenReturned, TokenFails, FirstAnswerAccepted,
       FirstAnswerRefused, FirstCallFails, ScheduleRetry, GiveUp,
       RuleLookupFails
<1>3. ASSUME \/ \E w \in writes : RequestStored(w)
             \/ \E r \in replies : ResponseStored(r)
             \/ WriteLost \/ Advance \/ FlagExpires \/ UNCHANGED vars
      PROVE  UNCHANGED <<job, rep>>
  BY <1>3 DEF gateVars, vars, RequestStored, ResponseStored, WriteLost,
              Advance, FlagExpires, Gate!Expire
<1>4. ASSUME NEW j \in Jobs, Tick(j) PROVE BatchOwnsWork'
  BY <1>4 DEF Tick, Gate!Tick, Gate!Goto, TypeOK, Gate!TypeOK
<1>5. ASSUME NEW j \in Jobs, JobStep(j) PROVE BatchOwnsWork'
  BY <1>5, JobOwnsWork
<1>6. ASSUME NEW j \in Jobs, NEW m \in Msgs, Reprocess(j, m)
      PROVE  BatchOwnsWork'
  <2>1. UNCHANGED job
    BY <1>6 DEF gateVars, Reprocess, RecordMarked, MarkFails, SendAgain,
         AnswerAccepted, AnswerRefused, CallFails, AnswerSaved, SaveFails,
         Reschedule, Cancel, RetryRuleLookupFails, CancelSaved, CancelFails,
         CancelPublished
  <2>2. QED
    BY <1>6, <2>1, ReprocessWakesNone
<1>7. ASSUME NEW i \in Instances, Die(i) PROVE BatchOwnsWork'
  BY <1>7 DEF Die, Gate!Kill, Idle, TypeOK, Gate!TypeOK
<1>8. QED
  BY <1>1, <1>2, <1>3, <1>4, <1>5, <1>6, <1>7
     DEF Next, Crash, UnhandledRejection

LEMMA BatchInvStep ==
  ASSUME SoundDeployment, TypeOK, BatchInv, [Next]_vars
  PROVE  BatchInv'
<1>1. Gate!TypeOK /\ [Gate!Next]_(Gate!vars)
  BY GateStep DEF TypeOK
<1>2. [GateProofs!Next]_(GateProofs!vars) /\ GateProofs!TypeOK
  BY <1>1, SameGate DEF Gate!vars, GateProofs!vars
<1>3. GateProofs!GateInv /\ GateProofs!LockAssumptions
  BY SameGateInv DEF BatchInv, SoundDeployment
<1>4. \A j \in Jobs : Home[j] \in Instances
  BY EngineAssumption
<1>5. (GateProofs!GateInv)'
  BY <1>2, <1>3, <1>4, GateProofs!GateInvStep
<1>6. (Gate!GateInv)'
  BY <1>5, SameGateInv
<1>7. QED
  BY <1>6, BatchOwnsWorkStep DEF BatchInv

LEMMA BatchInvInvariant ==
  ASSUME SoundDeployment
  PROVE  Spec => [](TypeOK /\ BatchInv)
<1>1. Init => BatchInv
  BY DEF Init, BatchInv, BatchOwnsWork, Active, Idle, Gate!Init, Gate!GateInv,
         Gate!OneBatchAtATime, Gate!InGate, Gate!Entering
<1>2. TypeOK /\ BatchInv /\ [Next]_vars => BatchInv'
  BY BatchInvStep
<1>3. QED
  BY <1>1, <1>2, TypeCorrect, PTL DEF Spec

LEMMA BatchInvExcludes == BatchInv => OneReprocessing
BY DEF BatchInv, BatchOwnsWork, OneReprocessing, Gate!GateInv,
       Gate!OneBatchAtATime, Gate!InGate

(* In one process with a working cache and well-formed requests no         *)
(* transaction is ever reprocessed twice at the same time: the flag of     *)
(* retry() and the wait for the whole batch keep the reprocessings apart,  *)
(* whatever the database and the producer do and whenever the process dies.*)
THEOREM ReprocessingExclusion ==
  ASSUME SoundDeployment
  PROVE  Spec => []OneReprocessing
BY BatchInvInvariant, BatchInvExcludes, PTL
-----------------------------------------------------------------------------
(* The engine drives the flag as JobGate says, in a deployment in which    *)
(* processes may die: what is proved of JobGate holds of the engine.       *)
THEOREM EngineImplementsGate == Spec => Gate!Spec
<1>1. Init => Gate!Init
  BY DEF Init
<1>2. TypeOK /\ [Next]_vars => [Gate!Next]_(Gate!vars)
  BY GateStep DEF TypeOK
<1>3. QED
  BY <1>1, <1>2, TypeCorrect, PTL DEF Spec, Gate!Spec

(* With the codes of a pending transfer configured as errors, no answer of *)
(* API-TIN that reports one is taken for a success: throwErrorIfAllowed    *)
(* stands before every place where an answer is accepted.                  *)
THEOREM PendingRefused ==
  ASSUME {"3", "5"} \subseteq CodesToThrowError
  PROVE  Spec => []PendingIsNoSuccess
<1>1. Init => PendingIsNoSuccess
  BY DEF Init, PendingIsNoSuccess
<1>2. ASSUME TypeOK, PendingIsNoSuccess, NEW m \in Msgs,
             NEW status \in AnswerStatuses,
             ~ThrowErrorIfAllowed(BusinessOf[m], status), Accept(m, status)
      PROVE  PendingIsNoSuccess'
  <2>1. BusinessOf[m] \in BUSINESS_NAMES => status \notin {"3", "5"}
    BY <1>2 DEF ThrowErrorIfAllowed
  <2>2. \A n \in Msgs :
          \/ accepted'[n] = accepted[n]
          \/ n = m /\ accepted'[n] = accepted[n] \union {status}
    BY <1>2 DEF Accept, TypeOK
  <2>3. ASSUME NEW n \in Msgs, BusinessOf[n] \in BUSINESS_NAMES
        PROVE  accepted'[n] \intersect {"3", "5"} = {}
    <3>1. accepted[n] \intersect {"3", "5"} = {}
      BY <1>2, <2>3 DEF PendingIsNoSuccess
    <3>2. CASE accepted'[n] = accepted[n]
      BY <3>1, <3>2
    <3>3. CASE n = m /\ accepted'[n] = accepted[n] \union {status}
      BY <2>1, <2>3, <3>1, <3>3
    <3>4. QED
      BY <2>2, <3>2, <3>3
  <2>4. QED
    BY <2>3 DEF PendingIsNoSuccess
<1>3. ASSUME TypeOK, PendingIsNoSuccess, [Next]_vars
      PROVE  PendingIsNoSuccess'
  <2>1. ASSUME UNCHANGED accepted PROVE PendingIsNoSuccess'
    BY <1>3, <2>1 DEF PendingIsNoSuccess
  <2>2. ASSUME NEW m \in Msgs, Receive(m) \/ Handle(m)
        PROVE  PendingIsNoSuccess'
    <3>1. CASE FirstAnswerAccepted(m)
      BY <1>2, <1>3, <3>1 DEF FirstAnswerAccepted
    <3>2. CASE ~FirstAnswerAccepted(m)
      BY <2>1, <2>2, <3>2 DEF outcomeVars, Receive, ReceiveMalformed,
           ReceiveUnbuildable, ReceiveTbkMall, ReceiveAndSend, Received,
           Handle, TokenReturned, TokenFails, FirstAnswerRefused,
           FirstCallFails, ScheduleRetry, GiveUp, RuleLookupFails
    <3>3. QED
      BY <3>1, <3>2
  <2>3. ASSUME NEW j \in Jobs, NEW m \in Msgs, Reprocess(j, m)
        PROVE  PendingIsNoSuccess'
    <3>1. CASE AnswerAccepted(j, m)
      BY <1>2, <1>3, <3>1 DEF AnswerAccepted
    <3>2. CASE ~AnswerAccepted(j, m)
      BY <2>1, <2>3, <3>2 DEF outcomeVars, Reprocess, RecordMarked, MarkFails,
           SendAgain, AnswerRefused, CallFails, AnswerSaved, SaveFails,
           Reschedule, Cancel, RetryRuleLookupFails, CancelSaved, CancelFails,
           CancelPublished
    <3>3. QED
      BY <3>1, <3>2
  <2>4. CASE /\ ~\E m \in Msgs : Receive(m) \/ Handle(m)
             /\ ~\E j \in Jobs, m \in Msgs : Reprocess(j, m)
    BY <1>3, <2>1, <2>4
       DEF outcomeVars, vars, Next, RequestStored, ResponseStored, WriteLost,
           Tick, JobStep, CloseGate, FlagStep, FlagFault, BatchStarted,
           BatchEmpty, BatchAborted, FetchFails, BatchSettled, FlagExpires,
           Crash, UnhandledRejection, Die, Advance
  <2>5. QED
    BY <2>2, <2>3, <2>4
<1>4. QED
  BY <1>1, <1>3, TypeCorrect, PTL DEF Spec
=============================================================================
