------------------------- MODULE EngineCalls_proofs -------------------------
(***************************************************************************)
(* Theorems about the calls RetryEngine makes for one transaction: how     *)
(* many there are, that each is counted, and that none follows an accepted *)
(* one.                                                                    *)
(*                                                                         *)
(* The steps of the engine are projected on one transaction first: what a  *)
(* step may do to its handler, its record, the writes on their way to it,  *)
(* its reprocessings, its calls and its accepted answers.  The invariants  *)
(* are conjunctions over the transactions, and are shown to be preserved   *)
(* by the projected steps.                                                 *)
(***************************************************************************)
EXTENDS RetryEngine_proofs, WellFoundedInduction

Pending(n) == {w \in writes : w.msg = n}

RepsSame(n) == \A j \in Jobs : rep'[j][n] = rep[j][n]

OtherReps(j, n) == \A k \in Jobs \ {j} : rep'[k][n] = rep[k][n]

StoreSame(n) == UNCHANGED log[n] /\ Pending(n)' = Pending(n)

(* The write w of a document for n has been issued.                        *)
Issued(n, w) ==
  /\ Pending(n)' = Pending(n) \union {w}
  /\ UNCHANGED log[n]

(* Something of n is over or lost, or nothing happens to n.                *)
RepEbbs(j, n) ==
  \/ rep'[j][n] = rep[j][n]
  \/ rep'[j][n] = Idle
  \/ /\ Active(j, n)
     /\ rep'[j][n].retries = rep[j][n].retries
     /\ \/ rep'[j][n].pc \in {"cancelling", "publishing", "rejected"}
        \/ rep'[j][n].pc = "failing" /\ rep'[j][n].err = InternalError

Ebbs(n) ==
  /\ handler'[n] \in {handler[n], Done}
  /\ Pending(n)' \subseteq Pending(n)
  /\ \A j \in Jobs : RepEbbs(j, n)
  /\ UNCHANGED <<log[n], calls[n], accepted[n]>>

(* create.                                                                 *)
FirstMoves(n) ==
  /\ handler[n].pc \in {"queued", "fetchingToken", "calling"}
  /\ handler'[n].pc \in {"fetchingToken", "failing"}
  /\ handler'[n].pc = "fetchingToken" => handler[n].pc = "queued"
  /\ handler'[n].built => handler[n].pc = "calling"
  /\ StoreSame(n) /\ RepsSame(n)
  /\ UNCHANGED <<calls[n], accepted[n]>>

FirstSent(n) ==
  /\ handler[n].pc \in {"queued", "fetchingToken"}
  /\ handler'[n].pc = "calling"
  /\ calls'[n] = calls[n] + 1
  /\ StoreSame(n) /\ RepsSame(n)
  /\ UNCHANGED accepted[n]

FirstEnds(n, w) ==
  /\ handler[n].pc \in {"calling", "failing"}
  /\ handler'[n] = Done
  /\ Issued(n, w) /\ w.doc.retries = 1 /\ w.doc.built = handler[n].built
  /\ RepsSame(n)
  /\ UNCHANGED calls[n]

FirstAccepted(n) ==
  /\ handler[n].pc = "calling"
  /\ \E w \in Write : FirstEnds(n, w) /\ ~w.doc.due

FirstFailed(n) ==
  /\ handler[n].pc = "failing"
  /\ \E w \in Write : FirstEnds(n, w)
  /\ UNCHANGED accepted[n]

(* A write is applied, a reprocessing is started.                          *)
Stored(n) ==
  /\ \E w \in Pending(n) :
        log'[n] = w.doc /\ Pending(n)' = Pending(n) \ {w}
  /\ RepsSame(n)
  /\ UNCHANGED <<handler[n], calls[n], accepted[n]>>

Taken(j, n) ==
  /\ log[n].due
  /\ rep'[j][n] = StartOf(n)
  /\ OtherReps(j, n)
  /\ StoreSame(n)
  /\ UNCHANGED <<handler[n], calls[n], accepted[n]>>

(* reprocessTransaction.                                                   *)
Marked(j, n) ==
  /\ rep[j][n].pc = "marking"
  /\ ~log'[n].due /\ log'[n].retries = rep[j][n].retries
  /\ log'[n].built = log[n].built
  /\ rep'[j][n].pc = "marked" /\ rep'[j][n].retries = rep[j][n].retries
  /\ OtherReps(j, n)
  /\ Pending(n)' = Pending(n)
  /\ UNCHANGED <<handler[n], calls[n], accepted[n]>>

SentAgain(j, n) ==
  /\ rep[j][n].pc = "marked"
  /\ calls'[n] = calls[n] + 1
  /\ rep'[j][n].pc = "calling" /\ rep'[j][n].retries = rep[j][n].retries
  /\ OtherReps(j, n)
  /\ StoreSame(n)
  /\ UNCHANGED <<handler[n], accepted[n]>>

Accepted(j, n) ==
  /\ rep[j][n].pc = "calling"
  /\ rep'[j][n].pc = "saving" /\ rep'[j][n].retries = rep[j][n].retries
  /\ OtherReps(j, n)
  /\ StoreSame(n)
  /\ UNCHANGED <<handler[n], calls[n]>>

Refused(j, n) ==
  /\ rep[j][n].pc = "calling"
  /\ rep'[j][n].pc = "failing" /\ rep'[j][n].retries = rep[j][n].retries
  /\ OtherReps(j, n)
  /\ StoreSame(n)
  /\ UNCHANGED <<handler[n], calls[n], accepted[n]>>

Rescheduled(j, n) ==
  /\ rep[j][n].pc = "failing" /\ rep[j][n].err # InternalError
  /\ \E rule \in Rules : rep[j][n].retries < NumberOfRetriesAllowed(rule)
  /\ \E w \in Write :
        /\ Issued(n, w)
        /\ w.doc.retries = rep[j][n].retries /\ w.doc.built = log[n].built
  /\ \/ rep'[j][n] = Idle
     \/ job[j] # "running" /\ rep'[j][n].pc = "rejected"
  /\ rep'[j][n].retries \in {0, rep[j][n].retries}
  /\ OtherReps(j, n)
  /\ UNCHANGED <<handler[n], calls[n], accepted[n]>>

MessageNext(n) ==
  \/ Ebbs(n)
  \/ FirstMoves(n) \/ FirstSent(n) \/ FirstAccepted(n) \/ FirstFailed(n)
  \/ Stored(n)
  \/ \E j \in Jobs :
        \/ Taken(j, n) \/ Marked(j, n) \/ SentAgain(j, n) \/ Accepted(j, n)
        \/ Refused(j, n) \/ Rescheduled(j, n)
-----------------------------------------------------------------------------
(* What the helpers of the actions do to the reprocessings.                *)
LEMMA RepMoves ==
  ASSUME TypeOK, NEW j \in Jobs, NEW m \in Msgs
  PROVE  /\ \A pc : RepAt(j, m, pc) =>
              /\ rep'[j][m].pc = pc
              /\ rep'[j][m].retries = rep[j][m].retries
         /\ \A err : RepFails(j, m, err) =>
              /\ rep'[j][m].pc = "failing" /\ rep'[j][m].err = err
              /\ rep'[j][m].retries = rep[j][m].retries
         /\ Resolved(j, m) => rep'[j][m] = Idle
<1>1. rep[j] \in [Msgs -> Rep] /\ rep[j][m] \in Rep
  BY DEF TypeOK
<1>2. ASSUME NEW pc, RepAt(j, m, pc)
      PROVE  rep'[j][m].pc = pc /\ rep'[j][m].retries = rep[j][m].retries
  <2>1. rep'[j][m] = [rep[j][m] EXCEPT !.pc = pc]
    BY <1>1, <1>2 DEF RepAt, TypeOK
  <2>2. QED
    BY <1>1, <2>1 DEF Rep
<1>3. ASSUME NEW err, RepFails(j, m, err)
      PROVE  /\ rep'[j][m].pc = "failing" /\ rep'[j][m].err = err
             /\ rep'[j][m].retries = rep[j][m].retries
  <2>1. rep'[j][m] = [rep[j][m] EXCEPT !.pc = "failing", !.err = err,
                                       !.failed = now]
    BY <1>1, <1>3 DEF RepFails, TypeOK
  <2>2. QED
    BY <1>1, <2>1 DEF Rep
<1>4. ASSUME Resolved(j, m) PROVE rep'[j][m] = Idle
  BY <1>1, <1>4 DEF Resolved, TypeOK
<1>5. QED
  BY <1>2, <1>3, <1>4

LEMMA ReprocessOthers ==
  ASSUME TypeOK, NEW j \in Jobs, NEW m \in Msgs, Reprocess(j, m)
  PROVE  /\ UNCHANGED handler
         /\ \A k \in Jobs, n \in Msgs :
              k # j \/ n # m => rep'[k][n] = rep[k][n]
         /\ \A n \in Msgs \ {m} :
              StoreSame(n) /\ UNCHANGED <<calls[n], accepted[n]>>
<1> USE DEF TypeOK, dbVars, outcomeVars
<1>1. \E new : rep' = [rep EXCEPT ![j] = [rep[j] EXCEPT ![m] = new]]
  <2>1. rep[j] \in [Msgs -> Rep]
    OBVIOUS
  <2>2. ASSUME NEW pc, RepAt(j, m, pc)
        PROVE  rep' = [rep EXCEPT ![j] = [rep[j] EXCEPT
                         ![m] = [rep[j][m] EXCEPT !.pc = pc]]]
    BY <2>1, <2>2 DEF RepAt
  <2>3. ASSUME NEW err, RepFails(j, m, err)
        PROVE  rep' = [rep EXCEPT ![j] = [rep[j] EXCEPT
                         ![m] = [rep[j][m] EXCEPT !.pc = "failing",
                                    !.err = err, !.failed = now]]]
    BY <2>1, <2>3 DEF RepFails
  <2>4. ASSUME Resolved(j, m)
        PROVE  rep' = [rep EXCEPT ![j] = [rep[j] EXCEPT ![m] = Idle]]
    BY <2>1, <2>4 DEF Resolved
  <2>5. \/ \E pc : RepAt(j, m, pc)
        \/ \E err : RepFails(j, m, err)
        \/ Resolved(j, m)
    BY DEF Rejected, Reprocess, RecordMarked, MarkFails, SendAgain,
           AnswerAccepted, AnswerRefused, CallFails, AnswerSaved, SaveFails,
           Reschedule, Cancel, RetryRuleLookupFails, CancelSaved, CancelFails,
           CancelPublished
  <2>6. QED
    BY <2>2, <2>3, <2>4, <2>5
<1>2. UNCHANGED handler
  BY DEF Reprocess, RecordMarked, MarkFails, SendAgain, AnswerAccepted,
         AnswerRefused, CallFails, AnswerSaved, SaveFails, Reschedule, Cancel,
         RetryRuleLookupFails, CancelSaved, CancelFails, CancelPublished
<1>3. ASSUME NEW n \in Msgs \ {m}
      PROVE  StoreSame(n) /\ UNCHANGED <<calls[n], accepted[n]>>
  <2>1. CASE RecordMarked(j, m)
    BY <2>1 DEF RecordMarked, StoreSame, Pending
  <2>2. CASE Reschedule(j, m)
    BY <2>2 DEF Reschedule, WriteBoth, StoreSame, Pending
  <2>3. CASE SendAgain(j, m) \/ AnswerAccepted(j, m)
    BY <2>3 DEF SendAgain, AnswerAccepted, Send, Accept, StoreSame, Pending
  <2>4. CASE ~(RecordMarked(j, m) \/ Reschedule(j, m) \/ SendAgain(j, m)
                 \/ AnswerAccepted(j, m))
    BY <2>4 DEF Reprocess, MarkFails, AnswerRefused, CallFails, AnswerSaved,
                SaveFails, Cancel, RetryRuleLookupFails, CancelSaved,
                CancelFails, CancelPublished, StoreSame, Pending
  <2>5. QED
    BY <2>1, <2>2, <2>3, <2>4
<1>4. QED
  BY <1>1, <1>2, <1>3

(* An internal error, which no rule accepts, is not retried.               *)
LEMMA InternalErrorNotRetried ==
  ASSUME NEW rule \in Rules, NEW business, NEW retries, NEW next,
         NEW failed, NEW t
  PROVE  ~RetryAfterReprocess(InternalError, business, rule, retries, next,
                              failed, t)
<1>1. "none" \notin rule.failCodes
  BY EngineAssumption DEF IsRule
<1>2. "none" \notin TimeoutCodes
  BY InternalErrorAssumption
<1>3. QED
  BY <1>1, <1>2 DEF RetryAfterReprocess, AllowedToRetry, InternalError, Error
-----------------------------------------------------------------------------
(* Every step of the engine is, for each transaction, one of MessageNext.  *)

LEMMA ReceiveMessage ==
  ASSUME TypeOK, NEW m \in Msgs, Receive(m), NEW n \in Msgs
  PROVE  MessageNext(n)
<1> USE DEF TypeOK, dbVars, StoreSame, Pending, RepsSame
<1>1. StoreSame(n) /\ RepsSame(n) /\ UNCHANGED accepted[n]
  BY DEF Receive, ReceiveMalformed, ReceiveUnbuildable, ReceiveTbkMall,
         ReceiveAndSend, Received
<1>2. CASE n # m
  <2>1. UNCHANGED <<handler[n], calls[n]>>
    BY <1>2 DEF Receive, ReceiveMalformed, ReceiveUnbuildable, ReceiveTbkMall,
         ReceiveAndSend, HandlerAt, HandlerDone, Send
  <2>2. QED
    BY <1>1, <2>1 DEF MessageNext, Ebbs, RepEbbs
<1>3. CASE n = m
  <2>1. handler[m].pc = "queued"
    BY DEF Receive, ReceiveMalformed, ReceiveUnbuildable, ReceiveTbkMall,
           ReceiveAndSend, Received
  <2>2. CASE ReceiveMalformed(m)
    <3>1. handler'[m] = Done /\ UNCHANGED calls
      BY <2>2 DEF ReceiveMalformed, HandlerDone
    <3>2. QED
      BY <1>1, <1>3, <3>1 DEF MessageNext, Ebbs, RepEbbs
  <2>3. CASE ReceiveUnbuildable(m) \/ ReceiveTbkMall(m)
    <3>1. /\ handler'[m].pc \in {"fetchingToken", "failing"}
          /\ ~handler'[m].built
          /\ UNCHANGED calls
      BY <2>3 DEF ReceiveUnbuildable, ReceiveTbkMall, HandlerAt
    <3>2. QED
      BY <1>1, <1>3, <2>1, <3>1 DEF MessageNext, FirstMoves
  <2>4. CASE ReceiveAndSend(m)
    <3>1. handler'[m].pc = "calling" /\ calls'[m] = calls[m] + 1
      BY <2>4 DEF ReceiveAndSend, HandlerAt, Send
    <3>2. QED
      BY <1>1, <1>3, <2>1, <3>1 DEF MessageNext, FirstSent
  <2>5. QED
    BY <2>2, <2>3, <2>4 DEF Receive
<1>4. QED
  BY <1>2, <1>3

LEMMA HandleMessage ==
  ASSUME TypeOK, NEW m \in Msgs, Handle(m), NEW n \in Msgs
  PROVE  MessageNext(n)
<1> USE DEF TypeOK, dbVars, outcomeVars, StoreSame, Pending, RepsSame
<1>1. UNCHANGED rep
  BY DEF Handle, TokenReturned, TokenFails, FirstAnswerAccepted,
         FirstAnswerRefused, FirstCallFails, ScheduleRetry, GiveUp,
         RuleLookupFails
<1>2. CASE n # m
  <2>1. UNCHANGED <<handler[n], calls[n], accepted[n]>>
    BY <1>2 DEF Handle, TokenReturned, TokenFails, FirstAnswerAccepted,
         FirstAnswerRefused, FirstCallFails, ScheduleRetry, GiveUp,
         RuleLookupFails, HandlerAt, HandlerDone, Send, Accept
  <2>2. StoreSame(n)
    <3>1. ASSUME NEW home, NEW doc, WriteBoth(m, home, doc) PROVE StoreSame(n)
      BY <1>2, <3>1 DEF WriteBoth
    <3>2. CASE FirstAnswerAccepted(m) \/ ScheduleRetry(m) \/ GiveUp(m)
      BY <3>1, <3>2 DEF FirstAnswerAccepted, ScheduleRetry, GiveUp
    <3>3. CASE ~(FirstAnswerAccepted(m) \/ ScheduleRetry(m) \/ GiveUp(m))
      BY <3>3 DEF Handle, TokenReturned, TokenFails, FirstAnswerRefused,
                  FirstCallFails, RuleLookupFails
    <3>4. QED
      BY <3>2, <3>3
  <2>3. QED
    BY <1>1, <2>1, <2>2 DEF MessageNext, Ebbs, RepEbbs
<1>3. CASE n = m
  <2>1. CASE TokenReturned(m)
    <3>1. /\ handler[m].pc = "fetchingToken"
          /\ handler'[m].pc = "calling"
          /\ calls'[m] = calls[m] + 1
      BY <2>1 DEF TokenReturned, HandlerAt, Send
    <3>2. StoreSame(m) /\ UNCHANGED accepted[m]
      BY <2>1 DEF TokenReturned
    <3>3. QED
      BY <1>1, <1>3, <3>1, <3>2 DEF MessageNext, FirstSent
  <2>2. CASE TokenFails(m) \/ FirstAnswerRefused(m) \/ FirstCallFails(m)
    <3>1. /\ handler[m].pc \in {"fetchingToken", "calling"}
          /\ handler'[m].pc = "failing"
          /\ handler'[m].built => handler[m].pc = "calling"
      BY <2>2 DEF TokenFails, FirstAnswerRefused, FirstCallFails, HandlerAt
    <3>2. StoreSame(m) /\ UNCHANGED <<calls[m], accepted[m]>>
      BY <2>2 DEF TokenFails, FirstAnswerRefused, FirstCallFails
    <3>3. QED
      BY <1>1, <1>3, <3>1, <3>2 DEF MessageNext, FirstMoves
  <2>3. ASSUME NEW due \in BOOLEAN, NEW next \in Nat,
               WriteBoth(m, Home[m], FirstDoc(m, due, next))
        PROVE  \E w \in Write :
                 /\ Issued(m, w) /\ w.doc.due = due /\ w.doc.retries = 1
                 /\ w.doc.built = handler[m].built
    <3> DEFINE doc == FirstDoc(m, due, next)
               w == [msg |-> m, home |-> Home[m], doc |-> doc]
    <3>1. /\ doc \in Doc /\ doc.due = due /\ doc.retries = 1
          /\ doc.built = handler[m].built
      BY DEF FirstDoc, Doc, Handler
    <3>2. w \in Write
      BY <3>1, EngineAssumption DEF Write
    <3>3. writes' = writes \union {w} /\ UNCHANGED log
      BY <2>3 DEF WriteBoth
    <3>4. w.msg = m /\ w.doc = doc
      <4> HIDE DEF doc
      <4>1. QED
        OBVIOUS
    <3> HIDE DEF w, doc
    <3>5. Issued(m, w)
      BY <3>3, <3>4 DEF Issued
    <3>6. QED
      BY <3>1, <3>2, <3>4, <3>5 DEF Issued
  <2>4. CASE FirstAnswerAccepted(m)
    <3>1. handler[m].pc = "calling" /\ handler'[m] = Done /\ UNCHANGED calls
      BY <2>4 DEF FirstAnswerAccepted, HandlerDone
    <3>2. \E w \in Write :
            /\ Issued(m, w) /\ ~w.doc.due /\ w.doc.retries = 1
            /\ w.doc.built = handler[m].built
      <4>1. WriteBoth(m, Home[m], FirstDoc(m, FALSE, 0))
        BY <2>4 DEF FirstAnswerAccepted
      <4>2. QED
        BY <2>3, <4>1
    <3>3. QED
      BY <1>1, <1>3, <3>1, <3>2 DEF MessageNext, FirstAccepted, FirstEnds
  <2>5. CASE ScheduleRetry(m) \/ GiveUp(m)
    <3>1. /\ handler[m].pc = "failing" /\ handler'[m] = Done
          /\ UNCHANGED <<calls, accepted>>
      BY <2>5 DEF ScheduleRetry, GiveUp, HandlerDone
    <3>2. \E due \in BOOLEAN, next \in Nat :
            WriteBoth(m, Home[m], FirstDoc(m, due, next))
      <4>1. \A rule \in Rules : now + DelayAfter(rule, 1) \in Nat
        BY DelayType, EngineAssumption
      <4>2. QED
        BY <2>5, <4>1 DEF ScheduleRetry, GiveUp
    <3>4. \E w \in Write :
            /\ Issued(m, w) /\ w.doc.retries = 1
            /\ w.doc.built = handler[m].built
      BY <2>3, <3>2
    <3>3. QED
      BY <1>1, <1>3, <3>1, <3>4 DEF MessageNext, FirstFailed, FirstEnds
  <2>6. CASE RuleLookupFails(m)
    <3>1. handler'[m] = Done
      BY <2>6 DEF RuleLookupFails, HandlerDone
    <3>2. QED
      BY <1>1, <1>3, <2>6, <3>1 DEF RuleLookupFails, MessageNext, Ebbs, RepEbbs
  <2>7. QED
    BY <2>1, <2>2, <2>4, <2>5, <2>6 DEF Handle
<1>4. QED
  BY <1>2, <1>3

LEMMA StoreMessage ==
  ASSUME TypeOK, NEW n \in Msgs,
         \/ \E w \in writes : RequestStored(w)
         \/ \E r \in replies : ResponseStored(r)
         \/ WriteLost
  PROVE  MessageNext(n)
<1> USE DEF TypeOK, outcomeVars, StoreSame, Pending, RepsSame
<1>1. ASSUME NEW w \in writes, RequestStored(w) PROVE MessageNext(n)
  <2>1. UNCHANGED <<handler, rep, calls, accepted>>
    BY <1>1 DEF RequestStored
  <2>2. w.msg \in Msgs /\ log' = [log EXCEPT ![w.msg] = w.doc]
    BY <1>1 DEF RequestStored, Write
  <2>3. CASE w.msg = n
    <3>1. w \in Pending(n) /\ log'[n] = w.doc /\ Pending(n)' = Pending(n) \ {w}
      BY <1>1, <2>2, <2>3 DEF RequestStored
    <3>2. QED
      BY <2>1, <3>1 DEF MessageNext, Stored
  <2>4. CASE w.msg # n
    <3>1. log'[n] = log[n] /\ Pending(n)' \subseteq Pending(n)
      BY <1>1, <2>2, <2>4 DEF RequestStored
    <3>2. QED
      BY <2>1, <3>1 DEF MessageNext, Ebbs, RepEbbs
  <2>5. QED
    BY <2>3, <2>4
<1>2. ASSUME NEW r \in replies, ResponseStored(r) PROVE MessageNext(n)
  BY <1>2 DEF ResponseStored, MessageNext, Ebbs, RepEbbs
<1>3. CASE WriteLost
  BY <1>3 DEF WriteLost, MessageNext, Ebbs, RepEbbs
<1>4. QED
  BY <1>1, <1>2, <1>3

LEMMA JobMessage ==
  ASSUME TypeOK, NEW j \in Jobs, Tick(j) \/ JobStep(j) \/ FlagExpires,
         NEW n \in Msgs
  PROVE  MessageNext(n)
<1> USE DEF TypeOK, dbVars, outcomeVars, StoreSame, Pending, RepsSame
<1>1. CASE BatchStarted(j) \/ BatchAborted(j)
  <2>1. PICK S \in SUBSET Fetchable(j) : StartAll(j, S)
    BY <1>1 DEF BatchStarted, BatchAborted, Batches
  <2>2. /\ OtherReps(j, n)
        /\ rep'[j][n] = IF n \in S THEN StartOf(n) ELSE rep[j][n]
    BY <2>1 DEF StartAll, OtherReps
  <2>3. StoreSame(n) /\ UNCHANGED <<handler[n], calls[n], accepted[n]>>
    BY <1>1 DEF BatchStarted, BatchAborted
  <2>4. CASE n \in S
    <3>1. log[n].due
      BY <2>4 DEF Fetchable, Selected
    <3>2. QED
      BY <2>2, <2>3, <2>4, <3>1 DEF MessageNext, Taken
  <2>5. CASE n \notin S
    BY <2>2, <2>3, <2>5 DEF MessageNext, Ebbs, RepEbbs, OtherReps
  <2>6. QED
    BY <2>4, <2>5
<1>2. CASE ~(BatchStarted(j) \/ BatchAborted(j))
  <2>1. UNCHANGED <<handler, log, writes, rep, calls, accepted>>
    BY <1>2 DEF Tick, FlagExpires, JobStep, CloseGate, FlagStep, FlagFault,
                BatchEmpty, FetchFails, BatchSettled
  <2>2. QED
    BY <2>1 DEF MessageNext, Ebbs, RepEbbs
<1>3. QED
  BY <1>1, <1>2

LEMMA ReprocessMessage ==
  ASSUME TypeOK, NEW j \in Jobs, NEW m \in Msgs, Reprocess(j, m),
         NEW n \in Msgs
  PROVE  MessageNext(n)
<1> USE DEF dbVars, outcomeVars, StoreSame, Pending
<1>1. UNCHANGED handler[n] /\ OtherReps(j, n)
  BY ReprocessOthers DEF OtherReps
<1>2. CASE n # m
  BY <1>2, ReprocessOthers DEF MessageNext, Ebbs, RepEbbs
<1>3. CASE n = m
  <2>1. ASSUME StoreSame(m), UNCHANGED <<calls[m], accepted[m]>>, RepEbbs(j, m)
        PROVE  MessageNext(n)
    BY <1>1, <1>3, <2>1 DEF MessageNext, Ebbs, RepEbbs, OtherReps
  <2>2. CASE RecordMarked(j, m)
    <3>1. /\ ~log'[m].due /\ log'[m].retries = rep[j][m].retries
          /\ log'[m].built = log[m].built
      BY <2>2 DEF RecordMarked, TypeOK, Doc
    <3>2. QED
      BY <1>1, <1>3, <2>2, <3>1, RepMoves DEF RecordMarked, MessageNext, Marked
  <2>3. CASE SendAgain(j, m)
    <3>1. calls'[m] = calls[m] + 1
      BY <2>3 DEF SendAgain, Send, TypeOK
    <3>2. QED
      BY <1>1, <1>3, <2>3, <3>1, RepMoves DEF SendAgain, MessageNext, SentAgain
  <2>4. CASE AnswerAccepted(j, m)
    BY <1>1, <1>3, <2>4, RepMoves DEF AnswerAccepted, MessageNext, Accepted
  <2>5. CASE AnswerRefused(j, m) \/ CallFails(j, m)
    BY <1>1, <1>3, <2>5, RepMoves
       DEF AnswerRefused, CallFails, MessageNext, Refused
  <2>6. ASSUME Rejected(j, m), Active(j, m)
        PROVE  /\ RepEbbs(j, m)
               /\ \/ rep'[j][m] = Idle
                  \/ job[j] # "running" /\ rep'[j][m].pc = "rejected"
               /\ rep'[j][m].retries \in {0, rep[j][m].retries}
    <3>1. CASE job[j] = "running"
      BY <2>6, <3>1, RepMoves DEF Rejected, RepEbbs, Idle
    <3>2. CASE job[j] # "running"
      <4>1. RepAt(j, m, "rejected")
        BY <2>6, <3>2 DEF Rejected
      <4>2. /\ rep'[j][m].pc = "rejected"
            /\ rep'[j][m].retries = rep[j][m].retries
        BY <4>1, RepMoves
      <4>3. QED
        BY <2>6, <3>2, <4>2 DEF RepEbbs
    <3>3. QED
      BY <3>1, <3>2
  <2>7. CASE Reschedule(j, m)
    <3>1. Active(j, m) /\ Rejected(j, m)
      BY <2>7 DEF Reschedule, Active
    <3>2. PICK rule \in Rules :
            /\ RetryAfterReprocess(rep[j][m].err, BusinessOf[m], rule,
                   rep[j][m].retries, rep[j][m].next, rep[j][m].failed, now)
            /\ WriteBoth(m, Home[j],
                 [log[m] EXCEPT !.due = TRUE, !.retries = rep[j][m].retries,
                    !.next = rep[j][m].next
                               + DelayAfter(rule, rep[j][m].retries)])
      BY <2>7 DEF Reschedule
    <3>3. \E w \in Write :
            /\ Issued(m, w)
            /\ w.doc.retries = rep[j][m].retries /\ w.doc.built = log[m].built
      <4> DEFINE next == rep[j][m].next + DelayAfter(rule, rep[j][m].retries)
                 doc == [log[m] EXCEPT !.due = TRUE,
                           !.retries = rep[j][m].retries, !.next = next]
                 w == [msg |-> m, home |-> Home[j], doc |-> doc]
      <4>1. log[m] \in Doc /\ rep[j][m].retries \in Nat /\ next \in Nat
        BY DelayType, EngineAssumption DEF TypeOK, Rep
      <4>2. /\ doc \in Doc /\ doc.retries = rep[j][m].retries
            /\ doc.built = log[m].built
        <5> HIDE DEF next
        <5>1. QED
          BY <4>1 DEF Doc
      <4>3. writes' = writes \union {w} /\ UNCHANGED log
        BY <3>2 DEF WriteBoth
      <4>4. w \in Write /\ w.msg = m /\ w.doc = doc
        <5> HIDE DEF doc
        <5>1. QED
          BY <4>2, EngineAssumption DEF Write
      <4> HIDE DEF w, doc
      <4>5. Issued(m, w)
        BY <4>3, <4>4 DEF Issued
      <4>6. QED
        BY <4>2, <4>4, <4>5 DEF Issued
    <3>4. rep[j][m].err # InternalError
      BY <3>2, InternalErrorNotRetried
    <3>5. rep[j][m].retries < NumberOfRetriesAllowed(rule)
      BY <3>2 DEF RetryAfterReprocess
    <3>6. rep[j][m].pc = "failing" /\ UNCHANGED <<calls, accepted>>
      BY <2>7 DEF Reschedule
    <3>7. QED
      BY <1>1, <1>3, <2>6, <3>1, <3>3, <3>4, <3>5, <3>6
         DEF MessageNext, Rescheduled
  <2>8. CASE MarkFails(j, m) \/ SaveFails(j, m)
    <3>1. RepEbbs(j, m)
      BY <2>8, RepMoves DEF MarkFails, SaveFails, RepEbbs, Active
    <3>2. QED
      BY <2>1, <2>8, <3>1 DEF MarkFails, SaveFails
  <2>9. CASE AnswerSaved(j, m)
    BY <2>1, <2>9, RepMoves DEF AnswerSaved, RepEbbs
  <2>10. CASE Cancel(j, m) \/ CancelSaved(j, m)
    <3>1. RepEbbs(j, m)
      BY <2>10, RepMoves DEF Cancel, CancelSaved, RepEbbs, Active
    <3>2. QED
      BY <2>1, <2>10, <3>1 DEF Cancel, CancelSaved
  <2>11. CASE RetryRuleLookupFails(j, m) \/ CancelFails(j, m)
                \/ CancelPublished(j, m)
    <3>1. Rejected(j, m) /\ Active(j, m)
      BY <2>11 DEF RetryRuleLookupFails, CancelFails, CancelPublished, Active
    <3>2. QED
      BY <2>1, <2>6, <2>11, <3>1
         DEF RetryRuleLookupFails, CancelFails, CancelPublished
  <2>12. QED
    BY <2>2, <2>3, <2>4, <2>5, <2>7, <2>8, <2>9, <2>10, <2>11 DEF Reprocess
<1>4. QED
  BY <1>2, <1>3

LEMMA MessageStep ==
  ASSUME TypeOK, [Next]_vars, NEW n \in Msgs
  PROVE  MessageNext(n)
<1>1. ASSUME UNCHANGED <<handler, log, writes, rep, calls, accepted>>
      PROVE  MessageNext(n)
  BY <1>1 DEF MessageNext, Ebbs, RepEbbs, Pending
<1>2. ASSUME NEW i \in Instances, Die(i) PROVE MessageNext(n)
  <2>1. /\ handler'[n] \in {handler[n], Done}
        /\ UNCHANGED <<log, calls, accepted>>
    BY <1>2 DEF Die, outcomeVars
  <2>2. Pending(n)' \subseteq Pending(n)
    BY <1>2 DEF Die, Pending
  <2>3. ASSUME NEW j \in Jobs PROVE rep'[j][n] \in {rep[j][n], Idle}
    BY <1>2 DEF Die
  <2>4. QED
    BY <2>1, <2>2, <2>3 DEF MessageNext, Ebbs, RepEbbs
<1>3. CASE Advance \/ UNCHANGED vars
  BY <1>1, <1>3 DEF Advance, vars, dbVars, outcomeVars
<1>4. CASE FlagExpires
  BY <1>1, <1>4 DEF FlagExpires, dbVars, outcomeVars
<1>5. QED
  BY <1>2, <1>3, <1>4, ReceiveMessage, HandleMessage, StoreMessage, JobMessage,
     ReprocessMessage DEF Next, Crash, UnhandledRejection
-----------------------------------------------------------------------------
(* The stored counter.                                                     *)

(* The rules the policy service keeps do not grow without a bound.         *)
RulesHaveBound ==
  \E b \in Nat : \A rule \in Rules : NumberOfRetriesAllowed(rule) <= b

(* A set of naturals with an upper bound has a largest element.            *)
LEMMA LargestExists ==
  ASSUME NEW S \in SUBSET Nat, S # {}, NEW b \in Nat, \A k \in S : k <= b
  PROVE  \E n \in S : \A k \in S : k <= n
<1> DEFINE T == {i \in 0 .. b : b - i \in S}
<1>1. T \subseteq Nat
  OBVIOUS
<1>2. T # {}
  <2>1. PICK k \in S : TRUE
    OBVIOUS
  <2>2. b - k \in 0 .. b /\ b - (b - k) = k
    OBVIOUS
  <2>3. b - k \in T
    BY <2>2
  <2>4. QED
    BY <2>3
<1>3. \E x \in T : \A y \in T : ~(<<y, x>> \in OpToRel(<, Nat))
  BY <1>1, <1>2, NatLessThanWellFounded, WFMin, Zenon
<1>4. \A x, y \in Nat : <<y, x>> \in OpToRel(<, Nat) <=> y < x
  BY Zenon DEF OpToRel
<1>5. PICK x \in T : \A y \in T : ~(y < x)
  BY <1>1, <1>3, <1>4, Zenon
<1>6. ASSUME NEW k \in S PROVE k <= b - x
  <2>1. b - k \in 0 .. b /\ b - (b - k) = k
    OBVIOUS
  <2>2. b - k \in T
    BY <2>1
  <2>3. ~(b - k < x)
    BY <1>5, <2>2
  <2>4. QED
    BY <2>1, <2>3
<1>7. b - x \in S
  OBVIOUS
<1>8. QED
  BY <1>6, <1>7

LEMMA MaxAttemptsBounds ==
  ASSUME RulesHaveBound
  PROVE  /\ MaxAttempts \in Nat /\ MaxAttempts >= 2
         /\ \A rule \in Rules : NumberOfRetriesAllowed(rule) <= MaxAttempts
<1> DEFINE S == {NumberOfRetriesAllowed(rule) : rule \in Rules} \union {2}
<1>1. \A rule \in Rules : NumberOfRetriesAllowed(rule) \in Nat
  BY EngineAssumption, TimeAssumption
     DEF NumberOfRetriesAllowed, GetRetriesMaximunByType, IsRule
<1>2. S \in SUBSET Nat /\ 2 \in S
  BY <1>1
<1>3. PICK b \in Nat : \A rule \in Rules : NumberOfRetriesAllowed(rule) <= b
  BY DEF RulesHaveBound
<1>4. PICK c \in Nat : b <= c /\ 2 <= c
  BY <1>3
<1>5. \A k \in S : k <= c
  BY <1>1, <1>3, <1>4
<1>6. \E n \in S : \A k \in S : k <= n
  <2> HIDE DEF S
  <2>1. QED
    BY <1>2, <1>5, LargestExists
<1>7. MaxAttempts = CHOOSE n \in S : \A k \in S : k <= n
  BY DEF MaxAttempts
<1>8. MaxAttempts \in S /\ \A k \in S : k <= MaxAttempts
  <2> HIDE DEF S
  <2>1. QED
    BY <1>6, <1>7
<1>9. QED
  BY <1>2, <1>8

(* A counter at the bound is not due: it is written as due only by a       *)
(* handler that has found it below the maximum of a rule.                  *)
DocBounded(doc) ==
  /\ doc.retries <= MaxAttempts
  /\ doc.due => doc.retries < MaxAttempts

CountBounded(n) ==
  /\ DocBounded(log[n])
  /\ \A w \in Pending(n) : DocBounded(w.doc)
  /\ \A j \in Jobs : rep[j][n].retries <= MaxAttempts

CountInv == \A n \in Msgs : CountBounded(n)

LEMMA CountStep ==
  ASSUME RulesHaveBound, TypeOK, NEW n \in Msgs, CountBounded(n),
         MessageNext(n)
  PROVE  CountBounded(n)'
<1> USE MaxAttemptsBounds DEF CountBounded, DocBounded
<1>1. log[n] \in Doc /\ \A j \in Jobs : rep[j][n] \in Rep
  BY DEF TypeOK
<1>2. UNCHANGED MaxAttempts
  BY DEF MaxAttempts, NumberOfRetriesAllowed, GetRetriesMaximunByType
<1>3. CASE Ebbs(n)
  BY <1>2, <1>3 DEF Ebbs, RepEbbs, Idle
<1>4. CASE FirstMoves(n) \/ FirstSent(n)
  BY <1>2, <1>4 DEF FirstMoves, FirstSent, StoreSame, RepsSame
<1>5. CASE FirstAccepted(n) \/ FirstFailed(n)
  BY <1>2, <1>5
     DEF FirstAccepted, FirstFailed, FirstEnds, Issued, RepsSame
<1>6. CASE Stored(n)
  BY <1>2, <1>6 DEF Stored, RepsSame
<1>7. ASSUME NEW j \in Jobs, Taken(j, n) PROVE CountBounded(n)'
  BY <1>1, <1>2, <1>7 DEF Taken, StartOf, StoreSame, OtherReps, Doc
<1>8. ASSUME NEW j \in Jobs, Marked(j, n) PROVE CountBounded(n)'
  BY <1>1, <1>2, <1>8 DEF Marked, OtherReps, Doc
<1>9. ASSUME NEW j \in Jobs,
             SentAgain(j, n) \/ Accepted(j, n) \/ Refused(j, n)
      PROVE  CountBounded(n)'
  BY <1>2, <1>9 DEF SentAgain, Accepted, Refused, StoreSame, OtherReps
<1>10. ASSUME NEW j \in Jobs, Rescheduled(j, n) PROVE CountBounded(n)'
  <2>1. PICK rule \in Rules : rep[j][n].retries < NumberOfRetriesAllowed(rule)
    BY <1>10 DEF Rescheduled
  <2>2. /\ NumberOfRetriesAllowed(rule) \in Int
        /\ NumberOfRetriesAllowed(rule) <= MaxAttempts
    BY EngineAssumption, TimeAssumption
       DEF NumberOfRetriesAllowed, GetRetriesMaximunByType, IsRule
  <2>3. rep[j][n].retries \in Nat /\ rep[j][n].retries < MaxAttempts
    BY <1>1, <2>1, <2>2 DEF Rep
  <2>4. \A k \in Jobs : rep'[k][n].retries <= MaxAttempts
    BY <1>10, <2>3 DEF Rescheduled, OtherReps
  <2>5. QED
    BY <1>2, <1>10, <2>3, <2>4 DEF Rescheduled, Issued
<1>11. QED
  BY <1>3, <1>4, <1>5, <1>6, <1>7, <1>8, <1>9, <1>10 DEF MessageNext

(* The stored counter never passes the largest maximum of the rules, in    *)
(* any deployment: with any number of processes and overlapping jobs, any  *)
(* fault, and the writes nobody waits for applied in any order.            *)
THEOREM CounterBounded ==
  ASSUME RulesHaveBound
  PROVE  Spec => []RetriesBounded
<1>1. Init => CountInv
  BY MaxAttemptsBounds
     DEF Init, CountInv, CountBounded, DocBounded, Pending, NoDoc, Idle
<1>2. TypeOK /\ CountInv /\ [Next]_vars => CountInv'
  BY MessageStep, CountStep DEF CountInv
<1>3. CountInv => RetriesBounded
  BY DEF CountInv, CountBounded, DocBounded, RetriesBounded
<1>4. QED
  BY <1>1, <1>2, <1>3, TypeCorrect, PTL DEF Spec
-----------------------------------------------------------------------------
(* A first attempt that is accepted.                                       *)

(* While create handles n nothing else knows of n, and it sends n once.    *)
Untouched(n) ==
  handler[n].pc # "done" =>
    /\ ~log[n].due /\ Pending(n) = {} /\ \A j \in Jobs : ~Active(j, n)
    /\ accepted[n] = {} /\ calls[n] <= 1
    /\ handler[n].pc \in {"queued", "fetchingToken"} => calls[n] = 0
    /\ handler[n].pc = "calling" \/ handler[n].built => calls[n] = 1

(* A record with a built request is the record of a call, and only such a  *)
(* record is sent again.                                                   *)
CallsBehind(n) ==
  /\ log[n].built => calls[n] >= 1
  /\ \A w \in Pending(n) : w.doc.built => calls[n] >= 1
  /\ \A j \in Jobs :
        /\ rep[j][n].pc \in {"marking", "marked"} => calls[n] >= 1
        /\ rep[j][n].pc \in {"calling", "saving"} => calls[n] >= 2

(* One call and one accepted answer: nothing is left that may send again.  *)
SettledByFirst(n) ==
  accepted[n] # {} /\ calls[n] = 1 =>
    /\ ~log[n].due
    /\ \A w \in Pending(n) : ~w.doc.due
    /\ \A j \in Jobs : ~Active(j, n)

FirstCallInv ==
  \A n \in Msgs : Untouched(n) /\ CallsBehind(n) /\ SettledByFirst(n)

LEMMA UntouchedStep ==
  ASSUME TypeOK, NEW n \in Msgs, Untouched(n), MessageNext(n)
  PROVE  Untouched(n)'
<1> USE DEF Untouched, Active
<1>1. calls[n] \in Nat
  BY DEF TypeOK
<1>2. CASE Ebbs(n)
  BY <1>2 DEF Ebbs, RepEbbs, Idle, Done
<1>3. CASE FirstMoves(n) \/ FirstSent(n)
  BY <1>1, <1>3 DEF FirstMoves, FirstSent, StoreSame, RepsSame
<1>4. CASE FirstAccepted(n) \/ FirstFailed(n)
  BY <1>4 DEF FirstAccepted, FirstFailed, FirstEnds, Done
<1>5. CASE Stored(n)
  BY <1>5 DEF Stored
<1>6. ASSUME NEW j \in Jobs,
             \/ Taken(j, n) \/ Marked(j, n) \/ SentAgain(j, n)
             \/ Accepted(j, n) \/ Refused(j, n) \/ Rescheduled(j, n)
      PROVE  Untouched(n)'
  BY <1>6 DEF Taken, Marked, SentAgain, Accepted, Refused, Rescheduled
<1>7. QED
  BY <1>2, <1>3, <1>4, <1>5, <1>6 DEF MessageNext

LEMMA CallsBehindStep ==
  ASSUME TypeOK, NEW n \in Msgs, Untouched(n), CallsBehind(n), MessageNext(n)
  PROVE  CallsBehind(n)'
<1> USE DEF CallsBehind
<1>1. /\ calls[n] \in Nat /\ log[n] \in Doc
      /\ \A j \in Jobs : rep[j][n] \in Rep
  BY DEF TypeOK
<1>2. CASE Ebbs(n)
  BY <1>1, <1>2 DEF Ebbs, RepEbbs, Idle
<1>3. CASE FirstMoves(n) \/ FirstSent(n)
  BY <1>1, <1>3 DEF FirstMoves, FirstSent, StoreSame, RepsSame, Untouched, Active
<1>4. CASE FirstAccepted(n) \/ FirstFailed(n)
  BY <1>1, <1>4 DEF FirstAccepted, FirstFailed, FirstEnds, Issued,
                    RepsSame, Untouched
<1>5. CASE Stored(n)
  BY <1>5 DEF Stored, RepsSame
<1>6. ASSUME NEW j \in Jobs, Taken(j, n) PROVE CallsBehind(n)'
  BY <1>6 DEF Taken, StartOf, StoreSame, OtherReps
<1>7. ASSUME NEW j \in Jobs, Marked(j, n) PROVE CallsBehind(n)'
  BY <1>1, <1>7 DEF Marked, OtherReps, Doc
<1>8. ASSUME NEW j \in Jobs,
             SentAgain(j, n) \/ Accepted(j, n) \/ Refused(j, n)
      PROVE  CallsBehind(n)'
  BY <1>1, <1>8 DEF SentAgain, Accepted, Refused, StoreSame, OtherReps
<1>9. ASSUME NEW j \in Jobs, Rescheduled(j, n) PROVE CallsBehind(n)'
  BY <1>1, <1>9 DEF Rescheduled, Issued, OtherReps, Doc, Idle
<1>10. QED
  BY <1>2, <1>3, <1>4, <1>5, <1>6, <1>7, <1>8, <1>9 DEF MessageNext

LEMMA SettledByFirstStep ==
  ASSUME TypeOK, NEW n \in Msgs, Untouched(n), CallsBehind(n),
         SettledByFirst(n), MessageNext(n)
  PROVE  SettledByFirst(n)'
<1> USE DEF SettledByFirst, Active
<1>1. calls[n] \in Nat /\ log[n] \in Doc
  BY DEF TypeOK
<1>2. CASE Ebbs(n)
  BY <1>2 DEF Ebbs, RepEbbs, Idle
<1>3. CASE FirstMoves(n) \/ FirstSent(n)
  BY <1>3 DEF FirstMoves, FirstSent, StoreSame, RepsSame, Untouched
<1>4. CASE FirstAccepted(n)
  BY <1>4 DEF FirstAccepted, FirstEnds, Issued, RepsSame, Untouched
<1>5. CASE FirstFailed(n)
  BY <1>5 DEF FirstFailed, FirstEnds, Untouched
<1>6. CASE Stored(n)
  BY <1>6 DEF Stored, RepsSame
<1>7. ASSUME NEW j \in Jobs, Accepted(j, n) PROVE SettledByFirst(n)'
  BY <1>1, <1>7 DEF Accepted, CallsBehind
<1>8. ASSUME NEW j \in Jobs, SentAgain(j, n) PROVE SettledByFirst(n)'
  BY <1>1, <1>8 DEF SentAgain, CallsBehind
<1>9. ASSUME NEW j \in Jobs,
             Taken(j, n) \/ Marked(j, n) \/ Refused(j, n) \/ Rescheduled(j, n)
      PROVE  SettledByFirst(n)'
  BY <1>9 DEF Taken, Marked, Refused, Rescheduled
<1>10. QED
  BY <1>2, <1>3, <1>4, <1>5, <1>6, <1>7, <1>8, <1>9 DEF MessageNext

LEMMA FirstCallInvInvariant == Spec => [](TypeOK /\ FirstCallInv)
<1>1. Init => FirstCallInv
  BY DEF Init, FirstCallInv, Untouched, CallsBehind, SettledByFirst, Pending,
         NoDoc, Idle, Active
<1>2. TypeOK /\ FirstCallInv /\ [Next]_vars => FirstCallInv'
  BY MessageStep, UntouchedStep, CallsBehindStep, SettledByFirstStep
     DEF FirstCallInv
<1>3. QED
  BY <1>1, <1>2, TypeCorrect, PTL DEF Spec

(* A transaction the acquirer accepts at the first attempt is never sent   *)
(* again, in any deployment: no record of it is ever due.                  *)
THEOREM FirstAcceptFinal == Spec => FirstAcceptIsFinal
<1>1. ASSUME TypeOK, FirstCallInv, [Next]_vars, NEW n \in Msgs,
             accepted[n] # {}, calls[n] = 1
      PROVE  calls'[n] = calls[n]
  <2>1. Untouched(n) /\ SettledByFirst(n) /\ MessageNext(n)
    BY <1>1, MessageStep DEF FirstCallInv
  <2>2. ~FirstSent(n) /\ \A j \in Jobs : ~SentAgain(j, n)
    BY <1>1, <2>1 DEF Untouched, SettledByFirst, FirstSent, SentAgain, Active
  <2>3. QED
    BY <2>1, <2>2 DEF MessageNext, Ebbs, FirstMoves, FirstAccepted, FirstFailed,
          FirstEnds, Stored, Taken, Marked, Accepted, Refused, Rescheduled
<1>2. TypeOK /\ FirstCallInv /\ [Next]_vars
        => [\A m \in Msgs : accepted[m] # {} /\ calls[m] = 1
                              => calls'[m] = calls[m]]_vars
  BY <1>1
<1>3. QED
  BY <1>2, FirstCallInvInvariant, PTL DEF Spec, FirstAcceptIsFinal
-----------------------------------------------------------------------------
(* The deployment the flag is written for: one job has the transaction.    *)

(* A write on its way is the last word on n: nothing else is under way.    *)
LastWord(n) ==
  \A w \in Pending(n) :
    /\ Pending(n) = {w}
    /\ ~log[n].due
    /\ \A j \in Jobs : ~Active(j, n)
    /\ w.doc.due => accepted[n] = {}
    /\ calls[n] <= w.doc.retries

DueCounted(n) == log[n].due => accepted[n] = {} /\ calls[n] <= log[n].retries

(* The record and the calls agree once create is done.                     *)
RecordCounts(n) ==
  /\ handler[n].pc # "done" => log[n].retries = 0
  /\ handler[n].pc = "done" /\ log[n].retries > 0 => calls[n] <= log[n].retries

(* A reprocessing counts the call it makes before it makes it, and knows   *)
(* of no accepted answer until it has one.                                 *)
AttemptCounted(j, n) ==
  LET r == rep[j][n]
  IN  Active(j, n) =>
        /\ calls[n] <= r.retries
        /\ r.pc \in {"marking", "marked"} =>
             calls[n] < r.retries /\ accepted[n] = {}
        /\ \/ r.pc \in {"marked", "calling"}
           \/ r.pc = "failing" /\ r.err # InternalError
           => ~log[n].due /\ log[n].retries = r.retries /\ accepted[n] = {}

CallsCountedFor(n) ==
  /\ LastWord(n) /\ DueCounted(n) /\ RecordCounts(n)
  /\ \A j \in Jobs : AttemptCounted(j, n)

CallsInv == \A n \in Msgs : Untouched(n) /\ CallsCountedFor(n)

(* The steps of create, which has n for itself.                            *)
LEMMA FirstCountedStep ==
  ASSUME TypeOK, NEW n \in Msgs, Untouched(n), CallsCountedFor(n),
         \/ FirstMoves(n) \/ FirstSent(n) \/ FirstAccepted(n) \/ FirstFailed(n)
  PROVE  CallsCountedFor(n)'
<1> USE DEF CallsCountedFor, LastWord, DueCounted, RecordCounts,
            AttemptCounted, Active
<1>1. calls[n] \in Nat
  BY DEF TypeOK
<1>2. CASE FirstMoves(n) \/ FirstSent(n)
  BY <1>1, <1>2 DEF FirstMoves, FirstSent, StoreSame, RepsSame, Untouched
<1>3. CASE FirstAccepted(n)
  BY <1>1, <1>3 DEF FirstAccepted, FirstEnds, Issued, RepsSame,
                    Untouched, Done
<1>4. CASE FirstFailed(n)
  BY <1>1, <1>4 DEF FirstFailed, FirstEnds, Issued, RepsSame,
                    Untouched, Done
<1>5. QED
  BY <1>2, <1>3, <1>4

(* The steps of a reprocessing, which has n for itself.                    *)
LEMMA ReprocessCountedStep ==
  ASSUME TypeOK, BatchOwnsWork, OneReprocessing, NEW n \in Msgs,
         Untouched(n), CallsCountedFor(n), NEW j \in Jobs,
         \/ Marked(j, n) \/ SentAgain(j, n) \/ Accepted(j, n)
         \/ Refused(j, n) \/ Rescheduled(j, n)
  PROVE  CallsCountedFor(n)'
<1> USE DEF CallsCountedFor, LastWord, DueCounted, RecordCounts,
            AttemptCounted
<1>1. /\ calls[n] \in Nat /\ log[n] \in Doc
      /\ rep[j][n] \in Rep
  BY DEF TypeOK
<1>2. Active(j, n)
  BY DEF Marked, SentAgain, Accepted, Refused, Rescheduled, Active
<1>3. \A k \in Jobs \ {j} : ~Active(k, n) /\ ~Active(k, n)'
  BY <1>2 DEF OneReprocessing, Marked, SentAgain, Accepted, Refused,
              Rescheduled, OtherReps, Active
<1>4. Pending(n) = {} /\ handler[n].pc = "done"
  BY <1>2 DEF Untouched
<1>5. CASE Marked(j, n)
  BY <1>1, <1>2, <1>3, <1>4, <1>5 DEF Marked, Rep
<1>6. CASE SentAgain(j, n)
  BY <1>1, <1>2, <1>3, <1>4, <1>6 DEF SentAgain, StoreSame, Rep
<1>7. CASE Accepted(j, n)
  BY <1>1, <1>2, <1>3, <1>4, <1>7 DEF Accepted, StoreSame
<1>8. CASE Refused(j, n)
  BY <1>1, <1>2, <1>3, <1>4, <1>8 DEF Refused, StoreSame
<1>9. CASE Rescheduled(j, n)
  <2>1. ~Active(j, n)'
    BY <1>2, <1>9 DEF Rescheduled, BatchOwnsWork, Active, Idle
  <2>2. PICK w \in Write : Issued(n, w) /\ w.doc.retries = rep[j][n].retries
    BY <1>9 DEF Rescheduled
  <2>3. Pending(n)' = {w} /\ UNCHANGED log[n]
    BY <1>4, <2>2 DEF Issued
  <2>4. QED
    BY <1>1, <1>2, <1>3, <1>4, <1>9, <2>1, <2>2, <2>3 DEF Rescheduled
<1>10. QED
  BY <1>5, <1>6, <1>7, <1>8, <1>9

LEMMA CallsCountedStep ==
  ASSUME TypeOK, BatchOwnsWork, OneReprocessing, NEW n \in Msgs,
         Untouched(n), CallsCountedFor(n), MessageNext(n)
  PROVE  CallsCountedFor(n)'
<1> USE DEF CallsCountedFor, LastWord, DueCounted, RecordCounts,
            AttemptCounted
<1>1. /\ calls[n] \in Nat /\ log[n] \in Doc
      /\ \A j \in Jobs : rep[j][n] \in Rep
  BY DEF TypeOK
<1>2. CASE Ebbs(n)
  <2>1. LastWord(n)' /\ DueCounted(n)' /\ RecordCounts(n)'
    BY <1>1, <1>2 DEF Ebbs, RepEbbs, Active, Idle, Done
  <2>2. ASSUME NEW j \in Jobs PROVE AttemptCounted(j, n)'
    BY <1>1, <1>2 DEF Ebbs, RepEbbs, Active, Idle
  <2>3. QED
    BY <2>1, <2>2
<1>3. CASE Stored(n)
  BY <1>1, <1>3 DEF Stored, RepsSame, Active, Untouched
<1>4. ASSUME NEW j \in Jobs, Taken(j, n) PROVE CallsCountedFor(n)'
  <2>1. Pending(n)' = {} /\ handler[n].pc = "done"
    BY <1>4 DEF Taken, StoreSame, Untouched
  <2>2. AttemptCounted(j, n)'
    BY <1>1, <1>4 DEF Taken, StoreSame, StartOf, Doc
  <2>3. \A k \in Jobs \ {j} : AttemptCounted(k, n)'
    BY <1>4 DEF Taken, StoreSame, OtherReps, Active
  <2>4. QED
    BY <1>4, <2>1, <2>2, <2>3 DEF Taken, StoreSame
<1>5. QED
  BY <1>2, <1>3, <1>4, FirstCountedStep, ReprocessCountedStep DEF MessageNext

LEMMA CallsInvInvariant ==
  ASSUME SoundDeployment
  PROVE  Spec => [](TypeOK /\ BatchInv /\ CallsInv)
<1>1. Init => CallsInv
  BY DEF Init, CallsInv, Untouched, CallsCountedFor, LastWord, DueCounted,
         RecordCounts, AttemptCounted, Active, Pending, NoDoc, Idle
<1>2. TypeOK /\ BatchInv /\ CallsInv /\ [Next]_vars => CallsInv'
  BY BatchInvExcludes, MessageStep, UntouchedStep, CallsCountedStep
     DEF BatchInv, CallsInv
<1>3. QED
  BY <1>1, <1>2, BatchInvInvariant, PTL DEF Spec

(* In the deployment the flag is written for, a transaction the acquirer   *)
(* has accepted is never sent again: not after a failed save of the        *)
(* answer, not after a crash at any point, not by a write applied late.    *)
THEOREM NoResend ==
  ASSUME SoundDeployment
  PROVE  Spec => NoResendAfterAccept
<1>1. ASSUME TypeOK, CallsInv, [Next]_vars, NEW n \in Msgs, accepted[n] # {}
      PROVE  calls'[n] = calls[n]
  <2>1. Untouched(n) /\ CallsCountedFor(n) /\ MessageNext(n)
    BY <1>1, MessageStep DEF CallsInv
  <2>2. ~FirstSent(n) /\ \A j \in Jobs : ~SentAgain(j, n)
    BY <1>1, <2>1 DEF Untouched, CallsCountedFor, AttemptCounted, FirstSent,
                      SentAgain, Active
  <2>3. QED
    BY <2>1, <2>2 DEF MessageNext, Ebbs, FirstMoves, FirstAccepted, FirstFailed,
          FirstEnds, Stored, Taken, Marked, Accepted, Refused, Rescheduled
<1>2. TypeOK /\ BatchInv /\ CallsInv /\ [Next]_vars
        => [\A m \in Msgs : accepted[m] # {} => calls'[m] = calls[m]]_vars
  BY <1>1
<1>3. QED
  BY <1>2, CallsInvInvariant, PTL DEF Spec, NoResendAfterAccept

(* In that deployment the record counts every call, whenever the process   *)
(* dies.                                                                   *)
THEOREM EveryCallCounted ==
  ASSUME SoundDeployment
  PROVE  Spec => []CallsCounted
<1>1. CallsInv => CallsCounted
  BY DEF CallsInv, CallsCountedFor, RecordCounts, CallsCounted
<1>2. QED
  BY <1>1, CallsInvInvariant, PTL

(* In that deployment, with rules that have a bound, no transaction is     *)
(* sent more often than the largest maximum of the rules, or twice.        *)
THEOREM CallsNeverExceedRules ==
  ASSUME SoundDeployment, RulesHaveBound
  PROVE  Spec => []CallsBounded
<1>1. Init => CountInv /\ CallsBounded
  BY MaxAttemptsBounds
     DEF Init, CountInv, CountBounded, DocBounded, Pending, NoDoc, Idle,
         CallsBounded
<1>2. TypeOK /\ CountInv /\ [Next]_vars => CountInv'
  BY MessageStep, CountStep DEF CountInv
<1>3. ASSUME TypeOK, CallsInv, CountInv, CallsBounded, [Next]_vars
      PROVE  CallsBounded'
  <2>1. UNCHANGED MaxAttempts
    BY DEF MaxAttempts, NumberOfRetriesAllowed, GetRetriesMaximunByType
  <2>2. ASSUME NEW n \in Msgs PROVE calls'[n] <= MaxAttempts
    <3>1. /\ Untouched(n) /\ CallsCountedFor(n) /\ CountBounded(n)
          /\ MessageNext(n) /\ calls[n] <= MaxAttempts
      BY <1>3, MessageStep DEF CallsInv, CountInv, CallsBounded
    <3>2. CASE FirstSent(n)
      BY <3>1, <3>2, MaxAttemptsBounds DEF FirstSent, Untouched
    <3>3. ASSUME NEW j \in Jobs, SentAgain(j, n)
          PROVE  calls'[n] <= MaxAttempts
      <4>1. calls[n] < rep[j][n].retries
        BY <3>1, <3>3 DEF CallsCountedFor, AttemptCounted, SentAgain, Active
      <4>2. rep[j][n].retries <= MaxAttempts
        BY <3>1 DEF CountBounded
      <4>3. calls[n] \in Nat /\ rep[j][n].retries \in Nat
        BY <1>3 DEF TypeOK, Rep
      <4>4. QED
        BY <3>3, <4>1, <4>2, <4>3, MaxAttemptsBounds DEF SentAgain
    <3>4. CASE ~FirstSent(n) /\ \A j \in Jobs : ~SentAgain(j, n)
      BY <3>1, <3>4 DEF MessageNext, Ebbs, FirstMoves, FirstAccepted,
           FirstFailed, FirstEnds, Stored, Taken, Marked, Accepted, Refused,
           Rescheduled
    <3>5. QED
      BY <3>2, <3>3, <3>4
  <2>3. QED
    BY <2>1, <2>2 DEF CallsBounded
<1>4. QED
  BY <1>1, <1>2, <1>3, CallsInvInvariant, PTL DEF Spec
=============================================================================
