---------------------------- MODULE RetryEngine ----------------------------
(***************************************************************************)
(* CreateTransactionService: the life of a failed card or transfer         *)
(* reversal from the message that asks for it to its last attempt.         *)
(*                                                                         *)
(* A message is handled by create: it sends the transaction to the         *)
(* acquirer and stores a request record, due to be retried when the error  *)
(* is one the retry rules accept.  The retry job (module JobGate) fetches  *)
(* the due records and starts reprocessTransaction on each: the record is  *)
(* marked as taken, the transaction is sent again, and the answer is       *)
(* stored, a new date is written, or the retries are cancelled and the     *)
(* result is published to the transaction processor.                       *)
(*                                                                         *)
(* Steps are cut at the awaits: between two steps of one handler any other *)
(* handler, reprocessing, job or database write may take its own.          *)
(***************************************************************************)
EXTENDS RetryRules

CONSTANTS
    Msgs,               \* deliveries of the retry queue
    Jobs,               \* executions of retry() that may be alive at once
    Instances,          \* processes of the service
    Home,               \* Home[x]: the process of delivery or execution x
    BusinessOf,         \* business.name of a delivery, "none" if it has none
    NoHeaders,          \* deliveries whose request.options has no headers
    Rules,              \* what the retry-policy lookup may answer
    AcquirerErrors,     \* errors of a call to the acquirer
    TokenErrors,        \* errors of a call to the tbk-mall adapter
    AnswerStatuses,     \* the status field of an answer's body
    PendingConfigured,  \* is api_tin.errorMssgRelatedToStatusPending set
    BatchSize,          \* appConfig.numberOfTrxToProcess
    MongoMayFail,       \* whether a database call may be rejected
    CacheMayFail,       \* whether a cache call may be rejected
    ProducerMayFail,    \* whether producer.send may fail
    FlagLifetime,       \* lifetime of the cached flag, see JobGate
    MayCrash,           \* whether a process may be killed
    TicksApart,         \* are ticks further apart than two cache calls
    LastArrival,        \* bound: no message is received after this time
    MaxTime,            \* bound: the clock stops here
    PublishBound        \* bound: published is counted up to here

ASSUME EngineAssumption ==
    /\ \A x \in Jobs \union Msgs : Home[x] \in Instances
    /\ \A rule \in Rules : IsRule(rule)
    /\ NoHeaders \subseteq Msgs
    /\ MaxTime \in Nat
    /\ PublishBound \in Nat \ {0}

VARIABLES
    now,        \* the clock
    flag,       \* the cached flag, see JobGate
    job,        \* the phase of every execution of retry(), see JobGate
    today,      \* today[j]: the date execution j fetches by
    handler,    \* handler[m]: the execution of create for delivery m
    log,        \* log[m]: the request record of m in the database
    responses,  \* responses[m]: the attempts whose response record is stored
    writes,     \* request-record writes issued and not awaited
    replies,    \* response-record writes issued and not awaited
    rep,        \* rep[j][m]: reprocessTransaction of m, started by j
    calls,      \* calls[m]: requests sent to the acquirer for m
    accepted,   \* accepted[m]: status of the answers taken for a success
    published   \* published[m]: results of m sent to the processor

gateVars == <<flag, job>>
dbVars == <<log, responses, writes, replies>>
outcomeVars == <<calls, accepted, published>>
vars == <<now, gateVars, today, handler, dbVars, rep, outcomeVars>>

(* A process may also die of an unhandled rejection, so that the flag has  *)
(* to live with crashes in every deployment.                               *)
Gate == INSTANCE JobGate WITH MayCrash <- TRUE
-----------------------------------------------------------------------------
Errors ==
    AcquirerErrors \union TokenErrors \union {InternalError}
        \union {ErrorOfAnswer(s) : s \in AnswerStatuses}

(* A request record: is it due to be retried, how often has it been sent,  *)
(* when is it sent next, when was it stored, does it hold a built request. *)
Doc == [due : BOOLEAN, retries : Nat, next : Nat, created : Nat, built : BOOLEAN]

NoDoc == [due |-> FALSE, retries |-> 0, next |-> 0, created |-> 0,
          built |-> FALSE]

Write == [msg : Msgs, home : Instances, doc : Doc]

Reply == [msg : Msgs, home : Instances, attempt : Nat]

HandlerPhases == {"queued", "fetchingToken", "calling", "failing", "done"}

RepPhases == {"idle", "marking", "marked", "calling", "saving", "failing",
              "cancelling", "publishing", "rejected"}

Handler == [pc : HandlerPhases, err : Errors, built : BOOLEAN]

(* A reprocessing: its number, the date it was planned for, the error it   *)
(* ended with and when.                                                    *)
Rep == [pc : RepPhases, retries : Nat, next : Nat, err : Errors, failed : Nat]

Idle == [pc |-> "idle", retries |-> 0, next |-> 0, err |-> InternalError,
         failed |-> 0]

TypeOK ==
    /\ now \in Nat
    /\ Gate!TypeOK
    /\ today \in [Jobs -> Nat]
    /\ handler \in [Msgs -> Handler]
    /\ log \in [Msgs -> Doc]
    /\ responses \in [Msgs -> SUBSET Nat]
    /\ writes \subseteq Write
    /\ replies \subseteq Reply
    /\ rep \in [Jobs -> [Msgs -> Rep]]
    /\ calls \in [Msgs -> Nat]
    /\ accepted \in [Msgs -> SUBSET AnswerStatuses]
    /\ published \in [Msgs -> 0 .. PublishBound]

Init ==
    /\ now = 0
    /\ Gate!Init
    /\ today = [j \in Jobs |-> 0]
    /\ handler = [m \in Msgs |->
                    [pc |-> "queued", err |-> InternalError, built |-> FALSE]]
    /\ log = [m \in Msgs |-> NoDoc]
    /\ responses = [m \in Msgs |-> {}]
    /\ writes = {}
    /\ replies = {}
    /\ rep = [j \in Jobs |-> [m \in Msgs |-> Idle]]
    /\ calls = [m \in Msgs |-> 0]
    /\ accepted = [m \in Msgs |-> {}]
    /\ published = [m \in Msgs |-> 0]
-----------------------------------------------------------------------------
(* publishToTransactionProcessor.  For the businesses of API-TIN it looks  *)
(* the message up in a configured list and throws when there is none.      *)
SentResults(m) ==
    CASE BusinessOf[m] \in BUSINESS_NAMES /\ ~PendingConfigured -> {0}
      [] ProducerMayFail -> {0, 1}
      [] OTHER -> {1}

Publish(m) ==
    \E sent \in SentResults(m) :
        published' = [published EXCEPT
            ![m] = IF @ + sent <= PublishBound THEN @ + sent ELSE @]

(* doRequest has been called: the request is on its way to the acquirer.   *)
Send(m) == calls' = [calls EXCEPT ![m] = @ + 1]

Accept(m, status) == accepted' = [accepted EXCEPT ![m] = @ \union {status}]

(* A request and a response record written without waiting for either      *)
(* (Promise.allSettled that is not awaited).                               *)
WriteBoth(m, home, doc) ==
    /\ writes' = writes \union {[msg |-> m, home |-> home, doc |-> doc]}
    /\ replies' = replies \union
                    {[msg |-> m, home |-> home, attempt |-> doc.retries]}
    /\ UNCHANGED <<log, responses>>
-----------------------------------------------------------------------------
(* create: the first attempt.                                              *)

(* buildAdditionalDataForTransaction has no method for the business, or    *)
(* its method reads a header of a request without headers.                 *)
CannotBuild(m) ==
    \/ BusinessOf[m] \notin BuiltBusinesses
    \/ m \in NoHeaders /\ BusinessOf[m] \in BUSINESS_NAMES \union {"tbk_mall"}

HandlerAt(m, pc, err, built) ==
    handler' = [handler EXCEPT ![m] = [pc |-> pc, err |-> err, built |-> built]]

Done == [pc |-> "done", err |-> InternalError, built |-> FALSE]

HandlerDone(m) == handler' = [handler EXCEPT ![m] = Done]

(* BaseController.create acknowledges the message before it calls create.  *)
Received(m) ==
    /\ now <= LastArrival
    /\ handler[m].pc = "queued"
    /\ UNCHANGED <<now, gateVars, today, dbVars, rep, accepted, published>>

(* A body without a business: the catch of create reads business.name too, *)
(* throws, and nothing is stored or published.                             *)
ReceiveMalformed(m) ==
    /\ Received(m)
    /\ BusinessOf[m] = "none"
    /\ HandlerDone(m)
    /\ UNCHANGED calls

ReceiveUnbuildable(m) ==
    /\ Received(m)
    /\ BusinessOf[m] # "none"
    /\ CannotBuild(m)
    /\ HandlerAt(m, "failing", InternalError, FALSE)
    /\ UNCHANGED calls

ReceiveTbkMall(m) ==
    /\ Received(m)
    /\ BusinessOf[m] = "tbk_mall"
    /\ ~CannotBuild(m)
    /\ HandlerAt(m, "fetchingToken", InternalError, FALSE)
    /\ UNCHANGED calls

ReceiveAndSend(m) ==
    /\ Received(m)
    /\ BusinessOf[m] # "tbk_mall"
    /\ ~CannotBuild(m)
    /\ HandlerAt(m, "calling", InternalError, TRUE)
    /\ Send(m)

TokenReturned(m) ==
    /\ handler[m].pc = "fetchingToken"
    /\ HandlerAt(m, "calling", InternalError, TRUE)
    /\ Send(m)
    /\ UNCHANGED <<now, gateVars, today, dbVars, rep, accepted, published>>

TokenFails(m) ==
    /\ handler[m].pc = "fetchingToken"
    /\ \E err \in TokenErrors : HandlerAt(m, "failing", err, FALSE)
    /\ UNCHANGED <<now, gateVars, today, dbVars, rep, outcomeVars>>

(* Mutants of FirstDoc: every record is stored as due, or none.            *)
FirstDocAlwaysDue(m, due, next) ==
    [due |-> TRUE, retries |-> 1, next |-> next, created |-> now,
     built |-> handler[m].built]

FirstDocNeverDue(m, due, next) ==
    [due |-> FALSE, retries |-> 1, next |-> next, created |-> now,
     built |-> handler[m].built]

(* The record create stores: TransactionLogMapper sets retries to 1.       *)
FirstDoc(m, due, next) ==
    [due |-> due, retries |-> 1, next |-> next, created |-> now,
     built |-> handler[m].built]

FirstAnswerAccepted(m) ==
    /\ handler[m].pc = "calling"
    /\ \E status \in AnswerStatuses :
        /\ ~ThrowErrorIfAllowed(BusinessOf[m], status)
        /\ Accept(m, status)
    /\ WriteBoth(m, Home[m], FirstDoc(m, FALSE, 0))
    /\ HandlerDone(m)
    /\ UNCHANGED <<now, gateVars, today, rep, calls, published>>

FirstAnswerRefused(m) ==
    /\ handler[m].pc = "calling"
    /\ \E status \in AnswerStatuses :
        /\ ThrowErrorIfAllowed(BusinessOf[m], status)
        /\ HandlerAt(m, "failing", ErrorOfAnswer(status), TRUE)
    /\ UNCHANGED <<now, gateVars, today, dbVars, rep, outcomeVars>>

FirstCallFails(m) ==
    /\ handler[m].pc = "calling"
    /\ \E err \in AcquirerErrors : HandlerAt(m, "failing", err, TRUE)
    /\ UNCHANGED <<now, gateVars, today, dbVars, rep, outcomeVars>>

(* handlerError, once getConfiguration has answered: retry later.          *)
ScheduleRetry(m) ==
    /\ handler[m].pc = "failing"
    /\ \E rule \in Rules :
        /\ RetryAfterCreate(handler[m].err, BusinessOf[m], rule, now)
        /\ WriteBoth(m, Home[m], FirstDoc(m, TRUE, now + DelayAfter(rule, 1)))
    /\ HandlerDone(m)
    /\ UNCHANGED <<now, gateVars, today, rep, outcomeVars>>

(* handlerError: cancel the retries and publish the result.                *)
GiveUp(m) ==
    /\ handler[m].pc = "failing"
    /\ \E rule \in Rules :
        ~RetryAfterCreate(handler[m].err, BusinessOf[m], rule, now)
    /\ WriteBoth(m, Home[m], FirstDoc(m, FALSE, 0))
    /\ Publish(m)
    /\ HandlerDone(m)
    /\ UNCHANGED <<now, gateVars, today, rep, calls, accepted>>

(* getConfiguration is rejected: handlerError stores and publishes nothing.*)
RuleLookupFails(m) ==
    /\ MongoMayFail \/ CacheMayFail
    /\ handler[m].pc = "failing"
    /\ HandlerDone(m)
    /\ UNCHANGED <<now, gateVars, today, dbVars, rep, outcomeVars>>

Handle(m) ==
    \/ TokenReturned(m) \/ TokenFails(m)
    \/ FirstAnswerAccepted(m) \/ FirstAnswerRefused(m) \/ FirstCallFails(m)
    \/ ScheduleRetry(m) \/ GiveUp(m) \/ RuleLookupFails(m)

Receive(m) ==
    \/ ReceiveMalformed(m) \/ ReceiveUnbuildable(m)
    \/ ReceiveTbkMall(m) \/ ReceiveAndSend(m)
-----------------------------------------------------------------------------
(* The database applies the writes nobody waits for, or rejects them.      *)

RequestStored(w) ==
    /\ w \in writes
    /\ log' = [log EXCEPT ![w.msg] = w.doc]
    /\ writes' = writes \ {w}
    /\ UNCHANGED <<now, gateVars, today, handler, responses, replies, rep,
                   outcomeVars>>

ResponseStored(r) ==
    /\ r \in replies
    /\ responses' = [responses EXCEPT ![r.msg] = @ \union {r.attempt}]
    /\ replies' = replies \ {r}
    /\ UNCHANGED <<now, gateVars, today, handler, log, writes, rep, outcomeVars>>

WriteLost ==
    /\ MongoMayFail
    /\ \/ \E w \in writes : writes' = writes \ {w} /\ UNCHANGED replies
       \/ \E r \in replies : replies' = replies \ {r} /\ UNCHANGED writes
    /\ UNCHANGED <<now, gateVars, today, handler, log, responses, rep, outcomeVars>>
-----------------------------------------------------------------------------
(* retry: the job around the flag.                                         *)

Active(j, m) == rep[j][m].pc # "idle"

(* An execution name is used again when all it started is over.            *)
Tick(j) ==
    /\ Gate!Tick(j)
    /\ \A m \in Msgs : ~Active(j, m)
    /\ UNCHANGED <<now, today, handler, dbVars, rep, outcomeVars>>

CloseGate(j) ==
    /\ Gate!CloseGate(j)
    /\ today' = [today EXCEPT ![j] = now]
    /\ UNCHANGED <<now, handler, dbVars, rep, outcomeVars>>

(* The steps of the job that touch the flag only.                          *)
FlagStep(j) ==
    /\ Gate!ReadGate(j) \/ Gate!OpenGate(j) \/ Gate!Reopen(j)
    /\ UNCHANGED <<now, today, handler, dbVars, rep, outcomeVars>>

FlagFault(j) ==
    /\ Gate!CacheFault(j)
    /\ UNCHANGED <<now, today, handler, dbVars, rep, outcomeVars>>

FlagExpires ==
    /\ Gate!Expire
    /\ UNCHANGED <<now, today, handler, dbVars, rep, outcomeVars>>

(* The filter of retry(), evaluated by the database.                       *)
Selected(m, date) ==
    /\ log[m].due
    /\ log[m].next <= date
    /\ InFilterWindow(log[m].created, date)

Fetchable(j) == {m \in Msgs : Selected(m, today[j])}

(* find(filter).limit(numberOfTrxToProcess), in no particular order.       *)
Batches(j) ==
    {S \in SUBSET Fetchable(j) :
        \/ S = Fetchable(j) /\ Cardinality(S) <= BatchSize
        \/ Cardinality(S) = BatchSize}

(* The fetch has answered: the date it was made for goes out of use.       *)
Fetched(j) == today' = [today EXCEPT ![j] = 0]

(* Mutants of StartOf: the attempt is not counted, or counted down.        *)
StartOfUncounted(m) ==
    [pc |-> IF log[m].built THEN "marking" ELSE "failing",
     retries |-> log[m].retries, next |-> log[m].next, err |-> InternalError,
     failed |-> IF log[m].built THEN 0 ELSE now]

StartOfCountdown(m) ==
    [pc |-> IF log[m].built THEN "marking" ELSE "failing",
     retries |-> log[m].retries - 1, next |-> log[m].next,
     err |-> InternalError, failed |-> IF log[m].built THEN 0 ELSE now]

(* reprocessTransaction up to its first await: it logs newRequest.options, *)
(* which throws when the record holds no built request, and then issues    *)
(* the update that takes the record.                                       *)
StartOf(m) ==
    [pc |-> IF log[m].built THEN "marking" ELSE "failing",
     retries |-> log[m].retries + 1, next |-> log[m].next,
     err |-> InternalError, failed |-> IF log[m].built THEN 0 ELSE now]

StartAll(j, S) ==
    rep' = [rep EXCEPT ![j] = [m \in Msgs |-> IF m \in S THEN StartOf(m) ELSE @[m]]]

BatchStarted(j) ==
    /\ Gate!BatchStarted(j)
    /\ \E S \in Batches(j) :
        /\ S # {}
        /\ S \intersect NoHeaders = {}
        /\ StartAll(j, S)
    /\ Fetched(j)
    /\ UNCHANGED <<now, handler, dbVars, outcomeVars>>

BatchEmpty(j) ==
    /\ Gate!BatchEmpty(j)
    /\ Fetchable(j) = {}
    /\ Fetched(j)
    /\ UNCHANGED <<now, handler, dbVars, rep, outcomeVars>>

(* The loop reads a header of every record; on a record without headers it *)
(* throws, and the reprocessings started before it are awaited by nobody.  *)
BatchAborted(j) ==
    /\ Gate!BatchAborted(j)
    /\ \E S \in Batches(j) :
        /\ S \intersect NoHeaders # {}
        /\ \E started \in SUBSET (S \ NoHeaders) : StartAll(j, started)
    /\ Fetched(j)
    /\ UNCHANGED <<now, handler, dbVars, outcomeVars>>

FetchFails(j) ==
    /\ MongoMayFail
    /\ Gate!BatchAborted(j)
    /\ Fetched(j)
    /\ UNCHANGED <<now, handler, dbVars, rep, outcomeVars>>

BatchSettled(j) ==
    /\ Gate!BatchSettled(j)
    /\ \A m \in Msgs : ~Active(j, m)
    /\ UNCHANGED <<now, today, handler, dbVars, rep, outcomeVars>>

JobStep(j) ==
    \/ CloseGate(j) \/ FlagStep(j) \/ FlagFault(j)
    \/ BatchStarted(j) \/ BatchEmpty(j) \/ BatchAborted(j) \/ FetchFails(j)
    \/ BatchSettled(j)
-----------------------------------------------------------------------------
(* reprocessTransaction.                                                   *)

RepAt(j, m, pc) == rep' = [rep EXCEPT ![j][m].pc = pc]

(* The catch takes the date before it looks the rule up.                   *)
RepFails(j, m, err) ==
    rep' = [rep EXCEPT ![j][m].pc = "failing", ![j][m].err = err,
                       ![j][m].failed = now]

(* A reprocessing that is over.  A rejected one that nobody awaits ends    *)
(* the process: Node 16 exits on an unhandled rejection.                   *)
Resolved(j, m) == rep' = [rep EXCEPT ![j][m] = Idle]

Rejected(j, m) ==
    IF job[j] = "running" THEN Resolved(j, m) ELSE RepAt(j, m, "rejected")

Answered(m, j) ==
    responses' = [responses EXCEPT ![m] = @ \union {rep[j][m].retries}]

(* Mutants of RecordMarked: the record stays due, or the database counts.  *)
RecordMarkedKeepsDue(j, m) ==
    /\ rep[j][m].pc = "marking"
    /\ log' = [log EXCEPT ![m].retries = rep[j][m].retries]
    /\ RepAt(j, m, "marked")
    /\ UNCHANGED <<now, gateVars, today, handler, responses, writes, replies,
                   outcomeVars>>

RecordMarkedIncrements(j, m) ==
    /\ rep[j][m].pc = "marking"
    /\ log' = [log EXCEPT ![m].due = FALSE, ![m].retries = @ + 1]
    /\ RepAt(j, m, "marked")
    /\ UNCHANGED <<now, gateVars, today, handler, responses, writes, replies,
                   outcomeVars>>

(* updateData({to_be_reprocessed: false, retries}) in the database.        *)
RecordMarked(j, m) ==
    /\ rep[j][m].pc = "marking"
    /\ log' = [log EXCEPT ![m].due = FALSE, ![m].retries = rep[j][m].retries]
    /\ RepAt(j, m, "marked")
    /\ UNCHANGED <<now, gateVars, today, handler, responses, writes, replies,
                   outcomeVars>>

(* The update is rejected, before or after the database has applied it.    *)
MarkFails(j, m) ==
    /\ MongoMayFail
    /\ rep[j][m].pc \in {"marking", "marked"}
    /\ RepFails(j, m, InternalError)
    /\ UNCHANGED <<now, gateVars, today, handler, dbVars, outcomeVars>>

SendAgain(j, m) ==
    /\ rep[j][m].pc = "marked"
    /\ RepAt(j, m, "calling")
    /\ Send(m)
    /\ UNCHANGED <<now, gateVars, today, handler, dbVars, accepted, published>>

AnswerAccepted(j, m) ==
    /\ rep[j][m].pc = "calling"
    /\ \E status \in AnswerStatuses :
        /\ ~ThrowErrorIfAllowed(BusinessOf[m], status)
        /\ Accept(m, status)
    /\ RepAt(j, m, "saving")
    /\ UNCHANGED <<now, gateVars, today, handler, dbVars, calls, published>>

AnswerRefused(j, m) ==
    /\ rep[j][m].pc = "calling"
    /\ \E status \in AnswerStatuses :
        /\ ThrowErrorIfAllowed(BusinessOf[m], status)
        /\ RepFails(j, m, ErrorOfAnswer(status))
    /\ UNCHANGED <<now, gateVars, today, handler, dbVars, outcomeVars>>

CallFails(j, m) ==
    /\ rep[j][m].pc = "calling"
    /\ \E err \in AcquirerErrors : RepFails(j, m, err)
    /\ UNCHANGED <<now, gateVars, today, handler, dbVars, outcomeVars>>

(* Mutant of AnswerSaved: the response record is not stored.               *)
AnswerNotSaved(j, m) ==
    /\ rep[j][m].pc = "saving"
    /\ Resolved(j, m)
    /\ UNCHANGED <<now, gateVars, today, handler, dbVars, outcomeVars>>

AnswerSaved(j, m) ==
    /\ rep[j][m].pc = "saving"
    /\ Answered(m, j)
    /\ Resolved(j, m)
    /\ UNCHANGED <<now, gateVars, today, handler, log, writes, replies,
                   outcomeVars>>

(* The response of an accepted call cannot be stored, or is stored and the *)
(* call rejected all the same: the catch treats it as a failed attempt.    *)
SaveFails(j, m) ==
    /\ MongoMayFail
    /\ rep[j][m].pc = "saving"
    /\ Answered(m, j) \/ UNCHANGED responses
    /\ RepFails(j, m, InternalError)
    /\ UNCHANGED <<now, gateVars, today, handler, log, writes, replies,
                   outcomeVars>>

(* handlerErrorForReprocessTransaction, once getConfiguration has          *)
(* answered: write a new date, counted from the previous one.              *)
Reschedule(j, m) ==
    /\ rep[j][m].pc = "failing"
    /\ LET r == rep[j][m]
       IN  \E rule \in Rules :
            /\ RetryAfterReprocess(r.err, BusinessOf[m], rule, r.retries,
                                   r.next, r.failed, now)
            /\ WriteBoth(m, Home[j],
                   [log[m] EXCEPT !.due = TRUE, !.retries = r.retries,
                        !.next = r.next + DelayAfter(rule, r.retries)])
    /\ Rejected(j, m)
    /\ UNCHANGED <<now, gateVars, today, handler, outcomeVars>>

Cancel(j, m) ==
    /\ rep[j][m].pc = "failing"
    /\ LET r == rep[j][m]
       IN  \E rule \in Rules :
            ~RetryAfterReprocess(r.err, BusinessOf[m], rule, r.retries,
                                 r.next, r.failed, now)
    /\ RepAt(j, m, "cancelling")
    /\ UNCHANGED <<now, gateVars, today, handler, dbVars, outcomeVars>>

RetryRuleLookupFails(j, m) ==
    /\ MongoMayFail \/ CacheMayFail
    /\ rep[j][m].pc = "failing"
    /\ Rejected(j, m)
    /\ UNCHANGED <<now, gateVars, today, handler, dbVars, outcomeVars>>

CancelSaved(j, m) ==
    /\ rep[j][m].pc = "cancelling"
    /\ Answered(m, j)
    /\ RepAt(j, m, "publishing")
    /\ UNCHANGED <<now, gateVars, today, handler, log, writes, replies,
                   outcomeVars>>

(* The awaited save of the response is rejected: nothing is published.     *)
CancelFails(j, m) ==
    /\ MongoMayFail
    /\ rep[j][m].pc = "cancelling"
    /\ Answered(m, j) \/ UNCHANGED responses
    /\ Rejected(j, m)
    /\ UNCHANGED <<now, gateVars, today, handler, log, writes, replies,
                   outcomeVars>>

CancelPublished(j, m) ==
    /\ rep[j][m].pc = "publishing"
    /\ Publish(m)
    /\ Rejected(j, m)
    /\ UNCHANGED <<now, gateVars, today, handler, dbVars, calls, accepted>>

Reprocess(j, m) ==
    \/ RecordMarked(j, m) \/ MarkFails(j, m) \/ SendAgain(j, m)
    \/ AnswerAccepted(j, m) \/ AnswerRefused(j, m) \/ CallFails(j, m)
    \/ AnswerSaved(j, m) \/ SaveFails(j, m)
    \/ Reschedule(j, m) \/ Cancel(j, m) \/ RetryRuleLookupFails(j, m)
    \/ CancelSaved(j, m) \/ CancelFails(j, m) \/ CancelPublished(j, m)
-----------------------------------------------------------------------------
(* Process i is gone, with the handlers, executions and reprocessings that *)
(* ran in it and the writes the database had not applied.  Its messages    *)
(* were acknowledged: none of them is delivered again.                     *)
Die(i) ==
    /\ Gate!Kill(i)
    /\ handler' = [m \in Msgs |->
                     IF Home[m] = i /\ handler[m].pc # "queued"
                     THEN Done ELSE handler[m]]
    /\ rep' = [j \in Jobs |->
                 IF Home[j] = i THEN [m \in Msgs |-> Idle] ELSE rep[j]]
    /\ writes' = {w \in writes : w.home # i}
    /\ replies' = {r \in replies : r.home # i}
    /\ UNCHANGED <<now, today, log, responses, outcomeVars>>

Crash(i) == MayCrash /\ Die(i)

UnhandledRejection(i) ==
    /\ \E j \in Jobs, m \in Msgs : Home[j] = i /\ rep[j][m].pc = "rejected"
    /\ Die(i)

(* Time passes, whatever is in hand and whatever is due.                   *)
Advance ==
    /\ now < MaxTime
    /\ now' = now + 1
    /\ UNCHANGED <<gateVars, today, handler, dbVars, rep, outcomeVars>>

Next ==
    \/ \E m \in Msgs : Receive(m) \/ Handle(m)
    \/ \E w \in writes : RequestStored(w)
    \/ \E r \in replies : ResponseStored(r)
    \/ WriteLost
    \/ \E j \in Jobs : Tick(j) \/ JobStep(j)
    \/ FlagExpires
    \/ \E j \in Jobs, m \in Msgs : Reprocess(j, m)
    \/ \E i \in Instances : Crash(i) \/ UnhandledRejection(i)
    \/ Advance

Spec == Init /\ [][Next]_vars

(* Awaited calls settle, issued writes are applied or lost, the cron ticks *)
(* and the clock advances; nothing is assumed of which goes first, and     *)
(* messages need not arrive.                                               *)
Fairness ==
    /\ WF_vars(\E m \in Msgs : Handle(m))
    /\ WF_vars(\E w \in writes : RequestStored(w))
    /\ WF_vars(\E r \in replies : ResponseStored(r))
    /\ WF_vars(\E j \in Jobs : Tick(j))
    /\ \A j \in Jobs : WF_vars(JobStep(j))
    /\ \A j \in Jobs : WF_vars(\E m \in Msgs : Reprocess(j, m))
    /\ WF_vars(Advance)

FairSpec == Spec /\ Fairness
-----------------------------------------------------------------------------
(* Properties.                                                             *)

(* The deployment the job flag is written for: one process, a cache that   *)
(* answers, a flag that outlives a batch, and requests with headers.       *)
SoundDeployment ==
    /\ Gate!LockAssumptions
    /\ NoHeaders = {}

MaxAttempts ==
    LET allowed == {NumberOfRetriesAllowed(rule) : rule \in Rules}
    IN  CHOOSE n \in allowed \union {2} : \A k \in allowed \union {2} : k <= n

(* A transaction is in the hands of one reprocessing at most (what the     *)
(* flag of retry() and the update that marks the record are for).          *)
OneReprocessing ==
    \A m \in Msgs : \A j, k \in Jobs : Active(j, m) /\ Active(k, m) => j = k

(* A transaction the acquirer has accepted is never sent again, whatever   *)
(* fails after the answer: the save of the response, the publication, the  *)
(* process.                                                                *)
NoResendAfterAccept ==
    [][\A m \in Msgs : accepted[m] # {} => calls'[m] = calls[m]]_vars

(* A call is made only after the record that counts it has been written:   *)
(* a crash never lets the engine exceed the attempts the rules allow.      *)
CallsCounted ==
    \A m \in Msgs : handler[m].pc = "done" /\ log[m].retries > 0
                        => calls[m] <= log[m].retries

(* The record of a transaction that is due to be sent again counts exactly *)
(* the attempts made: an attempt that was counted and lost, to a failed    *)
(* update or a crash, is not followed by another one, and none is made     *)
(* twice under one number.                                                 *)
CounterExact ==
    \A m \in Msgs : log[m].due /\ log[m].built => log[m].retries = calls[m]

(* No transaction is sent more often than the largest maximum of the rules *)
(* allows, or twice: handlerError does not look at the maximum.            *)
CallsBounded == \A m \in Msgs : calls[m] <= MaxAttempts

(* The stored counter stays under that bound in any deployment, with every *)
(* fault and any overlap of jobs and late writes.                          *)
RetriesBounded == \A m \in Msgs : log[m].retries <= MaxAttempts

(* A transaction accepted at its first attempt is never sent again, even   *)
(* where the flag is no lock.                                              *)
FirstAcceptIsFinal ==
    [][\A m \in Msgs : accepted[m] # {} /\ calls[m] = 1
                         => calls'[m] = calls[m]]_vars

(* One verdict for a transaction: it is published as cancelled once at     *)
(* most, and not after it was accepted.                                    *)
OneVerdict ==
    \A m \in Msgs :
        /\ published[m] <= 1
        /\ accepted[m] # {} => published[m] = 0

(* A retry planned on the day its transaction was stored is planned for a  *)
(* date on which the filter of retry() selects it, whatever the seconds    *)
(* setHours(23, 59) keeps, however late the previous attempt was taken up, *)
(* answered and judged, and although the handler does not know when the    *)
(* transaction was stored.                                                 *)
PlannedForItsDay ==
    [][\A w \in writes' \ writes :
         w.doc.due /\ StartOfDay(w.doc.created) = StartOfDay(now)
             => InFilterWindow(w.doc.created, w.doc.next)]_vars

(* A record is only ever due at a date on which the filter of retry()      *)
(* still selects it: on a later day no job would fetch it, and it would be *)
(* neither sent again nor cancelled.                                       *)
DueIsFetchable ==
    \A m \in Msgs : log[m].due => InFilterWindow(log[m].created, log[m].next)

(* The log is complete: when nothing is in hand for a transaction, every   *)
(* attempt made has its response record.                                   *)
InHand(m) ==
    \/ handler[m].pc # "done"
    \/ \E j \in Jobs : Active(j, m)
    \/ \E w \in writes : w.msg = m
    \/ \E r \in replies : r.msg = m

AttemptsRecorded ==
    \A m \in Msgs : InHand(m) \/ 1 .. calls[m] \subseteq responses[m]

(* An answer of API-TIN that reports the transfer as pending or in error   *)
(* (status 3 or 5) is not taken for a success.                             *)
PendingIsNoSuccess ==
    \A m \in Msgs : BusinessOf[m] \in BUSINESS_NAMES
                        => accepted[m] \intersect {"3", "5"} = {}

(* Accepted by the acquirer or reported to the processor as cancelled.     *)
Settled(m) == accepted[m] # {} \/ published[m] > 0

(* Due, and of a day the filter of retry() does not reach back to: its     *)
(* retry was planned for after the last tick of the day, or the limit of   *)
(* the batch kept it waiting until midnight, or its last attempt failed    *)
(* after midnight and was judged by the new day.                           *)
Stranded(m) == log[m].due /\ ~InFilterWindow(log[m].created, now)

(* Every transaction received with a business ends settled, unless the     *)
(* midnight after its creation passes it by: no other way of losing one.   *)
EventuallySettled ==
    \A m \in Msgs : handler[m].pc # "queued" /\ BusinessOf[m] # "none"
                      ~> [](Settled(m) \/ Stranded(m))

(* The engine implements TransactionOutcome: a transaction is open from    *)
(* its reception to the answer taken for a success or the publication of   *)
(* the cancellation.                                                       *)
OutcomeOf(m) ==
    CASE accepted[m] # {} -> "accepted"
      [] accepted[m] = {} /\ published[m] > 0 -> "cancelled"
      [] ~Settled(m) /\ handler[m].pc = "queued" -> "waiting"
      [] OTHER -> "open"

Outcome == INSTANCE TransactionOutcome
    WITH outcome <- [m \in Msgs |-> OutcomeOf(m)], attempts <- calls

ImplementsOutcome == Outcome!Spec
=============================================================================
