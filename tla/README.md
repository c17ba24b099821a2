# Verification of the retry engine

This directory models the retry engine of `src/`, a NestJS service that repeats
failed transactions (reversals of card payments, transfers) towards their
acquirers. The models are TLA+ modules, checked by TLC on small instances; the
results that matter most are proved with TLAPS for every value of the constants.

Paths below are relative to the repository: `service.ts` is
`src/src/create-transaction/create-transaction.service.ts`, `policy.service.ts`
is `src/src/retry-policy/retry-policy.service.ts`.

## The system

| Component | Code | State it keeps | Operations |
|---|---|---|---|
| Queue consumer | `base/base.controller.ts`, `create-transaction.controller.ts` | none | receive a message, acknowledge it, call `create` |
| Retry engine | `service.ts` | the local variables of the handlers that are running | `create`, `handlerError`, `reprocessTransaction`, `handlerErrorForReprocessTransaction` |
| Retry job | `service.ts` `retry`, `cron/cron.service.ts` | the flag `allowedToReprocess` in the shared cache | a tick every 30 s: read the flag, close it, fetch a batch, reprocess it, open it |
| Retry rules | `service.ts` helpers, `utils/*.ts` | none | which errors are retried, how often, after how long, until when |
| Transaction log | `database/**`, `mapper/**`, `dtos/**` | one request record and several response records per transaction | insert, update, find with a limit |
| Cache service | `cache/**` | key/value pairs with a lifetime | get, set, delete |
| Acquirer and token calls | `utils/proxy.service.ts`, `tbk-mall/**` | none | one HTTP call |
| Result publication | `service.ts` `publishToTransactionProcessor` | none | send a message to the transaction processor |
| Retry policy | `retry-policy/**` | rules in the database and in the cache | create, update, get |
| Policy API | `retry-policy.controller.ts`, `check.country.interceptor.ts` | none | HTTP handlers, country check |
| Configuration | `config/envs.config.ts` | constants | read |
| Logging, tracing, status endpoint, bootstrap | `logger/**`, `interceptor/**`, `app.*`, `main.ts` | none | decoration |

How they interact. A message of the queue starts `create`, which calls the
acquirer, asks the retry policy for the rule when the call failed, and writes
two records without waiting for them. Every tick of the cron starts `retry`,
whether or not the last one is over; executions see each other only through the
cached flag. `retry` starts one `reprocessTransaction` per fetched record, in
parallel, and waits for all of them. All handlers of a process interleave at
their awaits; several processes share the database, the cache and the queue.

What is hard in it:

- check-then-set of the job flag in separate cache calls, by several processes,
  with a lifetime that may end under a batch, and with a process that may die
  with the flag closed;
- writes that nobody awaits (`Promise.allSettled` without `await`): they are
  applied late, or lost, while the next batch is already running;
- an error in the middle of a handler is caught by the handler's own catch,
  whatever the step was: an accepted call whose response cannot be stored goes
  the way of a failed call;
- the loop over a batch that throws on a record without headers, with the
  reprocessings started before it left behind, and a rejection of one of them
  ending the process;
- clocks and boundaries: 23:59, the 24 hour window, the last attempt;
- configuration keys that are read and do not exist;
- rules in two places, the database and the cache: a check-then-write by `create`
  and `update`, cache calls that nobody awaits, and a lookup that caches what it
  read before others wrote.

What makes each component correct:

- *flag*: one batch at a time where the flag is a lock; never a lock-out;
- *engine*: no call after an accepted one, a bounded number of calls, each
  counted before it is made; one verdict per transaction; no transaction lost
  when nothing fails, unless midnight passes it by; a complete log;
- *rules*: a retry is planned for the day on which the job looks for it;
- *policy*: one active rule per acquirer and country, as far as the check for
  another one can see; the engine gets rules that were in force for the acquirer
  it asks for, and gets the rules in force once the cached ones have expired.

`PROJECT.json` lists each hazard at its line with the properties that cover it.

## The modules

| Module | Models |
|---|---|
| `JobGate` | the cached flag and the phases of `retry` |
| `RetryRules` | the decisions of the error handlers, as pure operators |
| `RetryEngine` | `create`, `retry` and the reprocessings, over `JobGate` and `RetryRules` |
| `TransactionOutcome` | the promise: a transaction is sent a bounded number of times and ends accepted or cancelled |
| `RetryPolicy` | `create`, `update` and the caching lookup of the policy service, over the database and the cache |
| `RuleRegister` | the promise: a lookup answers with a rule that is or was in force, or with none |
| `MCJobGate`, `MCRetryEngine`, `MCRetryPolicy` | the small instances for TLC |
| `JobGate_proofs`, `RetryPolicy_proofs` | the theorems about the flag and about the policy service |
| `RetryEngine_proofs`, `EngineCalls_proofs` | types, the lock and the calls of the engine; the projection of its steps on one transaction, which the next four use |
| `EngineVerdict_proofs`, `EngineOutcome_proofs` | one verdict per transaction; the engine implements `TransactionOutcome` |
| `EngineClock_proofs`, `EngineLog_proofs` | the dates of the retries; the counter and the response records |

### JobGate

`flag` is the cached value: absent, open (`true`) or closed (`false`). `job[j]`
is the call execution `j` of `retry` is waiting for: `reading` (the `get`),
`closing` (`set(false)`), `fetching` (`getData`), `running` (the
`Promise.allSettled` of the batch), `opening` (`set(true)` at the end of the
try), `reopening` (`set(true)` in the catch). Every cache call is an action of
its own; a call that is rejected may or may not have had its effect. `Tick`
starts an execution without looking at the flag. With `TicksApart` TRUE it waits
until no execution of its process is between the `get` and the `set(false)`: the
two calls take less than the 30 seconds of the cron. With FALSE it does not wait,
and two executions of one process may both read the flag as open, as they may in
the code when a cache call outlasts a tick (the client queues calls while redis
is away). `Expire` is the lifetime of the cache entry, `Crash` the death of a
process.

### RetryRules

One operator per helper, with the name of the helper. An error is what the
handlers read of it: HTTP status, axios code, and whether the body holds code
`05` or status 5. A rule is a serie of delays, a period with a number of
retries, or none. Time is a number of units; `AtLastMinute` is what
`setHours(23, 59)` does. `RetryAfterReprocess` takes the date of the failure for
the creation date, because that is what the code does: the DTO reads `created_at`
and the collection stores `createdAt`, so that `new Date()` stands in. The
handler takes it before it waits for the rule; the 24 hour test compares it with
the date after the wait.

### RetryEngine

| Variable | In the code |
|---|---|
| `now`, `today[j]` | the clock; `today` of execution `j` of `retry`, until it has fetched (0 otherwise) |
| `handler[m]` | where `create` is for delivery `m`, with the error it is handling and whether `newRequest` was built |
| `log[m]` | the request record: `to_be_reprocessed`, `retries`, `next_execution`, `createdAt`, and whether `data.newRequest` is there |
| `responses[m]` | the attempts that have a response record |
| `writes`, `replies` | writes issued and not yet applied |
| `rep[j][m]` | where `reprocessTransaction` of `m` is, started by `j`: its number, the date it was planned for, its error and the date it failed |
| `calls`, `accepted`, `published` | history: calls sent, answers taken for a success, results sent |

Actions are cut at the awaits. A record is identified with the delivery that
created it: `create` looks up nothing, so two deliveries of one transaction
never meet. A batch is any set of due records up to the limit, because `find`
has no order. `RecordMarked` is the moment the database applies the update
that takes the record, `SendAgain` the continuation of the handler after it.
`Reschedule` issues the next date without waiting, `RequestStored` applies it.
`BatchAborted` is the loop that throws; a reprocessing that is rejected after
that and awaited by nobody is in phase `rejected`, and `UnhandledRejection`
ends its process (the image runs Node 16, and the service registers no
handler). `Die` is the loss of a process: handlers and unapplied writes are
gone, acknowledged messages are not delivered again.

### TransactionOutcome

States `waiting`, `open`, `accepted`, `cancelled` and a number of attempts; a
send is possible in `open` only, at most `MaxAttempts` of them, and a verdict is
final. `RetryEngine!Outcome` is the refinement mapping, from the history
variables, and `ImplementsOutcome` the refinement. It promises safety only: the
code does not settle every transaction, and what it does promise of that is
`EventuallySettled` (see *Midnight* below).

### RetryPolicy

| Variable | In the code |
|---|---|
| `rules` | the documents of the collection of rules |
| `cache[k]` | the list cached under a key (acquirer, country, enabled), as `generateKey` builds it |
| `req[a]` | a POST or PATCH request, with the await it is at: finding the rule by its id, reading the cache for the check, querying the database for the check, writing |
| `issued[a]` | the `delete` and the `set` that `update` issues and does not wait for |
| `look[l]` | the engine's `getConfiguration`: reading the cache, querying, storing what was read, answered |
| `seen`, `disturbed` | history: every rule that has been active; whether the check for another active rule has been undermined |
| `requests` | how many requests were received, bounded by `MaxRequests` |

A cached or returned list is represented by its first element, `NoRule` when it
is empty: `throwErrorIfActiveRuleExists` and `getConfiguration` read no other.
Which element is first is left open, because `find` has no order. `Judge` is the
comparison of ids in the check; the id of a rule that is being created is `NoId`,
which no stored rule has. `UpdateStored` applies the body to the document as it
is in the database then, not as `update` read it, and issues the two cache calls
with the response; `CallApplied` and `CallLost` are what becomes of them, in any
order and at any later time. `LookupStores` writes what `LookupFinds` read,
whatever has happened in between: `get` caches for the engine only. `Crash` ends
one request with its cache calls, `LookupFails` one lookup: requests of a process
share nothing but the database and the cache, so that the death of a process is
the death of some of them. GET requests, and requests refused by the DTOs, by
the check of the id or by `CheckCountryInterceptor`, change nothing and have no
action.

### RuleRegister

For each key the rules in force, every rule that has ever been in force, and the
answer each lookup has just got. `RetryPolicy!Register` is the refinement mapping.
It is deliberately weak: nothing in the service bounds how old an answer may be.

### How the engine and the policy fit together

`RetryEngine` lets `getConfiguration` answer with any element of `Rules`, or be
rejected, at every call anew (`ScheduleRetry`, `GiveUp`, `Reschedule`, `Cancel`;
`RuleLookupFails`, `RetryRuleLookupFails`). `RetryPolicy` implements
`RuleRegister`, whose answers are rules that are or were in force for the
acquirer asked for, or none, and its `LookupFails` is the rejection. So every
behaviour of the engine beside the policy service is one of `RetryEngine`, with
`Rules` the set of the rules ever active and `NoRule`; what is proved of the
engine for every `Rules` holds of it, with stale, changing and missing rules.
What the register rules out, and the engine depends on, is a rule of another
acquirer or country, or one that was never enabled.

## The runs

| Run | Instance | Shows |
|---|---|---|
| `gate_lock` | one process, five executions, cache answers, long lifetime, crashes | the flag is a lock (`OneBatchAtATime`, with its inductive form `GateInv`), is always opened again (`GateReopens`) and lets ticks through (`KeepsFetching`) |
| `gate_faults` | two processes, cache faults, crashes | the flag is no lock any more, but never locks the job out once faults stop |
| `engine_faults` | one process, crashes, database and producer faults, tbk_mall, two jobs | `OneReprocessing`, `NoResendAfterAccept`, `CallsCounted`, `CounterExact`, `CallsBounded` |
| `engine_overlap` | two processes, flag expiring under a batch, cache faults, crashes | batches overlap; `RetriesBounded` and `FirstAcceptIsFinal` still hold |
| `engine_poison` | a record without headers in the batch | the same two, with orphaned reprocessings and unhandled rejections |
| `engine_settles` | two deliveries (bf, redeban), no faults, two days of two two-unit minutes, a clock that moves at any point | `ImplementsOutcome`, `OneVerdict`, `AttemptsRecorded`, `PlannedForItsDay` and the liveness `EventuallySettled` |
| `policy_overlap` | two rules, two acquirers, two requests and a lookup at once, failing calls, crashes, entries that expire | `CheckHolds` with its inductive form `CheckInv`, `OnlyPastRules`, `ImplementsRegister`, and `EventuallyCurrent`: when requests stop, lookups answer with rules in force in the end |
| `finding_second_rule` | one request at a time, no faults | what the check for another active rule misses; see below |
| `finding_midnight`, `finding_token_error`, `finding_pending_answer`, `finding_pending_message` | minimal | what the code does against what its tests and log lines say; see below |

Bounds, and why they are enough. Two deliveries and two executions of the job are
the smallest numbers with interference between records and between batches; the
properties are about one transaction, and records meet in the settling of a batch,
the poisoned loop and the death of a process, all of which take two. `LastArrival`
bounds the time at which messages are received and `MaxTime` the clock: with
delays of one and two units and days of four or five, that is room for every
attempt of the rules used, for a retry whose date is already over, and for the
end of the day. `PublishBound` stops the count of publications above what
`OneVerdict` tells apart. A rule with three retries and the default serie of
two lie on both sides of the boundary at the last attempt. A minute is one unit
of time, except in `engine_settles`, where it is two: only there may two dates
of one minute differ, which `setHours(23, 59)` keeps (see *Dates* below). In the runs of the
policy two rules and two acquirers are the smallest numbers with a second active
rule and with a rule that moves to another acquirer; the country is only ever
compared, as the acquirer is, so one stands for all; two requests and a lookup
overlap in every way two writers and a caching reader can; three requests make a
sequence of creation, change and one more request possible, which is what it
takes to leave an old entry in the cache and to act on it. No run disables the
check for deadlock: the job can always tick, a lookup can always start.

`engine_settles` runs over two days of four units, so that an attempt may be
taken up, answered and judged before or after the midnight between them; messages
are received in the first half of the first day, and the clock stops at the last
unit of the second, the earliest end at which every retry still planned is
reached or stranded. One execution of the job is enough there: executions of one
process with a working flag do not overlap (`GateExclusion`). The second
delivery, of a business without a builder, is never due. The limit of the batch
does not bind in the runs: two records that are due at once are in `engine_poison`
only, which needs them in one batch. The safety properties do not depend on it
(the theorems hold for every `BatchSize`), and for liveness a record that is
passed by until midnight is stranded whatever the reason.

`TicksApart` is TRUE in the runs that show what the flag is good for, and FALSE in
`gate_faults`, `engine_overlap` and `engine_poison`, which show what holds
without it. The clock is free in every run: it advances whatever is in hand and
whatever is due.

Fairness. Weak fairness of the ticks (the cron), of each kind of step of the
handlers (a call settles: axios, the drivers and the cache client answer or
reject; for each execution of the job and its reprocessings separately), of the
application of issued writes and of the clock. None of it says which goes first:
a tick may come as late after the previous one, and an answer as late after the
call, as the clock allows. Reception of messages, faults, crashes and the loss of
writes are not fair. `Expire` is fair only where entries have a lifetime. In `RetryPolicy` awaited calls settle
(`Serve`, `LookUp`), issued cache calls are applied or lost, and entries that
have a lifetime expire; requests and lookups need not start, and crashes and
failures may or may not happen. `EventuallyCurrent` rests on the expiry alone: no
other step removes what a lost call or an overtaken lookup leaves in the cache.
`KeepsFetching` asks in addition that faults stop: the runs of the gate have a
variable `calm` that says so, because some faults are, as steps of the flag and
the phases, also steps without one.

Midnight. A record that is still due when the day of its creation ends is not
fetched again (but for one of the last minute of the day): the filter of `retry`
selects records created less than 24 hours before 23:59 of the current day.
Without any fault that happens in three ways: its retry was planned for after the
last tick of the day (23:59:50, say, with ticks at 23:59:30 and 00:00:00), the
limit of the batch passed it by at every tick, or an attempt was judged after
midnight (`finding_midnight`). Nothing in the code handles it, so that "every
transaction is settled" is not true of it and is not claimed. `Stranded` is this
state, and `EventuallySettled` says that there is no other way to lose a
transaction without a fault: from its reception on, a time comes after which it
is settled, or stranded, for good. `PlannedForItsDay` is the safety side: the
handlers do not plan a retry for a date at which the filter is bound to miss it,
as long as they plan it on the day the transaction was stored.

## What the code does against what is said of it

- `finding_midnight`: a retry answered after midnight is scheduled for the new
  day, on which the filter of `retry` never fetches it: the run ends in a record
  that is due at a date on which its filter no longer selects it. The test at
  `create-transaction.service.spec.ts:2578` expects a publication when the next
  execution date is after midnight.
- `finding_token_error`: a tbk_mall transaction whose token call failed is
  stored as due and can never be marked: every tick logs "Cancelling retries"
  and publishes again.
- `finding_pending_answer`, `finding_pending_message`: `envs.config.ts` defines
  neither `codesToThrowError` nor `errorMssgRelatedToStatusPending`; with them
  undefined a pending answer is a success, and the publication for API-TIN
  throws. The tests of both cases mock the configuration.

- `finding_second_rule`: the lookup of the engine caches its answer even when it
  is the empty list, and `create` changes the database only. A rule created after
  such a lookup is invisible to the next check, which reads the cached empty list:
  two requests, one after the other, make two active rules of one acquirer and
  country. `retry-policy.service.ts:64` refuses the second with "Another active rule
  with acquirer: ... and country: ... already exists", and the test at
  `retry-policy.service.spec.ts:303` expects it, with a cache that never holds
  anything.

The passing runs of the engine use a configuration in which these keys are set,
or a business for which they are not read.

## The proofs

| Theorem | States | Beyond the constants' assumptions |
|---|---|---|
| `JobGate_proofs!GateTypeCorrect` | `Spec => []TypeOK` of `JobGate` | |
| `JobGate_proofs!GateInvAlways`, `GateExclusion` | `Spec => []GateInv`, `Spec => []OneBatchAtATime` | `LockAssumptions` |
| `RetryEngine_proofs!TypeCorrect` | `Spec => []TypeOK` of `RetryEngine` | |
| `RetryEngine_proofs!ReprocessingExclusion` | `Spec => []OneReprocessing` | `SoundDeployment` |
| `EngineCalls_proofs!CounterBounded` | `Spec => []RetriesBounded` | `RulesHaveBound` |
| `EngineCalls_proofs!FirstAcceptFinal` | `Spec => FirstAcceptIsFinal` | |
| `EngineCalls_proofs!NoResend` | `Spec => NoResendAfterAccept` | `SoundDeployment` |
| `EngineCalls_proofs!EveryCallCounted` | `Spec => []CallsCounted` | `SoundDeployment` |
| `EngineCalls_proofs!CallsNeverExceedRules` | `Spec => []CallsBounded` | `SoundDeployment`, `RulesHaveBound` |
| `EngineVerdict_proofs!VerdictOnce` | `Spec => []OneVerdict` | `SureDeployment` |
| `EngineOutcome_proofs!EngineImplementsOutcome` | `Spec => ImplementsOutcome` | `SureDeployment`, `RulesHaveBound` |
| `EngineClock_proofs!PlannedOnItsDay` | `Spec => PlannedForItsDay` | |
| `EngineLog_proofs!DueCounterExact` | `Spec => []CounterExact` | `SoundDeployment` |
| `EngineLog_proofs!EveryAttemptRecorded` | `Spec => []AttemptsRecorded` | `CalmDeployment` |
| `RetryEngine_proofs!PendingRefused` | `Spec => []PendingIsNoSuccess` | the codes `3` and `5` configured |
| `RetryEngine_proofs!EngineImplementsGate` | `Spec => Gate!Spec` | |
| `RetryPolicy_proofs!TypeCorrect` | `Spec => []TypeOK` of `RetryPolicy` | |
| `RetryPolicy_proofs!PastRulesOnly` | `Spec => []OnlyPastRules` | |
| `RetryPolicy_proofs!RegisterRefinement` | `Spec => ImplementsRegister` | |
| `RetryPolicy_proofs!CheckInvAlways`, `CheckHoldsAlways` | `Spec => []CheckInv`, `Spec => []CheckHolds` | |

The assumptions of the constants are `HomeAssumption`, `TimeAssumption`,
`InternalErrorAssumption`, `EngineAssumption` and `PolicyAssumption`; TLC
evaluates them in every run. `SoundDeployment` is what the flag is written for:
one process, a cache that answers within the period of the cron (`TicksApart`), a
flag that outlives a batch, and requests with headers; the database and the
producer may fail, and the process may die at any point. `SureDeployment` adds that the database and the token service answer:
a record stored after a failed token call is published at every tick
(`finding_token_error`), and an accepted answer whose save fails is published as
a cancellation too. `CalmDeployment` is `SoundDeployment` with no database call
rejected and no process killed: either may lose a response record for good.
`RulesHaveBound` says that the maxima of the rules have an upper bound, which
every finite set of rules does; `MaxAttempts` is defined by a `CHOOSE` that means
nothing without it.

*The flag.* `OneBatchAtATime` is not inductive: an execution that has read the
flag as open and is about to close it would enter beside one that is in the
gate. `GateInv` adds that at most one execution is entering, that an execution
in the gate keeps the flag closed, and that one about to close it finds it still
open.

*Reprocessings.* `OneReprocessing` follows from `GateInv` and `BatchOwnsWork`: a
reprocessing is only alive while the execution that started it is in phase
`running`. This holds because `BatchSettled` waits for the whole batch, because
the loop does not throw when every record has headers, and because a process
that dies takes both with it. The engine's steps are shown to be steps of
`JobGate` or to leave it alone (`GateStep`), so that the lemmas about the flag
carry over; `SameGate` identifies the two instances of `JobGate` that this takes.

*Calls.* `MessageStep` projects a step of the engine on one transaction: a dozen
kinds of step (`FirstSent`, `Taken`, `Marked`, `SentAgain`, `Stored`,
`Rescheduled`, ...) instead of the forty actions, with no other transaction in
sight. Three invariants are shown to be preserved by them.

- `CountInv`: a record, or a write on its way, that is due has a counter below the
  bound. A retry is scheduled by a handler that has found the counter below the
  maximum of a rule, and taking a due record adds one.
- `FirstCallInv`: while `create` handles a transaction nothing else knows of it; a
  record with a built request is the record of a call; after one call and an
  accepted answer no record, write or reprocessing is left that would send. It
  needs no flag: overlapping reprocessings only exist after a second call.
- `CallsInv`, which does need `OneReprocessing`: a write on its way is the only
  thing under way for its transaction; a due record knows of no accepted answer
  and counts every call; a reprocessing that may send has counted the call
  already. That an accepted answer whose save fails is not scheduled again rests
  on `InternalErrorNotRetried`: an error of the database driver has neither a
  status nor a timeout code, so no rule retries it.

*Verdict.* `VerdictInv` says that a transaction with a verdict (published as
cancelled, or accepted) has nothing left that could give it another: no due
record, no due write and no reprocessing that could still send or publish. For
an accepted one it rests on `CallsInv`. A reprocessing
publishes only after it has stored its cancellation, so from a record that is no
longer due, and the flag keeps a second reprocessing from standing beside it.
Records that are due hold a built request, because `create` schedules a retry
only for an error a rule names, never for one of its own (`FirstAttemptNotRetried`).

*Outcome.* The refinement is proved step by step. `OneMoves`: what a step does to
the transaction it is about starts, sends, accepts or cancels it in the abstract
specification, or leaves its outcome alone; `CreateOthers`,
`ReprocessLeavesOthers` and `OtherStepsSame`: it does nothing to the others, also
when a process dies with several handlers. The guards of the abstract steps are
what the invariants are for: a send finds the transaction open by `VerdictInv`
and below the bound by `CallsBounded`, an answer is accepted after a call by
`FirstCallInv`, and a verdict meets no earlier one by `VerdictInv`.

*Dates.* `DateStep` projects a step of the engine on the dates of one transaction:
it keeps them (`DatesKept`), stores the transaction (`FirstPlanned`) or counts a
new date from the planned one (`PlannedAgain`). The invariant `DateInv` says that
nothing of a transaction is planned for, or failed at, a date before its creation,
and that no failure is in the future; it rests on `FirstCallInv`, by which nothing
else knows of a transaction that `create` has not stored yet. `PlanStep` then
looks at the two places that plan a retry. `handlerErrorForReprocessTransaction`
compares the new date with 23:59 of the day of the failure. The failure lies
between the creation and the write, so where those are of one day it is of that
day too, and the new date, which is not before the creation, is of it as well and
selected by the filter. This takes neither the lock nor a database that answers,
nor anything about how long a step takes. The property is stated with the filter
of `retry` and not with 23:59 of the day of creation: as `setHours` keeps the
seconds, a retry may be planned for a few seconds after that date, within the same
minute, and is still selected. Whether a tick comes in time is another matter, see
*Midnight*.

*Log.* `ExactInv` says that a due record with a built request, a due write, and a
reprocessing that has made its call hold exactly the number of calls, and one
about to call one more. An update that is applied and rejected all the same counts
an attempt that is never made, but ends in an error of the database driver, which
is not retried. With it the number under which a reprocessing sends is the
number of its call, and `LogInv` says that every number so far has someone to
answer for its response record: it is stored or on its way, or `create` or a
reprocessing has yet to write it. In a calm deployment none of them gives up:
no rejection is unhandled, because of `BatchOwnsWork`.

*Findings.* Four of the five have a theorem that says what they rest on: with the
codes configured (`PendingRefused`), with token calls that succeed
(`VerdictOnce`), or with no lookup that has cached an empty list
(`CheckHoldsAlways`), the property the run refutes holds; a date that refutes
`DueIsFetchable` was written on a later day than the record
(`PlannedOnItsDay`).

*Rules.* `OnlyPastRules` is what makes the policy service implement the register:
whatever the cache, a cache call or a lookup holds under the key of an enabled
rule was active under that key. It holds because a rule is cached under the key
made of its own fields, and enters the history when it is stored, before its
cache calls are issued. `CheckHolds` is not inductive: nothing in it keeps a
request that has passed the check from writing beside a rule that became active
since. `CheckInv` adds, for histories in which requests do not overlap and no
lookup has cached an empty list or an old rule, that every entry, every `set` on
its way and every request about to write excludes an active rule with another
id, and that the country and acquirer the check was made for are those the rule
will have.

Every safety property a passing run checks is stated by a theorem. Only
model-checked: the liveness properties (`GateReopens`, `KeepsFetching`,
`EventuallyCurrent`, `EventuallySettled`), which are out of reach of the prover, and
the values the operators of `RetryRules` compute, beyond what the lemmas on days
and dates of `EngineClock_proofs` say. The bounds of the runs (`MaxTime`,
`PublishBound`, `LastArrival`) are arbitrary in the theorems.

## Not modelled

- The contents of requests, tokens and published messages; the reporting fields
  of the log (amounts, codes, status names): the engine does not read them again.
- `CheckCountryInterceptor`: it compares a header with the configured country and
  keeps no state. The header is not tied to the country in the body, so that the
  check restricts no request of `RetryPolicy` (the runs use one country).
- Declarative validation of DTOs. Negative delays and maxima, which it admits,
  are left out: rules hold natural numbers. A body of `update` is any partial
  rule, one of `create` any rule.
- Logging, tracing, the status endpoint, the bootstrap: no state the program
  reads again. Where a log line or the reading of a header throws, that is part
  of the action that contains it.
- Names of executions, requests and lookups are used again when what they started
  is over, so that a bounded set stands for an unbounded sequence.
- Two deliveries of one transaction are two transactions of the model, as they
  are for `create`, which looks for no earlier record.

## Plan

1. Proofs: what is left of `OneVerdict` where database calls fail: which
   publications of one transaction can follow each other, and the invariant it takes.
2. The two deliveries of one transaction as records of one identifier, if the
   code ever comes to look one up.
