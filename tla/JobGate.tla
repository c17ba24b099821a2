------------------------------ MODULE JobGate ------------------------------
(***************************************************************************)
(* The cached flag that keeps two executions of the retry job apart.       *)
(*                                                                         *)
(* CronService starts CreateTransactionService.retry on every tick of the  *)
(* cron expression and does not wait for the previous execution.  retry    *)
(* reads the flag "allowedToReprocess" from the cache, goes on only when   *)
(* it is absent or true, sets it to false, fetches and reprocesses a batch *)
(* of records, and sets it back to true; its catch sets it to true too.    *)
(* Every cache call is awaited, so every one is a step of its own here and *)
(* the steps of other executions fall between them.                        *)
(*                                                                         *)
(* What the batch does is not in this module: "running" is the time        *)
(* between the fetch and the settling of all reprocessings.  RetryEngine   *)
(* instantiates the module and gives these actions their effect on records.*)
(***************************************************************************)
CONSTANTS
    Jobs,           \* executions of retry() that may be alive at once
    Instances,      \* processes of the service that share the cache
    Home,           \* Home[j] is the process that execution j runs in
    CacheMayFail,   \* whether a cache call may be rejected
    FlagLifetime,   \* "none": never expires; "long": outlives a batch; "short"
    MayCrash,       \* whether a process may be killed and started again
    TicksApart      \* do the first two cache calls of an execution return
                    \* before its process starts the next one

ASSUME HomeAssumption == \A j \in Jobs : Home[j] \in Instances

VARIABLES
    flag,   \* the cached flag: "absent", "open" (true) or "closed" (false)
    job     \* job[j] is the cache or database call execution j is awaiting

vars == <<flag, job>>

FlagValues == {"absent", "open", "closed"}

Phases == {"idle", "reading", "closing", "fetching", "running",
           "opening", "reopening"}

(* From the moment set(false) has returned until the flag is set back.     *)
InGate(j) == job[j] \in {"fetching", "running", "opening", "reopening"}

(* Between the start of retry() and the return of set(false).              *)
Entering(j) == job[j] \in {"reading", "closing"}

TypeOK ==
    /\ flag \in FlagValues
    /\ job \in [Jobs -> Phases]

Init ==
    /\ flag = "absent"
    /\ job = [j \in Jobs |-> "idle"]

Goto(j, phase) == job' = [job EXCEPT ![j] = phase]
-----------------------------------------------------------------------------
(* A tick of the cron.  It does not look at the executions before it.      *)
(* Where the get and the set(false) of an execution take less than the     *)
(* period of the cron (30 s), none of its process is between the two; a    *)
(* slow cache, or a client that queues its calls during an outage, gives   *)
(* no such guarantee.                                                      *)
Tick(j) ==
    /\ job[j] = "idle"
    /\ TicksApart => \A k \in Jobs : Home[k] = Home[j] => ~Entering(k)
    /\ Goto(j, "reading")
    /\ UNCHANGED flag

(* Mutants of the next action: a flag nobody looks at, and one that has to *)
(* be there.                                                               *)
ReadGateIgnoresFlag(j) ==
    job[j] = "reading" /\ Goto(j, "closing") /\ UNCHANGED flag

ReadGateNeedsFlag(j) ==
    /\ job[j] = "reading"
    /\ Goto(j, IF flag = "open" THEN "closing" ELSE "idle")
    /\ UNCHANGED flag

(* cacheService.get answers: absent and true let the execution through,    *)
(* false ends it ("Blocked by cached flag").                               *)
ReadGate(j) ==
    /\ job[j] = "reading"
    /\ Goto(j, IF flag = "closed" THEN "idle" ELSE "closing")
    /\ UNCHANGED flag

(* cacheService.get is rejected: the catch sets the flag to true.          *)
ReadFails(j) ==
    /\ CacheMayFail
    /\ job[j] = "reading"
    /\ Goto(j, "reopening")
    /\ UNCHANGED flag

(* Mutant: the set is issued with the wrong value.                         *)
CloseGateWritesTrue(j) ==
    job[j] = "closing" /\ flag' = "open" /\ Goto(j, "fetching")

(* cacheService.set(false) has returned.                                   *)
CloseGate(j) ==
    /\ job[j] = "closing"
    /\ flag' = "closed"
    /\ Goto(j, "fetching")

(* set(false) is rejected, before or after the cache has stored the value. *)
CloseFails(j) ==
    /\ CacheMayFail
    /\ job[j] = "closing"
    /\ flag' \in {flag, "closed"}
    /\ Goto(j, "reopening")

(* The fetch returned records and their reprocessing has been started.     *)
BatchStarted(j) ==
    /\ job[j] = "fetching"
    /\ Goto(j, "running")
    /\ UNCHANGED flag

(* The fetch returned no record.                                           *)
BatchEmpty(j) ==
    /\ job[j] = "fetching"
    /\ Goto(j, "opening")
    /\ UNCHANGED flag

(* The fetch was rejected, or the loop over the records threw.             *)
BatchAborted(j) ==
    /\ job[j] = "fetching"
    /\ Goto(j, "reopening")
    /\ UNCHANGED flag

(* Promise.allSettled over the reprocessings of the batch has resolved.    *)
BatchSettled(j) ==
    /\ job[j] = "running"
    /\ Goto(j, "opening")
    /\ UNCHANGED flag

OpenGate(j) ==
    /\ job[j] = "opening"
    /\ flag' = "open"
    /\ Goto(j, "idle")

(* set(true) is rejected inside the try: the catch sets it once more.      *)
OpenFails(j) ==
    /\ CacheMayFail
    /\ job[j] = "opening"
    /\ flag' \in {flag, "open"}
    /\ Goto(j, "reopening")

Reopen(j) ==
    /\ job[j] = "reopening"
    /\ flag' = "open"
    /\ Goto(j, "idle")

(* set(true) is rejected inside the catch: nothing tries again.            *)
ReopenFails(j) ==
    /\ CacheMayFail
    /\ job[j] = "reopening"
    /\ flag' \in {flag, "open"}
    /\ Goto(j, "idle")

(* Mutant: only a true flag expires.                                       *)
ExpireIfOpen == flag = "open" /\ flag' = "absent" /\ UNCHANGED job

(* The cache drops the entry.  A "long" lifetime outlives every batch.     *)
Expire ==
    /\ flag # "absent"
    /\ \/ FlagLifetime = "short"
       \/ FlagLifetime = "long" /\ \A j \in Jobs : ~InGate(j)
    /\ flag' = "absent"
    /\ UNCHANGED job

(* Process i dies: its executions are gone, the flag stays as it is.       *)
Kill(i) ==
    /\ job' = [j \in Jobs |-> IF Home[j] = i THEN "idle" ELSE job[j]]
    /\ UNCHANGED flag

Crash(i) ==
    /\ MayCrash
    /\ \E j \in Jobs : Home[j] = i /\ job[j] # "idle"
    /\ Kill(i)
-----------------------------------------------------------------------------
CacheFault(j) == ReadFails(j) \/ CloseFails(j) \/ OpenFails(j) \/ ReopenFails(j)

Batch(j) ==
    BatchStarted(j) \/ BatchEmpty(j) \/ BatchAborted(j) \/ BatchSettled(j)

Proceed(j) ==
    ReadGate(j) \/ CloseGate(j) \/ Batch(j) \/ OpenGate(j) \/ Reopen(j)

Quiet ==
    \/ \E j \in Jobs : Tick(j) \/ Proceed(j)
    \/ Expire

Faults ==
    \/ \E j \in Jobs : CacheFault(j)
    \/ \E i \in Instances : Crash(i)

Next == Quiet \/ Faults

Spec == Init /\ [][Next]_vars

(* The cron keeps ticking, every awaited call settles, and an entry with a *)
(* lifetime is dropped in the end.                                         *)
Fairness ==
    /\ WF_vars(\E j \in Jobs : Tick(j))
    /\ \A j \in Jobs : WF_vars(Proceed(j))
    /\ FlagLifetime # "none" => WF_vars(Expire)
-----------------------------------------------------------------------------
(* The deployment under which the flag is a lock: one process, a cache     *)
(* that answers and does so within the period of the cron, and a flag that *)
(* does not expire under a running batch.                                  *)
LockAssumptions ==
    /\ \A j, k \in Jobs : Home[j] = Home[k]
    /\ ~CacheMayFail
    /\ TicksApart
    /\ FlagLifetime # "short"

(* No two executions of the job work on a batch at the same time (retry(): *)
(* the flag is set to false before the fetch and to true after the batch). *)
OneBatchAtATime ==
    \A j, k \in Jobs : InGate(j) /\ InGate(k) => j = k

(* The inductive strengthening of OneBatchAtATime: an execution in the     *)
(* gate keeps the flag closed, and one that has read the flag as open and  *)
(* is about to close it still finds it open.                               *)
GateInv ==
    /\ OneBatchAtATime
    /\ \A j, k \in Jobs : Entering(j) /\ Entering(k) => j = k
    /\ \A j \in Jobs : InGate(j) => flag = "closed"
    /\ \A j \in Jobs : job[j] = "closing" => flag # "closed"

(* A closed flag never shuts the job out for good: it is opened by the     *)
(* execution that closed it, or dropped by the cache after a crash.        *)
GateReopens == flag = "closed" ~> flag # "closed"
=============================================================================
