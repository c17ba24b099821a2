----------------------------- MODULE RetryRules -----------------------------
(***************************************************************************)
(* The decisions CreateTransactionService takes when an attempt fails:     *)
(* which errors are retried, how many times, after how long, and until     *)
(* when.  Everything here is a pure operator; RetryEngine evaluates them   *)
(* in its error handlers.                                                  *)
(*                                                                         *)
(* Time is a natural number of units.  A day has MinutesPerDay minutes of  *)
(* UnitsPerMinute units, so that 23:59 is the last minute of it.           *)
(***************************************************************************)
EXTENDS Integers, Sequences, FiniteSets

CONSTANTS
    UnitsPerMinute,     \* the resolution of the clock
    MinutesPerDay,
    TimeSerie,          \* appConfig.timeSerie: TimeSerie[n] is the n-th delay
    DefaultDelay,       \* the literal 30 of buildSeconds, in units
    DefaultFailCodes,   \* appConfig.failCodes
    TimeoutCodes,       \* appConfig.timeoutCodes
    CodesToThrowError   \* appConfig.api_tin.codesToThrowError, {} if undefined

ASSUME TimeAssumption ==
    /\ UnitsPerMinute \in Nat \ {0}
    /\ MinutesPerDay \in Nat \ {0}
    /\ TimeSerie \in Seq(Nat)
    /\ DefaultDelay \in Nat

UnitsPerDay == MinutesPerDay * UnitsPerMinute

Max2(a, b) == IF a >= b THEN a ELSE b

(* Constants.BUSINESS_NAMES: the two acquirers behind API-TIN.             *)
BUSINESS_NAMES == {"interop", "bf"}

(* The businesses buildAdditionalDataForTransaction has a method for.      *)
BuiltBusinesses == {"tbk_mall", "transbank", "sfc"} \union BUSINESS_NAMES
-----------------------------------------------------------------------------
(* What the handlers read of an error: its HTTP status and axios code, and *)
(* whether its body has code '05' or status 5.  A TypeError and an error   *)
(* of the database driver have neither a status nor a timeout code.        *)
Error(status, code, five) == [status |-> status, code |-> code, five |-> five]

InternalError == Error("none", "none", FALSE)

ASSUME InternalErrorAssumption ==
    "none" \notin DefaultFailCodes \union TimeoutCodes

(* getConfiguration answers with the first rule of the acquirer or with    *)
(* undefined.  A "serie" rule lists its delays, a "nonserie" rule has a    *)
(* period and a number of retries.                                         *)
NoRule == [type |-> "none", data |-> << >>, period |-> 0, retries |-> 0,
           failCodes |-> DefaultFailCodes]

SerieRule(data, failCodes) ==
    [type |-> "serie", data |-> data, period |-> 0, retries |-> 0,
     failCodes |-> failCodes]

NonSerieRule(period, retries, failCodes) ==
    [type |-> "nonserie", data |-> << >>, period |-> period,
     retries |-> retries, failCodes |-> failCodes]

IsRule(rule) ==
    /\ rule.type \in {"none", "serie", "nonserie"}
    /\ rule.data \in Seq(Nat)
    /\ rule.period \in Nat
    /\ rule.retries \in Nat
    /\ "none" \notin rule.failCodes

(* The value of an undefined or zero field is falsy in both cases: 0.      *)
GetTimeValueByType(rule, retryNumber) ==
    CASE rule.type = "nonserie" -> rule.period
      [] rule.type # "nonserie" /\ retryNumber \in 1 .. Len(rule.data) ->
           rule.data[retryNumber]
      [] OTHER -> 0

GetRetriesMaximunByType(rule) ==
    IF rule.type = "nonserie" THEN rule.retries ELSE Len(rule.data)

BuildSeconds(secondsFromTimeSerie, numberOfRetry) ==
    CASE secondsFromTimeSerie # 0 -> secondsFromTimeSerie
      [] /\ secondsFromTimeSerie = 0
         /\ numberOfRetry \in 1 .. Len(TimeSerie)
         /\ TimeSerie[numberOfRetry] # 0 -> TimeSerie[numberOfRetry]
      [] OTHER -> DefaultDelay

DelayAfter(rule, retryNumber) ==
    BuildSeconds(GetTimeValueByType(rule, retryNumber), retryNumber)

(* A maximum of 0, or none, falls back to the length of the default serie. *)
NumberOfRetriesAllowed(rule) ==
    IF GetRetriesMaximunByType(rule) # 0
    THEN GetRetriesMaximunByType(rule)
    ELSE Len(TimeSerie)
-----------------------------------------------------------------------------
StartOfDay(t) == t - (t % UnitsPerDay)

(* aDate.setHours(23, 59): the seconds and milliseconds of aDate are kept. *)
AtLastMinute(t) ==
    StartOfDay(t) + (MinutesPerDay - 1) * UnitsPerMinute + (t % UnitsPerMinute)

AllowedToRetryIfBeforeMidnight(nextExecution, aDate) ==
    AtLastMinute(aDate) > nextExecution

IsLessThanTwentyFourHours(aDateTime, now) ==
    AtLastMinute(now) - aDateTime < UnitsPerDay

AllowedToRetry(error, rule) ==
    error.status \in rule.failCodes \/ error.code \in TimeoutCodes

AllowedToRetryNotFoundIfIsApiTinError(error, business) ==
    \/ business \notin BUSINESS_NAMES
    \/ error.status # "404"
    \/ error.five

(* throwErrorIfAllowed: an answer that counts as a failure.                *)
ThrowErrorIfAllowed(business, status) ==
    business \in BUSINESS_NAMES /\ status \in CodesToThrowError

ErrorOfAnswer(status) == Error(status, "none", FALSE)
-----------------------------------------------------------------------------
(* The condition of handlerError, after the first attempt.                 *)
RetryAfterCreate(error, business, rule, now) ==
    /\ AllowedToRetry(error, rule)
    /\ AllowedToRetryNotFoundIfIsApiTinError(error, business)
    /\ AllowedToRetryIfBeforeMidnight(now + DelayAfter(rule, 1), now)

(* Mutant of RetryAfterReprocess: one attempt too many.                    *)
RetryOnceTooOften(error, business, rule, retries, next, createAt, now) ==
    /\ AllowedToRetry(error, rule)
    /\ IsLessThanTwentyFourHours(createAt, now)
    /\ retries <= NumberOfRetriesAllowed(rule)
    /\ AllowedToRetryNotFoundIfIsApiTinError(error, business)
    /\ AllowedToRetryIfBeforeMidnight(next + DelayAfter(rule, retries), createAt)

(* Mutant of RetryAfterReprocess: no look at 23:59.                        *)
RetryAtAnyTime(error, business, rule, retries, next, createAt, now) ==
    /\ AllowedToRetry(error, rule)
    /\ IsLessThanTwentyFourHours(createAt, now)
    /\ retries < NumberOfRetriesAllowed(rule)
    /\ AllowedToRetryNotFoundIfIsApiTinError(error, business)

(* The condition of handlerErrorForReprocessTransaction, at the date now.  *)
(* next is the date this attempt was planned for.  createAt is the date    *)
(* the handler took before it looked the rule up: it reads created_at, and *)
(* the stored field is createdAt, so that getCreatedAt() is undefined for  *)
(* every record and new Date() stands in.                                  *)
RetryAfterReprocess(error, business, rule, retries, next, createAt, now) ==
    /\ AllowedToRetry(error, rule)
    /\ IsLessThanTwentyFourHours(createAt, now)
    /\ retries < NumberOfRetriesAllowed(rule)
    /\ AllowedToRetryNotFoundIfIsApiTinError(error, business)
    /\ AllowedToRetryIfBeforeMidnight(next + DelayAfter(rule, retries), createAt)

(* The createdAt clause of the filter in retry(): the record is less than  *)
(* 24 hours older than 23:59 of the day of the job.                        *)
InFilterWindow(createdAt, today) ==
    AtLastMinute(today) - createdAt < UnitsPerDay
=============================================================================
