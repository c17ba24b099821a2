------------------------- MODULE TransactionOutcome -------------------------
(***************************************************************************)
(* What the retry engine promises about a transaction, with nothing said   *)
(* of records, jobs, flags or writes: it is sent a bounded number of       *)
(* times, it is accepted by the acquirer or cancelled and never both, and  *)
(* it is not sent after that.  That it comes to an end is not promised: a  *)
(* record that is not fetched on its day is left behind.                   *)
(***************************************************************************)
EXTENDS Naturals

CONSTANTS
    Msgs,           \* transactions to be retried
    MaxAttempts     \* how often one may be sent

VARIABLES
    outcome,    \* "waiting", "open", "accepted" or "cancelled"
    attempts    \* attempts[m]: how often m has been sent

vars == <<outcome, attempts>>

Init ==
    /\ outcome = [m \in Msgs |-> "waiting"]
    /\ attempts = [m \in Msgs |-> 0]

Becomes(m, result) == outcome' = [outcome EXCEPT ![m] = result]

(* The transaction is taken up; it may be sent at once.                    *)
Start(m) ==
    /\ outcome[m] = "waiting"
    /\ Becomes(m, "open")
    /\ \E n \in {0, 1} : attempts' = [attempts EXCEPT ![m] = n]

Send(m) ==
    /\ outcome[m] = "open"
    /\ attempts[m] < MaxAttempts
    /\ attempts' = [attempts EXCEPT ![m] = @ + 1]
    /\ UNCHANGED outcome

Succeed(m) ==
    /\ outcome[m] = "open"
    /\ attempts[m] > 0
    /\ Becomes(m, "accepted")
    /\ UNCHANGED attempts

Cancel(m) ==
    /\ outcome[m] = "open"
    /\ Becomes(m, "cancelled")
    /\ UNCHANGED attempts

Next == \E m \in Msgs : Start(m) \/ Send(m) \/ Succeed(m) \/ Cancel(m)

Spec == Init /\ [][Next]_vars
=============================================================================
