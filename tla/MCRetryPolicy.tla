--------------------------- MODULE MCRetryPolicy ---------------------------
(***************************************************************************)
(* Small instances of RetryPolicy for TLC: two rules, two acquirers.       *)
(***************************************************************************)
EXTENDS RetryPolicy

CONSTANTS r1, r2, pe, bf, sfc, c1, c2, a1, a2, l1

Rules(acquirers, enabled) ==
    [country : {pe}, acquirer : acquirers, enabled : enabled, content : {c1}]

EnabledRules == Rules({bf, sfc}, {TRUE})
SomeCreations == Rules({bf}, {TRUE, FALSE})

Change(acquirer, enabled, content) ==
    [country |-> Keep, acquirer |-> acquirer, enabled |-> enabled,
     content |-> content]

(* Switch a rule on or off, give it another acquirer, other contents.      *)
Switches == {Change(Keep, TRUE, Keep), Change(Keep, FALSE, Keep)}
SomeChanges == Switches \union {Change(sfc, Keep, Keep), Change(bf, Keep, Keep)}
=============================================================================
