--------------------------- MODULE MCRetryEngine ---------------------------
(***************************************************************************)
(* Small instances of RetryEngine for TLC.  A day has four or five units   *)
(* of time, the last one or two being its last minute; delays are of one   *)
(* or two units.                                                           *)
(***************************************************************************)
EXTENDS RetryEngine

CONSTANTS m1, m2, j1, j2, p1, p2

OneHome == [x \in Msgs \union Jobs |-> p1]

TwoHomes == [x \in Msgs \union Jobs |-> IF x = j2 THEN p2 ELSE p1]

(* The businesses of the deliveries of a run.                              *)
Business(one, two) == [m \in Msgs |-> IF m = m1 THEN one ELSE two]

Transbank == Business("transbank", "none")
TbkMall == Business("tbk_mall", "none")
Interop == Business("interop", "none")
TransbankAndSfc == Business("transbank", "sfc")
BfAndRedeban == Business("bf", "redeban")

Timeout == Error("none", "ETIMEDOUT", FALSE)
Refused == Error("400", "none", FALSE)
NotFound04 == Error("404", "none", FALSE)
NotFound05 == Error("404", "none", TRUE)

SerieOneTwo == <<1, 2>>
SerieOneTwoOne == <<1, 2, 1>>

(* The rules of the runs: one with a period, one with a serie.             *)
ThreeRetries == NonSerieRule(1, 3, {"500", "3"})
NotFoundSerie == SerieRule(<<1, 1>>, {"404"})

SomeErrors == {Timeout, Refused}
NotFoundErrors == {NotFound04, NotFound05}
SettleRules == {NoRule, ThreeRetries, NotFoundSerie}
ThreeRetriesOnly == {ThreeRetries}
TimeoutOnly == {Timeout}
RefusedOnly == {Refused}
FewRules == {NoRule, ThreeRetries}
=============================================================================
