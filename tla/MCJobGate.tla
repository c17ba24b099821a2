----------------------------- MODULE MCJobGate -----------------------------
(***************************************************************************)
(* Small instances of JobGate for TLC: up to five executions of the job,   *)
(* in one process or in two.                                               *)
(*                                                                         *)
(* "calm" says that cache faults and crashes are over.  A blocked read and *)
(* a crash during the read, or a last set(true) that succeeds and one that *)
(* is stored and rejected, are the same step of flag and job, so that      *)
(* "no fault from here on" has to be told by a variable.                   *)
(***************************************************************************)
EXTENDS JobGate

CONSTANTS j1, j2, j3, j4, j5, p1, p2

OneHome == [j \in Jobs |-> p1]

TwoHomes == [j \in Jobs |-> IF j \in {j1, j2} THEN p1 ELSE p2]

VARIABLE calm

(* The last fault is over.                                                 *)
CalmDown == ~calm /\ calm' = TRUE /\ UNCHANGED vars

CalmNext ==
    \/ Quiet /\ UNCHANGED calm
    \/ ~calm /\ Faults /\ UNCHANGED calm
    \/ CalmDown

CalmInit == Init /\ calm = FALSE

CalmSpec == CalmInit /\ [][CalmNext]_<<vars, calm>> /\ Fairness

(* Once cache faults and crashes have stopped, ticks go on getting through *)
(* to the fetch, again and again: retry() does not lock itself out.        *)
KeepsFetching == calm ~> (\E j \in Jobs : job[j] = "fetching")

=============================================================================
