---------------------------- MODULE RuleRegister ----------------------------
(***************************************************************************)
(* What the retry engine may rely on when it looks up the retry rule of an *)
(* acquirer: rules come into force and go out of force, and a lookup       *)
(* answers with a rule that is or was in force under the key that was      *)
(* asked for, or with no rule.  It may be an old one: the cache in front   *)
(* of the database makes no stronger promise (RetryPolicy).                *)
(***************************************************************************)
CONSTANTS Keys, Readers, NoRule, NoAnswer

VARIABLES
    inForce,    \* inForce[k]: the rules in force under key k
    past,       \* past[k]: every rule that has ever been in force under k
    answer      \* answer[l]: key and rule of the answer l has just got

vars == <<inForce, past, answer>>

Init ==
    /\ inForce = [k \in Keys |-> {}]
    /\ past = [k \in Keys |-> {}]
    /\ answer = [l \in Readers |-> NoAnswer]

(* An administrator creates or changes a rule.                             *)
Change ==
    /\ past' = [k \in Keys |-> past[k] \union inForce'[k]]
    /\ UNCHANGED answer

Ask(l) ==
    /\ answer' = [answer EXCEPT ![l] = NoAnswer]
    /\ UNCHANGED <<inForce, past>>

Answer(l, k) ==
    /\ \E rule \in past[k] \union {NoRule} :
            answer' = [answer EXCEPT ![l] = [key |-> k, rule |-> rule]]
    /\ UNCHANGED <<inForce, past>>

Next ==
    \/ Change
    \/ \E l \in Readers : Ask(l) \/ \E k \in Keys : Answer(l, k)

Spec == Init /\ [][Next]_vars
=============================================================================
