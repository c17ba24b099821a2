--------------------------- MODULE JobGate_proofs ---------------------------
(***************************************************************************)
(* Proofs about the job flag, for any number of executions and processes.  *)
(***************************************************************************)
EXTENDS JobGate, TLAPS

(* One step of retry() keeps the flag and the executions in their types.   *)
LEMMA GateTypeStep ==
  ASSUME TypeOK, [Next]_vars
  PROVE  TypeOK'
<1> USE DEF TypeOK, FlagValues, Phases, Goto
<1>1. ASSUME NEW j \in Jobs, Tick(j) PROVE TypeOK'
  BY <1>1 DEF Tick
<1>2. ASSUME NEW j \in Jobs, Proceed(j) PROVE TypeOK'
  BY <1>2 DEF Proceed, ReadGate, CloseGate, Batch, BatchStarted, BatchEmpty,
              BatchAborted, BatchSettled, OpenGate, Reopen
<1>3. ASSUME NEW j \in Jobs, CacheFault(j) PROVE TypeOK'
  BY <1>3 DEF CacheFault, ReadFails, CloseFails, OpenFails, ReopenFails
<1>4. CASE Expire
  BY <1>4 DEF Expire
<1>5. ASSUME NEW i \in Instances, Crash(i) PROVE TypeOK'
  BY <1>5 DEF Crash, Kill
<1>6. CASE UNCHANGED vars
  BY <1>6 DEF vars
<1>7. QED
  BY <1>1, <1>2, <1>3, <1>4, <1>5, <1>6 DEF Next, Quiet, Faults

(* retry() keeps the flag and the phases of its executions in their types. *)
THEOREM GateTypeCorrect == Spec => []TypeOK
<1>1. Init => TypeOK
  BY DEF Init, TypeOK, FlagValues, Phases
<1>2. TypeOK /\ [Next]_vars => TypeOK'
  BY GateTypeStep
<1>3. QED
  BY <1>1, <1>2, PTL DEF Spec

(* One step of retry() preserves the inductive invariant when there is one *)
(* process, the cache answers and the flag outlives a batch.               *)
LEMMA GateInvStep ==
  ASSUME LockAssumptions, TypeOK, GateInv, [Next]_vars
  PROVE  GateInv'
<1> USE DEF TypeOK, Phases, GateInv, OneBatchAtATime, InGate, Entering, Goto
<1>1. ASSUME NEW j \in Jobs, Tick(j) PROVE GateInv'
  <2>1. \A k \in Jobs : ~Entering(k)
    BY <1>1 DEF Tick, LockAssumptions
  <2>2. flag' = flag /\ job' = [job EXCEPT ![j] = "reading"] /\ job[j] = "idle"
    BY <1>1 DEF Tick
  <2>3. QED
    BY <2>1, <2>2
<1>2. ASSUME NEW j \in Jobs, ReadGate(j) PROVE GateInv'
  BY <1>2 DEF ReadGate
<1>3. ASSUME NEW j \in Jobs, CloseGate(j) PROVE GateInv'
  <2>1. \A k \in Jobs : ~InGate(k)
    BY <1>3 DEF CloseGate
  <2>2. flag' = "closed" /\ job' = [job EXCEPT ![j] = "fetching"]
        /\ job[j] = "closing"
    BY <1>3 DEF CloseGate
  <2>3. \A k \in Jobs : job'[k] = "closing" => FALSE
    BY <2>2
  <2>4. QED
    BY <2>1, <2>2, <2>3
<1>4. ASSUME NEW j \in Jobs, Batch(j) PROVE GateInv'
  <2>1. /\ flag' = flag
        /\ InGate(j)
        /\ \E p \in {"running", "opening", "reopening"} :
             job' = [job EXCEPT ![j] = p]
    BY <1>4 DEF Batch, BatchStarted, BatchEmpty, BatchAborted, BatchSettled
  <2>2. QED
    BY <2>1
<1>5. ASSUME NEW j \in Jobs, OpenGate(j) \/ Reopen(j) PROVE GateInv'
  <2>1. /\ flag' = "open"
        /\ InGate(j)
        /\ job' = [job EXCEPT ![j] = "idle"]
    BY <1>5 DEF OpenGate, Reopen
  <2>2. \A k \in Jobs : ~(InGate(k)')
    BY <2>1
  <2>3. QED
    BY <2>1, <2>2
<1>6. ASSUME NEW j \in Jobs, CacheFault(j) PROVE FALSE
  BY <1>6 DEF CacheFault, ReadFails, CloseFails, OpenFails, ReopenFails,
              LockAssumptions
<1>7. CASE Expire
  <2>1. \A k \in Jobs : ~InGate(k)
    BY <1>7 DEF Expire, LockAssumptions
  <2>2. QED
    BY <1>7, <2>1 DEF Expire
<1>8. ASSUME NEW i \in Instances, Crash(i) PROVE GateInv'
  BY <1>8 DEF Crash, Kill
<1>9. CASE UNCHANGED vars
  BY <1>9 DEF vars
<1>10. QED
  BY <1>1, <1>2, <1>3, <1>4, <1>5, <1>6, <1>7, <1>8, <1>9
     DEF Next, Quiet, Faults, Proceed

(* In one process with a working cache an execution in the gate keeps the  *)
(* flag closed, and nobody enters beside it or beside one that is about to.*)
THEOREM GateInvAlways ==
  ASSUME LockAssumptions
  PROVE  Spec => []GateInv
<1>1. Init => GateInv
  BY DEF Init, GateInv, OneBatchAtATime, InGate, Entering
<1>2. TypeOK /\ GateInv /\ [Next]_vars => GateInv'
  BY GateInvStep
<1>3. QED
  BY <1>1, <1>2, GateTypeCorrect, PTL DEF Spec

(* There the flag is a lock: no two executions of retry() ever work on a   *)
(* batch at the same time.                                                 *)
THEOREM GateExclusion ==
  ASSUME LockAssumptions
  PROVE  Spec => []OneBatchAtATime
<1>1. GateInv => OneBatchAtATime
  BY DEF GateInv
<1>2. QED
  BY <1>1, GateInvAlways, PTL
=============================================================================
