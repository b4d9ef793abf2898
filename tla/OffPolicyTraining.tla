------------------------- MODULE OffPolicyTraining -------------------------
(***************************************************************************)
(* What asynchronous GRPO promises, with no collector, threads, refits or  *)
(* mailbox: training steps 0 .. MaxSteps-1 in order, each on exactly N     *)
(* groups that were generated for that step by weights at most A versions  *)
(* old; a group leaves the pool only to be trained on at its step, or once *)
(* its step has passed.  A crash takes training back to an earlier step.   *)
(***************************************************************************)
EXTENDS Integers, FiniteSets

CONSTANTS N, A, MaxSteps

VARIABLES
  pool,   \* the groups waiting to be trained on
  made,   \* per target step: how many groups were ever generated for it
  step,   \* the step being trained, or about to be
  taken,  \* whether this step has its groups
  lives   \* how many times the job was started again

vars == <<pool, made, step, taken, lives>>

Targets == 0 .. (MaxSteps + A)

Init ==
  /\ pool = {} /\ made = [t \in Targets |-> 0]
  /\ step = 0 /\ taken = FALSE /\ lives = 0

Generate ==
  /\ \E v \in 0 .. MaxSteps, t \in Targets :
       /\ t <= v + A
       /\ pool' = pool \cup {[id |-> made[t], ver |-> v, tgt |-> t]}
       /\ made' = [made EXCEPT ![t] = @ + 1]
  /\ UNCHANGED <<step, taken, lives>>

(* A group leaves the pool in the batch, or when its step has passed. *)
Consume ==
  /\ step < MaxSteps /\ ~taken /\ taken'
  /\ \E batch \in SUBSET pool :
       /\ Cardinality(batch) = N
       /\ \A g \in batch : g.tgt = step /\ step - A <= g.ver /\ g.ver <= step
       /\ pool' \subseteq pool \ batch
       /\ \A g \in pool \ pool' : g \in batch \/ g.tgt < step
  /\ UNCHANGED <<made, step, lives>>

(* Waiting, the trainer may throw away groups whose step has passed. *)
Discard ==
  /\ ~taken
  /\ pool' \subseteq pool
  /\ \A g \in pool \ pool' : g.tgt < step
  /\ UNCHANGED <<made, step, taken, lives>>

FinishStep ==
  /\ taken /\ ~taken'
  /\ step' = step + 1
  /\ UNCHANGED <<pool, made, lives>>

(* After a crash, training resumes at most one step ahead of the step it   *)
(* was in (that step's checkpoint), with groups all still of use.          *)
Resume ==
  /\ step' \in 0 .. (MaxSteps - 1)
  /\ step' <= (IF taken THEN step + 1 ELSE step)
  /\ ~taken'
  /\ \A t \in Targets : made'[t] <= made[t]
  /\ \A g \in pool' :
       g.id < made'[g.tgt] /\ step' <= g.tgt /\ g.tgt <= g.ver + A
  /\ lives' = lives + 1

Next == Generate \/ Consume \/ Discard \/ FinishStep \/ Resume

Spec == Init /\ [][Next]_vars
=============================================================================
