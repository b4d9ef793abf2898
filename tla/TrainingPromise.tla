--------------------------- MODULE TrainingPromise ---------------------------
(***************************************************************************)
(* What every synchronous training loop promises, without GPUs, engines,   *)
(* phases or counters: a step takes batches that come after all batches    *)
(* taken before, uses only answers of the weights it starts from, and ends *)
(* with weights that are at least as new; a restart goes back to the steps *)
(* last saved.                                                             *)
(***************************************************************************)
EXTENDS Naturals, Sequences

VARIABLES
  steps,   \* [batches, rolled, before, after] of every step
  saved    \* the same for the latest checkpoint

vars == <<steps, saved>>

Later(a, b) == a[1] > b[1] \/ (a[1] = b[1] /\ a[2] > b[2])
Taken == UNION {steps[i].batches : i \in 1 .. Len(steps)}
Version == IF steps = <<>> THEN 0 ELSE steps[Len(steps)].after

Init == steps = <<>> /\ saved = <<>>

Step ==
  LET s == steps'[Len(steps) + 1]
  IN  /\ Len(steps') = Len(steps) + 1 /\ steps' = Append(steps, s)
      /\ s.batches # {} /\ \A b \in s.batches, t \in Taken : Later(b, t)
      /\ s.rolled \subseteq {Version}
      /\ s.before = Version /\ s.after >= s.before

Save == saved' = steps'
Keep == UNCHANGED saved
Restart == steps' = saved /\ UNCHANGED saved

(* A checkpoint belongs to the step it is written in.                      *)
Next == (Step /\ (Save \/ Keep)) \/ Restart

Spec == Init /\ [][Next]_vars
=============================================================================
