------------------------- MODULE MCColocatedTraining -------------------------
EXTENDS ColocatedTraining

Base ==
  [algo |-> "grpo", colocated |-> TRUE, dynamic |-> FALSE, kv |-> FALSE,
   skipLP |-> FALSE, lpOffload |-> TRUE, endless |-> FALSE,
   noMaxSteps |-> FALSE, warmup |-> 0]

(* A job for every branch of the loops: each flag on its own, and the flags *)
(* that meet on one path (engine apart or not, scales, optimizer offload,   *)
(* warm-up).                                                               *)
Jobs ==
  {[Base EXCEPT !.colocated = c, !.kv = k] : c \in BOOLEAN, k \in BOOLEAN}
  \cup {[Base EXCEPT !.kv = TRUE, !.lpOffload = FALSE],
        [Base EXCEPT !.skipLP = TRUE],
        [Base EXCEPT !.skipLP = TRUE, !.colocated = FALSE, !.kv = TRUE],
        [Base EXCEPT !.dynamic = TRUE],
        [Base EXCEPT !.endless = TRUE],
        [Base EXCEPT !.algo = "ppo", !.kv = TRUE],
        [Base EXCEPT !.algo = "ppo", !.lpOffload = FALSE],
        [Base EXCEPT !.algo = "ppo", !.warmup = 2],
        [Base EXCEPT !.algo = "ppo", !.warmup = 2, !.kv = TRUE],
        [Base EXCEPT !.algo = "rm", !.noMaxSteps = TRUE]}
  \cup {[Base EXCEPT !.algo = "distillation", !.colocated = c] : c \in BOOLEAN}
  \cup {[Base EXCEPT !.algo = a] : a \in {"sft", "dpo", "rm", "xtoken"}}
=============================================================================
