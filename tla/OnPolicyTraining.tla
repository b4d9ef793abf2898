-------------------------- MODULE OnPolicyTraining --------------------------
(***************************************************************************)
(* What synchronous GRPO promises, with no data plane, ranks, refits or    *)
(* phases: the weights advance one step at a time, each step on P prompts  *)
(* never trained on before by these weights, answered by these very        *)
(* weights; a restart takes training back to the weights last saved.       *)
(***************************************************************************)
EXTENDS Naturals, Sequences, FiniteSets

CONSTANT P

VARIABLES
  weights,  \* the batches the policy was trained on, in order
  saved     \* the same for the latest checkpoint

vars == <<weights, saved>>

Prompt(g) == [epoch |-> g.epoch, batch |-> g.batch, prompt |-> g.prompt]
Trained == UNION {weights[i] : i \in 1 .. Len(weights)}

Init == weights = <<>> /\ saved = <<>>

(* The batch the next weights were trained on besides those of weights.    *)
Batch == weights'[Len(weights) + 1]

Step ==
  /\ Len(weights') = Len(weights) + 1 /\ weights' = Append(weights, Batch)
  /\ Cardinality(Batch) = P /\ Cardinality({Prompt(g) : g \in Batch}) = P
  /\ \A g \in Batch : g.ver = Len(weights)
  /\ \A g \in Batch, h \in Trained : Prompt(g) # Prompt(h)
  /\ UNCHANGED saved

Save == saved' = weights /\ UNCHANGED weights

Restart == weights' = saved /\ UNCHANGED saved

Next == Step \/ Save \/ Restart

Spec == Init /\ [][Next]_vars
=============================================================================
