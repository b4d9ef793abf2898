-------------------------- MODULE ColocatedTraining --------------------------
(***************************************************************************)
(* The synchronous training loops as one specification: the configuration  *)
(* of the job says which loop runs.                                        *)
(***************************************************************************)
EXTENDS GRPOTraining, PPOTraining, DistillationTraining, SupervisedTraining

Loop == GRPONext \/ PPONext \/ DistillationNext \/ SupervisedNext
Next == Loop \/ FinishRefit \/ Restart

Spec == Init /\ [][Next]_vars
FairSpec == Spec /\ WF_vars(Loop \/ FinishRefit)

-----------------------------------------------------------------------------
Batch == (0 .. MaxEpochs) \X Nat
Model == [params : {"cpu", "gpu"}, optim : {"cpu", "gpu"}]
Away(m) == m.params = "cpu" /\ m.optim = "cpu"
Generates == {"rollout", "validate", "first_validation"}
                                    \* phases in which an engine answers
HasEngine == config.algo \in Generating

(* Every component of the state stays in its range: epochs, steps and      *)
(* batches within the dataloader, versions never below those loaded.       *)
TypeOK ==
  /\ config \in Configs /\ restarts \in 0 .. MaxRestarts
  /\ sched.epoch \in 0 .. MaxEpochs /\ sched.step \in Nat
  /\ (config.noMaxSteps \/ sched.total <= MaxSteps)
  /\ (config.endless \/ sched.pos \in 0 .. Batches)
  /\ data.batch \subseteq Batch /\ data.pass \in 0 .. PPOEpochs - 1
  /\ model.version \in Nat
  /\ mem \in [policy : Model, other : Model, ipc : BOOLEAN]
  /\ gen.awake \subseteq Parts /\ gen.loaded \in -1 .. model.version
  /\ gen.cache \in -1 .. model.version /\ gen.scales \in -2 .. model.version
  /\ report.metric \in -1 .. sched.total + 1

(* The known exception to InPlace: with a quantized KV cache, PPO measures *)
(* the scales again after a step of the warm-up, and refits for its        *)
(* validation, with the policy where its logprobs have left it: away.      *)
ColdWarmup ==
  /\ config.algo = "ppo" /\ config.kv /\ WarmingUp
  /\ phase = "recalibrate" \/ (phase = "refit" /\ gen.goal = "validate")

(* Whatever computes has its weights, and for training its optimizer, on   *)
(* the GPUs, and an engine that answers is awake with weights and cache;   *)
(* so has the policy that streams its weights into an engine.              *)
InPlace ==
  /\ phase \in {"logprobs", "calibrate", "recalibrate", "refit", "train"}
       => mem.policy.params = "gpu" \/ ColdWarmup
  /\ phase = "train" => mem.policy.optim = "gpu"
  /\ phase \in {"values", "critic", "teacher"} => mem.other.params = "gpu"
  /\ phase = "critic" => mem.other.optim = "gpu"
  /\ HasEngine /\ phase \in Generates => gen.awake = Parts
  /\ config.algo = "xtoken" /\ phase \in Generates \cup {"train"} => mem.ipc

(* The known exception to TakesTurns: after a validation and a checkpoint  *)
(* of one step, distillation wakes the engine beside student and optimizer.*)
StudentLeftOnGPU ==
  config.algo = "distillation" /\ ~gen.stale /\ ~Away(mem.policy)

(* GPUs shared by several models belong to one of them at a time: an       *)
(* engine answers or is filled with weights with nothing else than the     *)
(* parameters it is filled from, the policy trains with engine and second  *)
(* model away, the second model works with engine and optimizer away, and  *)
(* the teacher's logits are freed when the job ends, also if the student   *)
(* has raised (an exception of a teacher or of a save leaves them held).   *)
TakesTurns ==
  LET shared == config.colocated
      shutOff == shared => gen.awake = {}
  IN  /\ HasEngine /\ phase \in Generates /\ shared =>
           Away(mem.other) /\ (Away(mem.policy) \/ StudentLeftOnGPU)
      /\ phase = "refit" /\ shared =>
           /\ Away(mem.other) /\ mem.policy.optim = "cpu"
           /\ gen.awake = {"weights"}
      /\ HasEngine /\ phase = "train" => shutOff /\ Away(mem.other)
      /\ config.algo # "xtoken" /\ phase \in {"values", "critic", "teacher"} =>
           shutOff /\ (mem.policy.optim = "cpu" \/ StudentLeftOnGPU)
      /\ phase \in Ended \ {"raised"} => ~mem.ipc

(* Both: what computes is on the GPUs, and nothing else is that it does    *)
(* not need there.                                                         *)
SharesGPUs == InPlace /\ TakesTurns

(* An engine on GPUs of its own quantizes its KV cache with the scales     *)
(* measured for the weights it holds, but for the initial validation.      *)
ScalesFollowWeights ==
  config.kv /\ ~config.colocated =>
    \/ gen.scales = gen.loaded
    \/ gen.scales = Default /\ gen.loaded = 0 /\ sched.step = 0 /\ ValAtStart

(* Rollouts and validations run on the newest weights, with KV scales of   *)
(* these weights: a fresh engine is never mistaken for a stale one, nor    *)
(* the other way round.                                                    *)
OnNewestWeights ==
  /\ ~gen.stale => gen.loaded = model.version
  /\ HasEngine /\ phase \in Generates => gen.loaded = model.version
  /\ phase \in {"rollout", "validate"} => ScalesFollowWeights

(* The last step of a job that runs to its end is saved.  With dynamic     *)
(* sampling the last step is not recognized: an epoch has fewer steps than *)
(* batches.                                                                *)
EndIsSaved ==
  phase = "done" /\ ~config.dynamic => ckpt.total = sched.total

(* Without dynamic sampling every batch of every epoch is trained on       *)
(* exactly once and in order, over any number of crashes, timeouts and     *)
(* restarts, and what the last of them made of the weights is saved.       *)
EveryBatchOnce ==
  /\ ~config.dynamic /\ ~config.endless =>
       \A i \in 1 .. Len(model.steps) :
         model.steps[i].batches = {<<(i - 1) \div Batches, (i - 1) % Batches>>}
  /\ EndIsSaved

(* A checkpoint is whole: its counters, batches and weights belong         *)
(* together, it has an optimizer as soon as the policy was trained, and    *)
(* the metric it is ranked by was measured on its own weights.  (The       *)
(* off-policy loop keeps an old metric: see its Save.)                     *)
CheckpointWhole ==
  /\ ckpt.total = Len(ckpt.model.steps)
  /\ ckpt.optim = (ckpt.model.version > 0)
  /\ ~config.endless /\ ~config.dynamic =>
       ckpt.total = ckpt.epoch * Batches + ckpt.pos
  /\ config.algo # "xtoken" => ckpt.metric \in {None, ckpt.total}

(* The loops implement TrainingPromise.                                    *)
Promise ==
  INSTANCE TrainingPromise WITH steps <- model.steps, saved <- ckpt.model.steps
PromiseKept == Promise!Spec

(* Every job ends: no loop waits for what will not come.                   *)
EveryJobEnds == <>[](phase \in Ended)
=============================================================================
