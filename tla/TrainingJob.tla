----------------------------- MODULE TrainingJob -----------------------------
(***************************************************************************)
(* What the synchronous training loops share: the schedule of epochs and   *)
(* steps, the GPUs that a policy, a second model (the value model of PPO,  *)
(* the teacher of distillation) and a generation engine take in turns, the *)
(* weight transfer between policy and engine, checkpoints and restarts.    *)
(* Each loop is a module of its own; ColocatedTraining puts them together. *)
(*                                                                         *)
(* Every call of the driver waits for all workers (ray.get), so a loop is  *)
(* one sequence of steps and a model is in one place.  A model is          *)
(* [params, optim]: where its parameters (with gradients) and its          *)
(* optimizer state are.  Train or eval mode is set again by every forward  *)
(* and is left out, and so is the engine that is the policy itself         *)
(* (colocated Megatron generation, NEED_REFIT = False).                    *)
(***************************************************************************)
EXTENDS Integers, Sequences, FiniteSets

CONSTANTS
  Configs,          \* the configurations to start a job with: see Config
  Batches,          \* len(dataloader)
  MaxEpochs, MaxSteps,
  ValPeriod, ValAtStart, ValAtEnd, SavePeriod,
  MaxGenBatches,    \* dynamic_sampling_max_gen_batches
  PPOEpochs,
  MaxRestarts       \* bound: crashes and resubmissions of the job

Algorithms == {"grpo", "ppo", "distillation", "sft", "dpo", "rm", "xtoken"}
Generating == {"grpo", "ppo", "distillation"}

(* colocated: engine and policy share GPUs; dynamic: use_dynamic_sampling; *)
(* kv: requires_kv_scale_sync; skipLP: both logprob passes are skipped;    *)
(* lpOffload: offload_optimizer_for_logprob; endless: the dataloader never *)
(* ends (grpo, use_multiple_dataloader); noMaxSteps: rm.max_num_steps = -1;*)
(* warmup: policy_training_start_step.                                     *)
Config ==
  [algo : Algorithms, colocated : BOOLEAN, dynamic : BOOLEAN, kv : BOOLEAN,
   skipLP : BOOLEAN, lpOffload : BOOLEAN, endless : BOOLEAN,
   noMaxSteps : BOOLEAN, warmup : Nat]

ASSUME JobConstants ==
  /\ {Batches, MaxEpochs, MaxSteps, SavePeriod, PPOEpochs} \subseteq Nat \ {0}
  /\ {ValPeriod, MaxGenBatches, MaxRestarts} \subseteq Nat
  /\ {ValAtStart, ValAtEnd} \subseteq BOOLEAN
  /\ Configs \subseteq Config
  /\ \A c \in Configs :
       /\ c.kv => c.algo \in {"grpo", "ppo"}      \* FP8 KV cache: vLLM, Megatron
       /\ c.algo = "ppo" => c.colocated            \* asserted by its setup
       /\ c.dynamic \/ c.endless \/ c.skipLP => c.algo = "grpo"
       /\ c.noMaxSteps => c.algo = "rm"
       /\ c.warmup > 0 => c.algo = "ppo"

VARIABLES
  config,   \* the configuration of this job
  phase,    \* what the driver does next
  sched,    \* [epoch, step, total, pos]: current_epoch, current_step,
            \* total_steps and the batches given out in this epoch
  data,     \* [batch, rolled, numGen, pass]: the batches of this step, the
            \* versions that rolled them out, dynamic_sampling_num_gen_batches
            \* and the PPO epoch
  model,    \* [version, steps]: updates of the policy, and for every step
            \* taken [batches, rolled, before, after]
  mem,      \* [policy, other, ipc]: where the models are; teacher logits
            \* held in IPC buffers
  gen,      \* [awake, loaded, scales, cache, stale, goal]: the engine's parts
            \* on the GPU, the version of its weights and of its KV scales;
            \* kv_scales_cache, POLICY_GENERATION_STALE; what a refit is for
  report,   \* [measured, metric, timeout]: val_metrics is not None, the
            \* step of the val metric in the save state, check_save()
  ckpt,     \* the latest checkpoint
  restarts

rest == <<config, ckpt, restarts>>
vars == <<phase, sched, data, model, mem, gen, report, rest>>

None == -1                       \* None; weights never loaded (load_format dummy)
Default == -2                    \* the engine's own KV scales, 1.0

(* How a job ends: failed after the loop has cleaned up, raised with        *)
(* everything left where it was.                                           *)
Ended == {"done", "timeout", "failed", "raised"}
Now(algos, p) == config.algo \in algos /\ phase = p

-----------------------------------------------------------------------------
(* The workers: what each call does to a model.                            *)

PreparedForInference(m) ==
  [m EXCEPT !.params = "gpu", !.optim = IF config.lpOffload THEN "cpu" ELSE @]
PreparedForTraining(m) == [params |-> "gpu", optim |-> "gpu"]
InferenceFinished(m) == [m EXCEPT !.params = "cpu"]
OffloadedBeforeRefit(m) == [m EXCEPT !.optim = "cpu"]
OffloadedAfterRefit(m) == [OffloadedBeforeRefit(m) EXCEPT !.params = "cpu"]

ValueForInference(m) == [m EXCEPT !.params = "gpu"]
ValueFinished(m) == [params |-> "cpu", optim |-> "cpu"]

(* The engine: wake_up with or without tags, sleep; an engine with GPUs of *)
(* its own never sleeps.                                                   *)
Parts == {"weights", "kv_cache"}
Awake(tags) == IF config.colocated THEN gen.awake \cup tags ELSE Parts
Asleep == IF config.colocated THEN {} ELSE Parts

-----------------------------------------------------------------------------
(* refit_policy_generation: BeginRefit up to the transfer, FinishRefit     *)
(* from the transfer on.  Only the collective transfer is given the scales.*)

BeginRefitOf(m, goal) ==
  /\ phase' = "refit"
  /\ mem' = [mem EXCEPT !.policy =
               IF config.colocated THEN OffloadedBeforeRefit(m) ELSE m]
  /\ gen' = [gen EXCEPT !.awake = Awake({"weights"}), !.goal = goal]

BeginRefit(goal) == BeginRefitOf(mem.policy, goal)

FinishRefit ==
  /\ phase = "refit" /\ phase' = gen.goal
  /\ mem' = [mem EXCEPT !.policy =
               IF config.colocated THEN OffloadedAfterRefit(@) ELSE @]
  /\ gen' = [gen EXCEPT !.awake = Awake(Parts), !.stale = FALSE,
               !.loaded = model.version,
               !.scales = IF config.colocated \/ gen.goal = "first_validation"
                               \/ gen.cache = None
                            THEN Default ELSE gen.cache]
  /\ UNCHANGED <<sched, data, model, report, rest>>

(* prepare_for_generation() of an engine that has the weights already      *)
WakeFor(goal, m) ==
  /\ phase' = goal
  /\ mem' = [mem EXCEPT !.policy = m]
  /\ gen' = [gen EXCEPT !.awake = Awake(Parts), !.goal = goal]

PolicyAside ==
  IF config.colocated THEN OffloadedAfterRefit(mem.policy) ELSE mem.policy

(* Rollouts of the batch, then finish_generation()                         *)
RolledOut ==
  /\ data' = [data EXCEPT !.rolled = @ \cup {gen.loaded}]
  /\ gen' = [gen EXCEPT !.awake = Asleep]

-----------------------------------------------------------------------------
(* The schedule                                                            *)

StepsLeft == config.noMaxSteps \/ sched.total < MaxSteps
LastOfAll ==
  \/ ~config.noMaxSteps /\ sched.total + 1 >= MaxSteps
  \/ /\ ~config.endless
     /\ sched.epoch + 1 = MaxEpochs /\ sched.step + 1 = Batches
ValidationDue ==
  \/ ValPeriod > 0 /\ (sched.total + 1) % ValPeriod = 0
  \/ ValAtEnd /\ LastOfAll
SaveDue == LastOfAll \/ (sched.total + 1) % SavePeriod = 0

(* The head of the loop over epochs                                        *)
NextEpoch(algos) ==
  /\ Now(algos, "loop")
  /\ phase' = IF sched.epoch < MaxEpochs /\ StepsLeft THEN "batch" ELSE "done"
  /\ data' = [data EXCEPT !.batch = {}, !.rolled = {}, !.numGen = 0]
  /\ UNCHANGED <<sched, model, gen, report, rest>>

(* for batch in dataloader                                                 *)
NextBatch(algos) ==
  /\ Now(algos, "batch") /\ (config.endless \/ sched.pos < Batches)
  /\ phase' = "prepare"
  /\ sched' = [sched EXCEPT !.pos = @ + 1]
  /\ data' = [data EXCEPT !.batch = @ \cup {<<sched.epoch, sched.pos>>},
                !.numGen = @ + 1]
  /\ report' = [report EXCEPT !.measured = FALSE]
  /\ UNCHANGED <<model, mem, gen, rest>>

(* Mutant: an epoch that never ends                                        *)
EndEpochLate(algos) ==
  /\ Now(algos, "batch") /\ ~config.endless /\ sched.pos > Batches
  /\ phase' = "loop"
  /\ sched' = [sched EXCEPT !.epoch = @ + 1, !.step = 0, !.pos = 0]
  /\ UNCHANGED <<data, model, mem, gen, report, rest>>
EndEpoch(algos) ==
  /\ Now(algos, "batch") /\ ~config.endless /\ sched.pos >= Batches
  /\ phase' = "loop"
  /\ sched' = [sched EXCEPT !.epoch = @ + 1, !.step = 0, !.pos = 0]
  /\ UNCHANGED <<data, model, mem, gen, report, rest>>

(* The policy is updated once on the batches of this step                  *)
Updated == [model EXCEPT !.version = @ + 1]

(* One step is over: the batches it took and the versions around it        *)
StepTaken ==
  LET before == IF model.steps = <<>> THEN 0
                ELSE model.steps[Len(model.steps)].after
  IN  [model EXCEPT !.steps =
         Append(@, [batches |-> data.batch, rolled |-> data.rolled,
                    before |-> before, after |-> model.version])]

(* The save state and the files written with it; metric is what the save   *)
(* state holds under checkpointing.metric_name, a validation metric.       *)
(* Mutant: the dataloader is saved before the batch was drawn              *)
CheckpointBehind(step, metric, optim) ==
  [epoch |-> sched.epoch, step |-> step, total |-> sched.total + 1,
   pos |-> sched.pos - 1, model |-> StepTaken, metric |-> metric,
   optim |-> optim]
Checkpoint(step, metric, optim) ==
  [epoch |-> sched.epoch, step |-> step, total |-> sched.total + 1,
   pos |-> sched.pos, model |-> StepTaken, metric |-> metric,
   optim |-> optim]

NoCheckpoint ==
  [epoch |-> 0, step |-> 0, total |-> 0, pos |-> 0,
   model |-> [version |-> 0, steps |-> <<>>], metric |-> None,
   optim |-> FALSE]

(* The metric entry is set by a validation of this very step or deleted.   *)
FreshMetric == IF report.measured THEN sched.total + 1 ELSE None

(* if checkpointing is due, or check_save() finds too little time left     *)
Save(algos, step, metric, optim, places) ==
  /\ Now(algos, "save") /\ phase' = "advance"
  /\ \E timeout \in BOOLEAN :
       /\ report' = [report EXCEPT !.timeout = timeout,
                       !.metric = IF SaveDue \/ timeout THEN metric ELSE @]
       /\ IF SaveDue \/ timeout
            THEN ckpt' = Checkpoint(step, metric, optim) /\ mem' = places
            ELSE UNCHANGED <<ckpt, mem>>
  /\ model' = StepTaken
  /\ UNCHANGED <<sched, data, gen, config, restarts>>

(* Mutant: what was cached for the step is not reset                       *)
AdvanceCached(algos) ==
  /\ Now(algos, "advance")
  /\ sched' = [sched EXCEPT !.step = @ + 1, !.total = @ + 1]
  /\ phase' = IF report.timeout THEN "timeout"
              ELSE IF ~config.noMaxSteps /\ sched.total + 1 >= MaxSteps THEN "done"
              ELSE "batch"
  /\ UNCHANGED <<data, model, gen, report, rest>>
(* The end of an iteration                                                 *)
Advance(algos) ==
  /\ Now(algos, "advance")
  /\ sched' = [sched EXCEPT !.step = @ + 1, !.total = @ + 1]
  /\ phase' = IF report.timeout THEN "timeout"
              ELSE IF ~config.noMaxSteps /\ sched.total + 1 >= MaxSteps THEN "done"
              ELSE "batch"
  /\ data' = [data EXCEPT !.batch = {}, !.rolled = {}, !.numGen = 0, !.pass = 0]
  /\ UNCHANGED <<model, gen, report, rest>>

-----------------------------------------------------------------------------
(* setup: the state a job starts its loop in, from the latest checkpoint.  *)

StartFrom(c) ==
  /\ phase' = "start"
  /\ sched' = [epoch |-> c.epoch, step |-> c.step, total |-> c.total,
               pos |-> c.pos]
  /\ data' = [batch |-> {}, rolled |-> {}, numGen |-> 0, pass |-> 0]
  /\ model' = c.model
  /\ mem' = [policy |-> [params |-> "gpu", optim |-> "gpu"],
             other |-> [params |-> "cpu", optim |-> "cpu"], ipc |-> FALSE]
  /\ gen' = [awake |-> Asleep, loaded |-> None, scales |-> Default,
             cache |-> None, stale |-> TRUE, goal |-> "rollout"]
  /\ report' = [measured |-> FALSE, metric |-> c.metric, timeout |-> FALSE]

(* The job is killed, or resubmitted after a timeout or an exception.      *)
Restart ==
  /\ phase # "done" /\ restarts < MaxRestarts
  /\ restarts' = restarts + 1
  /\ StartFrom(ckpt)
  /\ UNCHANGED <<config, ckpt>>

Init ==
  /\ config \in Configs
  /\ ckpt = NoCheckpoint /\ restarts = 0
  /\ phase = "start"
  /\ sched = [epoch |-> 0, step |-> 0, total |-> 0, pos |-> 0]
  /\ data = [batch |-> {}, rolled |-> {}, numGen |-> 0, pass |-> 0]
  /\ model = [version |-> 0, steps |-> <<>>]
  /\ mem = [policy |-> [params |-> "gpu", optim |-> "gpu"],
            other |-> [params |-> "cpu", optim |-> "cpu"], ipc |-> FALSE]
  /\ gen = [awake |-> Asleep, loaded |-> None, scales |-> Default,
            cache |-> None, stale |-> TRUE, goal |-> "rollout"]
  /\ report = [measured |-> FALSE, metric |-> None, timeout |-> FALSE]
=============================================================================
