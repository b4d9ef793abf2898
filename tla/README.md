# NeMo RL: a TLA+ model of its training system

NeMo RL (`nemo_rl/`) post-trains language models with reinforcement learning on
a Ray cluster. This directory models the parts of it whose correctness rests on
the order of events, on who holds what, or on index arithmetic that several
processes must agree on: the training loops (asynchronous GRPO with its
collector and replay buffer, GRPO over the data plane, the colocated and the
supervised loops), the checkpoint directory, rollouts, the calls of the policy
with their sharding and packing, the generation engines as their callers see
them, the transfer of weights, and the command line that brings clusters up and
tears them down.

## 1. Inventory

| Component | State | Operations | What makes it hard | What makes it correct |
|---|---|---|---|---|
| Replay buffer (`algorithms/async_utils/replay_buffer.py`) | three parallel lists (group, weight version, target step), a watermark `last_target_weight_already_generated`, `max_size` | `add`, `sample`, `clear`, `state_dict`, `load_state_dict`, queries | the age window is computed in three places; a restore runs up to four passes | no group lost before its step, readiness and sampling agree, a restore leaves what is usable |
| Trajectory collector (`algorithms/async_utils/trajectory_collector.py`) | weight versions, three events, reserved targets, per-target counters, in-flight threads, a semaphore | actor calls, the collection thread, one thread per prompt group | three kinds of threads over five locks, remote reads before locks, back-pressure, failing workers | reservations released exactly when due, labels and targets within the window, no step forgotten |
| Asynchronous training loop (`async_grpo_train`, `algorithms/grpo.py`) | step, weight version, checkpoint | start, validate, fill wait, sample, train, refit, checkpoint, restart | fire-and-forget calls to an actor, restart from a snapshot taken while others run | each step trains on its own full batch, in order, across restarts |
| Checkpoint manager (`utils/checkpoint.py`) | `step_N`, `tmp_step_N`, `old_step_N` | init, finalize, prune, best, latest | renames and recursive deletes with a crash in between | what is loaded is complete, the newest is never lost |
| Synchronous GRPO over the data plane (`algorithms/grpo_sync.py`, `models/policy/tq_policy.py`) | epoch, step, dataloader position, `meta`, `pending_meta`, `POLICY_GENERATION_STALE` | draw, rollout, dynamic sampling, log-probs and training on the ranks, validate, save, restart | rows are written, read and cleared by several processes; batches merge, so steps and batches drift apart | answers come from the current weights, no row is lost or left behind, a restart repeats and loses nothing |
| Synchronous loops without it (`grpo_train`, `ppo.py`, `distillation.py`, `xtoken_off_policy_distillation.py`, `sft.py`, `dpo.py`, `rm.py`) | schedule, where each model and its optimizer are, engine awake or asleep, stale flag, KV scales | rollouts, log-probs, training, refit, validation, save, restart | seven copies of one schedule, each with its own exceptions; models that must leave the GPUs for one another | GPUs shared in turn, answers of the newest weights, every batch once, every job ends |
| Rollouts (`experience/`, `environments/nemo_gym.py`) | per-sample conversations, the batch of active samples | batch, sample and group loops, NeMo-Gym | samples leave the batch at different turns; coroutines; answers grouped by task; results out of order | each sample hears its own answers, fits the context, is rewarded for what it heard |
| Sharding, packing, policy and value calls (`distributed/batched_data_dict.py`, `data/packing/`, `models/policy/`, `models/value/`) | rows, permutation, bins, shards, microbatches | shard, sort, pack, run microbatches in step, put results back | three ways of dealing rows, five back ends that count microbatches by themselves, collectives | no rank waits in vain, each result is that of its row |
| Generation engines (`models/generation/`) | requests, shards, turn, retries | `generate`, `generate_text`, `generate_async` on vLLM, SGLang, Megatron | engines finish in any order, requests fail and are sent again | one reply for each prompt at its place |
| Weight transfer (`refit_policy_generation`, `policy/utils.py`, `utils/packed_tensor.py`, `vllm_backend.py`) | double buffers, streams, sockets | IPC handles over ZMQ, HTTP buckets, packed broadcasts | a buffer is packed while its other half is read; two parties raise or time out | weights believed updated are those that were sent |
| Setup of a job (`distributed/virtual_cluster.py`, `worker_groups.py`, the `setup` functions, `opd.py`) | hosts, virtual clusters and their placement groups, worker groups, ports, ranks | split, pin to segments, place, start, load, join, teachers | clusters are placed by whoever comes first, in threads; bundles land anywhere | no GPU twice, engines whole and on their hosts, every rank once |
| Cross-tokenizer distillation (`algorithms/x_token/`, `data/cross_tokenizer_collate.py`, `xtoken_off_policy_distillation.py`, the loss) | pairs of token spans, teachers' logits in shared buffers, handles | align two tokenizations, export, map and rebuild logits, score and select teachers, the losses | teacher and student are sharded differently in rows, positions and vocabulary; collectives in loops that depend on data | every chunk says the same on both sides, a rank hears what concerns its own rows and positions |
| Cluster launcher (`infra/nrl_k8s`) | RayClusters, DRA objects, Deployment, RayJob, processes, registry | ten commands of `nrl-k8s` | interrupted anywhere, several users, KubeRay moves by itself | nothing claimed is deleted, a teardown leaves nothing, other people's clusters are left alone |
| Data plane (`data_plane/`) | partitions, rows | register, put, get, clear | rows under way between processes | modelled as `store` of `SyncGRPO` |
| Losses and advantages (`algorithms/loss/`, `advantage_estimator.py`, `reward_functions.py`, the workers' `train`) | rewards, advantages, accumulated gradient, reported metrics | shape, estimate, deal, train a microbatch, step, add up the reports | means over a batch that is dealt to ranks and microbatches, each back end undoing its own averaging | the update does not depend on how the batch is dealt |
| Not modelled | | | networks, tensors, engines, logging | section 7 |

How they interact. In asynchronous GRPO the trainer calls the collector actor
(fire-and-forget `set_weight_version`, `resume_after_refit`, `pause`, `resume`;
blocking `prepare_for_refit`, `get_dataloader_state`) and the buffer actor
(blocking `sample`, `has_complete_batch`, `state_dict`). The collection thread
reserves a target step, starts one thread per prompt group, and each of these
runs a rollout on the generation engine and pushes its group to the buffer,
retrying while it is full. Ray serves the calls of one caller to one actor in
order, one at a time; the collector's threads share its Python object under
`_generation_check_lock`, `_counter_lock` and `_threads_lock`.

In GRPO over the data plane the driver holds only `KVBatchMeta`, the keys of the
rows. The rollout actor writes the rows, every data-parallel rank reads its
shard and writes its column back, the driver reads log-probs and writes
advantages, and `finish_step` clears the rows. The driver waits for every call;
the ranks run beside one another.

The other loops hold whole batches. They run a rollout, which asks the engines
turn by turn and the environment actors task by task, then give the batch to the
policy, which shards it over its workers, and put the results back in the order
of the rows; between steps they stream the new weights into the engines. When
engine and policy are colocated they take turns on the GPUs, and the loop moves
parameters and optimizer state to the CPU and back.

`PROJECT.json` lists every component with its status and every hazard with the
line where it bites.

## 2. Modules

| Module | Models |
|---|---|
| `ReplayBufferOps` | the queries and selections of `ReplayBufferImpl` as operators on a set of entries |
| `ReplayBuffer` | the buffer as a state machine under any client |
| `AsyncGRPO` | trainer, collector actor, collection thread, workers and buffer composed |
| `AsyncGRPOProperties` | what `AsyncGRPO` must satisfy |
| `OffPolicyTraining` | the abstract promise: steps in order, each on N groups made for it and at most A versions old |
| `SyncGRPO` | driver, ranks and data plane of the synchronous trainer, with crashes and relaunches |
| `OnPolicyTraining` | the abstract promise: each step on a full batch of fresh prompts answered by the very weights it updates |
| `TrainingJob` | what the other synchronous loops share: schedule, GPUs, engine, refit, checkpoint, restart |
| `GRPOTraining`, `PPOTraining`, `DistillationTraining`, `SupervisedTraining` | the loops: `grpo_train`; `ppo_train`; `distillation_train` and `xtoken_off_policy_distillation_train`; `sft_train`, `dpo_train`, `rm_train` |
| `ColocatedTraining` | the loops as one specification, and its properties |
| `TrainingPromise` | the abstract promise: batches in order, answers of the newest weights, checkpoints that belong to their step |
| `CheckpointManager` | the checkpoint directory, with a crash between any two file-system operations |
| `Rollouts` | `run_multi_turn_rollout`, `run_async_multi_turn_rollout` and the prompt groups of `AsyncRolloutImpl` |
| `Conversations` | the abstract promise: replies and answers alternate, each sample with its own |
| `NemoGymRollouts` | a rollout through NeMo-Gym |
| `SequencePacking` | the four packers and the adjustment of the number of bins, one row at a time |
| `PolicyCalls` | a call of a policy or value model: sharding, microbatches in step, results |
| `TokenLayout` | where the tokens of a microbatch lie while it is scored |
| `GenerationFleet` | a batch of prompts answered by vLLM, SGLang or Megatron engines |
| `WeightTransfer` | the three ways weights get from the policy to the engines |
| `JobSetup` | which GPUs a job's worker groups get: the split of the hosts, NVLink segments, placement groups, ranks, engines, the update communicator |
| `Learning` | from the rewards of a batch to the gradients applied and the metrics reported |
| `TokenAlignment` | two tokenizations of a text matched span by span |
| `CrossTokenizerLoss` | a batch and a validation batch taught by teachers of other tokenizers on other grids |
| `DataPath` | `Rollouts`, `PolicyCalls`, `TokenLayout`, `Learning`, `TokenAlignment`, `CrossTokenizerLoss`, `GenerationFleet`, `WeightTransfer` and `JobSetup` composed: a job's setup and what its driver exchanges with its workers |
| `ClusterLauncher` | `nrl-k8s` on a namespace, command by command and call by call |
| `*Proofs` | the theorems: `ReplayBufferProofs`, `AsyncGRPOProofs`, `SyncGRPOProofs`, `CheckpointProofs`; `TrainingProofs` about `ColocatedTraining`, `LauncherProofs` about `ClusterLauncher`, `WorkerCallProofs` about `SequencePacking`, `PolicyCalls` and `WeightTransfer`, `DataPathProofs` about the rollouts and the whole of `DataPath` |
| `MC*` | the instances TLC checks |

### Replay buffer

The three parallel lists are one set of records `[id, ver, tgt]`; `id` is the
order of arrival, which is all that list indices are used for. The passes of
`load_state_dict` are functions from `[items, last]` to the same, applied in the
code's order. `ReplayBuffer` calls every operation with every argument
(including `num_prompts`, `current_training_step` and `max_age_steps` left
out), restores any checkpoint into an actor of any size in `Sizes`, and rejects
malformed ones. Training data, metrics and the reported average age are left
out.

### Asynchronous GRPO

Each action of `AsyncGRPO` is what its process does between two points where
another can interleave: a remote call, a lock, an event wait, a thread start.

* The *trainer* is `tpc`, `step` and `weightVersion`. A blocking call is a
  pc in which only the collector can move the trainer on (`preparing`,
  `dataloaderState`).
* The *collector actor* takes `mailbox` from its head, one call at a time;
  while `draining` it is inside `wait_for_pending_generations`.
* The *collection thread* is the record `loop`. Its reads are separate steps
  exactly where the code makes separate reads: version, then watermark, then
  the scan under `_generation_check_lock`.
* A *worker* owns one permit (`workers[s]`) and goes rollout, push, count,
  release, discard.
* `genWeights` is the version of the weights in the engine, -1 before the first
  refit (`load_format` "dummy").

Steps taken as atomic although the code makes several, and why that hides
nothing:

* The scans make one remote call per target while holding
  `_generation_check_lock`. While it is held no reservation is made or
  discarded, and the buffer's counts for a target that is not reserved change
  only by the trainer's sample, which can hit only the current step; a scan that
  sees the counts at one moment covers those results.
* Acquiring a permit, registering a worker in `_inflight_threads` and counting
  it are one step (`RegisterWorker`), since nobody reads the count of a target
  that is being spawned for; starting it is another (`StartWorker`,
  `StartFails`). In between the thread is not alive, and a pass of
  `wait_for_pending_generations` takes it out of `_inflight_threads`
  (`inflight`) for good, so `WaitForPendingGenerations` is a step per pass.
* A worker removes its thread record and gives up its permit together with its
  last release step; both follow with no condition in between.
* Comparing, recording and clearing in the limit branch is one step; the version
  is re-read there as in the code.
* `_buffered_per_target` is only printed and is left out.
* Waiting on an event and going on is one step with the event as guard. A
  waiter released and then overtaken by a new clear is the same as a waiter that
  ran before it.

Timeouts that stop a job after a checkpoint are `CrashAndRestart` at that point.
The trainer's crash takes the whole job, as the actors die with it.

### Synchronous GRPO

* The *driver* is `phase`: one action for each stretch between two calls it
  waits for. `Draw` includes the refit, `FinishStep` the last read of the rows,
  `finish_step` and the refit before validation, `EndStep` the checkpoint (one
  step here; `CheckpointManager` takes it apart), the counters and the early
  returns.
* A *rank* is a data-parallel replica: `fetch`, `compute`, `back`. The tensor-,
  context- and pipeline-parallel ranks of a replica share one fetch and only
  its leader writes. `Dispatch` gives the rows to the ranks in any way that
  gives each the same number (`shard_meta_for_dp` orders by length). The update
  is a collective, so `Train` is one step of all ranks.
* The *data plane* is `store`, from a row to the columns written for it, as
  `TQDataPlaneClient` keeps it: a put adds columns, a get of a row or a column
  that is not there raises (phase "missing"), a clear forgets. The in-memory
  adapter, for tests only (`factory.py` builds no other than TransferQueue),
  replaces a partition that is registered again and would lose the pending rows
  at the next draw.
* A *row* is `[epoch, batch, prompt, gen, ver]`: its place in the data set
  stands for its uid and its order, `ver` is the number of updates of the weights
  that answered it. `KVBatchMeta` is a set of rows; `subset`, `concat` and
  `slice` keep that order. All the columns the rollout writes at once are one,
  but for `sample_mask`, which the driver writes again.
* `Rollout` chooses which prompts have answers of equal worth (`flat`).
* `weights` is the history of training: the batch of each update. A checkpoint
  keeps it, so that a restart can be compared with what the restored weights
  have seen. `flat` and `dropped` only record history; the driver's decisions
  read `flat` for the rows of `meta` alone, which is `meta.tags`.

Assumed: a refit is needed (`NEED_REFIT`), checkpointing is enabled, one
dataloader, which a relaunch restores where it was saved. Validation's rows are
in a partition of their own and are left out. KV-scale calibration is left out.

### The other synchronous loops

* `phase` is where the driver is; every call it makes waits for all workers, so
  a loop is one sequence of steps. `config` chooses the loop and its options.
* `mem` says where the policy, the second model (PPO's value model, the
  teacher) and their optimizers are; `gen` what of the engine is awake, the
  version it holds, whether `POLICY_GENERATION_STALE` is up, and which KV scales
  it has. The prepare, offload and finish methods of the workers are operators
  on a model's place (`PreparedForTraining`, `OffloadedBeforeRefit`, ...).
* A refit is `BeginRefit` and `FinishRefit`, so that a crash can come between.
* A timeout of `TimeoutChecker` may come at any step; `Restart` is a crash, or
  the job submitted again after it ended.
* A job ends `failed` when the loop has cleaned up after an exception, `raised`
  when an exception left everything where it was.
* The exceptions that single loops make are in their modules. Two are worth
  knowing: after a validation and a checkpoint of one step `distillation_train`
  wakes the engine beside student and optimizer (`StudentLeftOnGPU`), and SFT,
  DPO and RM save a step that wraps at the end of an epoch while the epoch does
  not advance (`StepSaved`).

### Rollouts

* A message is its role, its length and the sample it was made for; an answer
  carries the sample and turn it is about. In the batch loop one action is one
  turn of all active samples up to the answers, then one more what is done with
  them; in the other two loops every coroutine goes its own way.
* `BatchTurn` and `SampleTurn` are what an answer does to a sample in the batch
  loop and in the two loops of coroutines, with the differences between them
  (section 5).
* `calculate_rewards` groups samples by task and sorts the results back:
  `RowAnswers`.
* A call may fail (`MaxFaults`): an environment that raises, or the engine of the
  batch loop, loses the whole rollout (`Raises`); a coroutine whose generation
  fails keeps what it has and leaves its loop (`SampleFails`).
* `NemoGymRollouts` is the actor `NemoGym`: tasks come in in any order, are
  retried as a whole while log-probs are NaN, failed ones leave a placeholder.

### Calls of the policy

* `SequencePacking`: a step places one row or moves to the next bin. A bin is
  its rows in order and their total.
* `PolicyCalls`: the driver shards the batch (as it comes, sorted for dynamic
  batching, or packed), every called worker runs its shard global batch by global
  batch and microbatch by microbatch, and the driver reorders the results. A
  result is the row it was computed from. One action per worker method, since
  each counts its microbatches by itself. A microbatch is a collective: a worker
  enters one only when all called workers have entered the one before.
* `Operations` has what each call shards by and from which workers it takes its
  results.

### Scoring a microbatch

`TokenLayout` follows the tokens of one microbatch. `ProcessMicrobatch` is
`process_microbatch` of Megatron or Automodel: rows as they are, Megatron's pack,
the pack a vision model makes itself, Automodel's flat pack, and the DTensor
shards. `local` is what each context-parallel rank feeds the model: of every
sequence the c-th chunk from either end (`Zigzag`,
`_get_tokens_on_this_cp_rank`). `AskedOf` is what is asked of the logits at each
place: the rolled targets, computed in five different ways in the code. `ScoreChunk` is
one chunk of a kernel of `model_utils.py`, either with the vocabulary split over
the tensor-parallel ranks (each answers for the tokens it holds, the sum is the
answer) or, with top-k or top-p, exchanged so that each rank has whole rows
(`all_to_all_vp2sq`). `SequenceScored` is a turn of `SequencePackingLossWrapper`,
`AllScored` the return of the other post-processors, which gather the shares and
put every sequence in its row; `BackPropagate` is the way back through
`AllGatherCPTensor`. Tokens are pairs of row and position, an entry says which
token's logits were asked about which token, so `TokensAligned` (part of `TokensInPlace`) can say that each
place of the result is about the two tokens it should be about. Not modelled: the
arithmetic of softmax, the vocabulary itself.

### Losses and advantages

`Learning` takes a lesson (the rows of a batch, how rewards are shaped, the
estimator, the loss, the ranks) from rewards to the optimizer's steps.

* `ShapeRewards` and `EstimateAdvantages` are the driver's: GRPO, GDPO,
  Reinforce++, raw rewards, GAE and OPD.
* `DealMicrobatches` gives the rows of a global batch to the ranks and cuts them
  into microbatches in any order; with pairs (DPO, reward models) both halves stay
  together. `TrainMicrobatch` adds what the loss of one microbatch contributes on
  every rank, with the normalization of the loss (token or sequence level, over
  the global batch) and the factors with which each back end undoes the averaging
  over data and context parallel ranks. `OptimizerStep` applies the sum.
* A gradient is what each row contributes to it, in exact fractions. Ratios and
  importance weights are in quarters; what matters of a standard deviation is that
  different spreads give different factors.

### Cross-tokenizer distillation

* A token is its sequence of characters. `TokenAlignment` makes the tokens of both
  sides comparable (marks, broken characters, bytes), pins trigrams that occur
  once, aligns what is between them (`Table` is the dynamic program, `Traced` the
  way back), joins or redoes what does not match and numbers the chunks. Real
  tokenizers know hundreds of artifacts (`_merge_encoding_artifacts`); the model
  has one of each kind.
* `CrossTokenizerLoss` has a logit as the cell it comes from: round, row, position,
  column. `ExportTeacherLogits` is a teacher's forward pass on its own grid into the
  buffers its processes share, `RebuildTeacherLogits` what every rank of the student
  reads for its microbatch (as it lies, when one buffer has all of it, or put
  together), `TeachStudent` the loss with its chunk sums over the context-parallel
  ranks. `joinedIn` lists the collectives each rank has joined.
* The values of logits are given (`Logit`), since top columns and the best teacher
  depend on them; softmax and KL are not modelled.

### Generation engines

* `ask` is where each prompt is: waiting, sent, lost (to be sent again), back,
  failed. `reply` has the length and ending of what came back, chosen by the
  engine within `Room`.
* A worker's call that raises makes the driver's `get_all_worker_results` raise;
  SGLang's other requests go on after that, as the code cancels none.

### Weight transfer

* *IPC*: `sender[g]` and `receiver[g]` on each GPU, with two halves of a buffer
  and one message each way. A view is only read when the tensor is loaded:
  `LoadTensor` takes what the half holds at that moment.
* *HTTP*: the ranks of an engine flush a bucket together, the first posts it.
* *Collective*: `packed_broadcast_producer` and `_consumer` issue groups on
  `NumBuffers` streams; issuing a group waits for the stream used `NumBuffers`
  groups ago. The loads of one stream are in order.
* The driver hears the first worker of each engine alone (`Asked`).

### Setup of a job

* A deployment is the hosts with the domain and rank each registered, the
  algorithm, and the resources asked for. `Split` is what each `setup` makes of
  it; `Stages` the threads it starts, one after the other or beside one another.
* `clusters` are the `RayVirtualCluster`s. A cluster's `order` is empty until
  someone asks for its placement groups; Ray (external) then chooses among all
  `Placings`. A GPU is its host and its number.
* `groups` are the worker groups with their ranks and, for engines, the GPUs each
  engine was tied to (`EngineGroups`, in three ways for three back ends). `comm` is
  the communicator that updates the weights.
* A host may join late; a placement that cannot be made now is retried while the
  hosts are too few and raises when they are busy. Loading and NeMo-Gym may fail.

`DataPath` has one of these activities at a time, because the driver waits for
each of them; a rollout's batch goes on to a call of the policy.

### Launcher

* A command is a list of calls (`cli`), executed one at a time; it may be
  interrupted or fail between any two. KubeRay (clusters start, pods hold their
  claims until they are gone) and the Ray jobs move on by themselves.
* `clusters`, `dra`, `deployment`, `rayjob`, `procs` and `registry` are what is
  in the namespace, each with its owner. Manifests are `Specs`, two of which
  differ.
* Not modelled: log streaming, port-forwards, image building, config loading.

### Checkpoints

A directory exists or not and has two files, `info` and `state`, each stamped
with the save that wrote it: a directory is whole when both stamps are the same.
A rename is one step, a recursive delete removes file after file in any order
and the directory last. `Crash` is possible everywhere. `MayResave` lets a
client save a step that is not above the latest, which `finalize_checkpoint`
provides for; the training loops never do so after resuming from the latest,
and two properties say so in their premise (`~resaved`).

## 3. What is checked

| Run | Question | States |
|---|---|---|
| `replay_buffer` | the buffer under any client: window, readiness, restore | 0.3 M |
| `collector_failures` | two groups per step, one failure, in-flight refits, validation, dataloader end: window, reservations, counters | 4.5 M |
| `restart` | two steps of two groups, draining refit, checkpoints, crash anywhere, restart: refinement of `OffPolicyTraining`, watermark, over-fill, threads that refits leave behind | 1.0 M |
| `liveness` | three steps, fair, no failure: a step under generation trains | 0.2 M |
| `sync_training` | two epochs of two batches over two ranks, with and without dynamic sampling and reference log-probs, crash anywhere, relaunch: refinement of `OnPolicyTraining`, ownership of rows, end of every launch | 0.1 M |
| `training` | twenty configurations of seven loops, two epochs of four batches, timeouts anywhere, two crashes: GPUs, weights, batches, checkpoints, refinement of `TrainingPromise`, end of every job | 40 k |
| `checkpoints` | four saves of three steps, crash anywhere | 4 M |
| `data_path` | the setup of a job, rollouts, calls of the policy, the scoring of a microbatch, cross-tokenizer alignment and distillation, generation and weight transfers, and what is learnt from a batch: GPUs, rows, ranks, bins, tokens, weights, gradients; refinement of `Conversations` | 0.3 M |
| `launcher` | up to three commands of two users out of ten, interrupted anywhere | 0.9 M |
| `refit_stuck`, `lost_wakeup`, `gym_rows` | each shows one statement of the documentation or a comment that the code does not satisfy (section 5) | small |

**Bounds.** The counters in `AsyncGRPO` are bounded by the code itself
(`MaxSteps` is `max_num_steps`). One or two groups per step give every partial
batch; three steps let a leftover of step 0 be in the way of step 2, after the
window has passed it once. The window `A` is 1 in the large runs: a window of
two is proved about but no longer an instance. One failure suffices for each
error path, since what it leaves behind is a reservation or a counter of one
target, and the properties quantify over targets. One crash gives a second life;
in the second life the initial version is no longer 0 and the buffer no longer
empty, which is what restarting changes. `restart` leaves out what repeats: a job
that crashed before its first checkpoint starts from the beginning again, after
the refit of the last step nobody asks for a batch (`Relevant`), and after the
last crash the checkpoint is not read (`Outlook`). Slots are interchangeable, so
`SYMMETRY` is used where no liveness is checked. For the buffer, `MaxArrivals`
entries over three steps in actors of two sizes reach every branch of the
restore. For checkpoints, three steps and two metric values (and none) give every
rank order against `KeepTopK = 1`.

For the synchronous trainer two batches of two prompts per epoch give a batch
that is complete at once, one completed by the next batch with and without rows
to spare, and one left pending when the epoch ends; `max_gen_batches` 1 lets the
second draw be one too many. `MaxSteps` (5) is above the four batches of the two
epochs, so the run ends by the epochs, and the save and validation periods are
coprime. One crash is enough to lose unsaved work; timeouts add any number of
saved restarts.

For the other loops four batches per epoch with validation every second and a
save every third step give steps with both, either and none, in both epochs, and
`MaxSteps` 7 ends the job in the middle of the second; two crashes let a restart
be lost as well.

In `data_path` rollouts have up to three samples of interleaved tasks, two turns,
prompts of 1 or 5 tokens in a context of 5 and one failure. Bins and microbatches
take 18 tokens, rows are 9, 7, 4 or 2 long (20 does not fit at all): 9 is just
half a bin, and the two batches of twelve rows were chosen to need every phase
of the modified first fit, a spilled row and a further bin. Any four rows of
these lengths go through every packer. Two and three data-parallel ranks give
bins that do and do not come out even; context, tensor and pipeline axes of 2
give replicas and workers that are not called. Prompts of 1 to 4 tokens in a
context of 4 fill it, leave room for one token, and leave enough; requests are
tried twice (the code tries three times); four failures exhaust a relayed
request and still hit another. A transfer has five tensors of 3, 2, 4, 1 and 3
bytes in three groups, so that a half, a bucket and a stream are used again; two
failures or late answers meet on both sides. A microbatch that is scored has two
or three rows of one to five tokens, padded to 1, 4 or 12 and packed to 24 or to
no fixed length, over up to three context-parallel and two tensor-parallel ranks,
in chunks of 3, 4 or 5 columns: these give rows of one token, rows as wide as the
batch, a last sequence longer than its row, chunks that do not divide, and every
refusal.

Deployments have one to six hosts of one to three GPUs in up to three domains or none,
up to four GPUs per engine, teachers, a reward model, and every algorithm and back
end, with one host that may come late and one failure.

Lessons have two to four rows of one to four tokens over two prompts, with masked
tokens, cut answers and a row that is dropped, over one or two ranks and two
context-parallel ranks, one or two rows to a microbatch, and every loss and
estimator with and without its options: microbatches differ in their numbers of
tokens and of valid rows, so a mean that is taken over the wrong ones shows.

The texts that are aligned have four to six characters cut in every way, with a
character of two bytes, a broken one, a comma after a space, both marks, a trigram
that occurs on both sides in another order, texts that differ or end early, and
padding. Distillations have four rows (one without weight) of four positions on
student and teacher grids of up to four ranks with one to four rows to a
microbatch, every loss, two teachers, a ragged validation batch and one or two
nodes.

In `launcher` two users, two manifests, a gym and a training cluster, a
Deployment and a RayJob: three commands let one user's command meet what another
user's interrupted one left.

`CHECK_DEADLOCK FALSE` appears in the runs of `AsyncGRPO` because the system
really can stop (section 5, `refit_stuck`) and in `sync_training` and `training`
because a job that is done stays so.

**Fairness.** In `AsyncGRPO`: weak fairness of the trainer, of the collector
actor, of the collection thread and of every worker: threads and processes that
can run are scheduled, remote calls return, rollouts end. Nothing is assumed
about locks, permits or the buffer having room. Weak fairness of the gate waits
is enough because a refit is closed and opened a bounded number of times. No
fairness is assumed of failures, validation, crashes or the end of the
dataloader. In `SyncGRPO`: weak fairness of the driver and of each rank; none of
a relaunch, whether the job is started again is the user's. In
`ColocatedTraining`: weak fairness of the loop with its refits. In
`ClusterLauncher`: weak fairness of the command under way, whose waits all have
timeouts, and none of KubeRay, the jobs or the users. `DataPath` states no
fairness: its properties are about safety, and TLC's deadlock check shows that
an activity stops only when it is over (`Over`).

**Properties**, by hazard (each is stated where it is defined):

* the window of off-policy steps: `LastChanceKept`, `ReadyMeansSamplable`,
  `RestoreKeepsNearest`, `RestoredIsUsable`, `NoPartialTargets`, `WindowKept`
  (a group's label is read before its target is chosen and outlives refits),
  and `LabelNotAhead`, which is proved and no longer run;
* the drain before a refit: `StragglersCounted` (each refit leaves at most one
  thread behind, counting those that a drain has forgotten);
* reservations and counters through every order of completions, failures and
  double releases: `ReservationsTracked`; gap filling and watermark across
  restarts: `NoOverfill`, `WatermarkIsProgress`;
* progress: `ReservedStepTrains`, `EveryLaunchEnds`, `EveryJobEnds`,
  `EveryCommandEnds`;
* weights: `OnPolicy`, `OnNewestWeights`, `WeightsWhole`;
* rows between driver, ranks and data plane: `ColumnsThere`, `RowsOwned`,
  `PromptsAccounted`, `RowsAnswered` (each result is that of its row, and no rank
  waits in vain), `PackedWhole`; tokens within a row
  and between two tokenizations: `TokensInPlace`;
* what is learnt from a batch: `AdvantagesSound` (an advantage depends on its own
  prompt's rows, cancels out where it should, and penalties only penalize),
  `LossesWhole` (the gradient is that of the global batch however it is dealt to
  ranks and microbatches, no microbatch is counted twice; what a student's rank
  hears of a teacher is about its own rows and positions, all of a chunk, once);
* conversations: `ConversationsSound` (each sample hears its own answers and fits
  its context); where the workers are: `EveryoneInPlace`;
* shared GPUs: `SharesGPUs` (with the two exceptions the code makes: `ColdWarmup`,
  and buffers that an exception outside the student leaves held); batches and checkpoints of every loop:
  `EveryBatchOnce`, `CheckpointWhole`;
* the directory: `SavesAreWhole`, `ResumeLoadable`, `BestLoadable`, `NewestKept`;
* the namespace: `ClustersWhole` (nothing claimed is deleted, a teardown leaves
  nothing), `LeavesAlone`;
* refinements: `Promise` of `AsyncGRPO` and of `SyncGRPO`, `PromiseKept`,
  `PromiseOfRollouts`.

## 4. What is proved

With TLAPS, for every value of the constants.

* **Buffer** (`ReplayBufferProofs`): `TypeCorrect`, `LastChance`, `Ready`,
  `Restored`, `KeptNearest`, `NoPartial`. The inductive invariant is the type invariant with
  `InWindow`: every entry's version is at most its target, and at most `MaxAge`
  behind. Without it eviction by version says nothing about targets: it turns
  "older than the window" into "the target has passed". The clean-up passes are
  handled by lemmas that each shrinks the set of entries. `NoPartial` follows from
  the order of the passes: a target's groups are kept or dropped together, and
  after the pass that drops the stale ones a count with and without an age agree.
* **Asynchronous GRPO** (`AsyncGRPOProofs`): `TypeCorrect`, `WindowHolds`,
  `WatermarkTracks` and `LabelsTrail`, for every batch size, window, number of
  steps, failures and crashes, draining or in-flight refits. `WindowKept` is not
  inductive: the spawn loop may replace the label a target was chosen by with
  the version found after a refit, so the invariant also says that a label is
  never ahead of the collector's version and that this version never decreases.
  The latter is a fact about the mailbox (`MailboxOrdered`): announcements wait
  in order and none is ahead of the trainer. `Bookkeeping` relates the
  trainer's versions to its position and gives the locals of the collection
  thread their ranges at each place; it is what `LabelsTrail` follows from.
* **Its refinement** (in the same module): `Implements`, the composed system
  does what `OffPolicyTraining` promises (`Promise`). One lemma per kind of step
  says which abstract action it is: a push generates, a sample consumes, the end
  of an iteration finishes the step, a restart resumes; everything else stutters.
  A group is new to the abstract pool because ids count arrivals
  (`EntriesCounted`, theorem `Counted`), in the checkpoint too.
* **Its reservations** (in the same module): `Tracked`, `Straggler` and
  `NeverOverfilled`. `Tracked` is inductive with `LoopHolds`: the thread has a
  target only while it works on a batch, and the target it spawns for is the
  one it holds. `Straggler` needs `RefitClosed`: from the closing of the gate to
  the new weights nothing is pending that could open it again. `Straggling` then
  counts: the threads that drains have forgotten, and the one that has passed
  the gate when it closes, are at most as many as the refits since the launch
  (`Closings`), and what a drain leaves in `_inflight_threads` is at most the one
  that was registered during its last pass. `NoOverfill` is
  far from inductive. `FillInv` says that a target worked on is committed to
  exactly one batch (groups made, in flight, to spawn), stays reserved until
  that batch is complete, and is discarded by somebody only when it is; the
  collector's count is the number of groups made because none is ever
  labelled ahead of the trainer (`NoneAhead`). The theorem assumes
  `MaxFailures = 0`: with failures the property is false (section 5).
* **Checkpoints** (`CheckpointProofs`): `TypeCorrect`, `PseudoAtomic`,
  `Resumable`, `NewestSurvives`, `BestIsLoadable`. A rename publishes a whole directory because of
  what the saving job knows of it (`JobKnows`). Pruning never takes the newest
  because whatever was ever chosen for deletion has been outlived by a later
  checkpoint (`Outlived`); this survives crashes in the middle of a deletion,
  where "the latest is not deleted" alone is not inductive. `BestIsLoadable`
  assumes `KeepTopK > 0`: with 0 the best checkpoint may be the one half deleted.
  Whatever is condemned and still in the history is outranked by something that
  is not (`Outranked`), since the top of the ranking is never chosen; beginning a
  save changes no rank, because no directory bears the number of a save not yet
  begun (`Stamped`).
* **Synchronous GRPO** (`SyncGRPOProofs`): `OnPolicyHolds`, `RowsOwnedHolds` and
  `TypeCorrect`, for any number of ranks, prompts, batches, epochs and crashes.
  `OnPolicy` needs that a flag that is down means equal versions (`EngineInv`),
  and that it is up before any rank can take part in an update. `RowsOwned` needs
  to know that a rank's shard is part of `meta` while it can write, and that
  pending rows were drawn earlier than the batch at hand (`OwnInv`), or a new row
  could be an old one. `TypeCorrect` bounds the steps by the batches drawn
  (`CountInv`) and the versions by the steps (`WeightInv`); it uses `EngineInv`,
  since a row's version is the engine's.
* **Its promises** (in the same module): `ColumnsHold`, `PromptsKept` and the
  refinement `ImplementsOnPolicy`. `ColumnInv` says what every row surely has in
  each phase, and that the shards make up `meta` until the driver has joined the
  ranks. `GroupInv` says that the rows at hand are of one epoch and version and
  come in whole groups, rows of std 0 too; that a batch cut from the cache is
  again whole groups is a counting argument (`SliceClosed`: the rows before an
  answer are G times the earlier groups and its own earlier answers). `FreshInv`
  orders what was trained before what is at hand, by epoch and batch, in the
  checkpoint too, and `AccountInv` follows the prompts drawn. For `ResultSaved`,
  `SavedInv` counts an epoch's steps against its batches: they differ only after
  a prompt was dropped, since dynamic sampling asks for more only when its cache
  is smaller than the batch. The refinement then has three steps that are not
  stutters: `Train`, the save in `EndStep`, and `Relaunch`.
* **The other synchronous loops** (`TrainingProofs`): `TypeCorrect`,
  `BatchesOnce`, `CheckpointsWhole`, `NewestWeights`, `GPUsShared` and the
  refinement `LoopsKeepPromise`, for all seven loops and every configuration, any
  number of batches, epochs, steps, PPO epochs and crashes. They follow from one
  inductive invariant (`InvariantHolds`) in three parts.
  * `ScheduleInv` does not look at the loop but at how far its step has come:
    its batch not drawn (`Before`), drawn (`Drawn`), trained on at least once
    (`Trained`), recorded but not counted (`Counted`), or the last (`Stopped`).
    The stage says how the records, `total_steps`, `current_step` and the
    dataloader's position are related (`StepsCounted`, `StraightOn`), whether the
    policy was updated (`WarmedUp`), and which version answered
    (`RolledByNewest`). A step that wraps at the end of an epoch needs
    `InStep`: SFT, DPO and RM save 0 where the others save the length of the
    dataloader. That the last step is saved needs to be known before it is over
    (`AllDone`). Each kind of step has a lemma that the loops share.
  * `EngineInv`: an engine that is not marked stale has the newest weights, and
    its mark is up from before training until the refit. On GPUs of its own the
    cached scales are those of the newest version outside recalibration
    (`ScalesFresh`), or the refit after it would install old ones.
  * `Placed` says phase by phase where policy, second model and engine are, one
    conjunct per loop, for every job. `Cold` is the exception: in the warm-up
    `ppo_train` puts the policy away after its logprobs (`ppo.py:1208`), does not
    train it (`ppo.py:1270`), and with a quantized KV cache recalibrates and
    refits all the same (`ppo.py:1305-1337`), while no line of the loop brings it
    back. `SharesGPUs` says so (`ColdWarmup`); the runs have such a job.

  For the refinement a step of any loop is `Quiet` (it changes neither steps nor
  checkpoint), `Records` (its save) or a restart; only the last two are steps of
  `TrainingPromise`.
* **Packing** (`WorkerCallProofs`): `Packed`, for any rows, capacity and
  number of shards and each of the four packers. `PackInv` adds to
  `PackedWhole` that no bin but the first of the modified packer's last phase is
  ever empty, and that the rows still to be placed fit into a bin of their own in
  every packer that checked them before it started. The proof rests on lemmas
  about a sequence of bins in which one bin is replaced, inserted, appended or
  removed, and on what a bin holds with one row more or one row less; an action
  is then one of these edits. `PackedInData` says the same of the packer where the
  calls of the policy use it.
* **Calls of the policy** (`WorkerCallProofs`, `DataPathProofs`):
  `RowsAlwaysAnswered`, for any numbers of workers on the four axes, any rows and
  lengths, batch and microbatch sizes, each way of batching, each packer and every
  call on each back end. `RowsAnswered` is three properties of the answer and of
  the workers on the way to it; none is inductive. The invariant (`PolicyInv`) says
  phase by phase what the call has come to, and from sharding on that there is a
  *plan* (`Planned`): chunk by chunk the part of each rank, where the part lies in
  its shard, and where its microbatches end. The three ways of sharding only differ
  in the plan they make (`PlainSharded`, `DynamicSharded`, `PackedSharded`), and
  what is wanted of a plan is the same: a chunk's rows dealt once (`DealtOnce`), as
  many microbatches in each rank, each within its budget. After that every worker
  stands somewhere on the plan (`Stands`), having seen just the rows up to there,
  and two workers that have entered as many collectives stand at the same place
  (`InStep`); the many methods of the workers are one step along it
  (`WorkerAdvances`). From this the answer follows by counting: workers
  are numbered row by row of a table (`OnePlace`), so those a call takes its results
  from are the ranks in order; joined shards hold each row once (`JoinedOnce`); and
  `reorder_data` inverts a list that holds each row once. Dynamic batching needs that sorting by length
  and position is a bijection (`SortedOnce`) and dealing every rank-th row an even
  partition; packing needs what `PackInv` says of the bins that come out and that a
  refused chunk has a row that is too long, since chunks are large enough to be
  split into bins for every rank (`RefusedRightly`).
* **Weight transfer** (`WorkerCallProofs`, `DataPathProofs`): `WeightsArriveWhole`, for any list of
  tensors and any of their sizes, buffers, workers and ranks per engine, on the
  three paths. Over ZMQ `Exchange` tells the places at which a pair of workers
  may be (`Settled`, `Offered`, `Loading`, `LastOffered`, `Finishing`,
  `AllLoaded`, `Lost`): what the sender is filling (`Filling`), what lies in the
  other half (`PlacedOf`) and how many tensors are loaded; that the receiver
  finds in its half what it was told (`IpcViews`) is the point of two halves and
  one acknowledgement. Buckets over HTTP and packed broadcasts are cut by each
  worker for itself; `Cuts` is the one list of cuts that they all must come to
  (`CutsExist`), and `HttpAll` and `BroadcastsAll` say how far each has come along
  it. A tensor's bytes are found under its name since offsets grow strictly
  with every tensor (`SumsGrow`), which needs sizes above zero, and alignment
  keeps parts apart (`OffsetSteps`, `OffsetKept`). `Told` ties what the driver is told to what
  was loaded.
* **Launcher** (`LauncherProofs`): `ClustersStayWhole` and the action property
  `OthersLeftAlone`, for any roles, users, manifests, command lines and number of
  commands. Both follow from `NamespaceInOrder`, which says for every place of
  a command what it has already seen to: a checked name is not taken
  meanwhile (`RayjobAlone`), resources are made before the cluster is applied and
  deleted after it is (`DraFirst`), the roles a teardown has passed stay clean
  (`DownClears`), those a run has passed are its user's, and what it read of a
  cluster is still its manifest when it deletes it (`RunsOwn`). The world moves
  between any two calls, but KubeRay neither creates nor adopts a cluster
  (`EnvironmentKeeps`); a command cut short asks for nothing (`ExitKeeps`); one
  that goes on needs what its next place asks (`Entitled`). All of it rests on one
  command at a time working on a namespace: the code takes no lock, and with
  two the facts above are checked by one and broken by the other.

* **Rollouts** (`DataPathProofs`): `ConversationsInData` and the refinement of
  `Conversations`, `PromiseInData`, for any number of prompts, generations, turns
  and tokens, and whatever is called with a rollout's batch afterwards. Both
  follow from `RolloutInvariant`. Per sample it says that a reply waits for its
  answer just when the turn is at the environment (`Alternates`), that what is
  in the log is the sample's own (`OwnOnly`), and that the counters add up to the
  log, the room left included (`InContext`); `ConversationsSound` lacks the first,
  without which an answer could not be known to be the reply's. For the batch it
  says that what an environment has returned answers, entry for entry, the rows
  of its task (`ReturnsAwaited`). From that, `RowAnswersOwn` shows that grouping
  by task, answering in any order and sorting back gives every row its own answer.
  A step then moves each sample in one of four ways (`Goes`), which are the moves
  of a conversation. Counters, groups and results are recursive functions over
  a log, the rows or the tasks: `RecursionExists` shows once, by the minimum of a
  well-founded order (`Induct`), that such a function satisfies its equations,
  and `SameLoop` that the loop over a longer log agrees with the shorter one as
  far as that goes.
* **Generation engines** (`DataPathProofs`): `PromptsAnswered`, for any prompts
  that fit the context (data processors cut those that do not), any number of
  engines and slots, the three backends in a batch or prompt by prompt, and any
  failures. `FleetInv` says of each prompt where its request is and that a reply
  which has come in is its own (`AskedFor`, `GoodReply`), that requests of a batch
  go out together (`OutTogether`), that whoever raised has met a failure or a
  prompt without room (`Blamed`), and that engines asked in turn are asked equally
  often but for the current round (`Fair`). That the shards joined in the order of
  the engines are the prompts in order is `ShardsInOrder`: the shards' starts cover
  the prompts, also where the last ones are smaller or empty.

`RecursionExists`, `SameLoop`, sums (`SumSteps`), lists cut and joined
(`PartsJoined`, `PartOfPlace`) and sorted sets (`Sorted`) are shared: the first part
of `WorkerCallProofs` has them. Two places of `PolicyCalls` had to be written
otherwise to be reasoned about: `Gather` chose the answer by a CASE whose
alternatives overlapped (`reorder_data` does nothing for full logits, which are
never sorted), now in the order in which the code asks; `Grow` names the fields of
the microbatch it replaces.

The assumptions are those of the constants, named in the modules; the type
invariants of `AsyncGRPO` and `ColocatedTraining` are only proved, as the runs are
the longer for them. Only model-checked:

* everything temporal beyond safety: `ReservedStepTrains`, `EveryLaunchEnds`,
  `EveryJobEnds`, `EveryCommandEnds` (fairness and ENABLED);
* `EveryoneInPlace`: it holds for deployments whose engines fit their hosts, as
  the chosen `Deployments` do, not for all; its placements are chosen among the
  injective functions into free GPUs, chained recursively over the nodes and
  ordered by `SortSeq`, which leaves an induction over data;
* `AdvantagesSound` and `LossesWhole` of losses: the quotients of `Learning` are
  rounded (`\div`), so that sums of means agree exactly only where `Scale` is
  divisible by the counts, as for the batches of the run;
* `TokensInPlace` and the part of `LossesWhole` that is about teachers: layouts are
  nested recursive functions over the chunks of a sequence, spans recursive over
  two texts.

## 5. Where the code differs from what is said of it

Shown by runs:

1. **`refit_stuck`**: with the draining refit (`in_flight_weight_updates:
   false`), `prepare_for_refit` waits for a worker, the worker waits for room in
   the buffer, and only the trainer, which waits for `prepare_for_refit`, makes
   room. The buffer is full of leftovers when a step was generated twice.
2. **`lost_wakeup`**: a target not reserved before its own version is announced
   is never generated; the collector sleeps until a version that never comes.
3. **`gym_rows`**: a NeMo-Gym task that fails gives the position at which it came
   in as its row, and so takes the place of another row's result.

Met while modelling and written into the models as the code has them:

*Asynchronous GRPO.* Rollouts can start on other weights than their label says,
first of all before the engine has loaded any. `wait_for_pending_generations`
is to "Wait for all in-flight generation threads to complete"
(`trajectory_collector.py:541`), but it forgets a thread that is registered and
not yet started (545-548): it rolls out through this refit, and later drains do
not wait for it either (`StragglersCounted` counts them; TLC finds two rollouts
under way in a refit, also with `A = 1`). The watermark is read before the
lock, so a consumed step can be generated a second time. `_maybe_release_target`
says it is "safe to call repeatedly: the reservation is discarded at most once"
(`trajectory_collector.py:580`), but the release that drops the counters makes
every later caller see 0 >= 0 and discard as well, outside the lock that held the
counters: once a rollout has failed, a late discard takes away the reservation
that the thread has made again to fill the gap, and a further pass of the thread fills
the same gap twice (TLC's trace with `MaxFailures = 1`). A colocated refit
streams weights without KV scales (`grpo.py:1923`,
`megatron_policy_worker.py:1365-1369`).

*GRPO over the data plane.* With `skip_reference_policy_logprobs_calculation`
nobody writes `reference_policy_logprobs`, yet `train_from_meta` requests the
full `DP_TRAIN_FIELDS` (`tq_policy.py:391-401`); what TransferQueue does with
such a request is outside this repository, the in-memory adapter raises
`KeyError`. `is_last_step` compares `current_step` with the number of batches, so
when dynamic sampling merges batches in the last epoch the final weights are
neither validated nor saved (`grpo_sync.py:956-961`). Rows pending when an epoch
ends are forgotten but not cleared (`grpo_sync.py:536`).

*Colocated loops.* Only the student's training and evaluation release the
teachers' IPC buffers when they raise, "so a failed step doesn't leak teacher
logits" (`xtoken_off_policy_distillation.py:659-668`, `940-943`); an exception in
the export of a teacher (644, 929) or in the checkpoint block (733-782) leaves
them held (`XTokenRaises`). PPO with a warm-up and a quantized KV cache runs the
policy's calibration, and the refit of a validation, while the policy is
offloaded (`PPOPolicyMissing`, `ColdWarmup`).

*Rollouts.* In the batch loop a truncated reply only marks its sample, which
goes on; answers without stop strings set them to None, while the other two loops
keep them; "natural_termination_rate" counts truncated samples. The group loop
says that a sample reached its last turn even when it ended there by itself
(comment at `rollout_manager.py:238`), the sample loop even when its generation
failed, and the group loop's `.item()` fails for environments with several
rewards. A restarted NeMo-Gym actor (`max_restarts=-1`) has no `rch`, which
`_spinup` makes and `__init__` does not.

*Calls of the policy.* The bins of a shard are permuted otherwise than
`preshard.py:70-74,175-176` assumes. `score` shards plainly, but workers with
dynamic batching or packing then find no microbatch lists
(`batched_data_dict.py:795-831`, `lm_policy.py:836-866`). `Policy.generate` on
Megatron workers fails on every rank but the first (`megatron_worker.py:625-640`).

*Scoring.* `_pack_input_ids` says that `cu_seqlens_q` is unpadded
(`loss/utils.py:226`), but Megatron's `PackedSeqParams` carries the padded lengths
there (`megatron/data.py:970-974`): with `fuse_loss` a last sequence padded past
the width of its row (pipeline stages, FP8) is refused by a shape error, although
the fused loss is to give "numerically identical results" (`loss/wrapper.py:178`).

*Losses.* The VAPO term for positive examples is normalized by the correct tokens
of its microbatch (`loss_functions.py:655-678`) although a comment says globally.
Sampling ratios at sequence level multiply weights of shape [B,1] by a mask of
shape [B]. `dtensor_policy_worker.py:906-936` reports losses after it scaled them
for FSDP and appends the metrics of dummy microbatches it says it skips; v2 does
neither. `SequencePackingLossWrapper` sums the extremes that `MseValueLossFn`
reports, and these are 0.0 for a microbatch without tokens. The
repetition penalty is documented as negative and returned positive;
`stop_properly_penalty_coef` is documented as a scale factor and subtracted.

*Cross-tokenizer distillation.* The number of chunks that normalizes the loss is
summed over all ranks (`loss_functions.py`, `_compute_p_kl` and `_compute_gold`),
context- and tensor-parallel replicas of the same chunks included, and for one
microbatch, although it "mirrors the global_valid_toks convention used by CE". A
teacher of another tokenizer cannot be scored by its loss under context
parallelism: its ids are not cut into windows (`_teacher_score_inputs`). A
validation batch is padded "so the even-split path applies", but to a multiple of
the microbatches, where `shard_by_batch_size` asks for whole global batches
(`batched_data_dict.py:395`). The bytes of a character are only joined when no
ASCII token is beside them.

*Generation.* Synchronous vLLM merges the stop strings of all samples of a shard
(`interfaces.py:144` says "(per sample)") and fails the whole batch for a prompt
that fills the context, where asynchronous vLLM and SGLang give an empty reply
that is not marked as cut; SGLang leaves one token of the context free; Megatron's
replies have no `truncated`; when a batch fails on SGLang the other requests go
on.

*Weight transfer.* `collective_rpc` results are looked at for rank 0 of an engine
alone (`vllm_worker.py:925,957`), and producer and consumers return without
waiting for their streams: a load that fails on another rank in one of the last
`NumBuffers` groups goes unheard and `update_success` stays True
(`grpo.py:1949`), an earlier one leaves everybody waiting.

*Setup of a job.* A colocated distillation job with backend "megatron" makes a
cluster for one worker group and starts two, so its student is never scheduled;
with a vLLM engine larger than a node the teacher's per-node placement groups come
first and the engine is refused. Distillation's `nodes_per_instance` is always 1,
so its inference nodes are never pinned. With topology ranks missing or tied
`_sort_bundle_indices_by_topology` interleaves hosts, although
`allocate_worker_groups` says that slices stay in a domain (the ranks `ray.sub`
registers differ, and the model assumes that). SGLang apart from the trainers has
an `init_collective` that joins nobody (`sglang_generation.py:718`), so the
trainers' group never forms. A reward model's cluster is not pinned and may take
hosts that pinned clusters were promised; `VLLM_DP_RANK_LOCAL` assumes eight GPUs
per node; an empty remainder of hosts for teachers is read as none given and looked
up again.

*Launcher.* The registry is reset twice (`orchestrate.py:643` and `425`), which
deletes the entry the new gym has just published
(`infra/nrl_k8s/README.md:125-133,541`). A driver started by exec is not stopped
when the next run uses portForward; a second `--replace` does not stop a daemon
with a suffixed name; PENDING jobs are not stopped; a run of a command again
skips the health wait; a SUCCEEDED daemon counts as running. `run --rayjob
--rayjob-name X` deletes the DRA objects of a live RayCluster, `cluster down`
those of a running RayJob; `up` and `down` ignore owners; a 409 on create is
patched although a docstring says "we never silently patch a live cluster".

## 6. Plan

1. Proofs: `TokensInPlace`, the last of the hazards of `DataPath` that no resolution
   or placement bounds.
2. The life of the engines (start, registration with the router, sleep, wake and
   shutdown) and the placement of workers on nodes.
3. The TransferQueue adapter and evaluation.

A new module shares a run with those that ask the same question of a component,
so that the runs stay few.

## 7. Not modelled

Networks and the floating-point values of losses are data: a result of a policy
call is the row it was computed from, and `Learning` has the weight with which a
row counts, not the value of its logarithms. The engines and the optimizer are GPU code: an
engine is the version it holds, a reply its length and ending. `weight_sync/` is
called by no training loop yet, only by its unit tests; the loops refit by
functions of their own. Dataset readers, logging, configuration and model
conversion have no state that other components' correctness depends on.
`ReplayBufferNew` is marked work in progress, not to be used. The branches of the
asynchronous loop that need no refit (`NEED_REFIT` false) are dead: it requires
`colocated_inference` to be off (`grpo.py:3422`). Which prompts a restarted
asynchronous job repeats or skips (`grpo.py:4192`) is not modelled.
