------------------------------ MODULE SyncGRPO ------------------------------
(***************************************************************************)
(* Synchronous GRPO over the data plane: the driver loop (grpo_train_sync  *)
(* in nemo_rl/algorithms/grpo_sync.py), the rollout actor's first write    *)
(* (experience/sync_rollout_actor.py), TQPolicy's dispatch over the        *)
(* data-parallel ranks (models/policy/tq_policy.py), what a rank does with *)
(* its shard (data_plane/worker_mixin.py) and the rows the data plane      *)
(* holds for all of them.                                                  *)
(*                                                                         *)
(* The driver waits for every call it makes; the ranks run in parallel.    *)
(* A KVBatchMeta is the set of its rows: they are ordered as they were     *)
(* drawn, by batch, prompt and answer.  Generation runs on an engine of    *)
(* its own that must be refitted (NEED_REFIT); checkpointing is enabled    *)
(* and saving one is a single step here (see CheckpointManager).           *)
(***************************************************************************)
EXTENDS Integers, Sequences, FiniteSets

CONSTANTS
  P,              \* num_prompts_per_step, the size of a dataloader batch
  G,              \* num_generations_per_prompt
  Batches,        \* len(dataloader)
  MaxEpochs, MaxSteps,
  MaxGenBatches,  \* dynamic_sampling_max_gen_batches
  Ranks,          \* the data-parallel ranks of the policy
  SavePeriod, ValPeriod, ValAtStart, ValAtEnd,
  Configs,        \* [dynamic, skipRef]: use_dynamic_sampling and
                  \* skip_reference_policy_logprobs_calculation
  MaxCrashes      \* bound: crashes of the job

ASSUME SyncConstants ==
  /\ {P, G, Batches, MaxEpochs, MaxSteps, SavePeriod} \subseteq Nat \ {0}
  /\ {MaxGenBatches, ValPeriod, MaxCrashes} \subseteq Nat
  /\ {ValAtStart, ValAtEnd} \subseteq BOOLEAN
  /\ IsFiniteSet(Ranks) /\ Ranks # {} /\ (P * G) % Cardinality(Ranks) = 0
  /\ Configs \subseteq [dynamic : BOOLEAN, skipRef : BOOLEAN]

VARIABLES
  config,                       \* the configuration of this job
  phase,                        \* where the driver is
  epoch, step, total,           \* current_epoch, current_step, total_steps
  pos,                          \* batches the dataloader gave out this epoch
  meta, pending,                \* rows of this batch, and of pending_meta
  numGen,                       \* dynamic_sampling_num_gen_batches
  flat,                         \* rows whose prompt has std 0 (meta.tags)
  dropped,                      \* rows discard_samples was asked to drop
  store,                        \* the data plane: row -> columns written
  weights,                      \* the batches the policy was trained on
  genWeights,                   \* how many of them the engine's weights saw
  stale,                        \* POLICY_GENERATION_STALE
  shard, rank,                  \* per rank: its rows, and how far it is
  ckpt,                         \* the latest checkpoint
  crashes

schedule == <<epoch, step, total, pos, numGen>>
rows     == <<meta, pending, flat, dropped>>
engine   == <<genWeights, stale>>
ranks    == <<shard, rank>>
fixed    == <<config, ckpt, crashes>>
vars == <<phase, schedule, rows, store, weights, engine, ranks, fixed>>

Size == P * G                                       \* train_prompts_size
Unloaded == -1
Stage == {"prev_lp", "ref_lp", "train"}            \* dispatched to the ranks
Ended == {"done", "stopped", "too_many_batches", "missing"}

-----------------------------------------------------------------------------
(* Rows and columns                                                        *)

LP_SEED_FIELDS == {"rollout", "sample_mask"}        \* "rollout": the bulk
DP_TRAIN_FIELDS ==
  LP_SEED_FIELDS
    \cup {"prev_logprobs", "reference_policy_logprobs", "advantages"}

DrawnRows ==
  [epoch : {epoch}, batch : {pos}, prompt : 1 .. P, gen : 1 .. G,
   ver : {genWeights}]

Group(r) ==
  [epoch |-> r.epoch, batch |-> r.batch, prompt |-> r.prompt, ver |-> r.ver]

Written(R, cols) ==
  [r \in DOMAIN store \cup R |->
     (IF r \in DOMAIN store THEN store[r] ELSE {})
       \cup (IF r \in R THEN cols ELSE {})]

Cleared(R) == [r \in DOMAIN store \ R |-> store[r]]

Readable(R, cols) == \A r \in R : r \in DOMAIN store /\ cols \subseteq store[r]

Place(r) == (r.batch * P + r.prompt) * G + r.gen
Slice(R, n) == {r \in R : Cardinality({q \in R : Place(q) < Place(r)}) < n}

-----------------------------------------------------------------------------
(* Start, epochs, batches                                                  *)

Init ==
  /\ config \in Configs
  /\ phase = "start"
  /\ epoch = 0 /\ step = 0 /\ total = 0 /\ pos = 0
  /\ meta = {} /\ pending = {} /\ numGen = 0 /\ flat = {} /\ dropped = {}
  /\ store = <<>>
  /\ weights = <<>> /\ genWeights = Unloaded /\ stale = TRUE
  /\ shard = [k \in Ranks |-> {}] /\ rank = [k \in Ranks |-> "idle"]
  /\ ckpt = [epoch |-> 0, step |-> 0, total |-> 0, pos |-> 0,
             weights |-> <<>>, flat |-> {}, dropped |-> {}]
  /\ crashes = 0

Refit ==
  /\ genWeights' = IF stale THEN Len(weights) ELSE genWeights
  /\ stale' = FALSE

(* Initial validation, only at step 0 of an epoch.                         *)
Start ==
  /\ phase = "start"
  /\ IF ValAtStart /\ step = 0
       THEN phase' = "first_validation" /\ Refit
       ELSE phase' = "epoch" /\ UNCHANGED engine
  /\ UNCHANGED <<schedule, rows, store, weights, ranks, fixed>>

(* validate_sync: its rows live and die in a partition of their own.       *)
Validate ==
  /\ \/ phase = "first_validation" /\ phase' = "epoch"
     \/ phase = "validation" /\ phase' = "save"
  /\ UNCHANGED <<schedule, rows, store, weights, engine, ranks, fixed>>

BeginEpoch ==
  /\ phase = "epoch"
  /\ epoch < MaxEpochs /\ total < MaxSteps
  /\ phase' = "draw" /\ pending' = {} /\ numGen' = 0
  /\ UNCHANGED <<epoch, step, total, pos, meta, flat, dropped, store, weights,
                 engine, ranks, fixed>>

EndTraining ==
  /\ phase = "epoch"
  /\ epoch >= MaxEpochs \/ total >= MaxSteps
  /\ phase' = "done"
  /\ UNCHANGED <<schedule, rows, store, weights, engine, ranks, fixed>>

EndEpoch ==
  /\ phase = "draw" /\ pos = Batches
  /\ epoch' = epoch + 1 /\ step' = 0 /\ pos' = 0
  /\ phase' = "epoch"
  /\ UNCHANGED <<total, numGen, rows, store, weights, engine, ranks, fixed>>

Draw ==
  /\ phase = "draw" /\ pos < Batches
  /\ pos' = pos + 1 /\ Refit
  /\ phase' = "rollout"
  /\ UNCHANGED <<epoch, step, total, numGen, rows, store, weights, ranks, fixed>>

(* rollout_to_tq and the std of each prompt's rewards, stamped on meta.     *)
Rollout ==
  /\ phase = "rollout"
  /\ numGen' = numGen + 1
  /\ meta' = DrawnRows
  /\ \E Z \in SUBSET (1 .. P) :
       /\ ~config.dynamic => Z = {}       \* nobody looks at std
       /\ flat' = flat \cup {r \in meta' : r.prompt \in Z}
  /\ store' = Written(meta', LP_SEED_FIELDS)
  /\ phase' = IF config.dynamic THEN "filter" ELSE "prev_lp"
  /\ UNCHANGED <<epoch, step, total, pos, pending, dropped, weights, engine,
                 ranks, fixed>>

-----------------------------------------------------------------------------
(* _apply_dynamic_sampling                                                 *)

Survivors == pending \cup (meta \ flat)
Kept == Slice(Survivors, Size)

(* Mutant: what overflows is forgotten, not discarded *)
DiscardedFlat == meta \cap flat
(* Rows of std 0 first, then what overflows the batch.                     *)
Discarded == (meta \cap flat) \cup (Survivors \ Kept)

(* The cache holds a batch: what is over it is discarded.                  *)
CompleteBatch ==
  /\ phase = "filter" /\ Cardinality(Survivors) >= Size
  /\ meta' = Kept /\ pending' = {}
  /\ dropped' = dropped \cup Discarded
  /\ store' = Cleared(Discarded)
  /\ phase' = "prev_lp"
  /\ UNCHANGED <<schedule, flat, weights, engine, ranks, fixed>>

SampleMore ==
  /\ phase = "filter" /\ Cardinality(Survivors) < Size
  /\ pending' = Survivors /\ meta' = {}
  /\ dropped' = dropped \cup (meta \cap flat)
  /\ store' = Cleared(meta \cap flat)
  /\ phase' = IF numGen > MaxGenBatches THEN "too_many_batches" ELSE "draw"
  /\ UNCHANGED <<schedule, flat, weights, engine, ranks, fixed>>

-----------------------------------------------------------------------------
(* The ranks                                                               *)

Shards(R) ==
  {f \in [Ranks -> SUBSET R] :
     /\ UNION {f[k] : k \in Ranks} = R
     /\ \A k \in Ranks : Cardinality(f[k]) * Cardinality(Ranks) = Cardinality(R)}

(* Mutant: the flag is not raised *)
MarkStaleNever == UNCHANGED stale
(* prepare_for_training makes the engine's weights stale.                  *)
MarkStale == stale' = (stale \/ phase = "train")

(* shard_meta_for_dp and the fan-out.                                      *)
Dispatch ==
  /\ phase \in Stage /\ \A k \in Ranks : rank[k] = "idle"
  /\ shard' \in Shards(meta)
  /\ rank' = [k \in Ranks |-> "fetch"]
  /\ MarkStale
  /\ UNCHANGED <<phase, schedule, rows, store, weights, genWeights, fixed>>

(* _fetch raises on a row or a column that is not there.                   *)
Fields == IF phase = "train" THEN DP_TRAIN_FIELDS ELSE LP_SEED_FIELDS

(* Mutant: a rank waits for what is not there *)
FetchWaits(k) ==
  /\ phase \in Stage /\ rank[k] = "fetch"
  /\ Readable(shard[k], Fields)
  /\ rank' = [rank EXCEPT ![k] = "compute"]
  /\ UNCHANGED <<phase, schedule, rows, store, weights, engine, shard, fixed>>
Fetch(k) ==
  /\ phase \in Stage /\ rank[k] = "fetch"
  /\ IF Readable(shard[k], Fields)
       THEN rank' = [rank EXCEPT ![k] = "compute"] /\ UNCHANGED phase
       ELSE phase' = "missing" /\ UNCHANGED rank
  /\ UNCHANGED <<schedule, rows, store, weights, engine, shard, fixed>>

Result ==
  IF phase = "prev_lp" THEN {"prev_logprobs"} ELSE {"reference_policy_logprobs"}

WriteBack(k) ==
  /\ rank[k] = "compute" /\ phase \in {"prev_lp", "ref_lp"}
  /\ store' = Written(shard[k], Result)
  /\ rank' = [rank EXCEPT ![k] = "back"]
  /\ UNCHANGED <<phase, schedule, rows, weights, engine, shard, fixed>>

(* Mutant: the driver goes on with the first answer *)
AllAtFirst(s) == \E k \in Ranks : rank[k] = s
AllAt(s) == \A k \in Ranks : rank[k] = s

Join ==
  /\ phase \in {"prev_lp", "ref_lp"} /\ AllAt("back")
  /\ phase' = IF phase = "prev_lp" /\ ~config.skipRef THEN "ref_lp" ELSE "advantage"
  /\ shard' = [k \in Ranks |-> {}] /\ rank' = [k \in Ranks |-> "idle"]
  /\ UNCHANGED <<schedule, rows, store, weights, engine, fixed>>

(* The driver's own read of the log-probs and its write of the advantages.  *)
Advantage ==
  /\ phase = "advantage"
  /\ IF Readable(meta, {"rollout", "prev_logprobs"}
                   \cup (IF config.skipRef THEN {} ELSE {"reference_policy_logprobs"}))
       THEN /\ store' = Written(meta, {"advantages", "sample_mask"})
            /\ phase' = "train"
       ELSE phase' = "missing" /\ UNCHANGED store
  /\ UNCHANGED <<schedule, rows, weights, engine, ranks, fixed>>

(* The update is a collective of all the ranks.                            *)
Train ==
  /\ phase = "train" /\ AllAt("compute")
  /\ weights' = Append(weights, {Group(r) : r \in meta})
  /\ shard' = [k \in Ranks |-> {}] /\ rank' = [k \in Ranks |-> "idle"]
  /\ phase' = "finish"
  /\ UNCHANGED <<schedule, rows, store, engine, fixed>>

-----------------------------------------------------------------------------
(* The end of a step                                                       *)

IsLastStep ==
  \/ total + 1 >= MaxSteps
  \/ epoch + 1 = MaxEpochs /\ step + 1 = Batches

ValidationDue ==
  \/ ValPeriod > 0 /\ (total + 1) % ValPeriod = 0
  \/ ValAtEnd /\ IsLastStep

(* The last read of the bulk, for the log, finish_step, and the refit that *)
(* a validation of this step needs.                                        *)
FinishStep ==
  /\ phase = "finish"
  /\ IF Readable(meta, {"rollout"})
       THEN /\ store' = Cleared(meta) /\ meta' = {}
            /\ IF ValidationDue
                 THEN phase' = "validation" /\ Refit
                 ELSE phase' = "save" /\ UNCHANGED engine
       ELSE phase' = "missing" /\ UNCHANGED <<store, meta, engine>>
  /\ UNCHANGED <<schedule, pending, flat, dropped, weights, ranks, fixed>>

(* What a checkpoint saves; the dataloader saves its own position.         *)
(* Mutants: resumed by the step, not by the batches drawn; a batch ahead *)
SnapshotByStep ==
  [epoch |-> epoch, step |-> step + 1, total |-> total + 1, pos |-> step + 1,
   weights |-> weights, flat |-> flat, dropped |-> dropped]
SnapshotAhead ==
  [epoch |-> epoch, step |-> step + 1, total |-> total + 1,
   pos |-> IF pos < Batches THEN pos + 1 ELSE pos,
   weights |-> weights, flat |-> flat, dropped |-> dropped]
Snapshot ==
  [epoch |-> epoch, step |-> step + 1, total |-> total + 1, pos |-> pos,
   weights |-> weights, flat |-> flat, dropped |-> dropped]

(* Save if it is time to, count the step, and stop after a timeout or the  *)
(* last step.                                                              *)
EndStep ==
  /\ phase = "save"
  /\ \E timeout \in BOOLEAN :
       /\ ckpt' = IF IsLastStep \/ (total + 1) % SavePeriod = 0 \/ timeout
                    THEN Snapshot ELSE ckpt
       /\ phase' = IF timeout THEN "stopped"
                   ELSE IF total + 1 >= MaxSteps THEN "done" ELSE "draw"
  /\ step' = step + 1 /\ total' = total + 1 /\ numGen' = 0
  /\ UNCHANGED <<epoch, pos, rows, store, weights, engine, ranks, config, crashes>>

-----------------------------------------------------------------------------
(* Crash and restart                                                       *)

Crash ==
  /\ phase \notin Ended /\ crashes < MaxCrashes
  /\ crashes' = crashes + 1
  /\ phase' = "stopped"
  /\ UNCHANGED <<schedule, rows, store, weights, engine, ranks, config, ckpt>>

(* A new job: the data plane and the engine start empty, the rest is the   *)
(* checkpoint's.                                                           *)
Relaunch ==
  /\ phase = "stopped"
  /\ phase' = "start"
  /\ epoch' = ckpt.epoch /\ step' = ckpt.step /\ total' = ckpt.total
  /\ pos' = ckpt.pos /\ numGen' = 0
  /\ meta' = {} /\ pending' = {} /\ flat' = ckpt.flat /\ dropped' = ckpt.dropped
  /\ store' = <<>>
  /\ weights' = ckpt.weights /\ genWeights' = Unloaded /\ stale' = TRUE
  /\ shard' = [k \in Ranks |-> {}] /\ rank' = [k \in Ranks |-> "idle"]
  /\ UNCHANGED fixed

-----------------------------------------------------------------------------
Driver ==
  \/ Start \/ Validate \/ BeginEpoch \/ EndTraining \/ EndEpoch \/ Draw
  \/ Rollout \/ CompleteBatch \/ SampleMore \/ Dispatch \/ Join
  \/ Advantage \/ Train \/ FinishStep \/ EndStep
RankStep(k) == Fetch(k) \/ WriteBack(k)

Next == Driver \/ (\E k \in Ranks : RankStep(k)) \/ Crash \/ Relaunch

Spec == Init /\ [][Next]_vars

(* The driver and the ranks run when they can; crashes and relaunches are  *)
(* the environment's.                                                      *)
FairSpec == Spec /\ WF_vars(Driver) /\ \A k \in Ranks : WF_vars(RankStep(k))

-----------------------------------------------------------------------------
(* Properties                                                              *)

Row == [epoch : 0 .. MaxEpochs, batch : 1 .. Batches, prompt : 1 .. P,
        gen : 1 .. G, ver : 0 .. MaxSteps]
TrainedOn ==
  Seq(SUBSET [epoch : 0 .. MaxEpochs, batch : 1 .. Batches, prompt : 1 .. P,
              ver : 0 .. MaxSteps])

Phases ==
  Stage \cup Ended \cup
    {"start", "first_validation", "epoch", "draw", "rollout", "filter",
     "advantage", "finish", "validation", "save"}
Checkpoints ==
  [epoch : 0 .. MaxEpochs, step : 0 .. Batches, total : 0 .. MaxSteps,
   pos : 0 .. Batches, weights : TrainedOn, flat : SUBSET Row,
   dropped : SUBSET Row]

CountersOK ==
  /\ phase \in Phases
  /\ epoch \in 0 .. MaxEpochs /\ step \in 0 .. Batches
  /\ total \in 0 .. MaxSteps /\ pos \in 0 .. Batches
  /\ numGen \in 0 .. Batches /\ crashes \in 0 .. MaxCrashes
RowsOK ==
  /\ meta \cup pending \cup flat \cup dropped \cup DOMAIN store \subseteq Row
  /\ store \in [DOMAIN store -> SUBSET DP_TRAIN_FIELDS]
  /\ shard \in [Ranks -> SUBSET Row]
WeightsOK ==
  /\ weights \in TrainedOn /\ genWeights \in -1 .. MaxSteps
  /\ stale \in BOOLEAN
  /\ rank \in [Ranks -> {"idle", "fetch", "compute", "back"}]
  /\ config \in Configs

(* TypeOK: what the variables range over; the counters stay in bounds and  *)
(* the store holds rows of this run only.                                  *)
TypeOK == CountersOK /\ RowsOK /\ WeightsOK /\ ckpt \in Checkpoints

(* OnPolicy: answers and validation scores come from the weights the policy *)
(* has, after every refit, validation, update, crash and restart: the      *)
(* stale flag is cleared and set in four places and guards each refit.     *)
OnPolicy ==
  phase \in {"first_validation", "rollout", "validation"} =>
    genWeights = Len(weights)

(* ColumnsThere: no reader, driver or rank, asks the data plane for a row  *)
(* that was cleared or a column that nobody wrote; only a job that skips   *)
(* the reference log-probs does, and that is all it misses.                *)
ColumnsThere ==
  phase = "missing" =>
    /\ config.skipRef
    /\ \A r \in meta : store[r] = DP_TRAIN_FIELDS \ {"reference_policy_logprobs"}

(* RowsOwned: of this epoch's rows the data plane holds those of meta and  *)
(* of pending_meta, all of them and no other: nothing leaks and nothing    *)
(* comes back by a late write.                                             *)
RowsOwned ==
  phase \notin Ended \cup {"epoch"} =>
    {r \in DOMAIN store : r.epoch = epoch} = meta \cup pending

(* WholeGroups: the batch the ranks work on is one full batch in which a   *)
(* prompt has all its answers, and under dynamic sampling no prompt whose  *)
(* answers are all worth the same.                                         *)
WholeGroups ==
  phase \in Stage \cup {"advantage", "finish"} =>
    /\ Cardinality(meta) = Size
    /\ \A r \in meta : {q \in meta : Group(q) = Group(r)} =
                         {[r EXCEPT !.gen = g] : g \in 1 .. G}
    /\ meta \cap flat = {}

(* ResultSaved: a job that ends has its last weights in a checkpoint; only  *)
(* a last epoch in which dynamic sampling merged batches misses it, as it  *)
(* then has fewer steps than len(dataloader).                              *)
ResultSaved ==
  phase = "done" =>
    \/ ckpt.weights = weights
    \/ \E r \in dropped \cup pending : r.epoch = MaxEpochs - 1

(* PromptsAccounted: what the ranks work on is one whole batch; between    *)
(* steps, also after a restart in mid-epoch, every prompt the dataloader   *)
(* gave out this epoch was trained on, dropped by dynamic sampling or is   *)
(* pending; and at the end what was trained is saved: none is lost.        *)
PromptsAccounted ==
  /\ WholeGroups
  /\ phase \in {"start", "draw", "save"} =>
       \A b \in 1 .. pos, p \in 1 .. P :
         LET Is(r) == r.epoch = epoch /\ r.batch = b /\ r.prompt = p IN
         \/ \E i \in 1 .. Len(weights) : \E g \in weights[i] : Is(g)
         \/ \E r \in dropped \cup pending : Is(r)
  /\ ResultSaved

(* Promise: the run does what OnPolicyTraining promises.                   *)
Abstract == INSTANCE OnPolicyTraining WITH saved <- ckpt.weights
Promise == Abstract!Spec

(* EveryLaunchEnds: a job comes to an end, whatever dynamic sampling drops. *)
EveryLaunchEnds == phase = "start" ~> phase \in Ended
=============================================================================
