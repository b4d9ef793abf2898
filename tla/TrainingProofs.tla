--------------------------- MODULE TrainingProofs ---------------------------
(***************************************************************************)
(* Proofs about ColocatedTraining, for any number of batches, epochs,      *)
(* steps, passes and restarts and every configuration of the seven loops.  *)
(*                                                                         *)
(* Where a loop is matters to the schedule in one respect only: how far    *)
(* the step at hand has come.  Before, Drawn, Trained and Counted say so,  *)
(* and what is counted, saved and promised is proved from them alone, a    *)
(* kind of step at a time (ScheduleInv).  Where models and engine are and  *)
(* what the engine holds depends on the phase itself (EngineInv), and is   *)
(* proved loop by loop.                                                    *)
(***************************************************************************)
EXTENDS ColocatedTraining, TLAPS

-----------------------------------------------------------------------------
(* How far the step at hand has come.  What a refit, or a teacher's pass,  *)
(* is for says where it belongs.                                           *)

Toward(g) == phase \in {"refit", "teacher"} /\ gen.goal = g
InPass == phase \in {"critic", "train"}

(* Its batch is not drawn, *)
Before ==
  \/ phase \in {"start", "first_validation", "loop", "batch"}
  \/ Toward("first_validation")

(* or nothing has been trained on it, *)
Drawn ==
  \/ phase \in {"prepare", "calibrate", "rollout", "filter", "values",
                "logprobs", "logprobs_skipped"}
  \/ Toward("rollout") \/ Toward("train")
  \/ InPass /\ data.pass = 0

(* or the first pass over it was made, *)
Trained ==
  \/ phase \in {"recalibrate", "trained", "validate", "save"}
  \/ Toward("validate")
  \/ InPass /\ data.pass > 0

(* or the step has been recorded but not counted; *)
Counted == phase = "advance"

(* or the job has ended with it. *)
Stopped == phase \in {"done", "timeout"}

Apart ==
  /\ Before => ~Drawn /\ ~Trained /\ ~Counted /\ ~Stopped
  /\ Drawn => ~Trained /\ ~Counted /\ ~Stopped
  /\ Trained => ~Counted /\ ~Stopped
  /\ Counted => ~Stopped

-----------------------------------------------------------------------------
(* The schedule: steps, batches, checkpoint                                *)

Pairs == Nat \X Nat
Step == [batches : SUBSET Pairs, rolled : SUBSET Int, before : Nat, after : Nat]
Policy == [version : Nat, steps : Seq(Step)]

ScheduleFields ==
  /\ config \in Configs
  /\ sched \in [epoch : Nat, step : Nat, total : Nat, pos : Nat]
  /\ data \in [batch : SUBSET Pairs, rolled : SUBSET Int, numGen : Nat, pass : Nat]
  /\ model \in Policy
  /\ report \in [measured : BOOLEAN, metric : Int, timeout : BOOLEAN]
  /\ ckpt \in [epoch : Nat, step : Nat, total : Nat, pos : Nat, model : Policy,
               metric : Int, optim : BOOLEAN]

(* One record per step, in the checkpoint too *)
StepsCounted ==
  /\ Len(model.steps) = IF Counted THEN sched.total + 1 ELSE sched.total
  /\ Len(ckpt.model.steps) = ckpt.total

WithinBounds ==
  /\ sched.epoch <= MaxEpochs /\ (config.noMaxSteps \/ sched.total <= MaxSteps)
  /\ phase = "batch" \/ Drawn \/ Trained \/ Counted =>
       sched.epoch < MaxEpochs /\ (config.noMaxSteps \/ sched.total < MaxSteps)
  /\ Drawn \/ Trained => sched.pos > 0
  /\ config.endless => sched.epoch = 0 /\ ckpt.epoch = 0
  /\ ~config.endless => sched.pos <= Batches /\ ckpt.pos <= Batches
  /\ ckpt.epoch < MaxEpochs /\ (config.noMaxSteps \/ ckpt.total <= MaxSteps)

(* Neither drops batches nor goes around the dataloader for ever *)
Linear == ~config.dynamic /\ ~config.endless

Position(s) == s.epoch * Batches + s.pos
Newest == <<sched.epoch, sched.pos - 1>>

(* current_step follows the dataloader; the supervised loops save it       *)
(* wrapped at the end of an epoch.                                         *)
InStep(s) == s.step = s.pos \/ (s.step = 0 /\ s.pos = Batches)

StraightOn ==
  Linear =>
    /\ Before \/ Stopped => InStep(sched)
    /\ Before \/ Counted \/ Stopped => Len(model.steps) = Position(sched)
    /\ Before => data.batch = {}
    /\ Drawn \/ Trained => /\ Len(model.steps) + 1 = Position(sched)
                           /\ data.batch = {Newest}
    /\ Drawn \/ Trained \/ Counted => sched.step + 1 = sched.pos
    /\ InStep(ckpt) /\ ckpt.total = Position(ckpt)

Expected(i) == {<<(i - 1) \div Batches, (i - 1) % Batches>>}
InOrder(steps) == \A i \in 1 .. Len(steps) : steps[i].batches = Expected(i)
TakenInOrder == Linear => InOrder(model.steps) /\ InOrder(ckpt.model.steps)

(* A job in a state from which it will only end has been saved.            *)
AllDone ==
  \/ sched.epoch >= MaxEpochs
  \/ ~config.noMaxSteps /\ sched.total >= MaxSteps
  \/ ~config.endless /\ sched.epoch + 1 >= MaxEpochs /\ sched.pos >= Batches
LastSaved ==
  ~config.dynamic =>
    /\ Before /\ AllDone => ckpt.total = sched.total
    /\ Counted /\ LastOfAll => ckpt.total = sched.total + 1
    /\ phase = "done" => ckpt.total = sched.total

(* The policy was updated as soon as a step after the warm-up was taken.   *)
WarmedUp ==
  /\ Before \/ Drawn \/ Stopped => (model.version > 0) = (sched.total > config.warmup)
  /\ Trained \/ Counted => (model.version > 0) = (sched.total >= config.warmup)
  /\ (ckpt.model.version > 0) = (ckpt.total > config.warmup)
  /\ ckpt.optim = (ckpt.model.version > 0)

(* The version the step at hand starts from                                *)
VersionOf(steps) == IF steps = <<>> THEN 0 ELSE steps[Len(steps)].after
VersionsKept ==
  /\ VersionOf(model.steps) <= model.version
  /\ Before \/ Drawn \/ Counted \/ Stopped => VersionOf(model.steps) = model.version
  /\ ckpt.model.version = VersionOf(ckpt.model.steps)
RolledByNewest == ~Counted => data.rolled \subseteq {VersionOf(model.steps)}

(* The dataloader is ahead of whatever was taken.                          *)
TakenBy(steps) == UNION {steps[i].batches : i \in 1 .. Len(steps)}
Earlier(b, s) == b[1] < s.epoch \/ (b[1] = s.epoch /\ b[2] < s.pos)
LaterThan(a, b) == a[1] > b[1] \/ (a[1] = b[1] /\ a[2] > b[2])
BatchesAhead ==
  /\ \A t \in TakenBy(model.steps) : Earlier(t, sched)
  /\ \A t \in TakenBy(ckpt.model.steps) : Earlier(t, ckpt)
  /\ \A b \in data.batch : Earlier(b, sched)
  /\ ~Counted => \A b \in data.batch, t \in TakenBy(model.steps) : LaterThan(b, t)
  /\ Drawn \/ Trained => Newest \in data.batch

MetricOwn ==
  /\ config.algo # "xtoken" => ckpt.metric \in {None, ckpt.total}
  /\ report.metric \in -1 .. sched.total + 1 /\ ckpt.metric \in -1 .. ckpt.total

ScheduleInv ==
  /\ ScheduleFields /\ StepsCounted /\ WithinBounds /\ StraightOn /\ TakenInOrder
  /\ LastSaved /\ WarmedUp /\ VersionsKept /\ RolledByNewest /\ BatchesAhead /\ MetricOwn

-----------------------------------------------------------------------------
(* The engine: what it holds                                               *)

Goals == {"rollout", "validate", "first_validation", "train"}
Supervised == config.algo \in {"sft", "dpo", "rm"}

EngineFields ==
  /\ mem \in [policy : Model, other : Model, ipc : BOOLEAN]
  /\ gen \in [awake : SUBSET Parts, loaded : Int, scales : Int, cache : Int,
              stale : BOOLEAN, goal : Goals]
  /\ gen.loaded \in -1 .. model.version /\ gen.cache \in -1 .. model.version
  /\ gen.scales \in -2 .. model.version

(* Which phases a loop has, and what a refit and a teacher are for *)
Whereabouts ==
  /\ phase = "refit" => HasEngine /\ gen.goal # "train"
  /\ HasEngine /\ phase = "rollout" => gen.goal = "rollout"
  /\ phase = "teacher" => \/ config.algo = "distillation" /\ gen.goal = "rollout"
                          \/ config.algo = "xtoken" /\ gen.goal # "rollout"
  /\ phase \in {"values", "critic"} => config.algo = "ppo"
  /\ phase \in {"rollout", "calibrate", "recalibrate"} => HasEngine
  /\ phase = "logprobs" => config.algo \notin {"distillation", "xtoken"}
  /\ (config.algo # "ppo" \/ ~InPass) => data.pass = 0
  /\ data.pass < PPOEpochs
  /\ config.algo = "ppo" /\ phase = "train" => ~WarmingUp

(* An engine not marked stale has the newest weights; *)
EngineFresh ==
  /\ ~gen.stale => gen.loaded = model.version
  /\ HasEngine /\ phase \in Generates \cup {"teacher", "filter"} => ~gen.stale
  /\ config.algo = "ppo" /\ phase \in {"values", "logprobs"} => ~gen.stale
  /\ phase = "critic" /\ WarmingUp => ~gen.stale
  /\ phase = "train" => gen.stale
  /\ ~HasEngine => gen.stale

(* on GPUs of its own, its scales are theirs as well. *)
OwnScales == config.kv /\ ~config.colocated
FirstScales ==
  gen.scales = Default /\ gen.loaded = 0 /\ sched.step = 0 /\ ValAtStart
ScalesFresh ==
  OwnScales =>
    /\ phase # "recalibrate" => gen.cache \in {None, model.version}
    /\ phase = "trained" \/ (phase = "refit" /\ gen.goal # "first_validation") =>
         gen.cache = model.version
    /\ ~gen.stale => gen.scales = gen.loaded \/ FirstScales
    /\ Trained \/ Counted => (~gen.stale => gen.scales = gen.loaded)
    /\ phase = "start" /\ sched.step = 0 => model.version = 0
    /\ Toward("first_validation") => sched.step = 0 /\ model.version = 0 /\ ValAtStart
    /\ ckpt.step = 0 => ckpt.model.version = 0

EngineInv == EngineFields /\ Whereabouts /\ EngineFresh /\ ScalesFresh

-----------------------------------------------------------------------------
(* Where the models are                                                    *)

OnGPU(m) == m.params = "gpu" /\ m.optim = "gpu"
Silent == phase \notin Generates \cup {"refit"} \cup Ended
Between == phase \in {"loop", "batch", "prepare", "save", "advance"}

(* A step of PPO's warm-up with a quantized KV cache leaves the policy away *)
Cold == config.algo = "ppo" /\ config.kv /\ WarmingUp

EnginePlaces ==
  HasEngine =>
    /\ phase \in Generates => gen.awake = Parts
    /\ phase = "refit" /\ config.colocated => gen.awake = {"weights"}
    /\ phase = "refit" /\ ~config.colocated => gen.awake = Parts
    /\ Silent => gen.awake = Asleep
    /\ phase = "start" => OnGPU(mem.policy)
    /\ phase = "refit" /\ config.colocated => mem.policy.optim = "cpu"
    /\ phase \in {"calibrate", "train"} => mem.policy.params = "gpu"
    /\ phase = "refit" => mem.policy.params = "gpu" \/ (Cold /\ gen.goal = "validate")
    /\ phase = "train" => mem.policy.optim = "gpu"
    /\ phase = "recalibrate" => mem.policy.params = "gpu" \/ Cold
    /\ phase = "trained" /\ gen.stale => mem.policy.params = "gpu" \/ Cold
    /\ ~mem.ipc
    /\ phase \notin {"values", "critic", "teacher"} \cup Ended => Away(mem.other)

GRPOPlaces ==
  config.algo = "grpo" =>
    /\ phase \in Generates /\ config.colocated => Away(mem.policy)
    /\ phase = "logprobs" => mem.policy.params = "gpu"
    /\ Between /\ gen.stale => mem.policy.params = "gpu"

PPOPlaces ==
  config.algo = "ppo" =>
    /\ phase \in Generates \cup {"values", "critic"} => Away(mem.policy)
    /\ phase = "logprobs" => mem.policy.params = "gpu" /\ mem.policy.optim = "cpu"
    /\ phase = "values" => mem.other.params = "gpu" /\ mem.other.optim = "cpu"
    /\ phase = "critic" => OnGPU(mem.other)

DistillationPlaces ==
  config.algo = "distillation" =>
    /\ Between /\ gen.stale => mem.policy.params = "gpu"
    /\ phase = "teacher" => mem.other.params = "gpu"
    /\ phase = "teacher" /\ ~config.colocated => mem.policy.optim = "cpu"

XTokenPlaces ==
  config.algo = "xtoken" =>
    /\ phase = "teacher" => mem.other.params = "gpu"
    /\ phase \in {"train", "validate", "first_validation"} => mem.ipc /\ OnGPU(mem.policy)
    /\ phase \in Ended \ {"raised"} => ~mem.ipc

SupervisedPlaces == Supervised => OnGPU(mem.policy) /\ ~mem.ipc

Placed ==
  /\ EnginePlaces /\ GRPOPlaces /\ PPOPlaces /\ DistillationPlaces
  /\ XTokenPlaces /\ SupervisedPlaces

Inv == ScheduleInv /\ EngineInv /\ Placed /\ restarts \in 0 .. MaxRestarts

-----------------------------------------------------------------------------
(* Lemmas                                                                  *)

LEMMA ApartAlways == Apart /\ Apart'
BY DEF Apart, Before, Drawn, Trained, Counted, Stopped, Toward, InPass

LEMMA ConfigFacts ==
  ASSUME NEW c \in Configs
  PROVE  /\ c.algo \in Algorithms /\ c.warmup \in Nat
         /\ {c.colocated, c.dynamic, c.kv, c.skipLP, c.lpOffload, c.endless, c.noMaxSteps}
              \subseteq BOOLEAN
         /\ c.kv => c.algo \in {"grpo", "ppo"}
         /\ c.algo = "ppo" => c.colocated
         /\ c.dynamic \/ c.endless \/ c.skipLP => c.algo = "grpo"
         /\ c.noMaxSteps => c.algo = "rm"
         /\ c.warmup > 0 => c.algo = "ppo"
BY JobConstants DEF Config

(* Where the n-th batch of an epoch lies in the sequence of all batches *)
LEMMA DivMod ==
  ASSUME NEW B \in Nat \ {0}, NEW e \in Nat, NEW p \in Nat, p < B
  PROVE  (e * B + p) \div B = e /\ (e * B + p) % B = p
OBVIOUS

LEMMA TakenTyped ==
  ASSUME NEW steps \in Seq(Step)
  PROVE  TakenBy(steps) \subseteq Pairs
<1> SUFFICES ASSUME NEW t \in TakenBy(steps) PROVE t \in Pairs OBVIOUS
<1>1. PICK i \in 1 .. Len(steps) : t \in steps[i].batches BY DEF TakenBy
<1>2. steps[i] \in Step OBVIOUS
<1>3. steps[i].batches \in SUBSET Pairs BY <1>2 DEF Step
<1> QED BY <1>1, <1>3

(* One more step *)
LEMMA VersionTyped ==
  ASSUME NEW steps \in Seq(Step)
  PROVE  VersionOf(steps) \in Nat
<1>1. CASE steps = <<>> BY <1>1 DEF VersionOf
<1>2. CASE steps # <<>>
  <2>1. steps[Len(steps)] \in Step BY <1>2
  <2> QED BY <1>2, <2>1 DEF VersionOf, Step
<1> QED BY <1>1, <1>2

LEMMA OneMore ==
  ASSUME NEW steps \in Seq(Step), NEW r \in Step
  PROVE  /\ Append(steps, r) \in Seq(Step)
         /\ Len(Append(steps, r)) = Len(steps) + 1
         /\ \A i \in 1 .. Len(steps) : Append(steps, r)[i] = steps[i]
         /\ Append(steps, r)[Len(steps) + 1] = r
         /\ VersionOf(Append(steps, r)) = r.after
         /\ TakenBy(Append(steps, r)) = TakenBy(steps) \cup r.batches
<1> DEFINE more == Append(steps, r)
<1>1. /\ more \in Seq(Step) /\ Len(more) = Len(steps) + 1
      /\ \A i \in 1 .. Len(steps) : more[i] = steps[i]
      /\ more[Len(steps) + 1] = r
      /\ Len(steps) \in Nat
  OBVIOUS
<1> HIDE DEF more
<1>2. VersionOf(more) = r.after BY <1>1 DEF VersionOf
<1>3. 1 .. Len(more) = 1 .. Len(steps) \cup {Len(steps) + 1} BY <1>1
<1>4. TakenBy(more) = TakenBy(steps) \cup r.batches
  <2>1. ASSUME NEW t \in TakenBy(more) PROVE t \in TakenBy(steps) \cup r.batches
    <3>1. PICK i \in 1 .. Len(more) : t \in more[i].batches BY DEF TakenBy
    <3>2. CASE i \in 1 .. Len(steps) BY <1>1, <3>1, <3>2 DEF TakenBy
    <3>3. CASE i = Len(steps) + 1 BY <1>1, <3>1, <3>3
    <3> QED BY <1>3, <3>2, <3>3
  <2>2. ASSUME NEW t \in TakenBy(steps) PROVE t \in TakenBy(more)
    <3>1. PICK i \in 1 .. Len(steps) : t \in steps[i].batches BY DEF TakenBy
    <3> QED BY <1>1, <1>3, <3>1 DEF TakenBy
  <2>3. ASSUME NEW t \in r.batches PROVE t \in TakenBy(more)
    <3>1. Len(steps) + 1 \in 1 .. Len(more) BY <1>3
    <3> QED BY <1>1, <2>3, <3>1 DEF TakenBy
  <2> QED BY <2>1, <2>2, <2>3
<1> QED BY <1>1, <1>2, <1>4 DEF more

-----------------------------------------------------------------------------
(* The kinds of steps, and that each keeps the schedule in order           *)

LEMMA FailedIsOver ==
  phase' \in {"failed", "raised"} => ~Before' /\ ~Drawn' /\ ~Trained' /\ ~Counted' /\ ~Stopped'
BY DEF Before, Drawn, Trained, Counted, Stopped, Toward, InPass

(* Whatever moves models and weights only, or fails *)
Waits ==
  /\ UNCHANGED <<config, sched, data, model, ckpt>>
  /\ report' \in [measured : BOOLEAN, metric : Int, timeout : BOOLEAN]
  /\ report'.metric = report.metric
  /\ \/ Before /\ Before' /\ phase' # "batch"
     \/ Drawn /\ Drawn'
     \/ Trained /\ Trained'
     \/ ~Counted /\ phase' \in {"failed", "raised"}

LEMMA WaitKeeps == ASSUME ScheduleInv, Waits PROVE ScheduleInv'
<1> USE DEF ScheduleInv
<1>1. UNCHANGED <<config, sched, data, model, ckpt>> BY DEF Waits
<1>2. /\ Before' => Before /\ phase' # "batch"
      /\ Drawn' => Drawn
      /\ Trained' => Trained
      /\ ~Counted /\ ~Counted' /\ ~Stopped'
  <2>1. CASE phase' \in {"failed", "raised"} BY <2>1, FailedIsOver DEF Waits
  <2>2. CASE phase' \notin {"failed", "raised"} BY <2>2, ApartAlways DEF Waits, Apart
  <2> QED BY <2>1, <2>2
<1>4. phase' = "batch" => Before' BY DEF Before
<1>5. phase' # "done" BY <1>2 DEF Stopped
<1>6. ScheduleFields' BY <1>1 DEF ScheduleFields, Waits
<1>7. StepsCounted' BY <1>1, <1>2 DEF StepsCounted
<1>8. WithinBounds' BY <1>1, <1>2, <1>4 DEF WithinBounds
<1>9. StraightOn' BY <1>1, <1>2 DEF StraightOn, Linear, Newest, Position, InStep
<1>10. TakenInOrder' BY <1>1 DEF TakenInOrder, Linear
<1>11. LastSaved' BY <1>1, <1>2, <1>5 DEF LastSaved, AllDone
<1>12. WarmedUp' BY <1>1, <1>2 DEF WarmedUp
<1>13. VersionsKept' BY <1>1, <1>2 DEF VersionsKept
<1>14. RolledByNewest' BY <1>1, <1>2 DEF RolledByNewest
<1>15. BatchesAhead' BY <1>1, <1>2 DEF BatchesAhead, Newest
<1>16. MetricOwn' BY <1>1 DEF MetricOwn, Waits
<1> QED BY <1>6, <1>7, <1>8, <1>9, <1>10, <1>11, <1>12, <1>13, <1>14, <1>15, <1>16

(* The head of the loop over epochs *)
LEMMA NextEpochKeeps ==
  ASSUME ScheduleInv, NEW algos, NextEpoch(algos)
  PROVE  ScheduleInv'
<1> USE DEF ScheduleInv
<1>1. /\ UNCHANGED <<config, sched, model, ckpt, report>>
      /\ data' = [data EXCEPT !.batch = {}, !.rolled = {}, !.numGen = 0]
      /\ phase = "loop"
      /\ phase' = IF sched.epoch < MaxEpochs /\ StepsLeft THEN "batch" ELSE "done"
  BY DEF NextEpoch, Now, rest
<1>2. Before /\ ~Drawn' /\ ~Trained' /\ ~Counted /\ ~Counted'
  BY <1>1 DEF Before, Drawn, Trained, Counted, Toward, InPass
<1>3. /\ data' \in [batch : SUBSET Pairs, rolled : SUBSET Int, numGen : Nat, pass : Nat]
      /\ data'.batch = {} /\ data'.rolled = {}
  BY <1>1 DEF ScheduleFields
<1>4. /\ sched.epoch \in Nat /\ sched.total \in Nat /\ sched.pos \in Nat
      /\ MaxEpochs \in Nat /\ MaxSteps \in Nat
  BY JobConstants DEF ScheduleFields
<1>5. ScheduleFields' BY <1>1, <1>3 DEF ScheduleFields
<1>6. StepsCounted' BY <1>1, <1>2 DEF StepsCounted
<1>7. WithinBounds' BY <1>1, <1>2, <1>4 DEF WithinBounds, StepsLeft
<1>8. StraightOn' BY <1>1, <1>2, <1>3 DEF StraightOn, Linear, Position, InStep
<1>9. TakenInOrder' BY <1>1 DEF TakenInOrder, Linear
<1>10. LastSaved'
  <2>1. phase' = "done" => AllDone BY <1>1, <1>4 DEF AllDone, StepsLeft
  <2>2. AllDone' => AllDone BY <1>1 DEF AllDone
  <2> QED BY <1>1, <1>2, <2>1, <2>2 DEF LastSaved
<1>11. WarmedUp' BY <1>1, <1>2 DEF WarmedUp
<1>12. VersionsKept' BY <1>1, <1>2 DEF VersionsKept
<1>13. RolledByNewest' BY <1>3 DEF RolledByNewest
<1>14. BatchesAhead' BY <1>1, <1>2, <1>3 DEF BatchesAhead
<1>15. MetricOwn' BY <1>1 DEF MetricOwn
<1> QED BY <1>5, <1>6, <1>7, <1>8, <1>9, <1>10, <1>11, <1>12, <1>13, <1>14, <1>15

(* A batch is drawn; under dynamic sampling earlier ones may have been kept *)
LEMMA NextBatchKeeps ==
  ASSUME ScheduleInv, NEW algos, NextBatch(algos)
  PROVE  ScheduleInv'
<1> USE DEF ScheduleInv
<1> DEFINE new == <<sched.epoch, sched.pos>>
<1>1. /\ UNCHANGED <<config, model, ckpt>>
      /\ sched' = [sched EXCEPT !.pos = @ + 1]
      /\ data' = [data EXCEPT !.batch = @ \cup {new}, !.numGen = @ + 1]
      /\ report' = [report EXCEPT !.measured = FALSE]
      /\ phase = "batch" /\ phase' = "prepare"
      /\ config.endless \/ sched.pos < Batches
  BY DEF NextBatch, Now, rest
<1>2. Before /\ Drawn' /\ ~Counted /\ ~Stopped /\ ~Drawn /\ ~Trained
  BY <1>1, ApartAlways DEF Before, Drawn, Apart
<1>3. ~Before' /\ ~Trained' /\ ~Counted' /\ ~Stopped' BY <1>2, ApartAlways DEF Apart
<1>4. /\ sched'.epoch = sched.epoch /\ sched'.step = sched.step
      /\ sched'.total = sched.total /\ sched'.pos = sched.pos + 1
      /\ sched.epoch \in Nat /\ sched.step \in Nat /\ sched.total \in Nat /\ sched.pos \in Nat
      /\ Batches \in Nat \ {0} /\ MaxEpochs \in Nat /\ MaxSteps \in Nat
  BY <1>1, JobConstants DEF ScheduleFields
<1>5. data'.batch = data.batch \cup {new} /\ data'.rolled = data.rolled
  BY <1>1 DEF ScheduleFields
<1>6. Newest' = new BY <1>4 DEF Newest
<1>7. ScheduleFields'
  <2>1. new \in Pairs BY <1>4 DEF Pairs
  <2>2. data' \in [batch : SUBSET Pairs, rolled : SUBSET Int, numGen : Nat, pass : Nat]
    <3>1. data.batch \cup {new} \in SUBSET Pairs BY <2>1 DEF ScheduleFields
    <3>2. data.numGen + 1 \in Nat BY DEF ScheduleFields
    <3> HIDE DEF new
    <3> QED BY <1>1, <3>1, <3>2 DEF ScheduleFields
  <2>3. sched' \in [epoch : Nat, step : Nat, total : Nat, pos : Nat]
    BY <1>1 DEF ScheduleFields
  <2> QED BY <1>1, <2>2, <2>3 DEF ScheduleFields
<1>8. StepsCounted' BY <1>1, <1>2, <1>3, <1>4 DEF StepsCounted
<1>9. WithinBounds' BY <1>1, <1>2, <1>3, <1>4 DEF WithinBounds
<1>10. StraightOn'
  <2> SUFFICES ASSUME Linear PROVE StraightOn' BY <1>1 DEF StraightOn, Linear
  <2>1. /\ InStep(sched) /\ Len(model.steps) = Position(sched) /\ data.batch = {}
        /\ InStep(ckpt) /\ ckpt.total = Position(ckpt) /\ sched.pos < Batches
    BY <1>1, <1>2 DEF StraightOn, Linear
  <2>2. sched.step = sched.pos BY <1>4, <2>1 DEF InStep
  <2>3. Position(sched') = Position(sched) + 1
    <3>1. sched.epoch * Batches \in Int BY <1>4
    <3> QED BY <1>4, <3>1 DEF Position
  <2>4. data'.batch = {Newest'} BY <1>5, <1>6, <2>1
  <2>5. /\ InStep(ckpt') /\ ckpt'.total = Position(ckpt')
        /\ Len(model'.steps) + 1 = Position(sched') /\ sched'.step + 1 = sched'.pos
    BY <1>1, <1>4, <2>1, <2>2, <2>3
  <2> QED BY <1>3, <2>4, <2>5 DEF StraightOn
<1>11. TakenInOrder' BY <1>1 DEF TakenInOrder, Linear
<1>12. LastSaved' BY <1>1, <1>3 DEF LastSaved
<1>13. WarmedUp' BY <1>1, <1>2, <1>3, <1>4 DEF WarmedUp
<1>14. VersionsKept' BY <1>1, <1>2 DEF VersionsKept
<1>15. RolledByNewest' BY <1>1, <1>2, <1>5 DEF RolledByNewest
<1>16. BatchesAhead'
  <2>1. \A t \in TakenBy(model.steps) : Earlier(t, sched) BY DEF BatchesAhead
  <2>2. \A b \in Pairs : Earlier(b, sched) => Earlier(b, sched') /\ LaterThan(new, b)
    BY <1>4 DEF Pairs, Earlier, LaterThan
  <2>3. TakenBy(model.steps) \subseteq Pairs /\ data.batch \subseteq Pairs
    BY TakenTyped DEF ScheduleFields, Policy
  <2>4. Earlier(new, sched') BY <1>4 DEF Earlier
  <2>5. \A t \in TakenBy(model'.steps) : Earlier(t, sched') BY <1>1, <2>1, <2>2, <2>3
  <2>6. /\ \A b \in data'.batch : Earlier(b, sched')
        /\ \A b \in data'.batch, t \in TakenBy(model'.steps) : LaterThan(b, t)
    BY <1>1, <1>2, <1>5, <2>1, <2>2, <2>3, <2>4 DEF BatchesAhead
  <2>7. Newest' \in data'.batch BY <1>5, <1>6
  <2>8. \A t \in TakenBy(ckpt'.model.steps) : Earlier(t, ckpt') BY <1>1 DEF BatchesAhead
  <2> QED BY <2>5, <2>6, <2>7, <2>8 DEF BatchesAhead
<1>17. MetricOwn' BY <1>1, <1>4 DEF MetricOwn, ScheduleFields
<1> QED BY <1>7, <1>8, <1>9, <1>10, <1>11, <1>12, <1>13, <1>14, <1>15, <1>16, <1>17

(* The dataloader is exhausted. *)
LEMMA EndEpochKeeps ==
  ASSUME ScheduleInv, NEW algos, EndEpoch(algos)
  PROVE  ScheduleInv'
<1> USE DEF ScheduleInv
<1>1. /\ UNCHANGED <<config, model, ckpt, data, report>>
      /\ sched' = [sched EXCEPT !.epoch = @ + 1, !.step = 0, !.pos = 0]
      /\ phase = "batch" /\ phase' = "loop"
      /\ ~config.endless /\ sched.pos >= Batches
  BY DEF EndEpoch, Now, rest
<1>2. Before /\ Before' /\ ~Counted BY <1>1 DEF Before, Counted
<1>3. ~Drawn' /\ ~Trained' /\ ~Counted' /\ ~Stopped' BY <1>2, ApartAlways DEF Apart
<1>4. /\ sched'.epoch = sched.epoch + 1 /\ sched'.step = 0
      /\ sched'.total = sched.total /\ sched'.pos = 0
      /\ sched.epoch \in Nat /\ sched.step \in Nat /\ sched.total \in Nat /\ sched.pos \in Nat
      /\ Batches \in Nat \ {0} /\ MaxEpochs \in Nat /\ MaxSteps \in Nat
  BY <1>1, JobConstants DEF ScheduleFields
<1>5. ScheduleFields'
  <2>1. sched' \in [epoch : Nat, step : Nat, total : Nat, pos : Nat]
    <3>1. sched.epoch + 1 \in Nat BY <1>4
    <3> QED BY <1>1, <3>1 DEF ScheduleFields
  <2> QED BY <1>1, <2>1 DEF ScheduleFields
<1>6. StepsCounted' BY <1>1, <1>2, <1>3, <1>4 DEF StepsCounted
<1>7. WithinBounds' BY <1>1, <1>3, <1>4 DEF WithinBounds
<1>8. StraightOn'
  <2> SUFFICES ASSUME Linear PROVE StraightOn' BY <1>1 DEF StraightOn, Linear
  <2>1. /\ Len(model.steps) = Position(sched) /\ data.batch = {}
        /\ InStep(ckpt) /\ ckpt.total = Position(ckpt) /\ sched.pos = Batches
    BY <1>1, <1>2, <1>4 DEF StraightOn, WithinBounds
  <2>2. Position(sched') = Position(sched)
    <3>1. (sched.epoch + 1) * Batches = sched.epoch * Batches + Batches BY <1>4
    <3>2. sched.epoch * Batches \in Int BY <1>4
    <3> QED BY <1>4, <2>1, <3>1, <3>2 DEF Position
  <2>3. /\ InStep(ckpt') /\ ckpt'.total = Position(ckpt') /\ InStep(sched')
        /\ Len(model'.steps) = Position(sched') /\ data'.batch = {}
    BY <1>1, <1>4, <2>1, <2>2 DEF InStep
  <2> QED BY <1>3, <2>3 DEF StraightOn
<1>9. TakenInOrder' BY <1>1 DEF TakenInOrder, Linear
<1>10. LastSaved'
  <2>1. AllDone' => AllDone BY <1>1, <1>4 DEF AllDone
  <2> QED BY <1>1, <1>2, <1>3, <1>4, <2>1 DEF LastSaved
<1>11. WarmedUp' BY <1>1, <1>2, <1>3, <1>4 DEF WarmedUp
<1>12. VersionsKept' BY <1>1, <1>2 DEF VersionsKept
<1>13. RolledByNewest' BY <1>1, <1>2 DEF RolledByNewest
<1>14. BatchesAhead'
  <2>1. \A b \in Pairs : Earlier(b, sched) => Earlier(b, sched')
    BY <1>4 DEF Pairs, Earlier
  <2>2. TakenBy(model.steps) \subseteq Pairs /\ data.batch \subseteq Pairs
    BY TakenTyped DEF ScheduleFields, Policy
  <2> QED BY <1>1, <1>2, <1>3, <2>1, <2>2 DEF BatchesAhead
<1>15. MetricOwn' BY <1>1, <1>4 DEF MetricOwn
<1> QED BY <1>5, <1>6, <1>7, <1>8, <1>9, <1>10, <1>11, <1>12, <1>13, <1>14, <1>15

(* The engine answers: by the version the step starts from. *)
LEMMA RollKeeps ==
  ASSUME ScheduleInv, Drawn, Drawn', gen.loaded = model.version,
         data' = [data EXCEPT !.rolled = @ \cup {gen.loaded}],
         UNCHANGED <<config, sched, model, report, ckpt>>
  PROVE  ScheduleInv'
<1> USE DEF ScheduleInv
<1>1. /\ ~Before /\ ~Trained /\ ~Counted /\ ~Stopped
      /\ ~Before' /\ ~Trained' /\ ~Counted' /\ ~Stopped'
  BY ApartAlways DEF Apart
<1>2. gen.loaded \in Int /\ gen.loaded = VersionOf(model.steps)
  BY DEF VersionsKept, ScheduleFields, Policy
<1>3. /\ data'.batch = data.batch /\ data'.rolled = data.rolled \cup {gen.loaded}
      /\ data' \in [batch : SUBSET Pairs, rolled : SUBSET Int, numGen : Nat, pass : Nat]
  BY <1>2 DEF ScheduleFields
<1>4. phase' \notin {"batch", "done"} BY <1>1 DEF Before, Stopped
<1>5. ScheduleFields' BY <1>3 DEF ScheduleFields
<1>6. StepsCounted' BY <1>1 DEF StepsCounted
<1>7. WithinBounds' BY <1>1, <1>4 DEF WithinBounds
<1>8. StraightOn' BY <1>1, <1>3 DEF StraightOn, Linear, Newest, Position, InStep
<1>9. TakenInOrder' BY DEF TakenInOrder, Linear
<1>10. LastSaved' BY <1>1, <1>4 DEF LastSaved
<1>11. WarmedUp' BY <1>1 DEF WarmedUp
<1>12. VersionsKept' BY <1>1 DEF VersionsKept
<1>13. RolledByNewest' BY <1>1, <1>2, <1>3 DEF RolledByNewest
<1>14. BatchesAhead' BY <1>1, <1>3 DEF BatchesAhead, Newest
<1>15. MetricOwn' BY DEF MetricOwn
<1> QED BY <1>5, <1>6, <1>7, <1>8, <1>9, <1>10, <1>11, <1>12, <1>13, <1>14, <1>15

(* Dynamic sampling keeps some of the batches and goes on drawing. *)
LEMMA KeepSomeKeeps ==
  ASSUME ScheduleInv, Drawn, phase' \in {"batch", "failed"}, config.dynamic,
         NEW kept \in SUBSET data.batch, data' = [data EXCEPT !.batch = kept],
         UNCHANGED <<config, sched, model, report, ckpt>>
  PROVE  ScheduleInv'
<1> USE DEF ScheduleInv
<1>1. ~Before /\ ~Trained /\ ~Counted /\ ~Stopped BY ApartAlways DEF Apart
<1>2. ~Drawn' /\ ~Trained' /\ ~Counted' /\ ~Stopped'
  BY DEF Drawn, Trained, Counted, Stopped, Toward, InPass
<1>3. /\ data'.batch = kept /\ data'.rolled = data.rolled
      /\ data' \in [batch : SUBSET Pairs, rolled : SUBSET Int, numGen : Nat, pass : Nat]
  BY DEF ScheduleFields
<1>4. ScheduleFields' BY <1>3 DEF ScheduleFields
<1>5. StepsCounted' BY <1>1, <1>2 DEF StepsCounted
<1>6. WithinBounds' BY <1>1, <1>2 DEF WithinBounds
<1>7. StraightOn' /\ TakenInOrder' /\ LastSaved' BY DEF StraightOn, TakenInOrder, LastSaved, Linear
<1>8. WarmedUp' BY <1>1, <1>2 DEF WarmedUp
<1>9. VersionsKept' BY <1>1, <1>2 DEF VersionsKept
<1>10. RolledByNewest' BY <1>1, <1>3 DEF RolledByNewest
<1>11. BatchesAhead' BY <1>1, <1>2, <1>3 DEF BatchesAhead
<1>12. MetricOwn' BY DEF MetricOwn
<1> QED BY <1>4, <1>5, <1>6, <1>7, <1>8, <1>9, <1>10, <1>11, <1>12

(* A pass over the batch ends: the policy was updated, or it is not to be  *)
(* during the warm-up.                                                     *)
Passes ==
  /\ Drawn \/ Trained
  /\ Trained'
  /\ UNCHANGED <<config, sched, report, ckpt>>
  /\ data' \in [batch : SUBSET Pairs, rolled : SUBSET Int, numGen : Nat, pass : Nat]
  /\ data'.batch = data.batch /\ data'.rolled = data.rolled
  /\ \/ model' = Updated /\ ~WarmingUp
     \/ model' = model /\ WarmingUp

LEMMA PassKeeps == ASSUME ScheduleInv, Passes PROVE ScheduleInv'
<1> USE DEF ScheduleInv
<1>1. /\ UNCHANGED <<config, sched, report, ckpt>>
      /\ data'.batch = data.batch /\ data'.rolled = data.rolled
  BY DEF Passes
<1>2. /\ ~Before /\ ~Counted /\ ~Stopped
      /\ ~Before' /\ ~Drawn' /\ ~Counted' /\ ~Stopped'
      /\ Drawn \/ Trained
  BY ApartAlways DEF Apart, Passes
<1>3. phase' \notin {"batch", "done"} BY <1>2 DEF Before, Stopped
<1>4. /\ model.version \in Nat /\ model.steps \in Seq(Step)
      /\ sched.total \in Nat /\ config.warmup \in Nat
  BY ConfigFacts DEF ScheduleFields, Policy
<1>5. /\ model' \in Policy /\ model'.steps = model.steps
      /\ model'.version = IF WarmingUp THEN model.version ELSE model.version + 1
  <2>1. model \in [version : Nat, steps : Seq(Step)] BY DEF ScheduleFields, Policy
  <2>2. CASE model' = Updated /\ ~WarmingUp
    <3>1. model' = [model EXCEPT !.version = model.version + 1] BY <2>2 DEF Updated
    <3>2. model.version + 1 \in Nat BY <1>4
    <3> QED BY <2>1, <2>2, <3>1, <3>2 DEF Policy
  <2>3. CASE model' = model /\ WarmingUp BY <2>1, <2>3 DEF Policy
  <2> QED BY <2>2, <2>3 DEF Passes
<1>6. ScheduleFields' BY <1>1, <1>5 DEF ScheduleFields, Passes
<1>7. StepsCounted' BY <1>1, <1>2, <1>5 DEF StepsCounted
<1>8. WithinBounds' BY <1>1, <1>2, <1>3 DEF WithinBounds
<1>9. StraightOn' BY <1>1, <1>2, <1>5 DEF StraightOn, Linear, Newest, Position, InStep
<1>10. TakenInOrder' BY <1>1, <1>5 DEF TakenInOrder, Linear
<1>11. LastSaved' BY <1>1, <1>2, <1>3 DEF LastSaved
<1>12. WarmedUp'
  <2>1. (model'.version > 0) = (sched.total >= config.warmup)
    BY <1>2, <1>4, <1>5 DEF WarmedUp, WarmingUp
  <2> QED BY <1>1, <1>2, <2>1 DEF WarmedUp
<1>13. VersionsKept'
  <2>1. VersionOf(model.steps) <= model.version BY DEF VersionsKept
  <2>2. VersionOf(model.steps) \in Int
    <3>1. CASE model.steps = <<>> BY <3>1 DEF VersionOf
    <3>2. CASE model.steps # <<>>
      <4>1. model.steps[Len(model.steps)] \in Step BY <1>4, <3>2
      <4> QED BY <3>2, <4>1 DEF VersionOf, Step
    <3> QED BY <3>1, <3>2
  <2>3. VersionOf(model.steps) <= model'.version BY <1>4, <1>5, <2>1, <2>2
  <2> QED BY <1>1, <1>2, <1>5, <2>3 DEF VersionsKept
<1>14. RolledByNewest' BY <1>1, <1>2, <1>5 DEF RolledByNewest
<1>15. BatchesAhead' BY <1>1, <1>2, <1>5 DEF BatchesAhead, Newest
<1>16. MetricOwn' BY <1>1 DEF MetricOwn
<1> QED BY <1>6, <1>7, <1>8, <1>9, <1>10, <1>11, <1>12, <1>13, <1>14, <1>15, <1>16

(* The step is recorded, and saved where a checkpoint is due. *)
LEMMA SaveKeeps ==
  ASSUME ScheduleInv, NEW algos, NEW step, NEW metric, NEW optim, NEW places,
         Save(algos, step, metric, optim, places),
         step \in {sched.step + 1, StepSaved}, optim = ~WarmingUp,
         metric = FreshMetric \/ (config.algo = "xtoken" /\ metric = XTokenMetric)
  PROVE  ScheduleInv'
<1> USE DEF ScheduleInv
<1> DEFINE record == [batches |-> data.batch, rolled |-> data.rolled,
                      before |-> VersionOf(model.steps), after |-> model.version]
           due == SaveDue \/ report'.timeout
<1>1. /\ UNCHANGED <<config, sched, data>>
      /\ phase = "save" /\ phase' = "advance"
  BY DEF Save, Now
<1>2. /\ Trained /\ Counted' /\ ~Before /\ ~Drawn /\ ~Counted /\ ~Stopped
      /\ ~Before' /\ ~Drawn' /\ ~Trained' /\ ~Stopped'
  BY <1>1, ApartAlways DEF Trained, Counted, Apart
<1>3. /\ sched.epoch \in Nat /\ sched.step \in Nat /\ sched.total \in Nat /\ sched.pos \in Nat
      /\ Batches \in Nat \ {0} /\ MaxEpochs \in Nat /\ MaxSteps \in Nat /\ SavePeriod \in Nat \ {0}
      /\ model.version \in Nat /\ model.steps \in Seq(Step) /\ config.warmup \in Nat
      /\ VersionOf(model.steps) \in Nat /\ data.batch \subseteq Pairs
      /\ data.rolled \subseteq Int
  BY JobConstants, ConfigFacts, VersionTyped DEF ScheduleFields, Policy
<1>4. record \in Step /\ record.batches = data.batch /\ record.after = model.version
  BY <1>3 DEF Step
<1>5. StepTaken = [model EXCEPT !.steps = Append(@, record)]
  BY DEF StepTaken, VersionOf
<1> HIDE DEF record
<1>6. /\ StepTaken \in Policy /\ StepTaken.version = model.version
      /\ StepTaken.steps = Append(model.steps, record)
  <2>1. Append(model.steps, record) \in Seq(Step) BY <1>3, <1>4
  <2> QED BY <1>5, <2>1 DEF Policy, ScheduleFields
<1>7. /\ Len(StepTaken.steps) = Len(model.steps) + 1
      /\ \A i \in 1 .. Len(model.steps) : StepTaken.steps[i] = model.steps[i]
      /\ StepTaken.steps[Len(model.steps) + 1] = record
      /\ VersionOf(StepTaken.steps) = model.version
      /\ TakenBy(StepTaken.steps) = TakenBy(model.steps) \cup data.batch
  BY <1>3, <1>4, <1>6, OneMore
<1>8. /\ model' = StepTaken /\ report'.timeout \in BOOLEAN
      /\ report' = [report EXCEPT !.timeout = report'.timeout,
                      !.metric = IF due THEN metric ELSE @]
      /\ IF due THEN ckpt' = Checkpoint(step, metric, optim) ELSE ckpt' = ckpt
  <2>1. PICK timeout \in BOOLEAN :
           /\ report' = [report EXCEPT !.timeout = timeout,
                           !.metric = IF SaveDue \/ timeout THEN metric ELSE @]
           /\ IF SaveDue \/ timeout THEN ckpt' = Checkpoint(step, metric, optim)
                                    ELSE ckpt' = ckpt
    BY DEF Save
  <2>2. report'.timeout = timeout BY <2>1 DEF ScheduleFields
  <2> QED BY <2>1, <2>2 DEF Save
<1>9. /\ Len(model.steps) = sched.total
      /\ sched.epoch < MaxEpochs /\ (config.noMaxSteps \/ sched.total < MaxSteps)
      /\ sched.pos > 0 /\ (~config.endless => sched.pos <= Batches)
  BY <1>2 DEF StepsCounted, WithinBounds
<1>10. step \in Nat BY <1>3 DEF StepSaved
<1>11. /\ metric \in -1 .. sched.total + 1
       /\ config.algo # "xtoken" => metric \in {None, sched.total + 1}
  <2>1. report.metric \in -1 .. sched.total + 1 BY DEF MetricOwn
  <2>2. FreshMetric \in {None, sched.total + 1} BY DEF FreshMetric
  <2>3. XTokenMetric \in {report.metric, sched.total + 1} BY DEF XTokenMetric
  <2>4. metric \in {None, report.metric, sched.total + 1} BY <2>2, <2>3
  <2>5. metric \in -1 .. sched.total + 1
    <3> HIDE DEF ScheduleInv
    <3> QED BY <1>3, <2>1, <2>4 DEF None
  <2> QED BY <2>2, <2>5
<1>12. optim = (model.version > 0) /\ (model.version > 0) = (sched.total >= config.warmup)
  <2>1. (model.version > 0) = (sched.total >= config.warmup) BY <1>2 DEF WarmedUp
  <2>2. WarmingUp = (sched.total < config.warmup) BY DEF WarmingUp
  <2>3. (sched.total >= config.warmup) = ~(sched.total < config.warmup) BY <1>3
  <2> QED BY <2>1, <2>2, <2>3
<1> DEFINE saved == Checkpoint(step, metric, optim)
<1>13. /\ saved.epoch = sched.epoch /\ saved.step = step
       /\ saved.total = sched.total + 1 /\ saved.pos = sched.pos
       /\ saved.model = StepTaken /\ saved.metric = metric /\ saved.optim = optim
       /\ saved \in [epoch : Nat, step : Nat, total : Nat, pos : Nat, model : Policy,
                     metric : Int, optim : BOOLEAN]
  <2>1. metric \in Int /\ sched.total + 1 \in Nat /\ optim \in BOOLEAN BY <1>3, <1>11, <1>12
  <2> HIDE DEF ScheduleInv
  <2> QED BY <1>3, <1>6, <1>10, <2>1 DEF Checkpoint
<1>14. ckpt' = saved \/ ckpt' = ckpt BY <1>8
<1> HIDE DEF saved
<1>15. ScheduleFields'
  <2>1. report' \in [measured : BOOLEAN, metric : Int, timeout : BOOLEAN]
    <3>1. report \in [measured : BOOLEAN, metric : Int, timeout : BOOLEAN] BY DEF ScheduleFields
    <3>2. (IF due THEN metric ELSE report.metric) \in Int BY <1>11, <3>1
    <3> HIDE DEF due
    <3> QED BY <1>8, <3>1, <3>2
  <2> QED BY <1>1, <1>6, <1>8, <1>13, <1>14, <2>1 DEF ScheduleFields
<1>16. StepsCounted'
  <2>1. Len(model'.steps) = sched'.total + 1 BY <1>1, <1>7, <1>8, <1>9
  <2>2. Len(ckpt'.model.steps) = ckpt'.total
    BY <1>7, <1>9, <1>13, <1>14 DEF StepsCounted
  <2> QED BY <1>2, <2>1, <2>2 DEF StepsCounted
<1>17. WithinBounds'
  <2>1. ckpt'.epoch < MaxEpochs /\ (config.noMaxSteps \/ ckpt'.total <= MaxSteps)
    BY <1>3, <1>9, <1>13, <1>14 DEF WithinBounds
  <2>2. /\ config.endless => sched.epoch = 0 /\ ckpt'.epoch = 0
        /\ ~config.endless => sched.pos <= Batches /\ ckpt'.pos <= Batches
    BY <1>13, <1>14 DEF WithinBounds
  <2>3. sched.epoch <= MaxEpochs /\ (config.noMaxSteps \/ sched.total <= MaxSteps)
    BY DEF WithinBounds
  <2> QED BY <1>1, <1>2, <1>9, <2>1, <2>2, <2>3 DEF WithinBounds
<1>18. ASSUME Linear
       PROVE  /\ Len(model.steps) + 1 = Position(sched) /\ data.batch = {Newest}
              /\ sched.step + 1 = sched.pos /\ sched.pos <= Batches
  BY <1>2, <1>9, <1>18 DEF StraightOn, Linear
<1>19. StraightOn'
  <2> SUFFICES ASSUME Linear PROVE StraightOn' BY <1>1 DEF StraightOn, Linear
  <2>1. InStep(saved)
    <3>1. StepSaved = IF sched.pos = Batches THEN 0 ELSE sched.pos
      <4>1. sched.step + 1 = sched.pos /\ sched.pos <= Batches BY <1>18
      <4>2. CASE sched.pos = Batches BY <1>3, <4>1, <4>2 DEF StepSaved
      <4>3. CASE sched.pos # Batches
        <5>1. sched.pos < Batches BY <1>3, <4>1, <4>3
        <5>2. (0 * Batches + sched.pos) % Batches = sched.pos BY <1>3, <5>1, DivMod
        <5>3. 0 * Batches + sched.pos = sched.pos BY <1>3
        <5> QED BY <4>1, <4>3, <5>2, <5>3 DEF StepSaved
      <4> QED BY <4>2, <4>3
    <3> QED BY <1>13, <1>18, <3>1 DEF InStep
  <2>2. saved.total = Position(saved) BY <1>9, <1>13, <1>18 DEF Position
  <2>3. InStep(ckpt') /\ ckpt'.total = Position(ckpt')
    BY <1>14, <2>1, <2>2 DEF StraightOn
  <2>4. Len(model'.steps) = Position(sched') BY <1>1, <1>7, <1>8, <1>18
  <2> QED BY <1>1, <1>2, <1>18, <2>3, <2>4 DEF StraightOn
<1>20. TakenInOrder'
  <2> SUFFICES ASSUME Linear PROVE TakenInOrder' BY <1>1 DEF TakenInOrder, Linear
  <2>1. InOrder(model.steps) /\ InOrder(ckpt.model.steps) BY DEF TakenInOrder
  <2>2. record.batches = Expected(Len(model.steps) + 1)
    <3>1. /\ sched.pos - 1 \in Nat /\ sched.pos - 1 < Batches
          /\ Len(model.steps) + 1 - 1 = sched.epoch * Batches + (sched.pos - 1)
      <4> DEFINE before == sched.epoch * Batches
      <4>1. sched.epoch * Batches \in Int BY <1>3
      <4>2. Len(model.steps) + 1 = sched.epoch * Batches + sched.pos
        BY <1>18 DEF Position
      <4>3. sched.pos \in Int /\ Len(model.steps) \in Int BY <1>3, <1>9
      <4>4. sched.pos - 1 \in Nat /\ sched.pos - 1 < Batches BY <1>3, <1>9, <1>18
      <4> HIDE DEF before
      <4>5. before \in Int /\ Len(model.steps) + 1 = before + sched.pos BY <4>1, <4>2 DEF before
      <4>6. Len(model.steps) + 1 - 1 = before + (sched.pos - 1) BY <4>3, <4>5
      <4> QED BY <4>4, <4>6 DEF before
    <3>2. /\ (Len(model.steps) + 1 - 1) \div Batches = sched.epoch
          /\ (Len(model.steps) + 1 - 1) % Batches = sched.pos - 1
      <4>1. /\ (sched.epoch * Batches + (sched.pos - 1)) \div Batches = sched.epoch
            /\ (sched.epoch * Batches + (sched.pos - 1)) % Batches = sched.pos - 1
        BY <1>3, <3>1, DivMod
      <4> QED BY <3>1, <4>1
    <3> QED BY <1>4, <1>18, <3>2 DEF Expected, Newest
  <2>3. InOrder(StepTaken.steps)
    <3>1. Len(model.steps) \in Nat BY <1>3
    <3> QED BY <1>7, <2>1, <2>2, <3>1 DEF InOrder
  <2> QED BY <1>8, <1>13, <1>14, <2>1, <2>3 DEF TakenInOrder
<1>21. LastSaved'
  <2>1. LastOfAll' => LastOfAll BY <1>1 DEF LastOfAll
  <2>2. LastOfAll => ckpt'.total = sched'.total + 1 BY <1>1, <1>8, <1>13 DEF SaveDue, saved
  <2>3. phase' # "done" BY <1>1
  <2> QED BY <1>2, <2>1, <2>2, <2>3 DEF LastSaved
<1>22. WarmedUp'
  <2>1. (model'.version > 0) = (sched'.total >= config'.warmup) BY <1>1, <1>6, <1>8, <1>12
  <2>2. (saved.model.version > 0) = (saved.total > config.warmup)
    <3>1. (sched.total >= config.warmup) = (sched.total + 1 > config.warmup) BY <1>3
    <3> QED BY <1>6, <1>12, <1>13, <3>1
  <2>3. saved.optim = (saved.model.version > 0) BY <1>6, <1>12, <1>13
  <2>4. /\ (ckpt'.model.version > 0) = (ckpt'.total > config'.warmup)
        /\ ckpt'.optim = (ckpt'.model.version > 0)
    BY <1>1, <1>14, <2>2, <2>3 DEF WarmedUp
  <2> QED BY <1>2, <2>1, <2>4 DEF WarmedUp
<1>23. VersionsKept'
  <2>1. VersionOf(model'.steps) = model'.version /\ model'.version \in Nat
    BY <1>3, <1>6, <1>7, <1>8
  <2>2. ckpt'.model.version = VersionOf(ckpt'.model.steps)
    BY <1>6, <1>7, <1>13, <1>14 DEF VersionsKept
  <2> QED BY <2>1, <2>2 DEF VersionsKept
<1>24. RolledByNewest' BY <1>2 DEF RolledByNewest
<1>25. BatchesAhead'
  <2>1. \A t \in TakenBy(StepTaken.steps) : Earlier(t, sched)
    BY <1>2, <1>7 DEF BatchesAhead
  <2>2. \A t \in TakenBy(saved.model.steps) : Earlier(t, saved)
    BY <1>13, <2>1 DEF Earlier
  <2>3. \A t \in TakenBy(ckpt'.model.steps) : Earlier(t, ckpt')
    BY <1>14, <2>2 DEF BatchesAhead
  <2> QED BY <1>1, <1>2, <1>8, <2>1, <2>3 DEF BatchesAhead
<1>26. MetricOwn'
  <2>1. report'.metric \in -1 .. sched'.total + 1
    <3>1. report'.metric = metric \/ report'.metric = report.metric
      BY <1>8 DEF ScheduleFields
    <3> QED BY <1>1, <1>11, <3>1 DEF MetricOwn
  <2>2. /\ config.algo # "xtoken" => ckpt'.metric \in {None, ckpt'.total}
        /\ ckpt'.metric \in -1 .. ckpt'.total
    BY <1>11, <1>13, <1>14 DEF MetricOwn
  <2> QED BY <1>1, <2>1, <2>2 DEF MetricOwn
<1> QED BY <1>15, <1>16, <1>17, <1>19, <1>20, <1>21, <1>22, <1>23, <1>24, <1>25, <1>26

(* The step is counted; training goes on, ends or times out. *)
LEMMA AdvanceKeeps ==
  ASSUME ScheduleInv, NEW algos, Advance(algos)
  PROVE  ScheduleInv'
<1> USE DEF ScheduleInv
<1>1. /\ UNCHANGED <<config, model, ckpt, report>>
      /\ sched' = [sched EXCEPT !.step = @ + 1, !.total = @ + 1]
      /\ data' = [data EXCEPT !.batch = {}, !.rolled = {}, !.numGen = 0, !.pass = 0]
      /\ phase = "advance"
      /\ phase' = IF report.timeout THEN "timeout"
                  ELSE IF ~config.noMaxSteps /\ sched.total + 1 >= MaxSteps THEN "done"
                  ELSE "batch"
  BY DEF Advance, Now, rest
<1>2. Counted /\ ~Before /\ ~Drawn /\ ~Trained /\ ~Stopped
  BY <1>1, ApartAlways DEF Counted, Apart
<1>3. (Before' \/ Stopped') /\ ~Drawn' /\ ~Trained' /\ ~Counted'
  BY <1>1, ApartAlways DEF Before, Stopped, Apart
<1>4. /\ sched'.epoch = sched.epoch /\ sched'.step = sched.step + 1
      /\ sched'.total = sched.total + 1 /\ sched'.pos = sched.pos
      /\ sched' \in [epoch : Nat, step : Nat, total : Nat, pos : Nat]
      /\ sched.epoch \in Nat /\ sched.step \in Nat /\ sched.total \in Nat /\ sched.pos \in Nat
      /\ Batches \in Nat \ {0} /\ MaxEpochs \in Nat /\ MaxSteps \in Nat
      /\ config.warmup \in Nat
  <2>1. sched \in [epoch : Nat, step : Nat, total : Nat, pos : Nat] BY DEF ScheduleFields
  <2>2. sched.step + 1 \in Nat /\ sched.total + 1 \in Nat BY <2>1
  <2>3. config \in Configs BY DEF ScheduleFields
  <2>4. config.warmup \in Nat BY <2>3, ConfigFacts
  <2> QED BY <1>1, <2>1, <2>2, <2>4, JobConstants
<1>5. /\ data'.batch = {} /\ data'.rolled = {}
      /\ data' \in [batch : SUBSET Pairs, rolled : SUBSET Int, numGen : Nat, pass : Nat]
  BY <1>1 DEF ScheduleFields
<1>6. Len(model.steps) = sched.total + 1
  BY <1>2 DEF StepsCounted
<1>7. /\ sched.epoch < MaxEpochs /\ (config.noMaxSteps \/ sched.total < MaxSteps)
      /\ ~config.endless => sched.pos <= Batches
  BY <1>2 DEF WithinBounds
<1>8. Linear => sched.step + 1 = sched.pos /\ Len(model.steps) = Position(sched)
  BY <1>2 DEF StraightOn
<1>9. ScheduleFields' BY <1>1, <1>4, <1>5 DEF ScheduleFields
<1>10. StepsCounted' BY <1>1, <1>3, <1>4, <1>6 DEF StepsCounted
<1>11. WithinBounds' BY <1>1, <1>3, <1>4, <1>7 DEF WithinBounds
<1>12. StraightOn'
  <2> SUFFICES ASSUME Linear PROVE StraightOn' BY <1>1 DEF StraightOn, Linear
  <2>1. InStep(sched') /\ Len(model'.steps) = Position(sched')
    BY <1>1, <1>4, <1>8 DEF InStep, Position
  <2>2. InStep(ckpt') /\ ckpt'.total = Position(ckpt') BY <1>1 DEF StraightOn
  <2> QED BY <1>3, <1>5, <2>1, <2>2 DEF StraightOn
<1>13. TakenInOrder' BY <1>1 DEF TakenInOrder, Linear
<1>14. LastSaved'
  <2> SUFFICES ASSUME ~config.dynamic PROVE LastSaved' BY <1>1 DEF LastSaved
  <2>1. LastOfAll => ckpt.total = sched.total + 1 BY <1>2 DEF LastSaved
  <2>2. AllDone' => LastOfAll
    <3>1. ~config.endless => sched.step + 1 = sched.pos BY <1>8 DEF Linear
    <3> QED BY <1>1, <1>4, <1>7, <3>1 DEF AllDone, LastOfAll
  <2>3. phase' = "done" => LastOfAll BY <1>1 DEF LastOfAll
  <2> QED BY <1>1, <1>3, <1>4, <2>1, <2>2, <2>3 DEF LastSaved
<1>15. WarmedUp'
  <2>1. (model.version > 0) = (sched.total >= config.warmup) BY <1>2 DEF WarmedUp
  <2>2. (sched.total >= config.warmup) = (sched'.total > config.warmup) BY <1>4
  <2> QED BY <1>1, <1>3, <2>1, <2>2 DEF WarmedUp
<1>16. VersionsKept' BY <1>1, <1>2 DEF VersionsKept
<1>17. RolledByNewest' BY <1>5 DEF RolledByNewest
<1>18. BatchesAhead' BY <1>1, <1>3, <1>4, <1>5 DEF BatchesAhead, Earlier
<1>19. MetricOwn' BY <1>1, <1>4 DEF MetricOwn, ScheduleFields
<1> QED BY <1>9, <1>10, <1>11, <1>12, <1>13, <1>14, <1>15, <1>16, <1>17, <1>18, <1>19

(* A job starts from the latest checkpoint. *)
LEMMA RestartKeeps ==
  ASSUME ScheduleInv, Restart
  PROVE  ScheduleInv'
<1> USE DEF ScheduleInv
<1>1. /\ UNCHANGED <<config, ckpt>>
      /\ phase' = "start" /\ model' = ckpt.model
      /\ sched' = [epoch |-> ckpt.epoch, step |-> ckpt.step, total |-> ckpt.total,
                   pos |-> ckpt.pos]
      /\ data' = [batch |-> {}, rolled |-> {}, numGen |-> 0, pass |-> 0]
      /\ report' = [measured |-> FALSE, metric |-> ckpt.metric, timeout |-> FALSE]
  BY DEF Restart, StartFrom
<1>2. Before' /\ ~Drawn' /\ ~Trained' /\ ~Counted' /\ ~Stopped'
  BY <1>1, ApartAlways DEF Before, Apart
<1>3. /\ sched'.epoch = ckpt.epoch /\ sched'.step = ckpt.step
      /\ sched'.total = ckpt.total /\ sched'.pos = ckpt.pos
      /\ data'.batch = {} /\ data'.rolled = {} /\ report'.metric = ckpt.metric
      /\ ckpt.epoch \in Nat /\ ckpt.step \in Nat /\ ckpt.total \in Nat /\ ckpt.pos \in Nat
      /\ ckpt.metric \in Int /\ ckpt.model \in Policy
  BY <1>1 DEF ScheduleFields
<1>4. ScheduleFields'
  <2>1. sched' \in [epoch : Nat, step : Nat, total : Nat, pos : Nat] BY <1>1, <1>3
  <2>2. data' \in [batch : SUBSET Pairs, rolled : SUBSET Int, numGen : Nat, pass : Nat]
    BY <1>1
  <2>3. report' \in [measured : BOOLEAN, metric : Int, timeout : BOOLEAN] BY <1>1, <1>3
  <2> QED BY <1>1, <2>1, <2>2, <2>3 DEF ScheduleFields
<1>5. StepsCounted' BY <1>1, <1>2, <1>3 DEF StepsCounted
<1>6. WithinBounds'
  <2>1. MaxEpochs \in Nat BY JobConstants
  <2> QED BY <1>1, <1>2, <1>3, <2>1 DEF WithinBounds
<1>7. StraightOn'
  <2> SUFFICES ASSUME Linear PROVE StraightOn' BY <1>1 DEF StraightOn, Linear
  <2>1. InStep(ckpt) /\ ckpt.total = Position(ckpt) BY DEF StraightOn
  <2>2. InStep(sched') /\ Position(sched') = Position(ckpt)
    BY <1>3, <2>1 DEF InStep, Position
  <2>3. Len(model'.steps) = Position(sched') BY <1>1, <2>1, <2>2 DEF StepsCounted
  <2> QED BY <1>1, <1>2, <1>3, <2>1, <2>2, <2>3 DEF StraightOn
<1>8. TakenInOrder' BY <1>1 DEF TakenInOrder, Linear
<1>9. LastSaved' BY <1>1, <1>2, <1>3 DEF LastSaved
<1>10. WarmedUp' BY <1>1, <1>2, <1>3 DEF WarmedUp
<1>11. VersionsKept'
  <2>1. ckpt.model.version = VersionOf(ckpt.model.steps) /\ ckpt.model.version \in Nat
    BY <1>3 DEF VersionsKept, Policy
  <2> QED BY <1>1, <2>1 DEF VersionsKept
<1>12. RolledByNewest' BY <1>3 DEF RolledByNewest
<1>13. BatchesAhead' BY <1>1, <1>2, <1>3 DEF BatchesAhead, Earlier
<1>14. MetricOwn' BY <1>1, <1>3 DEF MetricOwn
<1> QED BY <1>4, <1>5, <1>6, <1>7, <1>8, <1>9, <1>10, <1>11, <1>12, <1>13, <1>14

LEMMA InitSchedule == Init => ScheduleInv
<1> SUFFICES ASSUME Init PROVE ScheduleInv OBVIOUS
<1>1. /\ config \in Configs /\ phase = "start" /\ ckpt = NoCheckpoint
      /\ sched = [epoch |-> 0, step |-> 0, total |-> 0, pos |-> 0]
      /\ data = [batch |-> {}, rolled |-> {}, numGen |-> 0, pass |-> 0]
      /\ model = [version |-> 0, steps |-> <<>>]
      /\ report = [measured |-> FALSE, metric |-> None, timeout |-> FALSE]
  BY DEF Init
<1>2. Before /\ ~Drawn /\ ~Trained /\ ~Counted /\ ~Stopped
  BY <1>1, ApartAlways DEF Before, Apart
<1>3. /\ MaxEpochs \in Nat \ {0} /\ MaxSteps \in Nat \ {0} /\ Batches \in Nat \ {0}
      /\ config.warmup \in Nat
  BY <1>1, ConfigFacts, JobConstants
<1>4. /\ ckpt.epoch = 0 /\ ckpt.step = 0 /\ ckpt.total = 0 /\ ckpt.pos = 0
      /\ ckpt.model = model /\ ckpt.metric = None /\ ckpt.optim = FALSE
  BY <1>1 DEF NoCheckpoint
<1>5. model \in Policy /\ Len(model.steps) = 0 /\ model.steps = <<>> /\ model.version = 0
  BY <1>1 DEF Policy
<1>6. ScheduleFields
  <2>1. ckpt \in [epoch : Nat, step : Nat, total : Nat, pos : Nat, model : Policy,
                  metric : Int, optim : BOOLEAN]
    BY <1>1, <1>5 DEF NoCheckpoint, None
  <2> QED BY <1>1, <1>5, <2>1 DEF ScheduleFields, None
<1>7. StepsCounted BY <1>1, <1>2, <1>4, <1>5 DEF StepsCounted
<1>8. WithinBounds BY <1>1, <1>2, <1>3, <1>4 DEF WithinBounds
<1>9. StraightOn BY <1>1, <1>2, <1>3, <1>4, <1>5 DEF StraightOn, InStep, Position
<1>10. TakenInOrder BY <1>4, <1>5 DEF TakenInOrder, InOrder
<1>11. LastSaved BY <1>1, <1>2, <1>4 DEF LastSaved
<1>12. WarmedUp
  <2>1. /\ (model.version > 0) = FALSE /\ (ckpt.model.version > 0) = FALSE
        /\ (sched.total > config.warmup) = FALSE /\ (ckpt.total > config.warmup) = FALSE
    BY <1>1, <1>3, <1>4, <1>5
  <2> QED BY <1>2, <1>4, <2>1 DEF WarmedUp
<1>13. VersionsKept BY <1>4, <1>5 DEF VersionsKept, VersionOf
<1>14. RolledByNewest BY <1>1 DEF RolledByNewest
<1>15. TakenBy(model.steps) = {} BY <1>5 DEF TakenBy
<1>16. BatchesAhead BY <1>1, <1>2, <1>4, <1>15 DEF BatchesAhead
<1>17. MetricOwn BY <1>1, <1>4 DEF MetricOwn, None
<1> QED BY <1>6, <1>7, <1>8, <1>9, <1>10, <1>11, <1>12, <1>13, <1>14, <1>16, <1>17 DEF ScheduleInv

-----------------------------------------------------------------------------
(* The kinds of steps, and that each keeps models and engine in place      *)

(* Parts that are awake *)
LEMMA AwakeParts ==
  ASSUME gen.awake \in SUBSET Parts
  PROVE  /\ Awake(Parts) = Parts
         /\ config.colocated /\ gen.awake = Asleep => Awake({"weights"}) = {"weights"}
         /\ ~config.colocated => Awake({"weights"}) = Parts
         /\ Awake({"weights"}) \in SUBSET Parts /\ Asleep \in SUBSET Parts
BY DEF Awake, Asleep, Parts

(* The batches go by; neither models nor engine move. *)
Schedules ==
  /\ phase \in {"loop", "batch", "advance"}
  /\ phase' \in {"loop", "batch", "prepare", "done", "timeout"}
  /\ UNCHANGED <<config, model, gen, ckpt>>
  /\ data'.pass \in {data.pass, 0}
  /\ sched'.step \in {sched.step, 0} \/ Counted
  /\ mem' = mem \/ (config.algo = "xtoken" /\ mem' = [mem EXCEPT !.ipc = FALSE])
  /\ config.algo = "xtoken" /\ phase' \in Ended => ~mem'.ipc

LEMMA SchedulesInPlace ==
  ASSUME ScheduleInv, EngineInv, Placed, Schedules
  PROVE  EngineInv' /\ Placed'
<1> USE DEF EngineInv
<1>1. UNCHANGED <<config, model, gen, ckpt>> BY DEF Schedules
<1>2. /\ phase \in {"loop", "batch", "advance"}
      /\ phase' \in {"loop", "batch", "prepare", "done", "timeout"}
  BY DEF Schedules
<1>3. ~InPass /\ ~InPass' /\ ~Toward("first_validation")' /\ ~Trained' /\ ~Counted'
  BY <1>2 DEF InPass, Toward, Trained, Counted
<1>4. data.pass = 0 /\ data'.pass = 0 BY <1>3 DEF Whereabouts, Schedules
<1>5. /\ mem' \in [policy : Model, other : Model, ipc : BOOLEAN]
      /\ mem'.policy = mem.policy /\ mem'.other = mem.other
      /\ mem'.ipc = mem.ipc \/ (config.algo = "xtoken" /\ ~mem'.ipc)
  BY DEF Schedules, EngineFields
<1>6. EngineFields' BY <1>1, <1>5 DEF EngineFields
<1>7. Whereabouts' BY <1>1, <1>2, <1>3, <1>4 DEF Whereabouts
<1>8. EngineFresh' BY <1>1, <1>2 DEF EngineFresh, HasEngine, Generates
<1>9. ScalesFresh'
  <2> SUFFICES ASSUME OwnScales PROVE ScalesFresh' BY <1>1 DEF ScalesFresh, OwnScales
  <2>1. gen.cache \in {None, model.version} BY <1>2 DEF ScalesFresh
  <2>2. ckpt.step = 0 => ckpt.model.version = 0 BY DEF ScalesFresh
  <2>3. ~gen.stale => gen.scales = gen.loaded \/ FirstScales BY DEF ScalesFresh
  <2>4. Counted => (~gen.stale => gen.scales = gen.loaded) BY DEF ScalesFresh
  <2>5. ~gen.stale => gen.scales = gen.loaded \/ FirstScales'
    BY <1>1, <2>3, <2>4 DEF Schedules, FirstScales
  <2> QED BY <1>1, <1>2, <1>3, <2>1, <2>2, <2>5 DEF ScalesFresh
<1>10. Placed'
  <2>1. EnginePlaces'
    BY <1>1, <1>2, <1>5 DEF Placed, EnginePlaces, HasEngine, Generates, Silent, Ended, Asleep, Generating
  <2>2. GRPOPlaces' BY <1>1, <1>2, <1>5, <1>3 DEF Placed, GRPOPlaces, Generates, Between, EngineFresh, EnginePlaces
  <2>3. PPOPlaces' BY <1>1, <1>2, <1>5 DEF Placed, PPOPlaces, Generates
  <2>4. DistillationPlaces' BY <1>1, <1>2, <1>5 DEF Placed, DistillationPlaces, Between
  <2>5. XTokenPlaces' BY <1>1, <1>2 DEF Schedules, XTokenPlaces, Ended
  <2>6. SupervisedPlaces' BY <1>1, <1>5 DEF Placed, SupervisedPlaces, Supervised
  <2> QED BY <2>1, <2>2, <2>3, <2>4, <2>5, <2>6 DEF Placed
<1> QED BY <1>6, <1>7, <1>8, <1>9, <1>10

(* The policy prepares to fill the engine. *)
RefitBegins(goal) ==
  /\ HasEngine /\ Silent /\ phase' = "refit" /\ goal \in Goals \ {"train"}
  /\ UNCHANGED <<config, sched, data, model, ckpt>>
  /\ gen' = [gen EXCEPT !.awake = Awake({"weights"}), !.goal = goal, !.cache = gen'.cache]
  /\ gen'.cache = gen.cache \/ gen'.cache = model.version
  /\ ~InPass /\ phase # "recalibrate"
  /\ OwnScales =>
       IF goal = "first_validation"
         THEN sched.step = 0 /\ model.version = 0 /\ ValAtStart
         ELSE gen'.cache = model.version
  /\ (goal = "validate") = Trained
  /\ mem'.policy.params = "gpu" \/ (Cold /\ goal = "validate")
  /\ config.colocated => mem'.policy.optim = "cpu"
  /\ mem'.ipc = mem.ipc /\ (mem'.other = mem.other \/ Away(mem'.other))
  /\ phase \notin {"values", "critic", "teacher"}
  /\ mem' \in [policy : Model, other : Model, ipc : BOOLEAN]

LEMMA RefitInPlace ==
  ASSUME ScheduleInv, EngineInv, Placed, NEW goal, RefitBegins(goal)
  PROVE  EngineInv' /\ Placed'
<1> USE DEF EngineInv
<1>1. /\ UNCHANGED <<config, sched, data, model, ckpt>> /\ phase' = "refit"
      /\ HasEngine /\ Silent /\ ~InPass /\ phase # "recalibrate"
      /\ goal \in Goals \ {"train"}
  BY DEF RefitBegins
<1>2. /\ gen'.awake = Awake({"weights"}) /\ gen'.goal = goal /\ gen'.stale = gen.stale
      /\ gen'.loaded = gen.loaded /\ gen'.scales = gen.scales
      /\ gen'.cache \in {gen.cache, model.version}
      /\ gen' \in [awake : SUBSET Parts, loaded : Int, scales : Int, cache : Int,
                   stale : BOOLEAN, goal : Goals]
  <2>1. Awake({"weights"}) \in SUBSET Parts BY AwakeParts DEF EngineFields
  <2>2. gen'.cache \in Int
    <3>1. gen.cache \in Int /\ model.version \in Int
      BY DEF EngineFields, ScheduleInv, ScheduleFields, Policy
    <3>2. gen'.cache = gen.cache \/ gen'.cache = model.version BY DEF RefitBegins
    <3> QED BY <3>1, <3>2
  <2>3. gen \in [awake : SUBSET Parts, loaded : Int, scales : Int, cache : Int,
                 stale : BOOLEAN, goal : Goals]
    BY DEF EngineFields
  <2> QED BY <1>1, <2>1, <2>2, <2>3 DEF RefitBegins
<1>3. EngineFields'
  <2>1. model.version \in Nat BY DEF ScheduleInv, ScheduleFields, Policy
  <2>2. gen'.cache \in -1 .. model.version BY <1>2, <2>1 DEF EngineFields
  <2> QED BY <1>1, <1>2, <2>2 DEF EngineFields, RefitBegins
<1>4. Whereabouts' BY <1>1, <1>2 DEF Whereabouts, HasEngine, InPass
<1>5. EngineFresh' BY <1>1, <1>2 DEF EngineFresh, HasEngine, Generates
<1>6. ScalesFresh'
  <2> SUFFICES ASSUME OwnScales PROVE ScalesFresh' BY <1>1 DEF ScalesFresh, OwnScales
  <2>1. gen'.cache \in {None, model.version} BY <1>1, <1>2 DEF ScalesFresh
  <2>2. goal # "first_validation" => gen'.cache = model.version BY DEF RefitBegins
  <2>3. goal = "first_validation" => sched.step = 0 /\ model.version = 0 /\ ValAtStart
    BY DEF RefitBegins
  <2>4. (~gen.stale => gen.scales = gen.loaded \/ FirstScales) /\ (ckpt.step = 0 => ckpt.model.version = 0)
    BY DEF ScalesFresh
  <2>5. FirstScales => FirstScales' BY <1>1, <1>2 DEF FirstScales
  <2>6. (Trained' => Trained) /\ ~Counted'
    BY <1>1, <1>2 DEF RefitBegins, Trained, Toward, InPass, Counted
  <2>7. Trained' => (~gen.stale => gen.scales = gen.loaded) BY <2>6 DEF ScalesFresh
  <2> QED BY <1>1, <1>2, <2>1, <2>2, <2>3, <2>4, <2>5, <2>6, <2>7 DEF ScalesFresh, Toward
<1>7. Placed'
  <2>1. /\ mem'.policy.params = "gpu" \/ (Cold' /\ gen'.goal = "validate")
        /\ config.colocated => mem'.policy.optim = "cpu"
        /\ mem'.ipc = mem.ipc /\ (mem'.other = mem.other \/ Away(mem'.other))
        /\ phase \notin {"values", "critic", "teacher"}
    BY <1>1, <1>2 DEF RefitBegins, Cold, WarmingUp
  <2>2. gen.awake = Asleep /\ ~mem.ipc /\ Away(mem.other)
    BY <1>1, <2>1 DEF Placed, EnginePlaces, Silent
  <2>3. gen'.awake = IF config.colocated THEN {"weights"} ELSE Parts
    BY <1>2, <2>2, AwakeParts DEF EngineFields
  <2>4. EnginePlaces'
    BY <1>1, <2>1, <2>2, <2>3 DEF EnginePlaces, Silent, Generates
  <2>5. GRPOPlaces' /\ PPOPlaces' /\ DistillationPlaces'
    BY <1>1 DEF GRPOPlaces, PPOPlaces, DistillationPlaces, Generates, Between
  <2>6. XTokenPlaces' /\ SupervisedPlaces'
    BY <1>1 DEF XTokenPlaces, SupervisedPlaces, Supervised, HasEngine, Generating
  <2> QED BY <2>4, <2>5, <2>6 DEF Placed
<1> QED BY <1>3, <1>4, <1>5, <1>6, <1>7

(* An engine with the newest weights is woken. *)
WakesUp(goal) ==
  /\ HasEngine /\ Silent /\ ~InPass /\ phase # "recalibrate" /\ phase' = goal
  /\ goal = "rollout" \/ (goal = "validate" /\ phase = "trained")
  /\ ~gen.stale
  /\ UNCHANGED <<config, sched, data, model, ckpt>>
  /\ gen' = [gen EXCEPT !.awake = Awake(Parts), !.goal = goal]
  /\ phase \notin {"values", "critic", "teacher"}
  /\ mem' = [mem EXCEPT !.policy = mem'.policy] /\ mem'.policy \in Model
  /\ config.algo \in {"grpo", "ppo"} /\ config.colocated => Away(mem'.policy)

LEMMA WakesInPlace ==
  ASSUME ScheduleInv, EngineInv, Placed, NEW goal, WakesUp(goal)
  PROVE  EngineInv' /\ Placed'
<1> USE DEF EngineInv
<1>1. /\ UNCHANGED <<config, sched, data, model, ckpt>> /\ phase' = goal
      /\ HasEngine /\ Silent /\ ~InPass /\ ~gen.stale
      /\ goal = "rollout" \/ (goal = "validate" /\ phase = "trained")
      /\ phase \notin {"values", "critic", "teacher", "recalibrate"}
  BY DEF WakesUp
<1>2. /\ gen'.awake = Parts /\ gen'.goal = goal /\ gen'.stale = gen.stale
      /\ gen'.loaded = gen.loaded /\ gen'.scales = gen.scales /\ gen'.cache = gen.cache
      /\ gen' \in [awake : SUBSET Parts, loaded : Int, scales : Int, cache : Int,
                   stale : BOOLEAN, goal : Goals]
  <2>1. Awake(Parts) = Parts BY AwakeParts DEF EngineFields
  <2>2. gen \in [awake : SUBSET Parts, loaded : Int, scales : Int, cache : Int,
                 stale : BOOLEAN, goal : Goals]
    BY DEF EngineFields
  <2>3. goal \in Goals BY <1>1 DEF Goals
  <2> QED BY <2>1, <2>2, <2>3 DEF WakesUp
<1>3. /\ mem' \in [policy : Model, other : Model, ipc : BOOLEAN]
      /\ mem'.other = mem.other /\ mem'.ipc = mem.ipc
      /\ config.algo \in {"grpo", "ppo"} /\ config.colocated => Away(mem'.policy)
  <2>1. mem \in [policy : Model, other : Model, ipc : BOOLEAN] BY DEF EngineFields
  <2> QED BY <2>1 DEF WakesUp
<1>4. EngineFields' BY <1>1, <1>2, <1>3 DEF EngineFields
<1>5. Whereabouts' BY <1>1, <1>2 DEF Whereabouts, HasEngine, InPass
<1>6. EngineFresh' BY <1>1, <1>2 DEF EngineFresh, HasEngine
<1>7. ScalesFresh'
  <2> SUFFICES ASSUME OwnScales PROVE ScalesFresh' BY <1>1 DEF ScalesFresh, OwnScales
  <2>1. FirstScales => FirstScales' BY <1>1, <1>2 DEF FirstScales
  <2>2. Trained' => Trained BY <1>1 DEF Trained, Toward, InPass
  <2>3. ~Counted' /\ ~Toward("first_validation")' BY <1>1 DEF Counted, Toward
  <2> QED BY <1>1, <1>2, <2>1, <2>2, <2>3 DEF ScalesFresh
<1>8. Placed'
  <2>1. ~mem.ipc /\ Away(mem.other) BY <1>1 DEF Placed, EnginePlaces, Silent
  <2>2. EnginePlaces'
    BY <1>1, <1>2, <1>3, <2>1 DEF EnginePlaces, Silent, Generates
  <2>3. config.algo = "ppo" => config.colocated
    BY ConfigFacts DEF ScheduleInv, ScheduleFields
  <2>4. GRPOPlaces' /\ PPOPlaces' /\ DistillationPlaces'
    BY <1>1, <1>3, <2>3 DEF GRPOPlaces, PPOPlaces, DistillationPlaces, Generates, Between
  <2>5. XTokenPlaces' /\ SupervisedPlaces'
    BY <1>1 DEF XTokenPlaces, SupervisedPlaces, Supervised, HasEngine, Generating
  <2> QED BY <2>2, <2>4, <2>5 DEF Placed
<1> QED BY <1>4, <1>5, <1>6, <1>7, <1>8

(* The engine has answered all validation prompts. *)
Validated ==
  /\ HasEngine
  /\ \/ phase = "first_validation" /\ phase' = "loop"
     \/ phase = "validate" /\ phase' = "save"
  /\ UNCHANGED <<config, sched, data, model, mem, ckpt>>
  /\ gen' = [gen EXCEPT !.awake = Asleep]

LEMMA ValidatedInPlace ==
  ASSUME ScheduleInv, EngineInv, Placed, Validated
  PROVE  EngineInv' /\ Placed'
<1> USE DEF EngineInv
<1>1. /\ UNCHANGED <<config, sched, data, model, mem, ckpt>> /\ HasEngine
      /\ phase \in {"first_validation", "validate"} /\ phase' \in {"loop", "save"}
      /\ phase = "first_validation" => phase' = "loop"
  BY DEF Validated
<1>2. /\ gen'.awake = Asleep /\ gen'.goal = gen.goal /\ gen'.stale = gen.stale
      /\ gen'.loaded = gen.loaded /\ gen'.scales = gen.scales /\ gen'.cache = gen.cache
      /\ gen' \in [awake : SUBSET Parts, loaded : Int, scales : Int, cache : Int,
                   stale : BOOLEAN, goal : Goals]
  <2>1. Asleep \in SUBSET Parts BY DEF Asleep
  <2> QED BY <2>1 DEF Validated, EngineFields
<1>3. ~gen.stale BY <1>1 DEF EngineFresh, Generates
<1>4. EngineFields' BY <1>1, <1>2 DEF EngineFields
<1>5. Whereabouts' BY <1>1, <1>2 DEF Whereabouts, HasEngine, InPass
<1>6. EngineFresh' BY <1>1, <1>2 DEF EngineFresh, HasEngine, Generates
<1>7. ScalesFresh'
  <2> SUFFICES ASSUME OwnScales PROVE ScalesFresh' BY <1>1 DEF ScalesFresh, OwnScales
  <2>1. FirstScales => FirstScales' BY <1>1, <1>2 DEF FirstScales
  <2>2. Trained' => Trained BY <1>1 DEF Trained, Toward, InPass, Validated
  <2>3. ~Counted' /\ ~Toward("first_validation")' BY <1>1 DEF Counted, Toward
  <2> QED BY <1>1, <1>2, <2>1, <2>2, <2>3 DEF ScalesFresh
<1>8. Placed'
  <2>1. ~mem.ipc /\ Away(mem.other) BY <1>1 DEF Placed, EnginePlaces, Ended
  <2>2. EnginePlaces'
    BY <1>1, <1>2, <2>1 DEF EnginePlaces, Silent, Generates, Asleep
  <2>3. GRPOPlaces' /\ PPOPlaces' /\ DistillationPlaces'
    BY <1>1, <1>2, <1>3 DEF GRPOPlaces, PPOPlaces, DistillationPlaces, Generates, Between
  <2>4. XTokenPlaces' /\ SupervisedPlaces'
    BY <1>1 DEF XTokenPlaces, SupervisedPlaces, Supervised, HasEngine, Generating
  <2> QED BY <2>2, <2>3, <2>4 DEF Placed
<1> QED BY <1>4, <1>5, <1>6, <1>7, <1>8

(* The checkpoint is written with the models wherever saving leaves them. *)
Saves ==
  /\ phase = "save" /\ phase' = "advance"
  /\ UNCHANGED <<config, sched, data, gen>>
  /\ model'.version = model.version
  /\ \/ ckpt' = ckpt
     \/ ckpt'.step = sched.step + 1
     \/ Supervised
  /\ mem' \in [policy : Model, other : Model, ipc : BOOLEAN]
  /\ \/ mem' = mem
     \/ /\ OnGPU(mem'.policy)
        /\ mem'.other = mem.other /\ mem'.ipc = mem.ipc
     \/ config.algo = "ppo" /\ Away(mem'.policy) /\ Away(mem'.other) /\ mem'.ipc = mem.ipc

LEMMA SavesInPlace ==
  ASSUME ScheduleInv, EngineInv, Placed, Saves
  PROVE  EngineInv' /\ Placed'
<1> USE DEF EngineInv
<1>1. /\ UNCHANGED <<config, sched, data, gen>> /\ model'.version = model.version
      /\ phase = "save" /\ phase' = "advance"
  BY DEF Saves
<1>2. ~InPass /\ ~InPass' /\ Trained /\ Counted' /\ ~Toward("first_validation")'
  BY <1>1 DEF InPass, Trained, Counted, Toward
<1>3. EngineFields' BY <1>1 DEF EngineFields, Saves
<1>4. Whereabouts' BY <1>1, <1>2 DEF Whereabouts
<1>5. EngineFresh' BY <1>1 DEF EngineFresh, HasEngine, Generates
<1>6. ScalesFresh'
  <2> SUFFICES ASSUME OwnScales PROVE ScalesFresh' BY <1>1 DEF ScalesFresh, OwnScales
  <2>1. ckpt'.step = 0 => ckpt'.model.version = 0
    <3>1. ckpt' = ckpt \/ ckpt'.step = sched.step + 1 \/ Supervised BY DEF Saves
    <3>2. ~Supervised
      <4>1. config \in Configs BY DEF ScheduleInv, ScheduleFields
      <4>2. config.algo \in {"grpo", "ppo"} BY <4>1, ConfigFacts DEF OwnScales
      <4> QED BY <4>2 DEF Supervised
    <3>3. sched.step + 1 # 0 BY DEF ScheduleInv, ScheduleFields
    <3> QED BY <3>1, <3>2, <3>3 DEF ScalesFresh
  <2>2. FirstScales => FirstScales' BY <1>1 DEF FirstScales
  <2> QED BY <1>1, <1>2, <2>1, <2>2 DEF ScalesFresh
<1>7. Placed'
  <2>1. EnginePlaces'
    BY <1>1 DEF Saves, Placed, EnginePlaces, HasEngine, Generates, Silent, Ended, Asleep
  <2>2. GRPOPlaces' BY <1>1 DEF Saves, Placed, GRPOPlaces, Generates, Between, OnGPU
  <2>3. PPOPlaces' BY <1>1 DEF PPOPlaces, Generates
  <2>4. DistillationPlaces' BY <1>1 DEF Saves, Placed, DistillationPlaces, Between, OnGPU
  <2>5. XTokenPlaces' BY <1>1 DEF XTokenPlaces, Ended
  <2>6. SupervisedPlaces' BY <1>1 DEF Saves, Placed, SupervisedPlaces, Supervised
  <2> QED BY <2>1, <2>2, <2>3, <2>4, <2>5, <2>6 DEF Placed
<1> QED BY <1>3, <1>4, <1>5, <1>6, <1>7

(* The state a job starts its loop in *)
Started ==
  /\ ScheduleInv /\ phase = "start"
  /\ mem = [policy |-> [params |-> "gpu", optim |-> "gpu"],
            other |-> [params |-> "cpu", optim |-> "cpu"], ipc |-> FALSE]
  /\ gen = [awake |-> Asleep, loaded |-> None, scales |-> Default,
            cache |-> None, stale |-> TRUE, goal |-> "rollout"]
  /\ data.pass = 0
  /\ OwnScales => /\ sched.step = 0 => model.version = 0
                  /\ ckpt.step = 0 => ckpt.model.version = 0

LEMMA StartedInPlace == Started => EngineInv /\ Placed
<1> SUFFICES ASSUME Started PROVE EngineInv /\ Placed OBVIOUS
<1> USE DEF Started
<1>1. mem \in [policy : Model, other : Model, ipc : BOOLEAN] BY DEF Model
<1>2. gen \in [awake : SUBSET Parts, loaded : Int, scales : Int, cache : Int,
               stale : BOOLEAN, goal : Goals]
  BY DEF Asleep, None, Default, Goals
<1>3. model.version \in Nat BY DEF ScheduleInv, ScheduleFields, Policy
<1>4. EngineFields BY <1>1, <1>2, <1>3 DEF EngineFields, None, Default
<1>5. Whereabouts
  <2>1. 0 < PPOEpochs BY JobConstants
  <2> QED BY <2>1 DEF Whereabouts
<1>6. EngineFresh BY DEF EngineFresh, Generates
<1>7. ScalesFresh BY DEF ScalesFresh, Toward, Trained, Counted, InPass
<1>8. EnginePlaces /\ GRPOPlaces /\ PPOPlaces /\ DistillationPlaces
  BY DEF EnginePlaces, GRPOPlaces, PPOPlaces, DistillationPlaces, Generates,
         Silent, Between, OnGPU, Away
<1>9. XTokenPlaces /\ SupervisedPlaces
  BY DEF XTokenPlaces, SupervisedPlaces, OnGPU, Ended
<1> QED BY <1>4, <1>5, <1>6, <1>7, <1>8, <1>9 DEF EngineInv, Placed

LEMMA StartedInPlaceNext == Started' => EngineInv' /\ Placed'
BY StartedInPlace, PTL

LEMMA InitInv == Init => Inv
<1> SUFFICES ASSUME Init PROVE Inv OBVIOUS
<1>1. ScheduleInv BY InitSchedule
<1>2. data.pass = 0 /\ model.version = 0 /\ ckpt.model.version = 0
  BY DEF Init, NoCheckpoint
<1>3. EngineInv /\ Placed BY <1>1, <1>2, StartedInPlace DEF Init, Started
<1>4. restarts \in 0 .. MaxRestarts BY JobConstants DEF Init
<1> QED BY <1>1, <1>3, <1>4 DEF Inv

LEMMA RestartInv == ASSUME Inv, Restart PROVE Inv'
<1>1. ScheduleInv' BY RestartKeeps DEF Inv
<1>2. /\ UNCHANGED <<config, ckpt>> /\ phase' = "start" /\ model' = ckpt.model
      /\ sched'.step = ckpt.step /\ data'.pass = 0
      /\ mem' = [policy |-> [params |-> "gpu", optim |-> "gpu"],
                 other |-> [params |-> "cpu", optim |-> "cpu"], ipc |-> FALSE]
      /\ gen' = [awake |-> Asleep', loaded |-> None, scales |-> Default,
                 cache |-> None, stale |-> TRUE, goal |-> "rollout"]
  BY DEF Restart, StartFrom, Asleep
<1>3. OwnScales' => /\ sched'.step = 0 => model'.version = 0
                    /\ ckpt'.step = 0 => ckpt'.model.version = 0
  BY <1>2 DEF Inv, EngineInv, ScalesFresh, OwnScales
<1>4. Started' BY <1>1, <1>2, <1>3 DEF Started
<1>5. EngineInv' /\ Placed' BY <1>4, StartedInPlaceNext
<1>6. restarts' \in 0 .. MaxRestarts BY JobConstants DEF Inv, Restart
<1> QED BY <1>1, <1>5, <1>6 DEF Inv

(* The engine has its weights and goes to work. *)
LEMMA FinishRefitInv == ASSUME Inv, FinishRefit PROVE Inv'
<1> USE DEF Inv, EngineInv
<1>1. /\ phase = "refit" /\ phase' = gen.goal
      /\ UNCHANGED <<config, sched, data, model, report, ckpt, restarts>>
      /\ mem' = [mem EXCEPT !.policy =
                   IF config.colocated THEN OffloadedAfterRefit(@) ELSE @]
      /\ gen' = [gen EXCEPT !.awake = Awake(Parts), !.stale = FALSE,
                   !.loaded = model.version,
                   !.scales = IF config.colocated \/ gen.goal = "first_validation"
                                   \/ gen.cache = None
                                THEN Default ELSE gen.cache]
  BY DEF FinishRefit, rest
<1>2. HasEngine /\ gen.goal \in {"rollout", "validate", "first_validation"}
  BY <1>1 DEF Whereabouts, EngineFields, Goals
<1>3. /\ mem \in [policy : Model, other : Model, ipc : BOOLEAN]
      /\ gen \in [awake : SUBSET Parts, loaded : Int, scales : Int, cache : Int,
                  stale : BOOLEAN, goal : Goals]
      /\ model.version \in Nat /\ Awake(Parts) = Parts
      /\ gen.cache \in -1 .. model.version
  BY AwakeParts DEF EngineFields, ScheduleInv, ScheduleFields, Policy
<1>4. /\ gen'.awake = Parts /\ gen'.goal = gen.goal /\ gen'.stale = FALSE
      /\ gen'.loaded = model.version /\ gen'.cache = gen.cache
      /\ gen'.scales = IF config.colocated \/ gen.goal = "first_validation"
                            \/ gen.cache = None
                         THEN Default ELSE gen.cache
  BY <1>1, <1>3
<1>5. /\ mem'.other = mem.other /\ mem'.ipc = mem.ipc
      /\ mem' \in [policy : Model, other : Model, ipc : BOOLEAN]
      /\ config.colocated => Away(mem'.policy)
      /\ ~config.colocated => mem'.policy = mem.policy
  <2>1. CASE config.colocated
    <3>1. OffloadedAfterRefit(mem.policy) \in Model /\ Away(OffloadedAfterRefit(mem.policy))
      BY <1>3 DEF OffloadedAfterRefit, OffloadedBeforeRefit, Model, Away
    <3> QED BY <1>1, <1>3, <2>1, <3>1
  <2>2. CASE ~config.colocated BY <1>1, <1>3, <2>2
  <2> QED BY <2>1, <2>2
<1>6. ScheduleInv'
  <2>1. \/ Before /\ Before' /\ phase' # "batch"
        \/ Drawn /\ Drawn'
        \/ Trained /\ Trained'
    BY <1>1, <1>2 DEF Before, Drawn, Trained, Toward
  <2>2. Waits BY <1>1, <2>1 DEF Waits, ScheduleInv, ScheduleFields
  <2> QED BY <2>2, WaitKeeps
<1>7. EngineFields'
  <2>1. gen'.scales \in -2 .. model.version BY <1>3, <1>4 DEF Default
  <2>2. gen' \in [awake : SUBSET Parts, loaded : Int, scales : Int, cache : Int,
                  stale : BOOLEAN, goal : Goals]
    <3> DEFINE scales == IF config.colocated \/ gen.goal = "first_validation"
                               \/ gen.cache = None
                           THEN Default ELSE gen.cache
    <3>1. scales \in Int /\ model.version \in Int BY <1>3 DEF Default
    <3> HIDE DEF scales
    <3>2. gen' = [gen EXCEPT !.awake = Parts, !.stale = FALSE,
                    !.loaded = model.version, !.scales = scales]
      BY <1>1, <1>3 DEF scales
    <3> QED BY <1>3, <3>1, <3>2
  <2> QED BY <1>1, <1>3, <1>4, <1>5, <2>1, <2>2 DEF EngineFields
<1>8. Whereabouts' BY <1>1, <1>2, <1>4 DEF Whereabouts, HasEngine, InPass
<1>9. EngineFresh' BY <1>1, <1>2, <1>4 DEF EngineFresh, HasEngine
<1>10. ScalesFresh'
  <2> SUFFICES ASSUME OwnScales PROVE ScalesFresh' BY <1>1 DEF ScalesFresh, OwnScales
  <2>1. gen.cache \in {None, model.version} BY <1>1 DEF ScalesFresh
  <2>2. gen.goal # "first_validation" => gen.cache = model.version
    BY <1>1 DEF ScalesFresh
  <2>3. gen.goal = "first_validation" => sched.step = 0 /\ model.version = 0 /\ ValAtStart
    BY <1>1 DEF ScalesFresh, Toward
  <2>4. gen.goal # "first_validation" => gen'.scales = gen'.loaded
    BY <1>3, <1>4, <2>2 DEF OwnScales, None
  <2>5. gen.goal = "first_validation" => FirstScales'
    BY <1>1, <1>4, <2>3 DEF FirstScales
  <2>6. /\ Trained' => gen.goal # "first_validation"
        /\ ~Counted' /\ ~Toward("first_validation")' /\ phase' \notin {"trained", "refit", "start"}
    BY <1>1, <1>2 DEF Trained, Counted, Toward, InPass
  <2> QED BY <1>1, <1>4, <2>1, <2>4, <2>5, <2>6 DEF ScalesFresh
<1>11. Placed'
  <2>1. ~mem.ipc /\ Away(mem.other) BY <1>1, <1>2 DEF Placed, EnginePlaces, Ended
  <2>2. EnginePlaces'
    BY <1>1, <1>2, <1>4, <1>5, <2>1 DEF EnginePlaces, Silent, Generates
  <2>3. config.algo = "ppo" => config.colocated
    BY ConfigFacts DEF ScheduleInv, ScheduleFields
  <2>4. GRPOPlaces' /\ PPOPlaces' /\ DistillationPlaces'
    BY <1>1, <1>2, <1>5, <2>3 DEF GRPOPlaces, PPOPlaces, DistillationPlaces, Generates, Between
  <2>5. XTokenPlaces' /\ SupervisedPlaces'
    BY <1>1, <1>2 DEF XTokenPlaces, SupervisedPlaces, Supervised, HasEngine, Generating
  <2> QED BY <2>2, <2>4, <2>5 DEF Placed
<1> QED BY <1>1, <1>6, <1>7, <1>8, <1>9, <1>10, <1>11

-----------------------------------------------------------------------------
(* What the loops with an engine share                                     *)

LEMMA Typed ==
  ASSUME Inv
  PROVE  /\ mem \in [policy : Model, other : Model, ipc : BOOLEAN]
         /\ gen \in [awake : SUBSET Parts, loaded : Int, scales : Int, cache : Int,
                     stale : BOOLEAN, goal : Goals]
         /\ data \in [batch : SUBSET Pairs, rolled : SUBSET Int, numGen : Nat, pass : Nat]
         /\ report \in [measured : BOOLEAN, metric : Int, timeout : BOOLEAN]
         /\ model \in Policy /\ model.version \in Nat /\ model.steps \in Seq(Step)
         /\ config \in Configs
BY DEF Inv, EngineInv, EngineFields, ScheduleInv, ScheduleFields, Policy

(* Calls that move a model keep its type. *)
LEMMA Moved ==
  ASSUME NEW m \in Model
  PROVE  /\ PreparedForInference(m) \in Model /\ PreparedForInference(m).params = "gpu"
         /\ PreparedForTraining(m) \in Model /\ OnGPU(PreparedForTraining(m))
         /\ InferenceFinished(m) \in Model /\ InferenceFinished(m).params = "cpu"
         /\ InferenceFinished(m).optim = m.optim
         /\ OffloadedBeforeRefit(m) \in Model /\ OffloadedBeforeRefit(m).params = m.params
         /\ OffloadedBeforeRefit(m).optim = "cpu"
         /\ OffloadedAfterRefit(m) \in Model /\ Away(OffloadedAfterRefit(m))
         /\ ValueForInference(m) \in Model /\ ValueForInference(m).params = "gpu"
         /\ ValueForInference(m).optim = m.optim
         /\ ValueFinished(m) \in Model /\ Away(ValueFinished(m))
         /\ m.optim = "cpu" => PreparedForInference(m).optim = "cpu"
BY DEF Model, PreparedForInference, PreparedForTraining, InferenceFinished,
       OffloadedBeforeRefit, OffloadedAfterRefit, ValueForInference, ValueFinished,
       OnGPU, Away

(* The head of the loop, the dataloader and the end of a step *)
LEMMA Scheduling ==
  ASSUME Inv, NEW algos,
         NextEpoch(algos) \/ NextBatch(algos) \/ EndEpoch(algos) \/ Advance(algos),
         mem' = mem \/ (config.algo = "xtoken" /\ mem' = [mem EXCEPT !.ipc = FALSE]),
         config.algo = "xtoken" /\ phase' \in Ended => ~mem'.ipc
  PROVE  Inv'
<1> USE DEF Inv
<1>1. ScheduleInv' BY NextEpochKeeps, NextBatchKeeps, EndEpochKeeps, AdvanceKeeps
<1>2. restarts' = restarts BY DEF NextEpoch, NextBatch, EndEpoch, Advance, rest
<1>3. /\ mem' = mem \/ (config.algo = "xtoken" /\ mem' = [mem EXCEPT !.ipc = FALSE])
      /\ config.algo = "xtoken" /\ phase' \in Ended => ~mem'.ipc
  OBVIOUS
<1>4. /\ data \in [batch : SUBSET Pairs, rolled : SUBSET Int, numGen : Nat, pass : Nat]
      /\ sched \in [epoch : Nat, step : Nat, total : Nat, pos : Nat]
  BY DEF ScheduleInv, ScheduleFields
<1>5. Schedules
  <2>1. CASE NextEpoch(algos) BY <1>3, <1>4, <2>1 DEF NextEpoch, Now, rest, Schedules
  <2>2. CASE NextBatch(algos) BY <1>3, <1>4, <2>2 DEF NextBatch, Now, rest, Schedules
  <2>3. CASE EndEpoch(algos) BY <1>3, <1>4, <2>3 DEF EndEpoch, Now, rest, Schedules
  <2>4. CASE Advance(algos) BY <1>3, <1>4, <2>4 DEF Advance, Now, rest, Schedules, Counted
  <2> QED BY <2>1, <2>2, <2>3, <2>4
<1>6. EngineInv' /\ Placed' BY <1>5, SchedulesInPlace
<1> QED BY <1>1, <1>2, <1>6

(* The checkpoint of a step *)
LEMMA Saving ==
  ASSUME Inv, NEW algos, NEW step, NEW metric, NEW optim, NEW places,
         Save(algos, step, metric, optim, places),
         step = sched.step + 1 \/ (Supervised /\ step = StepSaved), optim = ~WarmingUp,
         metric = FreshMetric \/ (config.algo = "xtoken" /\ metric = XTokenMetric),
         \/ places = mem
         \/ places = [mem EXCEPT !.policy = PreparedForTraining(@)]
         \/ /\ config.algo = "ppo"
            /\ places = [mem EXCEPT !.policy = OffloadedAfterRefit(@),
                                    !.other = ValueFinished(@)]
  PROVE  Inv'
<1> USE DEF Inv
<1>1. ScheduleInv' BY SaveKeeps
<1>2. /\ phase = "save" /\ phase' = "advance"
      /\ UNCHANGED <<config, sched, data, gen, restarts>> /\ model' = StepTaken
      /\ ckpt' = ckpt \/ ckpt' = Checkpoint(step, metric, optim)
      /\ mem' = mem \/ mem' = places
  BY DEF Save, Now
<1>3. model'.version = model.version
  BY <1>2 DEF StepTaken, ScheduleInv, ScheduleFields, Policy
<1>4. ckpt' = ckpt \/ ckpt'.step = sched.step + 1 \/ Supervised
  BY <1>2 DEF Checkpoint
<1>5. mem \in [policy : Model, other : Model, ipc : BOOLEAN] BY Typed
<1>6. /\ PreparedForTraining(mem.policy) \in Model /\ OnGPU(PreparedForTraining(mem.policy))
      /\ OffloadedAfterRefit(mem.policy) \in Model /\ Away(OffloadedAfterRefit(mem.policy))
      /\ ValueFinished(mem.other) \in Model /\ Away(ValueFinished(mem.other))
  BY <1>5, Moved
<1>7. /\ mem' \in [policy : Model, other : Model, ipc : BOOLEAN]
      /\ \/ mem' = mem
         \/ /\ OnGPU(mem'.policy)
            /\ mem'.other = mem.other /\ mem'.ipc = mem.ipc
         \/ config.algo = "ppo" /\ Away(mem'.policy) /\ Away(mem'.other) /\ mem'.ipc = mem.ipc
  <2>1. CASE mem' = mem BY <1>5, <2>1
  <2>2. CASE mem' = [mem EXCEPT !.policy = PreparedForTraining(mem.policy)]
    <3>1. /\ mem'.policy = PreparedForTraining(mem.policy)
          /\ mem'.other = mem.other /\ mem'.ipc = mem.ipc
          /\ mem' \in [policy : Model, other : Model, ipc : BOOLEAN]
      BY <1>5, <1>6, <2>2
    <3> QED BY <1>6, <3>1
  <2>3. CASE /\ config.algo = "ppo"
             /\ mem' = [mem EXCEPT !.policy = OffloadedAfterRefit(mem.policy),
                                   !.other = ValueFinished(mem.other)]
    <3>1. /\ mem'.policy = OffloadedAfterRefit(mem.policy)
          /\ mem'.other = ValueFinished(mem.other) /\ mem'.ipc = mem.ipc
          /\ mem' \in [policy : Model, other : Model, ipc : BOOLEAN]
      BY <1>5, <1>6, <2>3
    <3> QED BY <1>6, <2>3, <3>1
  <2> QED BY <1>2, <2>1, <2>2, <2>3
<1>8. Saves BY <1>2, <1>3, <1>4, <1>7 DEF Saves
<1>9. EngineInv' /\ Placed' BY <1>8, SavesInPlace
<1> QED BY <1>1, <1>2, <1>9

(* refit_policy_generation begins with the policy where it is. *)
LEMMA Refitting ==
  ASSUME Inv, NEW goal, BeginRefit(goal), HasEngine,
         \/ goal = "first_validation" /\ phase = "start"
         \/ goal = "rollout" /\ phase = "prepare"
         \/ goal = "validate" /\ phase = "trained",
         mem.policy.params = "gpu" \/ (Cold /\ goal = "validate"),
         OwnScales =>
           IF goal = "first_validation"
             THEN sched.step = 0 /\ model.version = 0 /\ ValAtStart
             ELSE gen.cache = model.version,
         UNCHANGED <<sched, data, model, report, rest>>
  PROVE  Inv'
<1> USE DEF Inv
<1>1. UNCHANGED <<config, sched, data, model, report, ckpt, restarts>> BY DEF rest
<1>2. /\ phase' = "refit"
      /\ mem' = [mem EXCEPT !.policy =
                   IF config.colocated THEN OffloadedBeforeRefit(mem.policy) ELSE mem.policy]
      /\ gen' = [gen EXCEPT !.awake = Awake({"weights"}), !.goal = goal]
  BY DEF BeginRefit, BeginRefitOf
<1>3. /\ mem \in [policy : Model, other : Model, ipc : BOOLEAN]
      /\ gen \in [awake : SUBSET Parts, loaded : Int, scales : Int, cache : Int,
                  stale : BOOLEAN, goal : Goals]
  BY Typed
<1>4. /\ mem' \in [policy : Model, other : Model, ipc : BOOLEAN]
      /\ mem'.policy.params = mem.policy.params
      /\ config.colocated => mem'.policy.optim = "cpu"
      /\ mem'.other = mem.other /\ mem'.ipc = mem.ipc
  BY <1>2, <1>3, Moved
<1>5. /\ gen'.cache = gen.cache /\ gen'.goal = goal
      /\ gen' = [gen EXCEPT !.awake = Awake({"weights"}), !.goal = goal, !.cache = gen'.cache]
  BY <1>2, <1>3
<1>6. RefitBegins(goal)
  <2>1. (goal = "validate") = Trained /\ Silent /\ ~InPass
    BY DEF Trained, Toward, InPass, Silent, Generates, Ended
  <2> QED BY <1>1, <1>2, <1>4, <1>5, <2>1 DEF RefitBegins, Goals
<1>7. EngineInv' /\ Placed' BY <1>6, RefitInPlace
<1>8. ScheduleInv'
  <2>1. \/ Before /\ Before' /\ phase' # "batch"
        \/ Drawn /\ Drawn'
        \/ Trained /\ Trained'
    BY <1>2, <1>5 DEF Before, Drawn, Trained, Toward
  <2>2. Waits BY <1>1, <2>1, Typed DEF Waits
  <2> QED BY <2>2, WaitKeeps
<1> QED BY <1>1, <1>7, <1>8

(* prepare_for_generation for rollouts or a validation *)
LEMMA Waking ==
  ASSUME Inv, NEW goal, NEW m \in Model, WakeFor(goal, m), HasEngine, ~gen.stale,
         \/ goal = "rollout" /\ phase = "prepare"
         \/ goal = "validate" /\ phase = "trained",
         config.algo \in {"grpo", "ppo"} /\ config.colocated => Away(m),
         UNCHANGED <<sched, data, model, report, rest>>
  PROVE  Inv'
<1> USE DEF Inv
<1>1. UNCHANGED <<config, sched, data, model, report, ckpt, restarts>> BY DEF rest
<1>2. /\ phase' = goal
      /\ mem' = [mem EXCEPT !.policy = m]
      /\ gen' = [gen EXCEPT !.awake = Awake(Parts), !.goal = goal]
  BY DEF WakeFor
<1>3. mem' = [mem EXCEPT !.policy = mem'.policy] /\ mem'.policy = m
  BY <1>2, Typed
<1>4. WakesUp(goal)
  <2>1. Silent /\ ~InPass BY DEF InPass, Silent, Generates, Ended
  <2> QED BY <1>1, <1>2, <1>3, <2>1 DEF WakesUp
<1>5. EngineInv' /\ Placed' BY <1>4, WakesInPlace
<1>6. ScheduleInv'
  <2>1. (Drawn /\ Drawn') \/ (Trained /\ Trained') BY <1>2 DEF Drawn, Trained
  <2>2. Waits BY <1>1, <2>1, Typed DEF Waits
  <2> QED BY <2>2, WaitKeeps
<1> QED BY <1>1, <1>5, <1>6

(* The engine has answered a validation. *)
LEMMA Validating ==
  ASSUME Inv, Validated, restarts' = restarts,
         report' = report \/ report' = [report EXCEPT !.measured = TRUE]
  PROVE  Inv'
<1> USE DEF Inv
<1>1. EngineInv' /\ Placed' BY ValidatedInPlace
<1>2. /\ report' \in [measured : BOOLEAN, metric : Int, timeout : BOOLEAN]
      /\ report'.metric = report.metric
  BY Typed
<1>3. (Before /\ Before' /\ phase' # "batch") \/ (Trained /\ Trained')
  BY DEF Validated, Before, Trained
<1>4. Waits BY <1>2, <1>3 DEF Waits, Validated
<1> QED BY <1>1, <1>4, WaitKeeps

(* No validation is due. *)
LEMMA Skipping ==
  ASSUME Inv, HasEngine \/ config.algo = "xtoken",
         \/ phase = "start" /\ phase' = "loop"
         \/ phase = "trained" /\ phase' = "save",
         UNCHANGED <<sched, data, model, mem, gen, report, rest>>
  PROVE  Inv'
<1> USE DEF Inv, EngineInv
<1>1. UNCHANGED <<config, sched, data, model, mem, gen, report, ckpt, restarts>> BY DEF rest
<1>2. ~InPass /\ ~InPass' /\ ~Toward("first_validation")' /\ ~Counted'
  BY DEF InPass, Toward, Counted
<1>3. (Before /\ Before' /\ phase' # "batch") \/ (Trained /\ Trained')
  BY DEF Before, Trained
<1>4. ScheduleInv'
  <2>1. Waits BY <1>1, <1>3, Typed DEF Waits
  <2> QED BY <2>1, WaitKeeps
<1>5. EngineFields' BY <1>1 DEF EngineFields
<1>6. Whereabouts' BY <1>1, <1>2 DEF Whereabouts
<1>7. EngineFresh' BY <1>1 DEF EngineFresh, HasEngine, Generates
<1>8. ScalesFresh'
  <2>1. Trained' => Trained BY <1>1 DEF Trained, Toward, InPass
  <2>2. FirstScales' = FirstScales /\ OwnScales' = OwnScales BY <1>1 DEF FirstScales, OwnScales
  <2> QED BY <1>1, <1>2, <2>1, <2>2 DEF ScalesFresh
<1>9. Placed'
  <2>1. EnginePlaces'
    BY <1>1 DEF Placed, EnginePlaces, HasEngine, Generates, Silent, Ended, Asleep
  <2>2. GRPOPlaces' /\ DistillationPlaces'
    BY <1>1 DEF Placed, GRPOPlaces, DistillationPlaces, EnginePlaces, HasEngine,
                Generating, Generates, Between, OnGPU, Cold
  <2>3. PPOPlaces' /\ XTokenPlaces' /\ SupervisedPlaces'
    BY <1>1 DEF Placed, PPOPlaces, XTokenPlaces, SupervisedPlaces, Supervised,
                Generates, Ended
  <2> QED BY <2>1, <2>2, <2>3 DEF Placed
<1> QED BY <1>1, <1>4, <1>5, <1>6, <1>7, <1>8, <1>9

(* Only PPO warms up. *)
LEMMA NoWarmUp ==
  ASSUME Inv, config.algo # "ppo"
  PROVE  ~WarmingUp
<1>1. config.warmup \in Nat /\ ~(config.warmup > 0) BY Typed, ConfigFacts
<1>2. sched.total \in Nat BY DEF Inv, ScheduleInv, ScheduleFields
<1> QED BY <1>1, <1>2 DEF WarmingUp

(* calibrate_qkv_fp8_scales after training *)
LEMMA Recalibrating ==
  ASSUME Inv, phase = "recalibrate", phase' = "trained", config.algo \in {"grpo", "ppo"},
         UNCHANGED <<config, sched, data, model, mem, report, ckpt, restarts>>,
         gen' = [gen EXCEPT !.cache = model.version, !.stale = TRUE]
  PROVE  Inv'
<1> USE DEF Inv, EngineInv
<1>1. HasEngine BY DEF HasEngine, Generating
<1>2. /\ gen'.awake = gen.awake /\ gen'.goal = gen.goal /\ gen'.stale = TRUE
      /\ gen'.loaded = gen.loaded /\ gen'.scales = gen.scales
      /\ gen'.cache = model.version
      /\ gen' \in [awake : SUBSET Parts, loaded : Int, scales : Int, cache : Int,
                   stale : BOOLEAN, goal : Goals]
  <2>1. model.version \in Int BY Typed
  <2>2. gen \in [awake : SUBSET Parts, loaded : Int, scales : Int, cache : Int,
                 stale : BOOLEAN, goal : Goals]
    BY Typed
  <2> HIDE DEF Inv, EngineInv
  <2> QED BY <2>1, <2>2
<1>3. ScheduleInv'
  <2>1. Waits BY Typed DEF Waits, Trained
  <2> QED BY <2>1, WaitKeeps
<1>4. EngineFields' BY <1>2, Typed DEF EngineFields
<1>5. Whereabouts' BY <1>1, <1>2 DEF Whereabouts, HasEngine, InPass
<1>6. EngineFresh' BY <1>1, <1>2 DEF EngineFresh, HasEngine, Generates
<1>7. ScalesFresh' BY <1>2 DEF ScalesFresh, OwnScales, Toward
<1>8. Placed'
  BY <1>1, <1>2 DEF Placed, EnginePlaces, GRPOPlaces, PPOPlaces,
       DistillationPlaces, XTokenPlaces, SupervisedPlaces, Supervised, Silent,
       Generates, Between, Ended, Asleep, Cold, WarmingUp
<1> QED BY <1>3, <1>4, <1>5, <1>6, <1>7, <1>8

(* grpo_train and ppo_train validate, or do not, after training. *)
LEMMA PreparingValidation ==
  ASSUME Inv, phase = "trained", config.algo \in {"grpo", "ppo"},
         IF ~ValidationDue THEN phase' = "save" /\ UNCHANGED <<mem, gen>>
         ELSE IF gen.stale THEN BeginRefit("validate")
         ELSE WakeFor("validate", PolicyAside),
         UNCHANGED <<sched, data, model, report, rest>>
  PROVE  Inv'
<1>1. HasEngine BY DEF HasEngine, Generating
<1>2. CASE ~ValidationDue
  <2>1. phase' = "save" /\ UNCHANGED <<mem, gen>> BY <1>2
  <2> QED BY <1>1, <2>1, Skipping
<1>3. CASE ValidationDue /\ gen.stale
  <2>1. BeginRefit("validate") BY <1>3
  <2>2. mem.policy.params = "gpu" \/ Cold
    BY <1>1, <1>3 DEF Inv, Placed, EnginePlaces
  <2>3. OwnScales => gen.cache = model.version BY DEF Inv, EngineInv, ScalesFresh
  <2> QED BY <1>1, <2>1, <2>2, <2>3, Refitting
<1>4. CASE ValidationDue /\ ~gen.stale
  <2>1. WakeFor("validate", PolicyAside) BY <1>4
  <2>2. mem.policy \in Model BY Typed
  <2>3. PolicyAside \in Model /\ (config.colocated => Away(PolicyAside))
    BY <2>2, Moved DEF PolicyAside
  <2> QED BY <1>1, <1>4, <2>1, <2>3, Waking
<1> QED BY <1>2, <1>3, <1>4

-----------------------------------------------------------------------------
(* grpo_train                                                              *)

LEMMA GRPOInv == ASSUME Inv, GRPONext PROVE Inv'
<1> USE DEF Inv, EngineInv
<1>1. CASE GRPOStart
  <2>1. /\ phase = "start" /\ config.algo = "grpo" /\ HasEngine
        /\ UNCHANGED <<sched, data, model, report, rest>>
    BY <1>1 DEF GRPOStart, Now, GRPOLoop, HasEngine, Generating
  <2>2. CASE ValAtStart /\ sched.step = 0
    <3>1. BeginRefit("first_validation") BY <1>1, <2>2 DEF GRPOStart
    <3>2. mem.policy.params = "gpu"
      BY <2>1 DEF Placed, EnginePlaces, OnGPU
    <3>3. OwnScales => model.version = 0 BY <2>1, <2>2 DEF ScalesFresh
    <3> QED BY <2>1, <2>2, <3>1, <3>2, <3>3, Refitting
  <2>3. CASE ~(ValAtStart /\ sched.step = 0)
    <3>1. phase' = "loop" /\ UNCHANGED <<mem, gen>> BY <1>1, <2>3 DEF GRPOStart
    <3> QED BY <2>1, <3>1, Skipping
  <2> QED BY <2>2, <2>3
<1>2. CASE GRPOFirstValidation
  <2>1. Validated /\ UNCHANGED <<report, restarts>>
    BY <1>2 DEF GRPOFirstValidation, Validated, Now, GRPOLoop, HasEngine, Generating, rest
  <2> QED BY <2>1, Validating
<1>3. CASE GRPONextEpoch \/ GRPONextBatch \/ GRPOEndEpoch \/ GRPOAdvance
  <2>1. config.algo = "grpo" /\ mem' = mem
    BY <1>3 DEF GRPONextEpoch, GRPONextBatch, GRPOEndEpoch, GRPOAdvance, NextEpoch,
                NextBatch, EndEpoch, Advance, Now, GRPOLoop
  <2> QED BY <1>3, <2>1, Scheduling
       DEF GRPONextEpoch, GRPONextBatch, GRPOEndEpoch, GRPOAdvance
<1>4. CASE GRPOPrepareRollout
  <2>1. /\ phase = "prepare" /\ config.algo = "grpo" /\ HasEngine
        /\ UNCHANGED <<sched, data, model, report, rest>>
    BY <1>4 DEF GRPOPrepareRollout, Now, GRPOLoop, HasEngine, Generating
  <2>2. mem.policy \in Model BY Typed
  <2>3. CASE ~gen.stale
    <3>1. WakeFor("rollout", PolicyAside) BY <1>4, <2>3 DEF GRPOPrepareRollout
    <3>2. PolicyAside \in Model /\ (config.colocated => Away(PolicyAside))
      BY <2>2, Moved DEF PolicyAside
    <3> HIDE DEF Inv, EngineInv
    <3> QED BY <2>1, <2>3, <3>1, <3>2, Waking
  <2>4. CASE gen.stale /\ ~(config.kv /\ gen.cache = None)
    <3>1. BeginRefit("rollout") BY <1>4, <2>4 DEF GRPOPrepareRollout
    <3>2. mem.policy.params = "gpu"
      BY <2>1, <2>4 DEF Placed, GRPOPlaces, Between
    <3>3. OwnScales => gen.cache = model.version
      BY <2>1, <2>4 DEF ScalesFresh, OwnScales
    <3> QED BY <2>1, <3>1, <3>2, <3>3, Refitting
  <2>5. CASE gen.stale /\ config.kv /\ gen.cache = None
    <3>1. /\ phase' = "calibrate" /\ gen' = gen
          /\ mem' = [mem EXCEPT !.policy = PreparedForInference(@)]
          /\ UNCHANGED <<config, sched, data, model, report, ckpt, restarts>>
      BY <1>4, <2>1, <2>5 DEF GRPOPrepareRollout, rest
    <3>2. /\ mem' \in [policy : Model, other : Model, ipc : BOOLEAN]
          /\ mem'.policy.params = "gpu" /\ mem'.other = mem.other /\ mem'.ipc = mem.ipc
      BY <3>1, Moved, Typed
    <3>3. ScheduleInv'
      <4>1. Waits BY <2>1, <3>1, Typed DEF Waits, Drawn
      <4> QED BY <4>1, WaitKeeps
    <3>4. EngineFields' BY <3>1, <3>2 DEF EngineFields
    <3>5. Whereabouts' BY <2>1, <3>1 DEF Whereabouts, HasEngine, InPass
    <3>6. EngineFresh' BY <2>1, <3>1 DEF EngineFresh, HasEngine, Generates
    <3>7. ScalesFresh'
      BY <2>1, <2>5, <3>1 DEF ScalesFresh, OwnScales, FirstScales, Trained, Counted, InPass, Toward
    <3>8. Placed'
      BY <2>1, <3>1, <3>2 DEF Placed, EnginePlaces, GRPOPlaces, PPOPlaces,
           DistillationPlaces, XTokenPlaces, SupervisedPlaces, Supervised, Silent,
           Generates, Between, Ended, Asleep
    <3> QED BY <3>1, <3>3, <3>4, <3>5, <3>6, <3>7, <3>8
  <2> QED BY <2>3, <2>4, <2>5
<1>5. CASE GRPOCalibrate
  <2>1. /\ phase = "calibrate" /\ phase' = "refit" /\ config.algo = "grpo" /\ HasEngine
        /\ UNCHANGED <<config, sched, data, model, report, ckpt, restarts>>
        /\ mem' = [mem EXCEPT !.policy =
                     IF config.colocated THEN OffloadedBeforeRefit(mem.policy) ELSE mem.policy]
        /\ gen' = [gen EXCEPT !.cache = model.version, !.goal = "rollout",
                     !.awake = Awake({"weights"})]
    BY <1>5 DEF GRPOCalibrate, Now, GRPOLoop, HasEngine, Generating, rest
  <2>2. /\ mem' \in [policy : Model, other : Model, ipc : BOOLEAN]
        /\ mem'.policy.params = mem.policy.params
        /\ config.colocated => mem'.policy.optim = "cpu"
        /\ mem'.other = mem.other /\ mem'.ipc = mem.ipc
    BY <2>1, Moved, Typed
  <2>3. mem.policy.params = "gpu" BY <2>1 DEF Placed, EnginePlaces
  <2>4. /\ gen'.cache = model.version /\ gen'.goal = "rollout"
        /\ gen' = [gen EXCEPT !.awake = Awake({"weights"}), !.goal = "rollout",
                     !.cache = gen'.cache]
    BY <2>1, Typed
  <2>5. Silent /\ ~InPass /\ ("rollout" = "validate") = Trained
    BY <2>1 DEF Silent, Generates, Ended, InPass, Trained, Toward
  <2>6. RefitBegins("rollout")
    <3> HIDE DEF Inv, EngineInv
    <3> QED BY <2>1, <2>2, <2>3, <2>4, <2>5 DEF RefitBegins, Goals
  <2>7. EngineInv' /\ Placed' BY <2>6, RefitInPlace
  <2>8. ScheduleInv'
    <3>1. Waits BY <2>1, <2>4, Typed DEF Waits, Drawn, Toward
    <3> QED BY <3>1, WaitKeeps
  <2> QED BY <2>1, <2>7, <2>8
<1>6. CASE GRPORollout
  <2>1. /\ phase = "rollout" /\ phase' = "filter" /\ config.algo = "grpo" /\ HasEngine
        /\ UNCHANGED <<config, sched, model, mem, report, ckpt, restarts>>
        /\ data' = [data EXCEPT !.rolled = @ \cup {gen.loaded}]
        /\ gen' = [gen EXCEPT !.awake = Asleep]
    BY <1>6 DEF GRPORollout, RolledOut, Now, GRPOLoop, HasEngine, Generating, rest
  <2>2. /\ gen'.awake = Asleep /\ gen'.goal = gen.goal /\ gen'.stale = gen.stale
        /\ gen'.loaded = gen.loaded /\ gen'.scales = gen.scales /\ gen'.cache = gen.cache
        /\ gen' \in [awake : SUBSET Parts, loaded : Int, scales : Int, cache : Int,
                     stale : BOOLEAN, goal : Goals]
        /\ data'.pass = data.pass
    <3>1. Asleep \in SUBSET Parts BY DEF Asleep
    <3> QED BY <2>1, <3>1, Typed
  <2>3. ~gen.stale /\ gen.loaded = model.version BY <2>1 DEF EngineFresh, Generates
  <2>4. ScheduleInv' BY <2>1, <2>3, RollKeeps DEF Drawn
  <2>5. EngineFields' BY <2>1, <2>2 DEF EngineFields
  <2>6. Whereabouts' BY <2>1, <2>2 DEF Whereabouts, HasEngine, InPass
  <2>7. EngineFresh' BY <2>1, <2>2, <2>3 DEF EngineFresh, HasEngine, Generates
  <2>8. ScalesFresh'
    BY <2>1, <2>2 DEF ScalesFresh, OwnScales, FirstScales, Trained, Counted, InPass, Toward
  <2>9. Placed'
    BY <2>1, <2>2 DEF Placed, EnginePlaces, GRPOPlaces, PPOPlaces,
         DistillationPlaces, XTokenPlaces, SupervisedPlaces, Supervised, Silent,
         Generates, Between, Ended, Asleep
  <2> QED BY <2>1, <2>4, <2>5, <2>6, <2>7, <2>8, <2>9
<1>7. CASE GRPOFilter
  <2>1. /\ phase = "filter" /\ config.algo = "grpo" /\ HasEngine
        /\ UNCHANGED <<config, sched, model, gen, report, ckpt, restarts>>
        /\ DynamicSampling
    BY <1>7 DEF GRPOFilter, Now, GRPOLoop, HasEngine, Generating, rest
  <2>2. PICK complete \in BOOLEAN, kept \in {data.batch, data.batch \ {Newest}} :
          /\ ~config.dynamic => complete
          /\ complete => kept = data.batch
          /\ data' = [data EXCEPT !.batch = kept]
          /\ \/ /\ complete
                /\ phase' = IF config.skipLP THEN "logprobs_skipped" ELSE "logprobs"
                /\ mem' = IF config.skipLP THEN mem
                          ELSE [mem EXCEPT !.policy = PreparedForInference(@)]
             \/ /\ ~complete
                /\ phase' = IF data.numGen <= MaxGenBatches THEN "batch"
                            ELSE "failed"
                /\ UNCHANGED mem
    BY <2>1 DEF DynamicSampling, Newest
  <2>3. /\ phase' \in {"logprobs_skipped", "logprobs", "batch", "failed"}
        /\ phase' = "logprobs" => mem'.policy.params = "gpu"
        /\ mem' \in [policy : Model, other : Model, ipc : BOOLEAN]
        /\ mem'.other = mem.other /\ mem'.ipc = mem.ipc
        /\ data'.pass = data.pass
    BY <2>2, Moved, Typed
  <2>4. ~gen.stale BY <2>1 DEF EngineFresh
  <2>5. ScheduleInv'
    <3>1. CASE complete
      <4>1. data' = data BY <2>2, <3>1, Typed
      <4>2. Waits BY <2>1, <2>2, <3>1, <4>1, Typed DEF Waits, Drawn
      <4> QED BY <4>2, WaitKeeps
    <3>2. CASE ~complete
      <4>1. phase' \in {"batch", "failed"} /\ config.dynamic /\ kept \in SUBSET data.batch
        BY <2>2, <3>2
      <4> QED BY <2>1, <2>2, <4>1, KeepSomeKeeps DEF Drawn
    <3> QED BY <3>1, <3>2
  <2>6. EngineFields' BY <2>1, <2>3 DEF EngineFields
  <2>7. Whereabouts' BY <2>1, <2>3 DEF Whereabouts, HasEngine, InPass
  <2>8. EngineFresh' BY <2>1, <2>3, <2>4 DEF EngineFresh, HasEngine, Generates
  <2>9. ScalesFresh'
    BY <2>1, <2>3 DEF ScalesFresh, OwnScales, FirstScales, Trained, Counted, InPass, Toward
  <2>10. Placed'
    BY <2>1, <2>3, <2>4 DEF Placed, EnginePlaces, GRPOPlaces, PPOPlaces,
         DistillationPlaces, XTokenPlaces, SupervisedPlaces, Supervised, Silent,
         Generates, Between, Ended, Asleep
  <2> QED BY <2>1, <2>5, <2>6, <2>7, <2>8, <2>9, <2>10
<1>8. CASE GRPOPrepareTraining
  <2>1. /\ phase \in {"logprobs", "logprobs_skipped"} /\ phase' = "train"
        /\ config.algo = "grpo" /\ HasEngine
        /\ UNCHANGED <<config, sched, data, model, report, ckpt, restarts>>
        /\ mem' = [mem EXCEPT !.policy = PreparedForTraining(@)]
        /\ gen' = [gen EXCEPT !.stale = TRUE]
    BY <1>8 DEF GRPOPrepareTraining, Now, GRPOLoop, HasEngine, Generating, rest
  <2>2. /\ gen'.awake = gen.awake /\ gen'.goal = gen.goal /\ gen'.stale = TRUE
        /\ gen'.loaded = gen.loaded /\ gen'.scales = gen.scales /\ gen'.cache = gen.cache
        /\ gen' \in [awake : SUBSET Parts, loaded : Int, scales : Int, cache : Int,
                     stale : BOOLEAN, goal : Goals]
    BY <2>1, Typed
  <2>3. /\ OnGPU(mem'.policy) /\ mem'.other = mem.other /\ mem'.ipc = mem.ipc
        /\ mem' \in [policy : Model, other : Model, ipc : BOOLEAN]
    BY <2>1, Moved, Typed
  <2>4. data.pass = 0 BY <2>1 DEF Whereabouts
  <2>5. ScheduleInv'
    <3>1. Waits BY <2>1, <2>4, Typed DEF Waits, Drawn, InPass
    <3> QED BY <3>1, WaitKeeps
  <2>6. EngineFields' BY <2>1, <2>2, <2>3 DEF EngineFields
  <2>7. Whereabouts' BY <2>1, <2>2 DEF Whereabouts, HasEngine, InPass
  <2>8. EngineFresh' BY <2>1, <2>2 DEF EngineFresh, HasEngine, Generates
  <2>9. ScalesFresh'
    BY <2>1, <2>2, <2>4 DEF ScalesFresh, OwnScales, FirstScales, Trained, Counted, InPass, Toward
  <2>10. Placed'
    BY <2>1, <2>2, <2>3 DEF Placed, EnginePlaces, GRPOPlaces, PPOPlaces,
         DistillationPlaces, XTokenPlaces, SupervisedPlaces, Supervised, Silent,
         Generates, Between, Ended, Asleep, OnGPU
  <2> QED BY <2>1, <2>5, <2>6, <2>7, <2>8, <2>9, <2>10
<1>9. CASE GRPOTrain
  <2>1. /\ phase = "train" /\ phase' = IF config.kv THEN "recalibrate" ELSE "trained"
        /\ config.algo = "grpo" /\ HasEngine /\ model' = Updated
        /\ UNCHANGED <<config, sched, data, mem, gen, report, ckpt, restarts>>
    BY <1>9 DEF GRPOTrain, Now, GRPOLoop, HasEngine, Generating, rest
  <2>2. gen.stale /\ data.pass = 0 /\ ~WarmingUp
    BY <2>1, NoWarmUp DEF EngineFresh, Whereabouts
  <2>3. model'.version = model.version + 1 BY <2>1, Typed DEF Updated, Policy
  <2>4. ScheduleInv'
    <3>1. Passes BY <2>1, <2>2, Typed DEF Passes, Drawn, Trained, InPass
    <3> QED BY <3>1, PassKeeps
  <2>5. EngineFields' BY <2>1, <2>3, Typed DEF EngineFields
  <2>6. Whereabouts' BY <2>1, <2>2 DEF Whereabouts, HasEngine, InPass
  <2>7. EngineFresh' BY <2>1, <2>2 DEF EngineFresh, HasEngine, Generates
  <2>8. ScalesFresh'
    BY <2>1, <2>2 DEF ScalesFresh, OwnScales, FirstScales, Trained, Counted, InPass, Toward
  <2>9. Placed'
    BY <2>1 DEF Placed, EnginePlaces, GRPOPlaces, PPOPlaces,
         DistillationPlaces, XTokenPlaces, SupervisedPlaces, Supervised, Silent,
         Generates, Between, Ended, Asleep
  <2> QED BY <2>1, <2>4, <2>5, <2>6, <2>7, <2>8, <2>9
<1>10. CASE GRPORecalibrate
  <2>1. /\ phase = "recalibrate" /\ phase' = "trained" /\ config.algo = "grpo" /\ HasEngine
        /\ UNCHANGED <<config, sched, data, model, mem, report, ckpt, restarts>>
        /\ gen' = [gen EXCEPT !.cache = model.version, !.stale = TRUE]
    BY <1>10 DEF GRPORecalibrate, Now, GRPOLoop, HasEngine, Generating, rest
  <2> QED BY <2>1, Recalibrating
<1>11. CASE GRPOPrepareValidation
  <2>1. /\ phase = "trained" /\ config.algo = "grpo" /\ HasEngine
        /\ UNCHANGED <<sched, data, model, report, rest>>
        /\ IF ~ValidationDue THEN phase' = "save" /\ UNCHANGED <<mem, gen>>
           ELSE IF gen.stale THEN BeginRefit("validate")
           ELSE WakeFor("validate", PolicyAside)
    BY <1>11 DEF GRPOPrepareValidation, Now, GRPOLoop, HasEngine, Generating
  <2> QED BY <2>1, PreparingValidation
<1>12. CASE GRPOValidate
  <2>1. Validated /\ restarts' = restarts /\ report' = [report EXCEPT !.measured = TRUE]
    BY <1>12 DEF GRPOValidate, Validated, Now, GRPOLoop, HasEngine, Generating, rest
  <2> QED BY <2>1, Validating
<1>13. CASE GRPOSave
  <2>1. config.algo = "grpo" BY <1>13 DEF GRPOSave, Save, Now, GRPOLoop
  <2>2. TRUE = ~WarmingUp BY <2>1, NoWarmUp
  <2> QED BY <1>13, <2>2, Saving DEF GRPOSave
<1> QED BY <1>1, <1>2, <1>3, <1>4, <1>5, <1>6, <1>7, <1>8, <1>9, <1>10, <1>11,
           <1>12, <1>13 DEF GRPONext

-----------------------------------------------------------------------------
(* ppo_train: engine and policy share the GPUs, the scales go unused.      *)

LEMMA PPOFacts ==
  ASSUME Inv, config.algo = "ppo"
  PROVE  HasEngine /\ config.colocated /\ ~OwnScales
<1>1. config.colocated BY Typed, ConfigFacts
<1> QED BY <1>1 DEF HasEngine, Generating, OwnScales

(* What is left of Placed for PPO *)
LEMMA PPOPlacedNext ==
  ASSUME config'.algo = "ppo", EnginePlaces' /\ PPOPlaces'
  PROVE  Placed'
BY DEF Placed, GRPOPlaces, DistillationPlaces, XTokenPlaces, SupervisedPlaces, Supervised

(* A pass ends, with the critic put away and the policy where m has it. *)
LEMMA PassEndsInPlace ==
  ASSUME Inv, config.algo = "ppo", InPass, NEW m, PassEnds(m),
         m \in [policy : Model, other : Model, ipc : BOOLEAN],
         m.ipc = mem.ipc,
         UNCHANGED <<config, sched, gen, report, ckpt, restarts>>,
         \/ phase = "critic" /\ WarmingUp /\ model' = model
         \/ phase = "train" /\ ~WarmingUp /\ model' = Updated,
         Away(m.other),
         phase = "critic" \/ ~LastPass => Away(m.policy),
         phase = "train" /\ LastPass => OnGPU(m.policy)
  PROVE  Inv'
<1> USE DEF Inv, EngineInv
<1>1. HasEngine /\ config.colocated /\ ~OwnScales BY PPOFacts
<1>2. /\ data.pass \in Nat /\ data.pass < PPOEpochs /\ PPOEpochs \in Nat \ {0}
      /\ data \in [batch : SUBSET Pairs, rolled : SUBSET Int, numGen : Nat, pass : Nat]
  BY Typed, JobConstants DEF Whereabouts
<1>3. /\ data' \in [batch : SUBSET Pairs, rolled : SUBSET Int, numGen : Nat, pass : Nat]
      /\ data'.batch = data.batch /\ data'.rolled = data.rolled
      /\ data'.pass < PPOEpochs
      /\ \/ LastPass /\ data'.pass = 0 /\ mem' = m
            /\ phase' = IF config.kv THEN "recalibrate" ELSE "trained"
         \/ ~LastPass /\ data'.pass > 0 /\ phase' = "critic"
            /\ mem' = [m EXCEPT !.other = PreparedForTraining(m.other)]
  <2>1. CASE LastPass BY <1>2, <2>1 DEF PassEnds
  <2>2. CASE ~LastPass
    <3>1. data.pass + 1 \in Nat /\ data.pass + 1 > 0 /\ data.pass + 1 < PPOEpochs
      BY <1>2, <2>2 DEF LastPass
    <3>2. data' = [data EXCEPT !.pass = data.pass + 1] BY <2>2 DEF PassEnds
    <3> HIDE DEF Inv, EngineInv
    <3> QED BY <1>2, <2>2, <3>1, <3>2 DEF PassEnds
  <2> QED BY <2>1, <2>2
<1>4. phase' \in {"critic", "trained", "recalibrate"} BY <1>3
<1>5. model'.version \in {model.version, model.version + 1} /\ model.version \in Nat
  BY Typed DEF Updated, Policy
<1>6. ScheduleInv'
  <2>1. Drawn \/ Trained
    <3>1. data.pass = 0 \/ data.pass > 0 BY <1>2
    <3> QED BY <3>1 DEF Drawn, Trained
  <2>2. Trained' BY <1>3 DEF Trained, InPass
  <2>3. Passes BY <1>3, <2>1, <2>2 DEF Passes
  <2> QED BY <2>3, PassKeeps
<1>7. EngineFields'
  <2>1. mem' \in [policy : Model, other : Model, ipc : BOOLEAN]
    <3>1. PreparedForTraining(m.other) \in Model BY Moved
    <3> QED BY <1>3, <3>1
  <2> QED BY <1>5, <2>1, Typed DEF EngineFields
<1>8. Whereabouts' BY <1>1, <1>3, <1>4 DEF Whereabouts, HasEngine, InPass
<1>9. EngineFresh'
  <2>1. WarmingUp' = WarmingUp BY DEF WarmingUp
  <2>2. phase = "train" => gen.stale BY DEF EngineFresh
  <2> QED BY <1>1, <1>4, <2>1, <2>2 DEF EngineFresh, HasEngine, Generates
<1>10. ScalesFresh' BY <1>1 DEF ScalesFresh, OwnScales
<1>11. Placed'
  <2> SUFFICES EnginePlaces' /\ PPOPlaces' BY PPOPlacedNext
  <2>1. mem.ipc = FALSE /\ gen.awake = Asleep
    BY <1>1 DEF Placed, EnginePlaces, Silent, InPass, Generates, Ended
  <2>2. config.kv /\ WarmingUp => Cold'
    BY PPOFacts DEF Cold, WarmingUp
  <2>3. phase = "critic" => ~gen.stale BY DEF EngineFresh
  <2>4. /\ mem'.policy = m.policy /\ mem'.ipc = mem.ipc
        /\ phase' = "critic" => OnGPU(mem'.other)
        /\ phase' # "critic" => Away(mem'.other)
    BY <1>3, Moved
  <2>5. /\ phase' = "critic" => Away(mem'.policy)
        /\ phase' = "recalibrate" => OnGPU(mem'.policy) \/ Cold'
        /\ phase' = "trained" => ~gen.stale \/ OnGPU(mem'.policy)
    BY <1>3, <2>2, <2>3, <2>4
  <2>6. EnginePlaces'
    BY <1>1, <1>4, <2>1, <2>4, <2>5 DEF EnginePlaces, HasEngine, Silent, Generates, Ended, Asleep, OnGPU
  <2>7. PPOPlaces' BY <1>4, <2>4, <2>5 DEF PPOPlaces, Generates
  <2> QED BY <2>6, <2>7
<1> QED BY <1>6, <1>7, <1>8, <1>9, <1>10, <1>11

LEMMA PPOInv == ASSUME Inv, PPONext PROVE Inv'
<1> USE DEF Inv, EngineInv
<1>1. CASE PPOStart
  <2>1. /\ phase = "start" /\ config.algo = "ppo" /\ HasEngine
        /\ UNCHANGED <<sched, data, model, report, rest>>
    BY <1>1 DEF PPOStart, Now, PPOLoop, HasEngine, Generating
  <2>2. CASE ValAtStart /\ sched.step = 0
    <3>1. BeginRefit("first_validation") BY <1>1, <2>2 DEF PPOStart
    <3>2. mem.policy.params = "gpu"
      BY <2>1 DEF Placed, EnginePlaces, OnGPU
    <3>3. ~OwnScales BY <2>1, PPOFacts
    <3> QED BY <2>1, <3>1, <3>2, <3>3, Refitting
  <2>3. CASE ~(ValAtStart /\ sched.step = 0)
    <3>1. phase' = "loop" /\ UNCHANGED <<mem, gen>> BY <1>1, <2>3 DEF PPOStart
    <3> QED BY <2>1, <3>1, Skipping
  <2> QED BY <2>2, <2>3
<1>2. CASE PPOFirstValidation
  <2>1. Validated /\ UNCHANGED <<report, restarts>>
    BY <1>2 DEF PPOFirstValidation, Validated, Now, PPOLoop, HasEngine, Generating, rest
  <2> QED BY <2>1, Validating
<1>3. CASE PPONextEpoch \/ PPONextBatch \/ PPOEndEpoch \/ PPOAdvance
  <2>1. config.algo = "ppo" /\ mem' = mem
    BY <1>3 DEF PPONextEpoch, PPONextBatch, PPOEndEpoch, PPOAdvance, NextEpoch,
                NextBatch, EndEpoch, Advance, Now, PPOLoop
  <2> QED BY <1>3, <2>1, Scheduling
       DEF PPONextEpoch, PPONextBatch, PPOEndEpoch, PPOAdvance
<1>4. CASE PPOPrepareRollout
  <2>1. /\ phase = "prepare" /\ config.algo = "ppo" /\ HasEngine
        /\ UNCHANGED <<sched, data, model, report, rest>>
        /\ UNCHANGED <<config, sched, data, model, report, ckpt, restarts>>
    BY <1>4 DEF PPOPrepareRollout, Now, PPOLoop, HasEngine, Generating, rest
  <2>2. mem.policy \in Model /\ mem.other \in Model BY Typed
  <2>3. config.colocated /\ ~OwnScales BY <2>1, PPOFacts
  <2> DEFINE loaded == PreparedForInference(mem.policy)
  <2>4. loaded \in Model /\ loaded.params = "gpu" BY <2>2, Moved
  <2>5. \/ ~gen.stale /\ WakeFor("rollout", PolicyAside)
        \/ /\ phase' = "calibrate" /\ gen' = gen
           /\ mem' = [mem EXCEPT !.policy = loaded, !.other = ValueFinished(@)]
        \/ /\ phase' = "refit"
           /\ mem' = [mem EXCEPT !.policy = OffloadedBeforeRefit(loaded),
                                 !.other = ValueFinished(@)]
           /\ gen' = [gen EXCEPT !.awake = Awake({"weights"}), !.goal = "rollout"]
    BY <1>4 DEF PPOPrepareRollout
  <2> HIDE DEF loaded
  <2>6. CASE ~gen.stale /\ WakeFor("rollout", PolicyAside)
    <3>1. PolicyAside \in Model /\ (config.colocated => Away(PolicyAside))
      BY <2>2, Moved DEF PolicyAside
    <3> HIDE DEF Inv, EngineInv
    <3> QED BY <2>1, <2>6, <3>1, Waking
  <2>7. CASE /\ phase' = "calibrate" /\ gen' = gen
             /\ mem' = [mem EXCEPT !.policy = loaded, !.other = ValueFinished(@)]
    <3>1. /\ mem' \in [policy : Model, other : Model, ipc : BOOLEAN]
          /\ mem'.policy.params = "gpu" /\ Away(mem'.other) /\ mem'.ipc = mem.ipc
      BY <2>2, <2>4, <2>7, Moved, Typed
    <3>2. ScheduleInv'
      <4>1. Waits BY <2>1, <2>7, Typed DEF Waits, Drawn
      <4> QED BY <4>1, WaitKeeps
    <3>3. EngineFields' BY <2>1, <2>7, <3>1 DEF EngineFields
    <3>4. Whereabouts' BY <2>1, <2>7 DEF Whereabouts, HasEngine, InPass
    <3>5. EngineFresh' BY <2>1, <2>7 DEF EngineFresh, HasEngine, Generates
    <3>6. ScalesFresh' BY <2>1, <2>3 DEF ScalesFresh, OwnScales
    <3>7. EnginePlaces' /\ PPOPlaces'
      BY <2>1, <2>7, <3>1 DEF Placed, EnginePlaces, PPOPlaces, Silent,
           Generates, Ended, Asleep
    <3>8. Placed' BY <2>1, <3>7, PPOPlacedNext
    <3> QED BY <2>1, <3>2, <3>3, <3>4, <3>5, <3>6, <3>8
  <2>8. CASE /\ phase' = "refit"
             /\ mem' = [mem EXCEPT !.policy = OffloadedBeforeRefit(loaded),
                                   !.other = ValueFinished(@)]
             /\ gen' = [gen EXCEPT !.awake = Awake({"weights"}), !.goal = "rollout"]
    <3>1. /\ mem' \in [policy : Model, other : Model, ipc : BOOLEAN]
          /\ mem'.policy.params = "gpu" /\ mem'.policy.optim = "cpu"
          /\ Away(mem'.other) /\ mem'.ipc = mem.ipc
      BY <2>2, <2>4, <2>8, Moved, Typed
    <3>2. /\ gen'.cache = gen.cache /\ gen'.goal = "rollout"
          /\ gen' = [gen EXCEPT !.awake = Awake({"weights"}), !.goal = "rollout",
                       !.cache = gen'.cache]
      BY <2>8, Typed
    <3>3. Silent /\ ~InPass /\ ("rollout" = "validate") = Trained
      BY <2>1 DEF Silent, Generates, Ended, InPass, Trained, Toward
    <3>4. RefitBegins("rollout")
      <4> HIDE DEF Inv, EngineInv
      <4> QED BY <2>1, <2>3, <2>8, <3>1, <3>2, <3>3 DEF RefitBegins, Goals
    <3>5. EngineInv' /\ Placed' BY <3>4, RefitInPlace
    <3>6. ScheduleInv'
      <4>1. Waits BY <2>1, <2>8, <3>2, Typed DEF Waits, Drawn, Toward
      <4> QED BY <4>1, WaitKeeps
    <3> QED BY <2>1, <3>5, <3>6
  <2> QED BY <2>5, <2>6, <2>7, <2>8
<1>5. CASE PPOCalibrate
  <2>1. /\ phase = "calibrate" /\ phase' = "refit" /\ config.algo = "ppo" /\ HasEngine
        /\ UNCHANGED <<config, sched, data, model, report, ckpt, restarts>>
        /\ mem' = [mem EXCEPT !.policy = OffloadedBeforeRefit(@)]
        /\ gen' = [gen EXCEPT !.cache = model.version, !.goal = "rollout",
                     !.awake = Awake({"weights"})]
    BY <1>5 DEF PPOCalibrate, Now, PPOLoop, HasEngine, Generating, rest
  <2>2. /\ mem' \in [policy : Model, other : Model, ipc : BOOLEAN]
        /\ mem'.policy.params = mem.policy.params /\ mem'.policy.optim = "cpu"
        /\ mem'.other = mem.other /\ mem'.ipc = mem.ipc
    BY <2>1, Moved, Typed
  <2>3. mem.policy.params = "gpu" BY <2>1 DEF Placed, EnginePlaces
  <2>4. /\ gen'.cache = model.version /\ gen'.goal = "rollout"
        /\ gen' = [gen EXCEPT !.awake = Awake({"weights"}), !.goal = "rollout",
                     !.cache = gen'.cache]
    BY <2>1, Typed
  <2>5. Silent /\ ~InPass /\ ("rollout" = "validate") = Trained
    BY <2>1 DEF Silent, Generates, Ended, InPass, Trained, Toward
  <2>6. RefitBegins("rollout")
    <3> HIDE DEF Inv, EngineInv
    <3> QED BY <2>1, <2>2, <2>3, <2>4, <2>5 DEF RefitBegins, Goals
  <2>7. EngineInv' /\ Placed' BY <2>6, RefitInPlace
  <2>8. ScheduleInv'
    <3>1. Waits BY <2>1, <2>4, Typed DEF Waits, Drawn, Toward
    <3> QED BY <3>1, WaitKeeps
  <2> QED BY <2>1, <2>7, <2>8
<1>6. CASE PPORollout
  <2>1. /\ phase = "rollout" /\ phase' = "values" /\ config.algo = "ppo" /\ HasEngine
        /\ UNCHANGED <<config, sched, model, report, ckpt, restarts>>
        /\ data' = [data EXCEPT !.rolled = @ \cup {gen.loaded}]
        /\ gen' = [gen EXCEPT !.awake = Asleep]
        /\ mem' = [mem EXCEPT !.other = ValueForInference(@)]
    BY <1>6 DEF PPORollout, RolledOut, Now, PPOLoop, HasEngine, Generating, rest
  <2>2. /\ gen'.awake = Asleep /\ gen'.goal = gen.goal /\ gen'.stale = gen.stale
        /\ gen'.loaded = gen.loaded /\ gen'.scales = gen.scales /\ gen'.cache = gen.cache
        /\ gen' \in [awake : SUBSET Parts, loaded : Int, scales : Int, cache : Int,
                     stale : BOOLEAN, goal : Goals]
        /\ data'.pass = data.pass
    <3>1. Asleep \in SUBSET Parts BY DEF Asleep
    <3> QED BY <2>1, <3>1, Typed
  <2>3. ~gen.stale /\ gen.loaded = model.version BY <2>1 DEF EngineFresh, Generates
  <2>4. /\ mem'.policy = mem.policy /\ mem'.ipc = mem.ipc
        /\ mem'.other.params = "gpu" /\ mem'.other.optim = mem.other.optim
        /\ mem' \in [policy : Model, other : Model, ipc : BOOLEAN]
    BY <2>1, Moved, Typed
  <2>5. ScheduleInv' BY <2>1, <2>3, RollKeeps DEF Drawn
  <2>6. EngineFields' BY <2>1, <2>2, <2>4 DEF EngineFields
  <2>7. Whereabouts' BY <2>1, <2>2 DEF Whereabouts, HasEngine, InPass
  <2>8. EngineFresh' BY <2>1, <2>2, <2>3 DEF EngineFresh, HasEngine, Generates
  <2>9. ScalesFresh' BY <2>1, PPOFacts DEF ScalesFresh, OwnScales
  <2>10. EnginePlaces' /\ PPOPlaces'
    BY <2>1, <2>2, <2>4 DEF Placed, EnginePlaces, PPOPlaces, Silent,
         Generates, Ended, Asleep, Away
  <2>11. Placed' BY <2>1, <2>10, PPOPlacedNext
  <2> QED BY <2>1, <2>5, <2>6, <2>7, <2>8, <2>9, <2>11
<1>7. CASE PPOValues
  <2>1. /\ phase = "values" /\ phase' = "logprobs" /\ config.algo = "ppo" /\ HasEngine
        /\ UNCHANGED <<config, sched, data, model, gen, report, ckpt, restarts>>
        /\ mem' = [mem EXCEPT !.other = InferenceFinished(@),
                              !.policy = PreparedForInference(@)]
    BY <1>7 DEF PPOValues, Now, PPOLoop, HasEngine, Generating, rest
  <2>2. /\ mem'.policy.params = "gpu" /\ (Away(mem.policy) => mem'.policy.optim = "cpu")
        /\ mem'.other.params = "cpu" /\ mem'.other.optim = mem.other.optim
        /\ mem'.ipc = mem.ipc
        /\ mem' \in [policy : Model, other : Model, ipc : BOOLEAN]
    BY <2>1, Moved, Typed DEF Away
  <2>3. ScheduleInv'
    <3>1. Waits BY <2>1, Typed DEF Waits, Drawn
    <3> QED BY <3>1, WaitKeeps
  <2>4. EngineFields' BY <2>1, <2>2 DEF EngineFields
  <2>5. Whereabouts' BY <2>1 DEF Whereabouts, HasEngine, InPass
  <2>6. EngineFresh' BY <2>1 DEF EngineFresh, HasEngine, Generates
  <2>7. ScalesFresh' BY <2>1, PPOFacts DEF ScalesFresh, OwnScales
  <2>8. EnginePlaces' /\ PPOPlaces'
    BY <2>1, <2>2 DEF Placed, EnginePlaces, PPOPlaces, Silent,
         Generates, Ended, Asleep, Away
  <2>9. Placed' BY <2>1, <2>8, PPOPlacedNext
  <2> QED BY <2>1, <2>3, <2>4, <2>5, <2>6, <2>7, <2>9
<1>8. CASE PPOLogprobs
  <2>1. /\ phase = "logprobs" /\ phase' = "critic" /\ config.algo = "ppo" /\ HasEngine
        /\ UNCHANGED <<config, sched, data, model, gen, report, ckpt, restarts>>
        /\ mem' = [mem EXCEPT !.policy = InferenceFinished(@),
                              !.other = PreparedForTraining(@)]
    BY <1>8 DEF PPOLogprobs, Now, PPOLoop, HasEngine, Generating, rest
  <2>2. /\ mem'.policy.params = "cpu" /\ mem'.policy.optim = mem.policy.optim
        /\ OnGPU(mem'.other) /\ mem'.ipc = mem.ipc
        /\ mem' \in [policy : Model, other : Model, ipc : BOOLEAN]
    BY <2>1, Moved, Typed
  <2>3. data.pass = 0 /\ ~gen.stale BY <2>1 DEF Whereabouts, InPass, EngineFresh
  <2>4. ScheduleInv'
    <3>1. Waits BY <2>1, <2>3, Typed DEF Waits, Drawn, InPass
    <3> QED BY <3>1, WaitKeeps
  <2>5. EngineFields' BY <2>1, <2>2 DEF EngineFields
  <2>6. Whereabouts' BY <2>1, <2>3 DEF Whereabouts, HasEngine, InPass
  <2>7. EngineFresh' BY <2>1, <2>3 DEF EngineFresh, HasEngine, Generates
  <2>8. ScalesFresh' BY <2>1, PPOFacts DEF ScalesFresh, OwnScales
  <2>9. EnginePlaces' /\ PPOPlaces'
    BY <2>1, <2>2 DEF Placed, EnginePlaces, PPOPlaces, Silent,
         Generates, Ended, Asleep, Away
  <2>10. Placed' BY <2>1, <2>9, PPOPlacedNext
  <2> QED BY <2>1, <2>4, <2>5, <2>6, <2>7, <2>8, <2>10
<1>9. CASE PPOTrainValue
  <2> DEFINE finished == [mem EXCEPT !.other = ValueFinished(@)]
  <2>1. /\ phase = "critic" /\ config.algo = "ppo" /\ HasEngine /\ InPass
        /\ UNCHANGED <<config, sched, model, report, ckpt, restarts>>
        /\ IF WarmingUp
             THEN PassEnds(finished) /\ UNCHANGED gen
             ELSE /\ phase' = "train"
                  /\ mem' = [finished EXCEPT !.policy = PreparedForTraining(@)]
                  /\ gen' = [gen EXCEPT !.stale = TRUE]
                  /\ UNCHANGED data
    BY <1>9 DEF PPOTrainValue, Now, PPOLoop, HasEngine, Generating, InPass, rest
  <2>2. /\ finished \in [policy : Model, other : Model, ipc : BOOLEAN]
        /\ finished.policy = mem.policy /\ Away(finished.other) /\ finished.ipc = mem.ipc
    BY Moved, Typed
  <2> HIDE DEF finished
  <2>3. Away(mem.policy) BY <2>1 DEF Placed, PPOPlaces
  <2>4. CASE WarmingUp
    <3>1. PassEnds(finished) /\ gen' = gen BY <2>1, <2>4
    <3> HIDE DEF Inv, EngineInv
    <3> QED BY <2>1, <2>2, <2>3, <2>4, <3>1, PassEndsInPlace
  <2>5. CASE ~WarmingUp
    <3>1. /\ phase' = "train" /\ UNCHANGED data
          /\ mem' = [finished EXCEPT !.policy = PreparedForTraining(@)]
          /\ gen' = [gen EXCEPT !.stale = TRUE]
      BY <2>1, <2>5
    <3>2. /\ OnGPU(mem'.policy) /\ Away(mem'.other) /\ mem'.ipc = mem.ipc
          /\ mem' \in [policy : Model, other : Model, ipc : BOOLEAN]
      BY <2>2, <3>1, Moved
    <3>3. /\ gen'.awake = gen.awake /\ gen'.goal = gen.goal /\ gen'.stale = TRUE
          /\ gen'.loaded = gen.loaded /\ gen'.scales = gen.scales /\ gen'.cache = gen.cache
          /\ gen' \in [awake : SUBSET Parts, loaded : Int, scales : Int, cache : Int,
                       stale : BOOLEAN, goal : Goals]
      BY <3>1, Typed
    <3>4. ScheduleInv'
      <4>1. data.pass = 0 \/ data.pass > 0 BY Typed
      <4>2. Waits BY <2>1, <3>1, <4>1, Typed DEF Waits, Drawn, Trained, InPass
      <4> QED BY <4>2, WaitKeeps
    <3>5. EngineFields' BY <2>1, <3>2, <3>3 DEF EngineFields
    <3>6. Whereabouts' BY <2>1, <2>5, <3>1 DEF Whereabouts, HasEngine, InPass, WarmingUp
    <3>7. EngineFresh' BY <2>1, <3>1, <3>3 DEF EngineFresh, HasEngine, Generates
    <3>8. ScalesFresh' BY <2>1, PPOFacts DEF ScalesFresh, OwnScales
    <3>9. EnginePlaces' /\ PPOPlaces'
      BY <2>1, <3>1, <3>2, <3>3 DEF Placed, EnginePlaces, PPOPlaces, Silent,
           Generates, Ended, Asleep, OnGPU
    <3>10. Placed' BY <2>1, <3>9, PPOPlacedNext
    <3> QED BY <2>1, <3>4, <3>5, <3>6, <3>7, <3>8, <3>10
  <2> QED BY <2>4, <2>5
<1>10. CASE PPOTrainPolicy
  <2> DEFINE left == IF LastPass THEN mem
                     ELSE [mem EXCEPT !.policy = OffloadedAfterRefit(@)]
  <2>1. /\ phase = "train" /\ config.algo = "ppo" /\ HasEngine /\ InPass
        /\ model' = Updated /\ PassEnds(left)
        /\ UNCHANGED <<config, sched, gen, report, ckpt, restarts>>
    BY <1>10 DEF PPOTrainPolicy, Now, PPOLoop, HasEngine, Generating, InPass, rest
  <2>2. ~WarmingUp BY <2>1 DEF Whereabouts
  <2>3. /\ left \in [policy : Model, other : Model, ipc : BOOLEAN]
        /\ left.other = mem.other /\ left.ipc = mem.ipc
        /\ IF LastPass THEN left.policy = mem.policy ELSE Away(left.policy)
    BY Moved, Typed
  <2> HIDE DEF left
  <2>4. OnGPU(mem.policy) /\ Away(mem.other)
    BY <2>1 DEF Placed, EnginePlaces, Ended, OnGPU
  <2> HIDE DEF Inv, EngineInv
  <2> QED BY <2>1, <2>2, <2>3, <2>4, PassEndsInPlace
<1>11. CASE PPORecalibrate
  <2>1. /\ phase = "recalibrate" /\ phase' = "trained" /\ config.algo = "ppo"
        /\ UNCHANGED <<config, sched, data, model, mem, report, ckpt, restarts>>
        /\ gen' = [gen EXCEPT !.cache = model.version, !.stale = TRUE]
    BY <1>11 DEF PPORecalibrate, Now, PPOLoop, rest
  <2> QED BY <2>1, Recalibrating
<1>12. CASE PPOPrepareValidation
  <2>1. /\ phase = "trained" /\ config.algo = "ppo"
        /\ UNCHANGED <<sched, data, model, report, rest>>
        /\ IF ~ValidationDue THEN phase' = "save" /\ UNCHANGED <<mem, gen>>
           ELSE IF gen.stale THEN BeginRefit("validate")
           ELSE WakeFor("validate", PolicyAside)
    BY <1>12 DEF PPOPrepareValidation, Now, PPOLoop
  <2> QED BY <2>1, PreparingValidation
<1>13. CASE PPOValidate
  <2>1. Validated /\ restarts' = restarts /\ report' = [report EXCEPT !.measured = TRUE]
    BY <1>13 DEF PPOValidate, Validated, Now, PPOLoop, HasEngine, Generating, rest
  <2> QED BY <2>1, Validating
<1>14. CASE PPOSave
  <2>1. config.algo = "ppo" BY <1>14 DEF PPOSave, Save, Now, PPOLoop
  <2> QED BY <1>14, <2>1, Saving DEF PPOSave
<1>15. CASE PPOPolicyMissing
  <2>1. /\ phase \in {"recalibrate", "refit"} /\ phase' = "raised" /\ config.algo = "ppo"
        /\ UNCHANGED <<config, sched, data, model, mem, gen, report, ckpt, restarts>>
    BY <1>15 DEF PPOPolicyMissing, rest
  <2>2. ~InPass /\ ~InPass' /\ ~Counted BY <2>1 DEF InPass, Counted
  <2>3. ScheduleInv'
    <3>1. Waits BY <2>1, <2>2, Typed DEF Waits
    <3> QED BY <3>1, WaitKeeps
  <2>4. EngineFields' BY <2>1 DEF EngineFields
  <2>5. Whereabouts' BY <2>1, <2>2 DEF Whereabouts, HasEngine
  <2>6. EngineFresh' BY <2>1 DEF EngineFresh, HasEngine, Generates
  <2>7. ScalesFresh' BY <2>1, PPOFacts DEF ScalesFresh, OwnScales
  <2>8. EnginePlaces' /\ PPOPlaces'
    BY <2>1, PPOFacts DEF Placed, EnginePlaces, PPOPlaces, Silent, Generates, Ended
  <2>9. Placed' BY <2>1, <2>8, PPOPlacedNext
  <2> QED BY <2>1, <2>3, <2>4, <2>5, <2>6, <2>7, <2>9
<1> QED BY <1>1, <1>2, <1>3, <1>4, <1>5, <1>6, <1>7, <1>8, <1>9, <1>10, <1>11,
           <1>12, <1>13, <1>14, <1>15 DEF PPONext

-----------------------------------------------------------------------------
(* distillation_train                                                      *)

LEMMA NoScales ==
  ASSUME Inv, config.algo \notin {"grpo", "ppo"}
  PROVE  ~OwnScales
BY Typed, ConfigFacts DEF OwnScales

LEMMA DistillationInv ==
  ASSUME Inv,
         \/ DistillationStart \/ DistillationFirstValidation
         \/ DistillationNextEpoch \/ DistillationNextBatch \/ DistillationEndEpoch
         \/ DistillationPrepareRollout \/ DistillationRollout \/ DistillationTeacher
         \/ DistillationTrain \/ DistillationPrepareValidation
         \/ DistillationValidate \/ DistillationSave \/ DistillationAdvance
  PROVE  Inv'
<1> USE DEF Inv, EngineInv
<1>1. CASE DistillationStart
  <2>1. /\ phase = "start" /\ config.algo = "distillation" /\ HasEngine
        /\ UNCHANGED <<sched, data, model, report, rest>>
    BY <1>1 DEF DistillationStart, Now, DistillationLoop, HasEngine, Generating
  <2>2. CASE ValAtStart /\ sched.total = 0
    <3>1. BeginRefit("first_validation") BY <1>1, <2>2 DEF DistillationStart
    <3>2. mem.policy.params = "gpu"
      BY <2>1 DEF Placed, EnginePlaces, OnGPU
    <3>3. ~OwnScales BY <2>1, NoScales
    <3> QED BY <2>1, <3>1, <3>2, <3>3, Refitting
  <2>3. CASE ~(ValAtStart /\ sched.total = 0)
    <3>1. phase' = "loop" /\ UNCHANGED <<mem, gen>> BY <1>1, <2>3 DEF DistillationStart
    <3> QED BY <2>1, <3>1, Skipping
  <2> QED BY <2>2, <2>3
<1>2. CASE DistillationFirstValidation
  <2>1. Validated /\ UNCHANGED <<report, restarts>>
    BY <1>2 DEF DistillationFirstValidation, Validated, Now, DistillationLoop,
                HasEngine, Generating, rest
  <2> QED BY <2>1, Validating
<1>3. CASE DistillationNextEpoch \/ DistillationNextBatch \/ DistillationEndEpoch
           \/ DistillationAdvance
  <2>1. config.algo = "distillation" /\ mem' = mem
    BY <1>3 DEF DistillationNextEpoch, DistillationNextBatch, DistillationEndEpoch,
                DistillationAdvance, NextEpoch, NextBatch, EndEpoch, Advance, Now,
                DistillationLoop
  <2> QED BY <1>3, <2>1, Scheduling
       DEF DistillationNextEpoch, DistillationNextBatch, DistillationEndEpoch,
           DistillationAdvance
<1>4. CASE DistillationPrepareRollout
  <2>1. /\ phase = "prepare" /\ config.algo = "distillation" /\ HasEngine
        /\ UNCHANGED <<sched, data, model, report, rest>>
    BY <1>4 DEF DistillationPrepareRollout, Now, DistillationLoop, HasEngine, Generating
  <2>2. CASE gen.stale
    <3>1. BeginRefit("rollout") BY <1>4, <2>2 DEF DistillationPrepareRollout
    <3>2. mem.policy.params = "gpu"
      BY <2>1, <2>2 DEF Placed, DistillationPlaces, Between
    <3>3. ~OwnScales BY <2>1, NoScales
    <3> QED BY <2>1, <3>1, <3>2, <3>3, Refitting
  <2>3. CASE ~gen.stale
    <3>1. WakeFor("rollout", mem.policy) BY <1>4, <2>3 DEF DistillationPrepareRollout
    <3>2. mem.policy \in Model BY Typed
    <3> HIDE DEF Inv, EngineInv
    <3> QED BY <2>1, <2>3, <3>1, <3>2, Waking
  <2> QED BY <2>2, <2>3
<1>5. CASE DistillationRollout
  <2>1. /\ phase = "rollout" /\ phase' = "teacher"
        /\ config.algo = "distillation" /\ HasEngine
        /\ UNCHANGED <<config, sched, model, report, ckpt, restarts>>
        /\ data' = [data EXCEPT !.rolled = @ \cup {gen.loaded}]
        /\ gen' = [gen EXCEPT !.awake = Asleep]
        /\ mem' = [mem EXCEPT !.other = PreparedForInference(@),
                     !.policy = IF config.colocated THEN @ ELSE OffloadedBeforeRefit(@)]
    BY <1>5 DEF DistillationRollout, RolledOut, Now, DistillationLoop, HasEngine,
                Generating, rest
  <2>2. /\ gen'.awake = Asleep /\ gen'.goal = gen.goal /\ gen'.stale = gen.stale
        /\ gen'.loaded = gen.loaded /\ gen'.scales = gen.scales /\ gen'.cache = gen.cache
        /\ gen' \in [awake : SUBSET Parts, loaded : Int, scales : Int, cache : Int,
                     stale : BOOLEAN, goal : Goals]
        /\ data'.pass = data.pass
    <3>1. Asleep \in SUBSET Parts BY DEF Asleep
    <3> QED BY <2>1, <3>1, Typed
  <2>3. ~gen.stale /\ gen.loaded = model.version /\ gen.goal = "rollout"
    BY <2>1 DEF EngineFresh, Generates, Whereabouts
  <2>4. /\ mem'.ipc = mem.ipc /\ mem'.other.params = "gpu"
        /\ ~config.colocated => mem'.policy.optim = "cpu"
        /\ mem' \in [policy : Model, other : Model, ipc : BOOLEAN]
    BY <2>1, Moved, Typed
  <2>5. ScheduleInv' BY <2>1, <2>2, <2>3, RollKeeps DEF Drawn, Toward
  <2>6. EngineFields' BY <2>1, <2>2, <2>4 DEF EngineFields
  <2>7. Whereabouts' BY <2>1, <2>2, <2>3 DEF Whereabouts, HasEngine, InPass
  <2>8. EngineFresh' BY <2>1, <2>2, <2>3 DEF EngineFresh, HasEngine, Generates
  <2>9. ScalesFresh' BY <2>1, NoScales DEF ScalesFresh, OwnScales
  <2>10. Placed'
    BY <2>1, <2>2, <2>4 DEF Placed, EnginePlaces, GRPOPlaces, PPOPlaces,
         DistillationPlaces, XTokenPlaces, SupervisedPlaces, Supervised, Silent,
         Generates, Between, Ended, Asleep
  <2> QED BY <2>1, <2>5, <2>6, <2>7, <2>8, <2>9, <2>10
<1>6. CASE DistillationTeacher
  <2>1. /\ phase = "teacher" /\ phase' = "train"
        /\ config.algo = "distillation" /\ HasEngine
        /\ UNCHANGED <<config, sched, data, model, report, ckpt, restarts>>
        /\ mem' = [mem EXCEPT !.other = OffloadedAfterRefit(@),
                              !.policy = PreparedForTraining(@)]
        /\ gen' = [gen EXCEPT !.stale = TRUE]
    BY <1>6 DEF DistillationTeacher, Now, DistillationLoop, HasEngine, Generating, rest
  <2>2. /\ gen'.awake = gen.awake /\ gen'.goal = gen.goal /\ gen'.stale = TRUE
        /\ gen'.loaded = gen.loaded /\ gen'.scales = gen.scales /\ gen'.cache = gen.cache
        /\ gen' \in [awake : SUBSET Parts, loaded : Int, scales : Int, cache : Int,
                     stale : BOOLEAN, goal : Goals]
    BY <2>1, Typed
  <2>3. /\ OnGPU(mem'.policy) /\ Away(mem'.other) /\ mem'.ipc = mem.ipc
        /\ mem' \in [policy : Model, other : Model, ipc : BOOLEAN]
    BY <2>1, Moved, Typed
  <2>4. data.pass = 0 /\ gen.goal = "rollout" BY <2>1 DEF Whereabouts
  <2>5. ScheduleInv'
    <3>1. Waits BY <2>1, <2>4, Typed DEF Waits, Drawn, InPass, Toward
    <3> QED BY <3>1, WaitKeeps
  <2>6. EngineFields' BY <2>1, <2>2, <2>3 DEF EngineFields
  <2>7. Whereabouts' BY <2>1, <2>2 DEF Whereabouts, HasEngine, InPass
  <2>8. EngineFresh' BY <2>1, <2>2 DEF EngineFresh, HasEngine, Generates
  <2>9. ScalesFresh' BY <2>1, NoScales DEF ScalesFresh, OwnScales
  <2>10. Placed'
    BY <2>1, <2>2, <2>3 DEF Placed, EnginePlaces, GRPOPlaces, PPOPlaces,
         DistillationPlaces, XTokenPlaces, SupervisedPlaces, Supervised, Silent,
         Generates, Between, Ended, Asleep, OnGPU
  <2> QED BY <2>1, <2>5, <2>6, <2>7, <2>8, <2>9, <2>10
<1>7. CASE DistillationTrain
  <2>1. /\ phase = "train" /\ phase' = "trained"
        /\ config.algo = "distillation" /\ HasEngine /\ model' = Updated
        /\ UNCHANGED <<config, sched, data, mem, gen, report, ckpt, restarts>>
    BY <1>7 DEF DistillationTrain, Now, DistillationLoop, HasEngine, Generating, rest
  <2>2. gen.stale /\ data.pass = 0 /\ ~WarmingUp
    BY <2>1, NoWarmUp DEF EngineFresh, Whereabouts
  <2>3. model'.version = model.version + 1 BY <2>1, Typed DEF Updated, Policy
  <2>4. ScheduleInv'
    <3>1. Passes BY <2>1, <2>2, Typed DEF Passes, Drawn, Trained, InPass
    <3> QED BY <3>1, PassKeeps
  <2>5. EngineFields' BY <2>1, <2>3, Typed DEF EngineFields
  <2>6. Whereabouts' BY <2>1, <2>2 DEF Whereabouts, HasEngine, InPass
  <2>7. EngineFresh' BY <2>1, <2>2 DEF EngineFresh, HasEngine, Generates
  <2>8. ScalesFresh' BY <2>1, NoScales DEF ScalesFresh, OwnScales
  <2>9. Placed'
    BY <2>1 DEF Placed, EnginePlaces, GRPOPlaces, PPOPlaces,
         DistillationPlaces, XTokenPlaces, SupervisedPlaces, Supervised, Silent,
         Generates, Between, Ended, Asleep
  <2> QED BY <2>1, <2>4, <2>5, <2>6, <2>7, <2>8, <2>9
<1>8. CASE DistillationPrepareValidation
  <2>1. /\ phase = "trained" /\ config.algo = "distillation" /\ HasEngine
        /\ UNCHANGED <<sched, data, model, report, rest>>
    BY <1>8 DEF DistillationPrepareValidation, Now, DistillationLoop, HasEngine, Generating
  <2>2. CASE ~ValidationDue
    <3>1. phase' = "save" /\ UNCHANGED <<mem, gen>>
      BY <1>8, <2>2 DEF DistillationPrepareValidation
    <3> QED BY <2>1, <3>1, Skipping
  <2>3. CASE ValidationDue /\ gen.stale
    <3>1. BeginRefit("validate") BY <1>8, <2>3 DEF DistillationPrepareValidation
    <3>2. mem.policy.params = "gpu"
      BY <2>1, <2>3 DEF Placed, EnginePlaces, Cold
    <3>3. ~OwnScales BY <2>1, NoScales
    <3> QED BY <2>1, <3>1, <3>2, <3>3, Refitting
  <2>4. CASE ValidationDue /\ ~gen.stale
    <3>1. WakeFor("validate", mem.policy)
      BY <1>8, <2>4 DEF DistillationPrepareValidation
    <3>2. mem.policy \in Model BY Typed
    <3> HIDE DEF Inv, EngineInv
    <3> QED BY <2>1, <2>4, <3>1, <3>2, Waking
  <2> QED BY <2>2, <2>3, <2>4
<1>9. CASE DistillationValidate
  <2>1. Validated /\ restarts' = restarts /\ report' = [report EXCEPT !.measured = TRUE]
    BY <1>9 DEF DistillationValidate, Validated, Now, DistillationLoop, HasEngine,
                Generating, rest
  <2> QED BY <2>1, Validating
<1>10. CASE DistillationSave
  <2>1. config.algo = "distillation"
    BY <1>10 DEF DistillationSave, Save, Now, DistillationLoop
  <2>2. TRUE = ~WarmingUp BY <2>1, NoWarmUp
  <2> QED BY <1>10, <2>2, Saving DEF DistillationSave
<1> QED BY <1>1, <1>2, <1>3, <1>4, <1>5, <1>6, <1>7, <1>8, <1>9, <1>10

-----------------------------------------------------------------------------
(* xtoken_off_policy_distillation_train: no engine, so gen stays stale     *)

(* What is left of EngineInv and Placed without an engine *)
LEMMA NoEngineNext ==
  ASSUME Inv, ~HasEngine, UNCHANGED <<config, sched, ckpt>>,
         gen' = [gen EXCEPT !.goal = gen'.goal], gen'.goal \in Goals,
         model'.version \in {model.version, model.version + 1},
         data'.pass = data.pass,
         mem' \in [policy : Model, other : Model, ipc : BOOLEAN],
         phase' \notin {"refit", "rollout", "values", "critic", "calibrate", "recalibrate"},
         phase' = "teacher" => config.algo = "xtoken" /\ gen'.goal # "rollout",
         phase' = "logprobs" => Supervised,
         XTokenPlaces' /\ SupervisedPlaces'
  PROVE  EngineInv' /\ Placed'
<1> USE DEF Inv, EngineInv
<1>1. config.algo \in {"xtoken", "sft", "dpo", "rm"} /\ ~HasEngine'
  BY Typed, ConfigFacts DEF Algorithms, HasEngine, Generating
<1>2. /\ gen'.awake = gen.awake /\ gen'.stale = gen.stale
      /\ gen'.loaded = gen.loaded /\ gen'.scales = gen.scales /\ gen'.cache = gen.cache
      /\ gen' \in [awake : SUBSET Parts, loaded : Int, scales : Int, cache : Int,
                   stale : BOOLEAN, goal : Goals]
  <2>1. gen \in [awake : SUBSET Parts, loaded : Int, scales : Int, cache : Int,
                 stale : BOOLEAN, goal : Goals]
    BY Typed
  <2> HIDE DEF Inv, EngineInv
  <2> QED BY <2>1
<1>3. gen.stale /\ data.pass = 0 BY <1>1 DEF EngineFresh, Whereabouts
<1>4. EngineFields' BY <1>2, Typed DEF EngineFields
<1>5. Whereabouts'
  <2>1. 0 < PPOEpochs BY JobConstants
  <2> QED BY <1>1, <1>3, <2>1 DEF Whereabouts, Supervised
<1>6. EngineFresh' BY <1>1, <1>2, <1>3 DEF EngineFresh
<1>7. ~OwnScales' BY <1>1, NoScales DEF OwnScales
<1>8. ScalesFresh' BY <1>7 DEF ScalesFresh
<1>9. Placed'
  BY <1>1 DEF Placed, EnginePlaces, GRPOPlaces, PPOPlaces, DistillationPlaces
<1> QED BY <1>4, <1>5, <1>6, <1>8, <1>9

(* A teacher fills its buffer. *)
LEMMA XTokenExporting ==
  ASSUME Inv, NEW next, XTokenExport(next), config.algo = "xtoken",
         \/ next = "first_validation" /\ phase = "start"
         \/ next = "train" /\ phase = "prepare"
         \/ next = "validate" /\ phase = "trained",
         UNCHANGED <<sched, data, model, report, rest>>
  PROVE  Inv'
<1>1. UNCHANGED <<config, sched, data, model, report, ckpt, restarts>> BY DEF rest
<1>2. /\ phase' = "teacher"
      /\ mem' = [mem EXCEPT !.other = PreparedForInference(@)]
      /\ gen' = [gen EXCEPT !.goal = next]
  BY DEF XTokenExport
<1>3. gen' = [gen EXCEPT !.goal = gen'.goal] /\ gen'.goal = next /\ next \in Goals
  BY <1>2, Typed DEF Goals
<1>4. /\ mem' \in [policy : Model, other : Model, ipc : BOOLEAN]
      /\ mem'.other.params = "gpu"
  BY <1>2, Moved, Typed
<1>5. ~HasEngine /\ ~Supervised BY DEF HasEngine, Generating, Supervised
<1>6. XTokenPlaces' /\ SupervisedPlaces'
  BY <1>1, <1>2, <1>4, <1>5 DEF XTokenPlaces, SupervisedPlaces, Supervised, Ended
<1>7. EngineInv' /\ Placed'
  BY <1>1, <1>2, <1>3, <1>4, <1>5, <1>6, NoEngineNext
<1>8. ScheduleInv'
  <2>1. \/ Before /\ Before' /\ phase' # "batch"
        \/ Drawn /\ Drawn'
        \/ Trained /\ Trained'
    BY <1>2, <1>3 DEF Before, Drawn, Trained, Toward
  <2>2. Waits BY <1>1, <2>1, Typed DEF Waits
  <2> QED BY <2>2, WaitKeeps DEF Inv
<1> QED BY <1>1, <1>7, <1>8 DEF Inv

LEMMA XTokenInv ==
  ASSUME Inv,
         \/ XTokenStart \/ XTokenNextEpoch \/ XTokenNextBatch \/ XTokenEndEpoch
         \/ XTokenPrepare \/ XTokenTeacher \/ XTokenTrainFails \/ XTokenRaises \/ XTokenTrain
         \/ XTokenPrepareValidation \/ XTokenValidate \/ XTokenSave \/ XTokenAdvance
  PROVE  Inv'
<1>1. config.algo = "xtoken"
  BY DEF XTokenStart, XTokenNextEpoch, XTokenNextBatch, XTokenEndEpoch, XTokenPrepare,
         XTokenTeacher, XTokenTrainFails, XTokenRaises, XTokenTrain, XTokenPrepareValidation,
         XTokenValidate, XTokenSave, XTokenAdvance, NextEpoch, NextBatch, EndEpoch,
         Save, Advance, Now, XTokenLoop
<1>2. ~HasEngine /\ ~Supervised /\ ~WarmingUp
  BY <1>1, NoWarmUp DEF HasEngine, Generating, Supervised
<1>3. gen = [gen EXCEPT !.goal = gen.goal] /\ gen.goal \in Goals BY Typed
<1>4. gen.stale /\ data.pass = 0 BY <1>1, <1>2 DEF Inv, EngineInv, EngineFresh, Whereabouts
<1>5. CASE XTokenStart
  <2>1. phase = "start" /\ UNCHANGED <<sched, data, model, report, rest>>
    BY <1>5 DEF XTokenStart, Now
  <2>2. CASE ValAtStart /\ sched.total = 0
    <3>1. XTokenExport("first_validation") BY <1>5, <2>2 DEF XTokenStart
    <3> QED BY <1>1, <2>1, <3>1, XTokenExporting
  <2>3. CASE ~(ValAtStart /\ sched.total = 0)
    <3>1. phase' = "loop" /\ UNCHANGED <<mem, gen>> BY <1>5, <2>3 DEF XTokenStart
    <3> QED BY <1>1, <2>1, <3>1, Skipping
  <2> QED BY <2>2, <2>3
<1>6. CASE XTokenNextEpoch \/ XTokenNextBatch \/ XTokenEndEpoch \/ XTokenAdvance
  <2>1. \/ NextEpoch(XTokenLoop) \/ NextBatch(XTokenLoop)
        \/ EndEpoch(XTokenLoop) \/ Advance(XTokenLoop)
    BY <1>6 DEF XTokenNextEpoch, XTokenNextBatch, XTokenEndEpoch, XTokenAdvance
  <2>2. mem' = mem \/ mem' = [mem EXCEPT !.ipc = FALSE]
    BY <1>6 DEF XTokenNextEpoch, XTokenNextBatch, XTokenEndEpoch, XTokenAdvance,
                NextBatch, EndEpoch
  <2>3. phase' \in Ended => ~mem'.ipc
    BY <1>6, Typed DEF XTokenNextEpoch, XTokenNextBatch, XTokenEndEpoch, XTokenAdvance,
                NextEpoch, NextBatch, EndEpoch, Ended
  <2> QED BY <1>1, <2>1, <2>2, <2>3, Scheduling
<1>7. CASE XTokenPrepare
  <2>1. /\ phase = "prepare" /\ XTokenExport("train")
        /\ UNCHANGED <<sched, data, model, report, rest>>
    BY <1>7 DEF XTokenPrepare, Now
  <2> QED BY <1>1, <2>1, XTokenExporting
<1>8. CASE XTokenTeacher
  <2>1. /\ phase = "teacher" /\ phase' = gen.goal
        /\ mem' = [policy |-> PreparedForTraining(mem.policy),
                   other |-> OffloadedAfterRefit(mem.other), ipc |-> TRUE]
        /\ UNCHANGED <<config, sched, data, model, gen, report, ckpt, restarts>>
    BY <1>8 DEF XTokenTeacher, Now, rest
  <2>2. gen.goal \in {"train", "validate", "first_validation"}
    BY <1>1, <1>3, <2>1 DEF Inv, EngineInv, Whereabouts, Goals
  <2>3. /\ mem' \in [policy : Model, other : Model, ipc : BOOLEAN]
        /\ OnGPU(mem'.policy) /\ mem'.ipc
    BY <2>1, Moved, Typed
  <2>4. XTokenPlaces' /\ SupervisedPlaces'
    BY <1>1, <1>2, <2>1, <2>2, <2>3 DEF XTokenPlaces, SupervisedPlaces, Supervised, Ended
  <2>5. EngineInv' /\ Placed'
    BY <1>1, <1>2, <1>3, <2>1, <2>2, <2>3, <2>4, NoEngineNext
  <2>6. ScheduleInv'
    <3>1. \/ Before /\ Before' /\ phase' # "batch"
          \/ Drawn /\ Drawn'
          \/ Trained /\ Trained'
      BY <1>4, <2>1, <2>2 DEF Before, Drawn, Trained, Toward, InPass
    <3>2. Waits BY <2>1, <3>1, Typed DEF Waits
    <3> QED BY <3>2, WaitKeeps DEF Inv
  <2> QED BY <2>1, <2>5, <2>6 DEF Inv
<1>9. CASE XTokenTrainFails
  <2>1. /\ phase \in {"train", "validate", "first_validation"} /\ phase' = "failed"
        /\ mem' = [mem EXCEPT !.ipc = FALSE]
        /\ UNCHANGED <<config, sched, data, model, gen, report, ckpt, restarts>>
    BY <1>9 DEF XTokenTrainFails, rest
  <2>2. mem' \in [policy : Model, other : Model, ipc : BOOLEAN] /\ ~mem'.ipc
    BY <2>1, Typed
  <2>3. XTokenPlaces' /\ SupervisedPlaces'
    BY <1>1, <1>2, <2>1, <2>2 DEF XTokenPlaces, SupervisedPlaces, Supervised
  <2>4. EngineInv' /\ Placed'
    BY <1>1, <1>2, <1>3, <2>1, <2>2, <2>3, NoEngineNext
  <2>5. ScheduleInv'
    <3>1. Waits BY <2>1, Typed DEF Waits, Counted
    <3> QED BY <3>1, WaitKeeps DEF Inv
  <2> QED BY <2>1, <2>4, <2>5 DEF Inv
<1>10. CASE XTokenTrain
  <2>1. /\ phase = "train" /\ phase' = "trained" /\ model' = Updated
        /\ UNCHANGED <<config, sched, data, mem, gen, report, ckpt, restarts>>
    BY <1>10 DEF XTokenTrain, Now, rest
  <2>2. model'.version = model.version + 1 BY <2>1, Typed DEF Updated, Policy
  <2>3. XTokenPlaces' /\ SupervisedPlaces'
    BY <1>1, <1>2, <2>1 DEF XTokenPlaces, SupervisedPlaces, Supervised, Ended
  <2>4. EngineInv' /\ Placed'
    BY <1>1, <1>2, <1>3, <2>1, <2>2, <2>3, Typed, NoEngineNext
  <2>5. ScheduleInv'
    <3>1. Passes BY <1>2, <1>4, <2>1, Typed DEF Passes, Drawn, Trained, InPass
    <3> QED BY <3>1, PassKeeps DEF Inv
  <2> QED BY <2>1, <2>4, <2>5 DEF Inv
<1>11. CASE XTokenPrepareValidation
  <2>1. phase = "trained" /\ UNCHANGED <<sched, data, model, report, rest>>
    BY <1>11 DEF XTokenPrepareValidation, Now
  <2>2. CASE ValidationDue
    <3>1. XTokenExport("validate") BY <1>11, <2>2 DEF XTokenPrepareValidation
    <3> QED BY <1>1, <2>1, <3>1, XTokenExporting
  <2>3. CASE ~ValidationDue
    <3>1. phase' = "save" /\ UNCHANGED <<mem, gen>>
      BY <1>11, <2>3 DEF XTokenPrepareValidation
    <3> QED BY <1>1, <2>1, <3>1, Skipping
  <2> QED BY <2>2, <2>3
<1>12. CASE XTokenValidate
  <2>1. /\ phase \in {"validate", "first_validation"}
        /\ phase' = IF phase = "validate" THEN "save" ELSE "loop"
        /\ mem' = [mem EXCEPT !.ipc = FALSE, !.other = OffloadedAfterRefit(@)]
        /\ report' = [report EXCEPT !.measured = (phase = "validate")]
        /\ UNCHANGED <<config, sched, data, model, gen, ckpt, restarts>>
    BY <1>12 DEF XTokenValidate, Now, rest
  <2>2. mem' \in [policy : Model, other : Model, ipc : BOOLEAN]
    BY <2>1, Moved, Typed
  <2>3. XTokenPlaces' /\ SupervisedPlaces'
    BY <1>1, <1>2, <2>1 DEF XTokenPlaces, SupervisedPlaces, Supervised, Ended
  <2>4. EngineInv' /\ Placed'
    BY <1>1, <1>2, <1>3, <2>1, <2>2, <2>3, NoEngineNext
  <2>5. ScheduleInv'
    <3>1. (Before /\ Before' /\ phase' # "batch") \/ (Trained /\ Trained')
      BY <2>1 DEF Before, Trained
    <3>2. /\ report' \in [measured : BOOLEAN, metric : Int, timeout : BOOLEAN]
          /\ report'.metric = report.metric
      BY <2>1, Typed
    <3>3. Waits BY <2>1, <3>1, <3>2 DEF Waits
    <3> QED BY <3>3, WaitKeeps DEF Inv
  <2> QED BY <2>1, <2>4, <2>5 DEF Inv
<1>13. CASE XTokenSave
  <2>1. TRUE = ~WarmingUp BY <1>2
  <2> QED BY <1>1, <1>13, <2>1, Saving DEF XTokenSave
<1>14. CASE XTokenRaises
  <2>1. /\ phase \in {"teacher", "validate", "first_validation", "save"} /\ phase' = "raised"
        /\ \/ mem' = mem
           \/ mem' = [mem EXCEPT !.other = PreparedForInference(@)]
           \/ mem' = [mem EXCEPT !.other = PreparedForInference(@), !.ipc = TRUE]
        /\ UNCHANGED <<config, sched, data, model, gen, report, ckpt, restarts>>
    BY <1>14 DEF XTokenRaises, rest
  <2>2. mem' \in [policy : Model, other : Model, ipc : BOOLEAN]
    <3>1. mem.other \in Model /\ mem \in [policy : Model, other : Model, ipc : BOOLEAN] BY Typed
    <3>2. PreparedForInference(mem.other) \in Model BY <3>1, Moved
    <3> QED BY <2>1, <3>1, <3>2
  <2>3. XTokenPlaces' /\ SupervisedPlaces'
    BY <1>1, <1>2, <2>1 DEF XTokenPlaces, SupervisedPlaces, Supervised
  <2>4. EngineInv' /\ Placed'
    BY <1>1, <1>2, <1>3, <2>1, <2>2, <2>3, NoEngineNext
  <2>5. ScheduleInv'
    <3>1. Waits BY <2>1, Typed DEF Waits, Counted
    <3> QED BY <3>1, WaitKeeps DEF Inv
  <2> QED BY <2>1, <2>4, <2>5 DEF Inv
<1> QED BY <1>5, <1>6, <1>7, <1>8, <1>9, <1>10, <1>11, <1>12, <1>13, <1>14

-----------------------------------------------------------------------------
(* sft_train, dpo_train and rm_train                                       *)

LEMMA SupervisedInv == ASSUME Inv, SupervisedNext PROVE Inv'
<1> DEFINE loops == {SFTLoop, DPOLoop, RMLoop}
<1>1. PICK algos \in loops :
        \/ FirstValidationOf(algos) \/ ValidationOf(algos) \/ TrainingOf(algos)
        \/ (NextEpoch(algos) \/ NextBatch(algos) \/ EndEpoch(algos) \/ Advance(algos))
             /\ mem' = mem
        \/ Save(algos, StepSaved, FreshMetric, TRUE, mem)
        \/ /\ \/ Now(algos, "prepare") /\ phase' \in {"train", "logprobs"}
              \/ Now(algos, "logprobs") /\ phase' = "train"
           /\ UNCHANGED <<sched, data, model, mem, gen, report, rest>>
  BY DEF SupervisedNext, SFTStart, SFTValidate, SFTNextEpoch, SFTNextBatch, SFTEndEpoch,
         SFTPrepare, SFTTrain, SFTSave, SFTAdvance, DPOStart, DPOValidate, DPONextEpoch,
         DPONextBatch, DPOEndEpoch, DPOPrepare, DPOReference, DPOTrain, DPOSave,
         DPOAdvance, RMStart, RMValidate, RMNextEpoch, RMNextBatch, RMEndEpoch,
         RMPrepare, RMTrain, RMSave, RMAdvance, NextBatch, EndEpoch
<1>2. config.algo \in algos /\ Supervised
  <2>1. config.algo \in algos
    BY <1>1 DEF FirstValidationOf, ValidationOf, TrainingOf, NextEpoch, NextBatch,
                EndEpoch, Advance, Save, Now
  <2> QED BY <2>1 DEF Supervised, SFTLoop, DPOLoop, RMLoop
<1>3. ~HasEngine /\ ~WarmingUp /\ config.algo # "xtoken"
  BY <1>2, NoWarmUp DEF HasEngine, Generating, Supervised
<1>4. /\ gen = [gen EXCEPT !.goal = gen.goal] /\ gen.goal \in Goals
      /\ mem.policy \in Model
  BY Typed
<1>5. data.pass = 0 BY <1>2 DEF Inv, EngineInv, Whereabouts, Supervised
<1>7. OnGPU(mem.policy) /\ ~mem.ipc BY <1>2 DEF Inv, Placed, SupervisedPlaces
<1>8. CASE FirstValidationOf(algos) \/ ValidationOf(algos)
  <2>1. /\ \/ phase = "start" /\ phase' \in {"first_validation", "loop"} /\ report' = report
           \/ phase = "validate" /\ phase' = "save"
           \/ phase = "first_validation" /\ phase' = "loop"
        /\ mem' = [mem EXCEPT !.policy = PreparedForTraining(@)]
        /\ report' = report \/ report' = [report EXCEPT !.measured = (phase = "validate")]
        /\ UNCHANGED <<config, sched, data, model, gen, ckpt, restarts>>
    BY <1>8 DEF FirstValidationOf, ValidationOf, Now, rest
  <2>2. /\ mem' \in [policy : Model, other : Model, ipc : BOOLEAN]
        /\ OnGPU(mem'.policy) /\ mem'.ipc = mem.ipc
    BY <1>4, <2>1, Moved, Typed
  <2>3. XTokenPlaces' /\ SupervisedPlaces'
    BY <1>3, <1>7, <2>1, <2>2 DEF XTokenPlaces, SupervisedPlaces
  <2>4. EngineInv' /\ Placed'
    BY <1>3, <1>4, <2>1, <2>2, <2>3, NoEngineNext
  <2>5. ScheduleInv'
    <3>1. (Before /\ Before' /\ phase' # "batch") \/ (Trained /\ Trained')
      BY <2>1 DEF Before, Trained
    <3>2. /\ report' \in [measured : BOOLEAN, metric : Int, timeout : BOOLEAN]
          /\ report'.metric = report.metric
      BY <2>1, Typed
    <3>3. Waits BY <2>1, <3>1, <3>2 DEF Waits
    <3> QED BY <3>3, WaitKeeps DEF Inv
  <2> QED BY <2>1, <2>4, <2>5 DEF Inv
<1>9. CASE TrainingOf(algos)
  <2>1. /\ phase = "train" /\ phase' \in {"validate", "save"} /\ model' = Updated
        /\ UNCHANGED <<config, sched, data, mem, gen, report, ckpt, restarts>>
    BY <1>9 DEF TrainingOf, Now, rest
  <2>2. model'.version = model.version + 1 BY <2>1, Typed DEF Updated, Policy
  <2>3. XTokenPlaces' /\ SupervisedPlaces'
    BY <1>3, <1>7, <2>1 DEF XTokenPlaces, SupervisedPlaces
  <2>4. EngineInv' /\ Placed'
    BY <1>3, <1>4, <2>1, <2>2, <2>3, Typed, NoEngineNext
  <2>5. ScheduleInv'
    <3>1. Passes BY <1>3, <1>5, <2>1, Typed DEF Passes, Drawn, Trained, InPass
    <3> QED BY <3>1, PassKeeps DEF Inv
  <2> QED BY <2>1, <2>4, <2>5 DEF Inv
<1>10. CASE /\ NextEpoch(algos) \/ NextBatch(algos) \/ EndEpoch(algos) \/ Advance(algos)
            /\ mem' = mem
  BY <1>3, <1>10, Scheduling
<1>11. CASE Save(algos, StepSaved, FreshMetric, TRUE, mem)
  <2>1. TRUE = ~WarmingUp BY <1>3
  <2> QED BY <1>2, <1>11, <2>1, Saving
<1>12. CASE /\ \/ Now(algos, "prepare") /\ phase' \in {"train", "logprobs"}
               \/ Now(algos, "logprobs") /\ phase' = "train"
            /\ UNCHANGED <<sched, data, model, mem, gen, report, rest>>
  <2>1. /\ phase \in {"prepare", "logprobs"} /\ phase' \in {"train", "logprobs"}
        /\ UNCHANGED <<config, sched, data, model, mem, gen, report, ckpt, restarts>>
    BY <1>12 DEF Now, rest
  <2>2. XTokenPlaces' /\ SupervisedPlaces'
    BY <1>3, <1>7, <2>1 DEF XTokenPlaces, SupervisedPlaces
  <2>3. EngineInv' /\ Placed'
    BY <1>2, <1>3, <1>4, <2>1, <2>2, Typed, NoEngineNext
  <2>4. ScheduleInv'
    <3>1. Waits BY <1>5, <2>1, Typed DEF Waits, Drawn, InPass
    <3> QED BY <3>1, WaitKeeps DEF Inv
  <2> QED BY <2>1, <2>3, <2>4 DEF Inv
<1> QED BY <1>1, <1>8, <1>9, <1>10, <1>11, <1>12

-----------------------------------------------------------------------------
(* The inductive invariant                                                 *)

LEMMA StutterInv == ASSUME Inv, UNCHANGED vars PROVE Inv'
<1>1. UNCHANGED <<config, phase, sched, data, model, mem, gen, report, ckpt, restarts>>
  BY DEF vars, rest
<1>2. /\ Before' = Before /\ Drawn' = Drawn /\ Trained' = Trained
      /\ Counted' = Counted /\ Stopped' = Stopped
  BY <1>1 DEF Before, Drawn, Trained, Counted, Stopped, Toward, InPass
<1>3. ScheduleInv'
  <2>1. ScheduleFields' /\ StepsCounted' /\ WithinBounds'
    BY <1>1, <1>2 DEF Inv, ScheduleInv, ScheduleFields, StepsCounted, WithinBounds
  <2>2. StraightOn' /\ TakenInOrder' /\ LastSaved'
    BY <1>1, <1>2 DEF Inv, ScheduleInv, StraightOn, TakenInOrder, LastSaved, Linear,
                Newest, AllDone, LastOfAll
  <2>3. WarmedUp' /\ VersionsKept' /\ RolledByNewest' /\ BatchesAhead' /\ MetricOwn'
    BY <1>1, <1>2 DEF Inv, ScheduleInv, WarmedUp, VersionsKept, RolledByNewest,
                BatchesAhead, MetricOwn, Newest
  <2> QED BY <2>1, <2>2, <2>3 DEF ScheduleInv
<1>4. EngineInv'
  <2>1. EngineFields' /\ Whereabouts' /\ EngineFresh'
    BY <1>1 DEF Inv, EngineInv, EngineFields, Whereabouts, EngineFresh, HasEngine,
                InPass, WarmingUp
  <2>2. ScalesFresh'
    BY <1>1, <1>2 DEF Inv, EngineInv, ScalesFresh, OwnScales, FirstScales, Toward
  <2> QED BY <2>1, <2>2 DEF EngineInv
<1>5. Placed'
  BY <1>1 DEF Inv, Placed, EnginePlaces, GRPOPlaces, PPOPlaces, DistillationPlaces,
       XTokenPlaces, SupervisedPlaces, Supervised, HasEngine, Silent, Between, Asleep,
       Cold, WarmingUp
<1> QED BY <1>1, <1>3, <1>4, <1>5 DEF Inv

LEMMA NextInv == ASSUME Inv, [Next]_vars PROVE Inv'
<1>1. CASE GRPONext BY <1>1, GRPOInv
<1>2. CASE PPONext BY <1>2, PPOInv
<1>3. CASE DistillationNext
  BY <1>3, DistillationInv, XTokenInv DEF DistillationNext
<1>4. CASE SupervisedNext BY <1>4, SupervisedInv
<1>5. CASE FinishRefit BY <1>5, FinishRefitInv
<1>6. CASE Restart BY <1>6, RestartInv
<1>7. CASE UNCHANGED vars BY <1>7, StutterInv
<1> QED BY <1>1, <1>2, <1>3, <1>4, <1>5, <1>6, <1>7 DEF Next, Loop

(* Every state of every job satisfies the inductive invariant: how far the *)
(* step has come decides what is counted, taken and saved, and the phase   *)
(* of each loop where its models and its engine are.                       *)
THEOREM InvariantHolds == Spec => []Inv
<1>1. Init => Inv BY InitInv
<1>2. Inv /\ [Next]_vars => Inv' BY NextInv
<1> QED BY <1>1, <1>2, PTL DEF Spec

-----------------------------------------------------------------------------
(* What follows                                                            *)

(* Epochs, steps and batches stay within the dataloader and max_num_steps, *)
(* no engine holds weights or scales that were not trained yet, and a      *)
(* metric belongs to a step already taken.                                 *)
THEOREM TypeCorrect == Spec => []TypeOK
<1>1. Inv => TypeOK
  <2> SUFFICES ASSUME Inv PROVE TypeOK OBVIOUS
  <2> USE DEF Inv, ScheduleInv, EngineInv
  <2>1. /\ MaxEpochs \in Nat /\ Batches \in Nat /\ PPOEpochs \in Nat /\ MaxSteps \in Nat
        /\ sched \in [epoch : Nat, step : Nat, total : Nat, pos : Nat]
        /\ data.pass \in Nat
    BY JobConstants DEF ScheduleFields
  <2>2. data.batch \subseteq Batch
    <3> SUFFICES ASSUME NEW b \in data.batch PROVE b \in Batch OBVIOUS
    <3>1. b \in Nat \X Nat BY DEF ScheduleFields, Pairs
    <3>2. Earlier(b, sched) BY DEF BatchesAhead
    <3>3. sched.epoch \in Nat /\ sched.epoch <= MaxEpochs /\ b[1] \in Nat
      BY <2>1, <3>1 DEF WithinBounds
    <3>4. b[1] <= sched.epoch BY <3>2, <3>3 DEF Earlier
    <3>5. b[1] \in 0 .. MaxEpochs BY <2>1, <3>3, <3>4
    <3> QED BY <3>1, <3>5 DEF Batch
  <2>3. /\ sched.epoch \in 0 .. MaxEpochs /\ sched.step \in Nat
        /\ (config.noMaxSteps \/ sched.total <= MaxSteps)
        /\ (config.endless \/ sched.pos \in 0 .. Batches)
    BY <2>1 DEF WithinBounds
  <2>4. data.pass \in 0 .. PPOEpochs - 1 BY <2>1 DEF Whereabouts
  <2>5. /\ config \in Configs /\ model.version \in Nat
        /\ mem \in [policy : Model, other : Model, ipc : BOOLEAN]
        /\ gen.awake \subseteq Parts /\ gen.loaded \in -1 .. model.version
        /\ gen.cache \in -1 .. model.version /\ gen.scales \in -2 .. model.version
    BY DEF ScheduleFields, EngineFields, Policy
  <2>6. report.metric \in -1 .. sched.total + 1 BY DEF MetricOwn
  <2> QED BY <2>2, <2>3, <2>4, <2>5, <2>6 DEF TypeOK
<1> QED BY <1>1, InvariantHolds, PTL

(* Without dynamic sampling every batch of every epoch is trained on once  *)
(* and in order, over any number of crashes, timeouts and restarts: the    *)
(* dataloader's position, current_step and total_steps are saved together. *)
THEOREM BatchesOnce == Spec => []EveryBatchOnce
<1>1. Inv => EveryBatchOnce
  <2> SUFFICES ASSUME Inv PROVE EveryBatchOnce OBVIOUS
  <2>1. EndIsSaved BY DEF Inv, ScheduleInv, LastSaved, EndIsSaved
  <2>2. Linear => InOrder(model.steps) BY DEF Inv, ScheduleInv, TakenInOrder
  <2> QED BY <2>1, <2>2 DEF EveryBatchOnce, Linear, InOrder, Expected
<1> QED BY <1>1, InvariantHolds, PTL

(* A checkpoint's counters, batches, weights, optimizer and metric belong  *)
(* to one step, whichever loop saves it.                                   *)
THEOREM CheckpointsWhole == Spec => []CheckpointWhole
<1>1. Inv => CheckpointWhole
  BY DEF Inv, ScheduleInv, StepsCounted, WarmedUp, StraightOn, Linear, Position,
         MetricOwn, CheckpointWhole
<1> QED BY <1>1, InvariantHolds, PTL

(* Rollouts and validations run on the newest weights and, on GPUs of      *)
(* their own, with scales measured for them: POLICY_GENERATION_STALE is    *)
(* set before the weights change and reset by refit_policy_generation      *)
(* only.                                                                   *)
THEOREM NewestWeights == Spec => []OnNewestWeights
<1>1. Inv => OnNewestWeights
  <2> SUFFICES ASSUME Inv PROVE OnNewestWeights OBVIOUS
  <2>1. ~gen.stale => gen.loaded = model.version BY DEF Inv, EngineInv, EngineFresh
  <2>2. HasEngine /\ phase \in Generates => ~gen.stale
    BY DEF Inv, EngineInv, EngineFresh
  <2>3. ASSUME phase \in {"rollout", "validate"}, OwnScales PROVE ScalesFollowWeights
    <3>1. HasEngine BY <2>3, Typed, ConfigFacts DEF OwnScales, HasEngine, Generating
    <3>2. ~gen.stale BY <2>2, <2>3, <3>1 DEF Generates
    <3> QED BY <2>3, <3>2 DEF Inv, EngineInv, ScalesFresh, FirstScales, ScalesFollowWeights
  <2> QED BY <2>1, <2>2, <2>3 DEF OnNewestWeights, ScalesFollowWeights, OwnScales
<1> QED BY <1>1, InvariantHolds, PTL

(* Whatever computes is on the GPUs and has them to itself, in every loop  *)
(* and for every job: the exceptions the code makes, PPO's warm-up with a  *)
(* quantized KV cache and an exception outside the student, are named in   *)
(* the property itself.                                                    *)
THEOREM GPUsShared == Spec => []SharesGPUs
<1>1. Inv => SharesGPUs
  <2> SUFFICES ASSUME Inv PROVE SharesGPUs OBVIOUS
  <2>1. config.algo \in Algorithms BY Typed, ConfigFacts
  <2>2. /\ EnginePlaces /\ GRPOPlaces /\ PPOPlaces /\ DistillationPlaces
        /\ XTokenPlaces /\ SupervisedPlaces /\ Whereabouts /\ EngineFresh
    BY <2>1 DEF Inv, Placed, EngineInv
  <2>3. mem.policy \in Model /\ mem.other \in Model BY Typed
  <2>4. HasEngine \/ config.algo = "xtoken" \/ Supervised
    BY <2>1 DEF Algorithms, HasEngine, Generating, Supervised
  <2>5. config.algo = "ppo" => config.colocated BY Typed, ConfigFacts
  <2>6. InPlace
    <3>1. phase \in {"logprobs", "calibrate", "recalibrate", "refit", "train"}
            => mem.policy.params = "gpu" \/ ColdWarmup
      BY <2>1, <2>2, <2>4 DEF ColdWarmup, Cold, EnginePlaces, GRPOPlaces, PPOPlaces, XTokenPlaces,
           SupervisedPlaces, Whereabouts, HasEngine, Generating, OnGPU, Supervised
    <3>2. phase = "train" => mem.policy.optim = "gpu"
      BY <2>2, <2>4 DEF EnginePlaces, XTokenPlaces, SupervisedPlaces, OnGPU
    <3>3. phase \in {"values", "critic", "teacher"} => mem.other.params = "gpu"
      BY <2>2 DEF PPOPlaces, DistillationPlaces, XTokenPlaces, Whereabouts, OnGPU
    <3>4. phase = "critic" => mem.other.optim = "gpu"
      BY <2>2 DEF PPOPlaces, Whereabouts, OnGPU
    <3>5. HasEngine /\ phase \in Generates => gen.awake = Parts BY <2>2 DEF EnginePlaces
    <3>6. config.algo = "xtoken" /\ phase \in Generates \cup {"train"} => mem.ipc
      BY <2>2 DEF XTokenPlaces, Whereabouts, HasEngine, Generating, Generates
    <3> QED BY <3>1, <3>2, <3>3, <3>4, <3>5, <3>6 DEF InPlace
  <2>7. TakesTurns
    <3>1. HasEngine /\ phase \in Generates /\ config.colocated =>
            Away(mem.other) /\ (Away(mem.policy) \/ StudentLeftOnGPU)
      <4>1. HasEngine /\ phase \in Generates => Away(mem.other)
        BY <2>2 DEF EnginePlaces, Generates, Ended
      <4> QED BY <2>2, <4>1 DEF GRPOPlaces, PPOPlaces, EngineFresh, StudentLeftOnGPU,
                      HasEngine, Generating
    <3>2. phase = "refit" /\ config.colocated =>
            Away(mem.other) /\ mem.policy.optim = "cpu" /\ gen.awake = {"weights"}
      BY <2>2 DEF EnginePlaces, Whereabouts, Ended
    <3>3. HasEngine /\ phase \in {"train", "values", "critic", "teacher"} /\ config.colocated
            => gen.awake = {}
      BY <2>2 DEF EnginePlaces, Silent, Generates, Ended, Asleep
    <3>4. HasEngine /\ phase = "train" => Away(mem.other) BY <2>2 DEF EnginePlaces, Ended
    <3>5. config.algo # "xtoken" /\ phase \in {"values", "critic", "teacher"} =>
            HasEngine /\ (mem.policy.optim = "cpu" \/ StudentLeftOnGPU)
      BY <2>2 DEF PPOPlaces, DistillationPlaces, Whereabouts, EngineFresh, HasEngine,
           Generating, Away, StudentLeftOnGPU
    <3>6. phase \in Ended \ {"raised"} => ~mem.ipc
      BY <2>2, <2>4 DEF EnginePlaces, XTokenPlaces, SupervisedPlaces
    <3> QED BY <3>1, <3>2, <3>3, <3>4, <3>5, <3>6 DEF TakesTurns
  <2> QED BY <2>6, <2>7 DEF SharesGPUs
<1> QED BY <1>1, InvariantHolds, PTL

-----------------------------------------------------------------------------
(* What every loop promises                                                *)

(* A step that is recorded, and with it possibly saved *)
Records ==
  /\ phase = "save" /\ model' = StepTaken
  /\ ckpt' = ckpt \/ ckpt'.model = StepTaken

(* A step that neither takes a batch nor saves *)
Quiet == model' \in {model, Updated} /\ ckpt' = ckpt

LEMMA SchedulingIsQuiet ==
  ASSUME NEW algos,
         NextEpoch(algos) \/ NextBatch(algos) \/ EndEpoch(algos) \/ Advance(algos)
  PROVE  Quiet
BY DEF NextEpoch, NextBatch, EndEpoch, Advance, rest, Quiet

LEMMA SavingRecords ==
  ASSUME NEW algos, NEW step, NEW metric, NEW optim, NEW places,
         Save(algos, step, metric, optim, places)
  PROVE  Records
BY DEF Save, Now, Checkpoint, Records

LEMMA GRPORecords == ASSUME GRPONext PROVE Quiet \/ Records
<1>1. CASE GRPONextEpoch \/ GRPONextBatch \/ GRPOEndEpoch \/ GRPOAdvance
  BY <1>1, SchedulingIsQuiet DEF GRPONextEpoch, GRPONextBatch, GRPOEndEpoch, GRPOAdvance
<1>2. CASE GRPOSave BY <1>2, SavingRecords DEF GRPOSave
<1>3. CASE GRPOStart \/ GRPOFirstValidation \/ GRPOPrepareRollout \/ GRPOCalibrate
           \/ GRPORollout \/ GRPOFilter
  BY <1>3 DEF GRPOStart, GRPOFirstValidation, GRPOPrepareRollout, GRPOCalibrate,
              GRPORollout, GRPOFilter, rest, Quiet
<1>4. CASE GRPOPrepareTraining \/ GRPOTrain \/ GRPORecalibrate \/ GRPOPrepareValidation
           \/ GRPOValidate
  BY <1>4 DEF GRPOPrepareTraining, GRPOTrain, GRPORecalibrate, GRPOPrepareValidation,
              GRPOValidate, rest, Quiet
<1> QED BY <1>1, <1>2, <1>3, <1>4 DEF GRPONext

LEMMA PPORecords == ASSUME PPONext PROVE Quiet \/ Records
<1>1. CASE PPONextEpoch \/ PPONextBatch \/ PPOEndEpoch \/ PPOAdvance
  BY <1>1, SchedulingIsQuiet DEF PPONextEpoch, PPONextBatch, PPOEndEpoch, PPOAdvance
<1>2. CASE PPOSave BY <1>2, SavingRecords DEF PPOSave
<1>3. CASE PPOStart \/ PPOFirstValidation \/ PPOPrepareRollout \/ PPOCalibrate
           \/ PPORollout \/ PPOValues \/ PPOLogprobs
  BY <1>3 DEF PPOStart, PPOFirstValidation, PPOPrepareRollout, PPOCalibrate,
              PPORollout, PPOValues, PPOLogprobs, rest, Quiet
<1>4. CASE PPOTrainValue \/ PPOTrainPolicy \/ PPORecalibrate \/ PPOPolicyMissing
           \/ PPOPrepareValidation \/ PPOValidate
  BY <1>4 DEF PPOTrainValue, PPOTrainPolicy, PPORecalibrate, PPOPolicyMissing,
              PPOPrepareValidation, PPOValidate, rest, Quiet
<1> QED BY <1>1, <1>2, <1>3, <1>4 DEF PPONext

LEMMA DistillationRecords == ASSUME DistillationNext PROVE Quiet \/ Records
<1>1. CASE \/ DistillationNextEpoch \/ DistillationNextBatch
           \/ DistillationEndEpoch \/ DistillationAdvance
  BY <1>1, SchedulingIsQuiet DEF DistillationNextEpoch, DistillationNextBatch,
       DistillationEndEpoch, DistillationAdvance
<1>2. CASE XTokenNextEpoch \/ XTokenNextBatch \/ XTokenEndEpoch \/ XTokenAdvance
  BY <1>2, SchedulingIsQuiet DEF XTokenNextEpoch, XTokenNextBatch, XTokenEndEpoch,
       XTokenAdvance
<1>3. CASE DistillationSave \/ XTokenSave
  BY <1>3, SavingRecords DEF DistillationSave, XTokenSave
<1>4. CASE \/ DistillationStart \/ DistillationFirstValidation
           \/ DistillationPrepareRollout \/ DistillationRollout \/ DistillationTeacher
           \/ DistillationTrain \/ DistillationPrepareValidation \/ DistillationValidate
  BY <1>4 DEF DistillationStart, DistillationFirstValidation,
       DistillationPrepareRollout, DistillationRollout, DistillationTeacher,
       DistillationTrain, DistillationPrepareValidation, DistillationValidate, rest, Quiet
<1>5. CASE \/ XTokenStart \/ XTokenPrepare \/ XTokenTeacher \/ XTokenTrainFails
           \/ XTokenRaises \/ XTokenTrain \/ XTokenPrepareValidation \/ XTokenValidate
  BY <1>5 DEF XTokenStart, XTokenPrepare, XTokenTeacher, XTokenTrainFails, XTokenRaises, XTokenTrain,
              XTokenPrepareValidation, XTokenValidate, rest, Quiet
<1> QED BY <1>1, <1>2, <1>3, <1>4, <1>5 DEF DistillationNext

LEMMA SupervisedRecords == ASSUME SupervisedNext PROVE Quiet \/ Records
<1>1. CASE \/ SFTNextEpoch \/ SFTNextBatch \/ SFTEndEpoch \/ SFTAdvance
           \/ DPONextEpoch \/ DPONextBatch \/ DPOEndEpoch \/ DPOAdvance
           \/ RMNextEpoch \/ RMNextBatch \/ RMEndEpoch \/ RMAdvance
  BY <1>1, SchedulingIsQuiet DEF SFTNextEpoch, SFTNextBatch, SFTEndEpoch, SFTAdvance,
       DPONextEpoch, DPONextBatch, DPOEndEpoch, DPOAdvance,
       RMNextEpoch, RMNextBatch, RMEndEpoch, RMAdvance
<1>2. CASE SFTSave \/ DPOSave \/ RMSave
  BY <1>2, SavingRecords DEF SFTSave, DPOSave, RMSave
<1>3. CASE SFTStart \/ SFTValidate \/ SFTPrepare \/ SFTTrain
  BY <1>3 DEF SFTStart, SFTValidate, SFTPrepare, SFTTrain, FirstValidationOf,
              ValidationOf, TrainingOf, rest, Quiet
<1>4. CASE DPOStart \/ DPOValidate \/ DPOPrepare \/ DPOReference \/ DPOTrain
  BY <1>4 DEF DPOStart, DPOValidate, DPOPrepare, DPOReference, DPOTrain,
              FirstValidationOf, ValidationOf, TrainingOf, rest, Quiet
<1>5. CASE RMStart \/ RMValidate \/ RMPrepare \/ RMTrain
  BY <1>5 DEF RMStart, RMValidate, RMPrepare, RMTrain, FirstValidationOf,
              ValidationOf, TrainingOf, rest, Quiet
<1> QED BY <1>1, <1>2, <1>3, <1>4, <1>5 DEF SupervisedNext

LEMMA QuietStutters ==
  ASSUME Inv, Quiet
  PROVE  UNCHANGED Promise!vars
<1>1. model \in Policy BY Typed
<1>2. model'.steps = model.steps BY <1>1 DEF Quiet, Updated, Policy
<1> QED BY <1>2 DEF Quiet, Promise!vars

(* The batches of a recorded step are the newest, its rollouts are of the  *)
(* weights it starts from.                                                 *)
LEMMA RecordsAreSteps ==
  ASSUME Inv, Records
  PROVE  Promise!Step /\ (Promise!Save \/ Promise!Keep)
<1> DEFINE record == [batches |-> data.batch, rolled |-> data.rolled,
                      before |-> VersionOf(model.steps), after |-> model.version]
<1>1. Trained /\ ~Counted BY ApartAlways DEF Records, Trained, Apart
<1>2. /\ model \in Policy /\ model.version \in Nat /\ model.steps \in Seq(Step)
      /\ data.batch \subseteq Pairs /\ data.rolled \subseteq Int
      /\ VersionOf(model.steps) \in Nat
  BY Typed, VersionTyped
<1>3. /\ record \in Step /\ record.batches = data.batch /\ record.rolled = data.rolled
      /\ record.before = VersionOf(model.steps) /\ record.after = model.version
  BY <1>2 DEF Step
<1>4. StepTaken = [model EXCEPT !.steps = Append(@, record)]
  BY DEF StepTaken, VersionOf
<1> HIDE DEF record
<1>5. model'.steps = Append(model.steps, record)
  BY <1>2, <1>4 DEF Records, Policy
<1>6. /\ Len(model'.steps) = Len(model.steps) + 1
      /\ model'.steps[Len(model.steps) + 1] = record
  BY <1>2, <1>3, <1>5, OneMore
<1>7. data.batch # {} BY <1>1 DEF Inv, ScheduleInv, BatchesAhead
<1>8. \A b \in data.batch, t \in TakenBy(model.steps) : LaterThan(b, t)
  BY <1>1 DEF Inv, ScheduleInv, BatchesAhead
<1>9. data.rolled \subseteq {VersionOf(model.steps)}
  BY <1>1 DEF Inv, ScheduleInv, RolledByNewest
<1>10. VersionOf(model.steps) <= model.version
  BY DEF Inv, ScheduleInv, VersionsKept
<1>11. Promise!Taken = TakenBy(model.steps) /\ Promise!Version = VersionOf(model.steps)
  BY DEF Promise!Taken, Promise!Version, TakenBy, VersionOf
<1>12. \A b \in record.batches, t \in Promise!Taken : Promise!Later(b, t)
  BY <1>3, <1>8, <1>11 DEF Promise!Later, LaterThan
<1>13. record.after >= record.before BY <1>2, <1>3, <1>10
<1>14. Promise!Step
  BY <1>3, <1>5, <1>6, <1>7, <1>9, <1>11, <1>12, <1>13 DEF Promise!Step
<1>15. Promise!Save \/ Promise!Keep
  BY DEF Records, Promise!Save, Promise!Keep
<1> QED BY <1>14, <1>15

(* TrainingPromise is kept by all seven loops: batches are taken in order, *)
(* once each, on answers of the weights a step starts from, and a restart  *)
(* goes back to the steps saved with the latest checkpoint.                *)
THEOREM LoopsKeepPromise == Spec => PromiseKept
<1>1. Init => Promise!Init BY DEF Init, NoCheckpoint, Promise!Init
<1>2. Inv /\ [Next]_vars => [Promise!Next]_(Promise!vars)
  <2> SUFFICES ASSUME Inv, [Next]_vars PROVE [Promise!Next]_(Promise!vars) OBVIOUS
  <2>1. CASE Loop
    <3>1. Quiet \/ Records
      BY <2>1, GRPORecords, PPORecords, DistillationRecords, SupervisedRecords DEF Loop
    <3>2. CASE Quiet BY <3>2, QuietStutters
    <3>3. CASE Records BY <3>3, RecordsAreSteps DEF Promise!Next
    <3> QED BY <3>1, <3>2, <3>3
  <2>2. CASE FinishRefit
    <3>1. Quiet BY <2>2 DEF FinishRefit, rest, Quiet
    <3> QED BY <3>1, QuietStutters
  <2>3. CASE Restart
    BY <2>3 DEF Restart, StartFrom, Promise!Restart, Promise!Next
  <2>4. CASE UNCHANGED vars
    <3>1. Quiet BY <2>4 DEF vars, rest, Quiet
    <3> QED BY <3>1, QuietStutters
  <2> QED BY <2>1, <2>2, <2>3, <2>4 DEF Next
<1> QED BY <1>1, <1>2, InvariantHolds, PTL DEF Spec, PromiseKept, Promise!Spec
=============================================================================
