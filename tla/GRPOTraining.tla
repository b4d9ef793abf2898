---------------------------- MODULE GRPOTraining ----------------------------
(***************************************************************************)
(* grpo_train (nemo_rl/algorithms/grpo.py), the synchronous loop without a *)
(* data plane: rollouts, DAPO's dynamic sampling, log-probabilities,       *)
(* training, FP8 KV scales, validation and checkpoint.  Rewards,           *)
(* advantages, losses and metrics are data.                                *)
(***************************************************************************)
EXTENDS TrainingJob

GRPOLoop == {"grpo"}

(* Initial validation, only at step 0 of an epoch: always after a refit.   *)
GRPOStart ==
  /\ Now(GRPOLoop, "start")
  /\ IF ValAtStart /\ sched.step = 0
       THEN BeginRefit("first_validation")
       ELSE phase' = "loop" /\ UNCHANGED <<mem, gen>>
  /\ UNCHANGED <<sched, data, model, report, rest>>

GRPOFirstValidation ==
  /\ Now(GRPOLoop, "first_validation") /\ phase' = "loop"
  /\ gen' = [gen EXCEPT !.awake = Asleep]
  /\ UNCHANGED <<sched, data, model, mem, report, rest>>

GRPONextEpoch == NextEpoch(GRPOLoop) /\ UNCHANGED mem
GRPONextBatch == NextBatch(GRPOLoop)
GRPOEndEpoch == EndEpoch(GRPOLoop)

(* Mutant: an engine with fresh weights is woken beside the optimizer      *)
GRPOPrepareRolloutTogether ==
  /\ Now(GRPOLoop, "prepare")
  /\ IF gen.stale THEN BeginRefit("rollout") ELSE WakeFor("rollout", mem.policy)
  /\ UNCHANGED <<sched, data, model, report, rest>>
GRPOPrepareRollout ==
  /\ Now(GRPOLoop, "prepare")
  /\ IF ~gen.stale THEN WakeFor("rollout", PolicyAside)
     ELSE IF config.kv /\ gen.cache = None
            THEN /\ phase' = "calibrate"
                 /\ mem' = [mem EXCEPT !.policy = PreparedForInference(@)]
                 /\ UNCHANGED gen
            ELSE BeginRefit("rollout")
  /\ UNCHANGED <<sched, data, model, report, rest>>

(* calibrate_qkv_fp8_scales on the prompts, then the refit                 *)
GRPOCalibrate ==
  /\ Now(GRPOLoop, "calibrate") /\ phase' = "refit"
  /\ mem' = [mem EXCEPT !.policy =
               IF config.colocated THEN OffloadedBeforeRefit(@) ELSE @]
  /\ gen' = [gen EXCEPT !.cache = model.version, !.goal = "rollout",
               !.awake = Awake({"weights"})]
  /\ UNCHANGED <<sched, data, model, report, rest>>

GRPORollout ==
  /\ Now(GRPOLoop, "rollout") /\ phase' = "filter"
  /\ RolledOut
  /\ UNCHANGED <<sched, model, mem, report, rest>>

(* dynamic_sampling: the prompts kept from the batches so far may suffice, *)
(* may not, and may have to after too many batches; a batch of which no    *)
(* prompt is kept leaves no trace.                                         *)
DynamicSampling ==
  LET newest == <<sched.epoch, sched.pos - 1>>
  IN  \E complete \in BOOLEAN, kept \in {data.batch, data.batch \ {newest}} :
        /\ ~config.dynamic => complete
        /\ complete => kept = data.batch
        /\ data' = [data EXCEPT !.batch = kept]
        /\ \/ /\ complete
              /\ phase' = IF config.skipLP THEN "logprobs_skipped" ELSE "logprobs"
              /\ mem' = IF config.skipLP THEN mem
                        ELSE [mem EXCEPT !.policy = PreparedForInference(@)]
           \/ /\ ~complete
              /\ phase' = IF data.numGen <= MaxGenBatches THEN "batch"
                          ELSE "failed"
              /\ UNCHANGED mem

GRPOFilter ==
  /\ Now(GRPOLoop, "filter")
  /\ DynamicSampling
  /\ UNCHANGED <<sched, model, gen, report, rest>>

(* Mutant: the engine is not marked stale                                  *)
GRPOPrepareTrainingFresh ==
  /\ Now(GRPOLoop, "logprobs") \/ Now(GRPOLoop, "logprobs_skipped")
  /\ phase' = "train"
  /\ mem' = [mem EXCEPT !.policy = PreparedForTraining(@)]
  /\ UNCHANGED <<sched, data, model, gen, report, rest>>
GRPOPrepareTraining ==
  /\ Now(GRPOLoop, "logprobs") \/ Now(GRPOLoop, "logprobs_skipped")
  /\ phase' = "train"
  /\ mem' = [mem EXCEPT !.policy = PreparedForTraining(@)]
  /\ gen' = [gen EXCEPT !.stale = TRUE]
  /\ UNCHANGED <<sched, data, model, report, rest>>

GRPOTrain ==
  /\ Now(GRPOLoop, "train")
  /\ phase' = IF config.kv THEN "recalibrate" ELSE "trained"
  /\ model' = Updated
  /\ UNCHANGED <<sched, data, mem, gen, report, rest>>

GRPORecalibrate ==
  /\ Now(GRPOLoop, "recalibrate") /\ phase' = "trained"
  /\ gen' = [gen EXCEPT !.cache = model.version, !.stale = TRUE]
  /\ UNCHANGED <<sched, data, model, mem, report, rest>>

GRPOPrepareValidation ==
  /\ Now(GRPOLoop, "trained")
  /\ IF ~ValidationDue THEN phase' = "save" /\ UNCHANGED <<mem, gen>>
     ELSE IF gen.stale THEN BeginRefit("validate")
     ELSE WakeFor("validate", PolicyAside)
  /\ UNCHANGED <<sched, data, model, report, rest>>

(* validate: rollouts on the validation set                                *)
GRPOValidate ==
  /\ Now(GRPOLoop, "validate") /\ phase' = "save"
  /\ gen' = [gen EXCEPT !.awake = Asleep]
  /\ report' = [report EXCEPT !.measured = TRUE]
  /\ UNCHANGED <<sched, data, model, mem, rest>>

GRPOSave ==
  Save(GRPOLoop, sched.step + 1, FreshMetric, TRUE,
       [mem EXCEPT !.policy = PreparedForTraining(@)])

GRPOAdvance == Advance(GRPOLoop) /\ UNCHANGED mem

GRPONext ==
  \/ GRPOStart \/ GRPOFirstValidation
  \/ GRPONextEpoch \/ GRPONextBatch \/ GRPOEndEpoch
  \/ GRPOPrepareRollout \/ GRPOCalibrate \/ GRPORollout \/ GRPOFilter
  \/ GRPOPrepareTraining \/ GRPOTrain \/ GRPORecalibrate
  \/ GRPOPrepareValidation \/ GRPOValidate \/ GRPOSave \/ GRPOAdvance
=============================================================================
