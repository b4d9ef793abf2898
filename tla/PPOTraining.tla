---------------------------- MODULE PPOTraining -----------------------------
(***************************************************************************)
(* ppo_train (nemo_rl/algorithms/ppo.py): policy, value model and engine   *)
(* share the GPUs.  For warmup steps only the value model is trained, and  *)
(* every rollout is trained on PPOEpochs times.                            *)
(***************************************************************************)
EXTENDS TrainingJob

PPOLoop == {"ppo"}

PPOStart ==
  /\ Now(PPOLoop, "start")
  /\ IF ValAtStart /\ sched.step = 0
       THEN BeginRefit("first_validation")
       ELSE phase' = "loop" /\ UNCHANGED <<mem, gen>>
  /\ UNCHANGED <<sched, data, model, report, rest>>

PPOFirstValidation ==
  /\ Now(PPOLoop, "first_validation") /\ phase' = "loop"
  /\ gen' = [gen EXCEPT !.awake = Asleep]
  /\ UNCHANGED <<sched, data, model, mem, report, rest>>

PPONextEpoch == NextEpoch(PPOLoop) /\ UNCHANGED mem
PPONextBatch == NextBatch(PPOLoop)
PPOEndEpoch == EndEpoch(PPOLoop)

PPOPrepareRollout ==
  LET loaded == PreparedForInference(mem.policy)
  IN  /\ Now(PPOLoop, "prepare")
      /\ \/ /\ ~gen.stale
            /\ WakeFor("rollout", PolicyAside)
         \/ /\ gen.stale /\ config.kv /\ gen.cache = None
            /\ phase' = "calibrate"
            /\ mem' = [mem EXCEPT !.policy = loaded, !.other = ValueFinished(@)]
            /\ UNCHANGED gen
         \/ /\ gen.stale /\ (config.kv => gen.cache # None)
            /\ phase' = "refit"
            /\ mem' = [mem EXCEPT !.policy = OffloadedBeforeRefit(loaded),
                                  !.other = ValueFinished(@)]
            /\ gen' = [gen EXCEPT !.awake = Awake({"weights"}),
                                  !.goal = "rollout"]
      /\ UNCHANGED <<sched, data, model, report, rest>>

PPOCalibrate ==
  /\ Now(PPOLoop, "calibrate") /\ phase' = "refit"
  /\ mem' = [mem EXCEPT !.policy = OffloadedBeforeRefit(@)]
  /\ gen' = [gen EXCEPT !.cache = model.version, !.goal = "rollout",
               !.awake = Awake({"weights"})]
  /\ UNCHANGED <<sched, data, model, report, rest>>

(* Rollouts; the engine sleeps and the value model is loaded.              *)
PPORollout ==
  /\ Now(PPOLoop, "rollout") /\ phase' = "values"
  /\ RolledOut
  /\ mem' = [mem EXCEPT !.other = ValueForInference(@)]
  /\ UNCHANGED <<sched, model, report, rest>>

PPOValues ==
  /\ Now(PPOLoop, "values") /\ phase' = "logprobs"
  /\ mem' = [mem EXCEPT !.other = InferenceFinished(@),
                        !.policy = PreparedForInference(@)]
  /\ UNCHANGED <<sched, data, model, gen, report, rest>>

PPOLogprobs ==
  /\ Now(PPOLoop, "logprobs") /\ phase' = "critic"
  /\ mem' = [mem EXCEPT !.policy = InferenceFinished(@),
                        !.other = PreparedForTraining(@)]
  /\ UNCHANGED <<sched, data, model, gen, report, rest>>

WarmingUp == sched.total < config.warmup
LastPass == data.pass + 1 = PPOEpochs

(* One pass over the rollouts ends: another one, or what follows training  *)
PassEnds(m) ==
  IF LastPass
    THEN /\ phase' = IF config.kv THEN "recalibrate" ELSE "trained"
         /\ mem' = m
         /\ data' = [data EXCEPT !.pass = 0]
    ELSE /\ phase' = "critic"
         /\ mem' = [m EXCEPT !.other = PreparedForTraining(@)]
         /\ data' = [data EXCEPT !.pass = @ + 1]

(* The value model is trained and put away; so much for the warm-up.       *)
PPOTrainValue ==
  LET finished == [mem EXCEPT !.other = ValueFinished(@)]
  IN  /\ Now(PPOLoop, "critic")
      /\ IF WarmingUp
           THEN PassEnds(finished) /\ UNCHANGED gen
           ELSE /\ phase' = "train"
                /\ mem' = [finished EXCEPT !.policy = PreparedForTraining(@)]
                /\ gen' = [gen EXCEPT !.stale = TRUE]
                /\ UNCHANGED data
      /\ UNCHANGED <<sched, model, report, rest>>

(* Between passes the policy makes room for the value model.               *)
PPOTrainPolicy ==
  /\ Now(PPOLoop, "train")
  /\ model' = Updated
  /\ PassEnds(IF LastPass THEN mem
              ELSE [mem EXCEPT !.policy = OffloadedAfterRefit(@)])
  /\ UNCHANGED <<sched, gen, report, rest>>

(* calibrate_qkv_fp8_scales on the training data, wherever the policy is   *)
PPORecalibrate ==
  /\ Now(PPOLoop, "recalibrate") /\ phase' = "trained"
  /\ gen' = [gen EXCEPT !.cache = model.version, !.stale = TRUE]
  /\ UNCHANGED <<sched, data, model, mem, report, rest>>

(* A warm-up step leaves the policy away: its forward in the calibration,  *)
(* or the transfer for the validation that follows, may raise.             *)
PPOPolicyMissing ==
  /\ config.algo = "ppo" /\ phase \in {"recalibrate", "refit"}
  /\ mem.policy.params = "cpu"
  /\ phase' = "raised"
  /\ UNCHANGED <<sched, data, model, mem, gen, report, rest>>

PPOPrepareValidation ==
  /\ Now(PPOLoop, "trained")
  /\ IF ~ValidationDue THEN phase' = "save" /\ UNCHANGED <<mem, gen>>
     ELSE IF gen.stale THEN BeginRefit("validate")
     ELSE WakeFor("validate", PolicyAside)
  /\ UNCHANGED <<sched, data, model, report, rest>>

PPOValidate ==
  /\ Now(PPOLoop, "validate") /\ phase' = "save"
  /\ gen' = [gen EXCEPT !.awake = Asleep]
  /\ report' = [report EXCEPT !.measured = TRUE]
  /\ UNCHANGED <<sched, data, model, mem, rest>>

(* Mutant: the optimizer is saved one step too early                       *)
PPOSaveEarly ==
  Save(PPOLoop, sched.step + 1, FreshMetric, sched.total + 1 >= config.warmup,
       [mem EXCEPT !.policy = OffloadedAfterRefit(@), !.other = ValueFinished(@)])
(* The policy is loaded, saved and put away, then the value model; the     *)
(* optimizer of a policy that was never trained is not saved.              *)
PPOSave ==
  Save(PPOLoop, sched.step + 1, FreshMetric, ~WarmingUp,
       [mem EXCEPT !.policy = OffloadedAfterRefit(@), !.other = ValueFinished(@)])

PPOAdvance == Advance(PPOLoop) /\ UNCHANGED mem

PPONext ==
  \/ PPOStart \/ PPOFirstValidation
  \/ PPONextEpoch \/ PPONextBatch \/ PPOEndEpoch
  \/ PPOPrepareRollout \/ PPOCalibrate \/ PPORollout \/ PPOValues
  \/ PPOLogprobs \/ PPOTrainValue \/ PPOTrainPolicy \/ PPORecalibrate \/ PPOPolicyMissing
  \/ PPOPrepareValidation \/ PPOValidate \/ PPOSave \/ PPOAdvance
=============================================================================
