------------------------- MODULE SupervisedTraining --------------------------
(***************************************************************************)
(* sft_train, dpo_train and rm_train (nemo_rl/algorithms/sft.py, dpo.py,   *)
(* rm.py): no engine, and a policy that stays on the GPUs.  DPO computes   *)
(* the reference log-probabilities of a batch as the batch is drawn.       *)
(***************************************************************************)
EXTENDS TrainingJob

SFTLoop == {"sft"}
DPOLoop == {"dpo"}
RMLoop == {"rm"}

(* Initial validation, then prepare_for_training once                      *)
FirstValidationOf(algos) ==
  /\ Now(algos, "start")
  /\ phase' = IF ValAtStart /\ sched.total = 0 THEN "first_validation" ELSE "loop"
  /\ mem' = [mem EXCEPT !.policy = PreparedForTraining(@)]
  /\ UNCHANGED <<sched, data, model, gen, report, rest>>

(* validate: train(eval_mode=True) on the validation set, which ends with  *)
(* prepare_for_training                                                    *)
ValidationOf(algos) ==
  /\ Now(algos, "first_validation") \/ Now(algos, "validate")
  /\ phase' = IF phase = "validate" THEN "save" ELSE "loop"
  /\ mem' = [mem EXCEPT !.policy = PreparedForTraining(@)]
  /\ report' = [report EXCEPT !.measured = (phase = "validate")]
  /\ UNCHANGED <<sched, data, model, gen, rest>>

TrainingOf(algos) ==
  /\ Now(algos, "train")
  /\ phase' = IF ValidationDue THEN "validate" ELSE "save"
  /\ model' = Updated
  /\ UNCHANGED <<sched, data, mem, gen, report, rest>>

(* The step of the save state wraps at the end of an epoch, the epoch does *)
(* not advance with it.                                                    *)
StepSaved == (sched.step + 1) % Batches

-----------------------------------------------------------------------------
SFTStart == FirstValidationOf(SFTLoop)
SFTValidate == ValidationOf(SFTLoop)
SFTNextEpoch == NextEpoch(SFTLoop) /\ UNCHANGED mem
SFTNextBatch == NextBatch(SFTLoop)
SFTEndEpoch == EndEpoch(SFTLoop)
SFTPrepare ==
  /\ Now(SFTLoop, "prepare") /\ phase' = "train"
  /\ UNCHANGED <<sched, data, model, mem, gen, report, rest>>
SFTTrain == TrainingOf(SFTLoop)
SFTSave == Save(SFTLoop, StepSaved, FreshMetric, TRUE, mem)
SFTAdvance == Advance(SFTLoop) /\ UNCHANGED mem

-----------------------------------------------------------------------------
DPOStart == FirstValidationOf(DPOLoop)
DPOValidate == ValidationOf(DPOLoop)
DPONextEpoch == NextEpoch(DPOLoop) /\ UNCHANGED mem
DPONextBatch == NextBatch(DPOLoop)
DPOEndEpoch == EndEpoch(DPOLoop)
(* add_ref_logprobs_to_data: get_reference_policy_logprobs, unprepared     *)
DPOPrepare ==
  /\ Now(DPOLoop, "prepare") /\ phase' = "logprobs"
  /\ UNCHANGED <<sched, data, model, mem, gen, report, rest>>
DPOReference ==
  /\ Now(DPOLoop, "logprobs") /\ phase' = "train"
  /\ UNCHANGED <<sched, data, model, mem, gen, report, rest>>
DPOTrain == TrainingOf(DPOLoop)
DPOSave == Save(DPOLoop, StepSaved, FreshMetric, TRUE, mem)
DPOAdvance == Advance(DPOLoop) /\ UNCHANGED mem

-----------------------------------------------------------------------------
RMStart == FirstValidationOf(RMLoop)
RMValidate == ValidationOf(RMLoop)
RMNextEpoch == NextEpoch(RMLoop) /\ UNCHANGED mem
RMNextBatch == NextBatch(RMLoop)
RMEndEpoch == EndEpoch(RMLoop)
RMPrepare ==
  /\ Now(RMLoop, "prepare") /\ phase' = "train"
  /\ UNCHANGED <<sched, data, model, mem, gen, report, rest>>
RMTrain == TrainingOf(RMLoop)
RMSave == Save(RMLoop, StepSaved, FreshMetric, TRUE, mem)
RMAdvance == Advance(RMLoop) /\ UNCHANGED mem

SupervisedNext ==
  \/ SFTStart \/ SFTValidate \/ SFTNextEpoch \/ SFTNextBatch \/ SFTEndEpoch
  \/ SFTPrepare \/ SFTTrain \/ SFTSave \/ SFTAdvance
  \/ DPOStart \/ DPOValidate \/ DPONextEpoch \/ DPONextBatch \/ DPOEndEpoch
  \/ DPOPrepare \/ DPOReference \/ DPOTrain \/ DPOSave \/ DPOAdvance
  \/ RMStart \/ RMValidate \/ RMNextEpoch \/ RMNextBatch \/ RMEndEpoch
  \/ RMPrepare \/ RMTrain \/ RMSave \/ RMAdvance
=============================================================================
