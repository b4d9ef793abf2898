------------------------ MODULE DistillationTraining -------------------------
(***************************************************************************)
(* distillation_train (nemo_rl/algorithms/distillation.py): the student    *)
(* rolls out, the teacher scores, the student trains; and                  *)
(* xtoken_off_policy_distillation_train                                    *)
(* (nemo_rl/algorithms/xtoken_off_policy_distillation.py): the teachers    *)
(* leave their logits in IPC buffers that the student reads while it       *)
(* trains, and no engine generates.  The teachers take turns, so mem.other *)
(* stands for the one at work.                                             *)
(***************************************************************************)
EXTENDS TrainingJob

DistillationLoop == {"distillation"}
XTokenLoop == {"xtoken"}

DistillationStart ==
  /\ Now(DistillationLoop, "start")
  /\ IF ValAtStart /\ sched.total = 0
       THEN BeginRefit("first_validation")
       ELSE phase' = "loop" /\ UNCHANGED <<mem, gen>>
  /\ UNCHANGED <<sched, data, model, report, rest>>

DistillationFirstValidation ==
  /\ Now(DistillationLoop, "first_validation") /\ phase' = "loop"
  /\ gen' = [gen EXCEPT !.awake = Asleep]
  /\ UNCHANGED <<sched, data, model, mem, report, rest>>

DistillationNextEpoch == NextEpoch(DistillationLoop) /\ UNCHANGED mem
DistillationNextBatch == NextBatch(DistillationLoop)
DistillationEndEpoch == EndEpoch(DistillationLoop)

(* An engine with fresh weights is woken wherever the student is.          *)
DistillationPrepareRollout ==
  /\ Now(DistillationLoop, "prepare")
  /\ IF gen.stale THEN BeginRefit("rollout") ELSE WakeFor("rollout", mem.policy)
  /\ UNCHANGED <<sched, data, model, report, rest>>

(* Rollouts; the teacher is loaded.  On GPUs of its own the engine leaves  *)
(* the student's optimizer where training left it: it is offloaded here.   *)
DistillationRollout ==
  /\ Now(DistillationLoop, "rollout") /\ phase' = "teacher"
  /\ RolledOut
  /\ mem' = [mem EXCEPT !.other = PreparedForInference(@),
               !.policy = IF config.colocated THEN @ ELSE OffloadedBeforeRefit(@)]
  /\ UNCHANGED <<sched, model, report, rest>>

DistillationTeacher ==
  /\ Now(DistillationLoop, "teacher") /\ phase' = "train"
  /\ mem' = [mem EXCEPT !.other = OffloadedAfterRefit(@),
                        !.policy = PreparedForTraining(@)]
  /\ gen' = [gen EXCEPT !.stale = TRUE]
  /\ UNCHANGED <<sched, data, model, report, rest>>

DistillationTrain ==
  /\ Now(DistillationLoop, "train") /\ phase' = "trained"
  /\ model' = Updated
  /\ UNCHANGED <<sched, data, mem, gen, report, rest>>

DistillationPrepareValidation ==
  /\ Now(DistillationLoop, "trained")
  /\ IF ~ValidationDue THEN phase' = "save" /\ UNCHANGED <<mem, gen>>
     ELSE IF gen.stale THEN BeginRefit("validate")
     ELSE WakeFor("validate", mem.policy)
  /\ UNCHANGED <<sched, data, model, report, rest>>

DistillationValidate ==
  /\ Now(DistillationLoop, "validate") /\ phase' = "save"
  /\ gen' = [gen EXCEPT !.awake = Asleep]
  /\ report' = [report EXCEPT !.measured = TRUE]
  /\ UNCHANGED <<sched, data, model, mem, rest>>

DistillationSave ==
  Save(DistillationLoop, sched.step + 1, FreshMetric, TRUE,
       [mem EXCEPT !.policy = PreparedForTraining(@)])

DistillationAdvance == Advance(DistillationLoop) /\ UNCHANGED mem

-----------------------------------------------------------------------------
(* Off-policy distillation across tokenizers                               *)

(* export_teacher_logits_and_pack loads a teacher, fills its buffer and    *)
(* puts it away; the buffer stays.                                         *)
XTokenExport(next) ==
  /\ phase' = "teacher"
  /\ mem' = [mem EXCEPT !.other = PreparedForInference(@)]
  /\ gen' = [gen EXCEPT !.goal = next]

XTokenStart ==
  /\ Now(XTokenLoop, "start")
  /\ IF ValAtStart /\ sched.total = 0
       THEN XTokenExport("first_validation")
       ELSE phase' = "loop" /\ UNCHANGED <<mem, gen>>
  /\ UNCHANGED <<sched, data, model, report, rest>>

XTokenNextEpoch ==
  /\ NextEpoch(XTokenLoop)
  /\ mem' = IF phase' = "done" THEN [mem EXCEPT !.ipc = FALSE] ELSE mem
XTokenNextBatch == NextBatch(XTokenLoop)
XTokenEndEpoch == EndEpoch(XTokenLoop)

XTokenPrepare ==
  /\ Now(XTokenLoop, "prepare")
  /\ XTokenExport("train")
  /\ UNCHANGED <<sched, data, model, report, rest>>

XTokenTeacher ==
  /\ Now(XTokenLoop, "teacher") /\ phase' = gen.goal
  /\ mem' = [policy |-> PreparedForTraining(mem.policy),
             other |-> OffloadedAfterRefit(mem.other), ipc |-> TRUE]
  /\ UNCHANGED <<sched, data, model, gen, report, rest>>

(* The student raises, in training or evaluation: the buffers are released *)
(* first.                                                                  *)
XTokenTrainFails ==
  /\ config.algo = "xtoken" /\ phase \in {"train", "validate", "first_validation"}
  /\ phase' = "failed"
  /\ mem' = [mem EXCEPT !.ipc = FALSE]
  /\ UNCHANGED <<sched, data, model, gen, report, rest>>

(* A teacher raises, for a batch to train on or for one of a validation, or *)
(* the checkpoint does: nothing is released, and part of an export is held. *)
XTokenRaises ==
  LET exporting == [mem EXCEPT !.other = PreparedForInference(@)]
  IN  /\ config.algo = "xtoken"
      /\ phase \in {"teacher", "validate", "first_validation", "save"}
      /\ phase' = "raised"
      /\ \/ mem' = mem
         \/ phase # "save" /\ mem' \in {exporting, [exporting EXCEPT !.ipc = TRUE]}
      /\ UNCHANGED <<sched, data, model, gen, report, rest>>

XTokenTrain ==
  /\ Now(XTokenLoop, "train") /\ phase' = "trained"
  /\ model' = Updated
  /\ UNCHANGED <<sched, data, mem, gen, report, rest>>

XTokenPrepareValidation ==
  /\ Now(XTokenLoop, "trained")
  /\ IF ValidationDue THEN XTokenExport("validate")
     ELSE phase' = "save" /\ UNCHANGED <<mem, gen>>
  /\ UNCHANGED <<sched, data, model, report, rest>>

(* The student is evaluated on every batch, then the buffers are released. *)
XTokenValidate ==
  /\ Now(XTokenLoop, "validate") \/ Now(XTokenLoop, "first_validation")
  /\ phase' = IF phase = "validate" THEN "save" ELSE "loop"
  /\ mem' = [mem EXCEPT !.ipc = FALSE, !.other = OffloadedAfterRefit(@)]
  /\ report' = [report EXCEPT !.measured = (phase = "validate")]
  /\ UNCHANGED <<sched, data, model, gen, rest>>

(* A metric that was not measured in this step keeps its last value.       *)
XTokenMetric == IF report.measured THEN sched.total + 1 ELSE report.metric

XTokenSave ==
  Save(XTokenLoop, sched.step + 1, XTokenMetric, TRUE,
       [mem EXCEPT !.policy = PreparedForTraining(@)])

XTokenAdvance ==
  /\ Advance(XTokenLoop)
  /\ mem' = IF phase' \in Ended THEN [mem EXCEPT !.ipc = FALSE] ELSE mem

DistillationNext ==
  \/ DistillationStart \/ DistillationFirstValidation
  \/ DistillationNextEpoch \/ DistillationNextBatch \/ DistillationEndEpoch
  \/ DistillationPrepareRollout \/ DistillationRollout \/ DistillationTeacher
  \/ DistillationTrain \/ DistillationPrepareValidation
  \/ DistillationValidate \/ DistillationSave \/ DistillationAdvance
  \/ XTokenStart \/ XTokenNextEpoch \/ XTokenNextBatch \/ XTokenEndEpoch
  \/ XTokenPrepare \/ XTokenTeacher \/ XTokenTrainFails \/ XTokenRaises \/ XTokenTrain
  \/ XTokenPrepareValidation \/ XTokenValidate \/ XTokenSave \/ XTokenAdvance
=============================================================================
