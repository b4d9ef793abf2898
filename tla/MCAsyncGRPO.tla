---------------------------- MODULE MCAsyncGRPO ----------------------------
EXTENDS AsyncGRPOProperties, TLC

(* Worker slots are interchangeable (used by runs without liveness). *)
SlotSymmetry == Permutations(Slots)

(* A job that crashed before its first checkpoint starts from Init again,  *)
(* which explores nothing new; once the weights of the last step are in    *)
(* the engine the trainer saves and ends, and asks for no further batch.   *)
Relevant ==
  /\ crashes > 0 /\ tpc = "setup" => saved.step > 0
  /\ step = MaxSteps - 1 => tpc \notin {"trained", "save", "dataloaderState", "snapshot", "advance"}

(* After the last crash the checkpoint is never read.                      *)
Outlook ==
  <<trainerVars, genWeights, bufferVars, actorVars, gates, threadVars, budgetVars,
    IF crashes = MaxCrashes THEN {} ELSE {saved}>>
=============================================================================
