------------------------------ MODULE DataPath ------------------------------
(***************************************************************************)
(* What moves between the driver and its workers: a batch on its way to    *)
(* the policy (the conversations of a rollout, or rows of a dataset as     *)
(* supervised and preference training read them, and the call of the       *)
(* policy that is made with their lengths) or to the generation engines,   *)
(* or the weights on their way to these.  The driver waits for every call  *)
(* it makes, so there is one of them at a time; before the first of them   *)
(* it sets up the clusters and the workers it will call.                   *)
(***************************************************************************)
EXTENDS Rollouts, PolicyCalls, TokenLayout, GenerationFleet, WeightTransfer, JobSetup, Learning, TokenAlignment, CrossTokenizerLoss

CONSTANTS
  RolloutCalls,    \* calls made with the batch of a rollout
  DatasetCalls,    \* <<call, lengths>>: calls made with rows of a dataset
  FourRowCalls,    \* calls made with any four rows
  RowLens          \* of these lengths

(* What a caller and the configuration can ask of the policy.              *)
ASSUME CallConstants ==
  /\ RowLens \subseteq Nat
  /\ \A d \in DatasetCalls : d[2] \in Seq(Nat)
  /\ \A c \in RolloutCalls \cup FourRowCalls \cup {d[1] : d \in DatasetCalls} :
       /\ c.op \in DOMAIN Operations /\ c.batching \in {"plain", "dynamic", "packed"}
       /\ c.alg \in Algorithms /\ {c.gbs, c.mbs} \subseteq Nat \ {0}
       /\ c.axes \in [Range(Axes) -> Nat \ {0}]

dataVars == <<rolloutVars, callVars, layoutVars, fleetVars, xferVars, setupVars, learnVars, alignVars, distilVars>>

DataInit ==
  /\ RolloutInit \/ NoRollout
  /\ PolicyIdle /\ NoScoring /\ NoGeneration /\ NoTransfer /\ NoSetup /\ NoLesson /\ NoAlignment /\ NoDistillation

RolloutBatch ==
  /\ phase = "idle" /\ status = "done" /\ job.tasks # <<>>
  /\ \E c \in RolloutCalls : Call(c, [i \in 1 .. Cardinality(Samples) |-> Size(log[i - 1])])
  /\ UNCHANGED <<rolloutVars, layoutVars, fleetVars, xferVars, setupVars, learnVars, alignVars, distilVars>>

Unused ==
  /\ phase = "idle" /\ job.tasks = <<>> /\ pass = "none" /\ gen = "none" /\ refit = "none" /\ setupAt = "none"
  /\ learnAt = "none" /\ alignAt = "none" /\ distilAt = "none"

DatasetBatch ==
  /\ Unused
  /\ \/ \E d \in DatasetCalls : Call(d[1], d[2])
     \/ \E c \in FourRowCalls, l \in [1 .. 4 -> RowLens] : Call(c, l)
  /\ UNCHANGED <<rolloutVars, layoutVars, fleetVars, xferVars, setupVars, learnVars, alignVars, distilVars>>

ScoreBatch ==
  /\ Unused /\ \E s \in Scorings : Score(s)
  /\ UNCHANGED <<rolloutVars, callVars, fleetVars, xferVars, setupVars, learnVars, alignVars, distilVars>>

GenerateBatch ==
  /\ Unused /\ \E f \in Fleets : GenerateWith(f)
  /\ UNCHANGED <<rolloutVars, callVars, layoutVars, xferVars, setupVars, learnVars, alignVars, distilVars>>

RefitGeneration ==
  /\ Unused /\ \E x \in Transfers : Refit(x)
  /\ UNCHANGED <<rolloutVars, callVars, layoutVars, fleetVars, setupVars, learnVars, alignVars, distilVars>>

SetUpJob ==
  /\ Unused /\ \E d \in Deployments : SetUp(d)
  /\ UNCHANGED <<rolloutVars, callVars, layoutVars, fleetVars, xferVars, learnVars, alignVars, distilVars>>

LearnFromBatch ==
  /\ Unused /\ \E l \in Lessons : Learn(l)
  /\ UNCHANGED <<rolloutVars, callVars, layoutVars, fleetVars, xferVars, setupVars, alignVars, distilVars>>

AlignTexts ==
  /\ Unused /\ \E x \in Texts : Align(x)
  /\ UNCHANGED <<rolloutVars, callVars, layoutVars, fleetVars, xferVars, setupVars, learnVars, distilVars>>

DistillBatch ==
  /\ Unused /\ \E x \in Distillations : Distill(x)
  /\ UNCHANGED <<rolloutVars, callVars, layoutVars, fleetVars, xferVars, setupVars, learnVars, alignVars>>

Over ==
  /\ status = "raised" \/ phase \in {"answered", "failed"}
       \/ pass \in {"answered", "graded", "raised"} \/ gen \in {"answered", "raised"} \/ refit \in {"updated", "raised"}
       \/ SetupOver \/ LearnOver \/ AlignmentOver \/ DistillationOver
  /\ UNCHANGED dataVars

DataNext ==
  \/ Step /\ UNCHANGED <<callVars, layoutVars, fleetVars, xferVars, setupVars, learnVars, alignVars, distilVars>>
  \/ RolloutBatch \/ DatasetBatch \/ ScoreBatch \/ GenerateBatch \/ RefitGeneration \/ SetUpJob \/ LearnFromBatch
  \/ AlignTexts \/ DistillBatch
  \/ PolicyStep /\ UNCHANGED <<rolloutVars, layoutVars, fleetVars, xferVars, setupVars, learnVars, alignVars, distilVars>>
  \/ ScoringStep /\ UNCHANGED <<rolloutVars, callVars, fleetVars, xferVars, setupVars, learnVars, alignVars, distilVars>>
  \/ GenerationStep /\ UNCHANGED <<rolloutVars, callVars, layoutVars, xferVars, setupVars, learnVars, alignVars, distilVars>>
  \/ TransferStep /\ UNCHANGED <<rolloutVars, callVars, layoutVars, fleetVars, setupVars, learnVars, alignVars, distilVars>>
  \/ SetupStep /\ UNCHANGED <<rolloutVars, callVars, layoutVars, fleetVars, xferVars, learnVars, alignVars, distilVars>>
  \/ LearnStep /\ UNCHANGED <<rolloutVars, callVars, layoutVars, fleetVars, xferVars, setupVars, alignVars, distilVars>>
  \/ AlignmentStep /\ UNCHANGED <<rolloutVars, callVars, layoutVars, fleetVars, xferVars, setupVars, learnVars, distilVars>>
  \/ DistillationStep /\ UNCHANGED <<rolloutVars, callVars, layoutVars, fleetVars, xferVars, setupVars, learnVars, alignVars>>
  \/ Over

DataSpec == DataInit /\ [][DataNext]_dataVars

-----------------------------------------------------------------------------
(* Whoever is asked about a batch, the policy or the generation engines,   *)
(* the answers come back row for row, and no worker of the policy is left  *)
(* waiting for the others.                                                 *)
RowsAnswered == RowsServed /\ EachAnswered /\ RanksInStep

(* Tokens keep their meaning and their place: in the layout that a policy  *)
(* worker computes on, and when the texts of two tokenizers are matched.   *)
TokensInPlace == TokensAligned /\ TextsAligned

(* What a rank learns adds up to what the batch says, from its own rows    *)
(* and from what teachers say of them.                                     *)
LossesWhole == BatchLearnt /\ DistilledInPlace
=============================================================================
