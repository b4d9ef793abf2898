--------------------------- MODULE SyncGRPOProofs ---------------------------
(***************************************************************************)
(* Proofs about SyncGRPO, for every value of its constants: what it trains *)
(* on and under which weights, that it asks the data plane for nothing     *)
(* that is not there, loses no prompt, and keeps the promise of            *)
(* OnPolicyTraining.                                                       *)
(***************************************************************************)
EXTENDS SyncGRPO, TLAPS, FiniteSetTheorems, FunctionTheorems

RankStates == {"idle", "fetch", "compute", "back"}

(* What OnPolicy rests on: an engine not called stale has the policy's     *)
(* weights, and the flag is up before a rank can take part in an update.   *)
EngineInv ==
  /\ rank \in [Ranks -> RankStates]
  /\ stale \in BOOLEAN
  /\ ~stale => genWeights = Len(weights)
  /\ phase \notin Stage \cup Ended => \A k \in Ranks : rank[k] = "idle"
  /\ phase = "train" => stale \/ (\A k \in Ranks : rank[k] = "idle")
  /\ OnPolicy

LEMMA EngineInit == Init => EngineInv
  BY DEF Init, EngineInv, OnPolicy, RankStates, Stage, Ended

LEMMA EngineStep == EngineInv /\ [Next]_vars => EngineInv'
<1> SUFFICES ASSUME EngineInv, [Next]_vars
             PROVE  EngineInv'
  OBVIOUS
<1> USE DEF Stage, Ended, RankStates
<1>1. CASE Start
  BY <1>1 DEF Start, Refit, EngineInv, OnPolicy, engine, schedule, rows, ranks, fixed
<1>2. CASE Validate
  BY <1>2 DEF Validate, EngineInv, OnPolicy, engine, schedule, rows, ranks, fixed
<1>3. CASE BeginEpoch
  BY <1>3 DEF BeginEpoch, EngineInv, OnPolicy, engine, schedule, rows, ranks, fixed
<1>4. CASE EndTraining
  BY <1>4 DEF EndTraining, EngineInv, OnPolicy, engine, schedule, rows, ranks, fixed
<1>5. CASE EndEpoch
  BY <1>5 DEF EndEpoch, EngineInv, OnPolicy, engine, schedule, rows, ranks, fixed
<1>6. CASE Draw
  BY <1>6 DEF Draw, Refit, EngineInv, OnPolicy, engine, schedule, rows, ranks, fixed
<1>7. CASE Rollout
  BY <1>7 DEF Rollout, EngineInv, OnPolicy, engine, schedule, rows, ranks, fixed
<1>8. CASE CompleteBatch
  BY <1>8 DEF CompleteBatch, EngineInv, OnPolicy, engine, schedule, rows, ranks, fixed
<1>9. CASE SampleMore
  BY <1>9 DEF SampleMore, EngineInv, OnPolicy, engine, schedule, rows, ranks, fixed
<1>10. CASE Dispatch
  BY <1>10 DEF Dispatch, MarkStale, EngineInv, OnPolicy, engine, schedule, rows, ranks, fixed
<1>11. CASE \E k \in Ranks : Fetch(k)
  BY <1>11 DEF Fetch, EngineInv, OnPolicy, engine, schedule, rows, ranks, fixed
<1>12. CASE \E k \in Ranks : WriteBack(k)
  BY <1>12 DEF WriteBack, EngineInv, OnPolicy, engine, schedule, rows, ranks, fixed
<1>13. CASE Join
  BY <1>13 DEF Join, EngineInv, OnPolicy, engine, schedule, rows, ranks, fixed
<1>14. CASE Advantage
  BY <1>14 DEF Advantage, EngineInv, OnPolicy, engine, schedule, rows, ranks, fixed
<1>15. CASE Train
  <2>1. stale
    BY <1>15, SyncConstants DEF Train, AllAt, EngineInv
  <2> QED
    BY <1>15, <2>1 DEF Train, EngineInv, OnPolicy, engine, schedule, rows, fixed
<1>16. CASE FinishStep
  BY <1>16 DEF FinishStep, Refit, EngineInv, OnPolicy, engine, schedule, rows, ranks, fixed
<1>17. CASE EndStep
  BY <1>17 DEF EndStep, EngineInv, OnPolicy, engine, schedule, rows, ranks, fixed
<1>18. CASE Crash
  BY <1>18 DEF Crash, EngineInv, OnPolicy, engine, schedule, rows, ranks, fixed
<1>19. CASE Relaunch
  BY <1>19 DEF Relaunch, EngineInv, OnPolicy, fixed
<1>20. CASE UNCHANGED vars
  BY <1>20 DEF vars, EngineInv, OnPolicy, engine, schedule, rows, ranks, fixed
<1> QED
  BY <1>1, <1>2, <1>3, <1>4, <1>5, <1>6, <1>7, <1>8, <1>9, <1>10, <1>11, <1>12,
     <1>13, <1>14, <1>15, <1>16, <1>17, <1>18, <1>19, <1>20
     DEF Next, Driver, RankStep

(* Every rollout and every validation runs on the weights the policy has,  *)
(* through refits, updates, crashes and restarts.                          *)
THEOREM OnPolicyHolds == Spec => []OnPolicy
<1>1. EngineInv => OnPolicy
  BY DEF EngineInv
<1> QED
  BY EngineInit, EngineStep, <1>1, PTL DEF Spec

-----------------------------------------------------------------------------
(* Rows in the data plane                                                  *)

Current == {r \in DOMAIN store : r.epoch = epoch}

(* What RowsOwned rests on: where a row may be in each phase, that a       *)
(* pending row was drawn earlier than the batch at hand, and that a rank   *)
(* only ever writes rows of meta.                                          *)
OwnInv ==
  /\ epoch \in Nat /\ pos \in Nat /\ ckpt.epoch \in Nat /\ ckpt.pos \in Nat
  /\ \A r \in DOMAIN store : r.epoch \in Nat /\ r.epoch <= epoch
  /\ phase \in {"start", "first_validation", "epoch"} => Current = {}
  /\ phase \in {"start", "first_validation", "epoch", "draw", "rollout",
                "validation", "save"} => meta = {}
  /\ phase \in Stage \cup {"advantage", "finish", "validation", "save"} =>
       pending = {}
  /\ ~config.dynamic => pending = {} /\ phase # "filter"
  /\ phase \notin Ended \cup {"epoch"} =>
       /\ pending \cap flat = {}
       /\ \A r \in meta \cup pending : r.batch \in Nat /\ r.batch <= pos
  /\ phase = "rollout" => \A r \in pending : r.batch < pos
  /\ \A k \in Ranks :
       /\ phase \in Stage => shard[k] \subseteq meta
       /\ phase \notin Stage \cup Ended => shard[k] = {}
  /\ RowsOwned

LEMMA DrawnRow ==
  ASSUME NEW r \in DrawnRows
  PROVE  r.epoch = epoch /\ r.batch = pos
  BY DEF DrawnRows

LEMMA OwnInit == Init => OwnInv
  BY DEF Init, OwnInv, RowsOwned, Current, Stage, Ended

LEMMA OwnStep == OwnInv /\ [Next]_vars => OwnInv'
<1> SUFFICES ASSUME OwnInv, [Next]_vars
             PROVE  OwnInv'
  OBVIOUS
<1> USE DEF Stage, Ended
<1>1. CASE Start
  BY <1>1 DEF Start, Refit, OwnInv, RowsOwned, Current, engine, schedule, rows, ranks, fixed
<1>2. CASE Validate
  BY <1>2 DEF Validate, OwnInv, RowsOwned, Current, engine, schedule, rows, ranks, fixed
<1>3. CASE BeginEpoch
  BY <1>3 DEF BeginEpoch, OwnInv, RowsOwned, Current, engine, schedule, rows, ranks, fixed
<1>4. CASE EndTraining
  BY <1>4 DEF EndTraining, OwnInv, RowsOwned, Current, engine, schedule, rows, ranks, fixed
<1>5. CASE EndEpoch
  BY <1>5 DEF EndEpoch, OwnInv, RowsOwned, Current, engine, schedule, rows, ranks, fixed
<1>6. CASE Draw
  BY <1>6 DEF Draw, Refit, OwnInv, RowsOwned, Current, engine, schedule, rows, ranks, fixed
<1>7. CASE Rollout
  BY <1>7, DrawnRow DEF Rollout, Written, OwnInv, RowsOwned, Current, engine, schedule, rows, ranks, fixed
<1>8. CASE CompleteBatch
  BY <1>8 DEF CompleteBatch, Discarded, Kept, Slice, Survivors, Cleared, OwnInv, RowsOwned, Current, engine, schedule, rows, ranks, fixed
<1>9. CASE SampleMore
  BY <1>9 DEF SampleMore, Survivors, Cleared, OwnInv, RowsOwned, Current, engine, schedule, rows, ranks, fixed
<1>10. CASE Dispatch
  BY <1>10 DEF Dispatch, Shards, MarkStale, OwnInv, RowsOwned, Current, engine, schedule, rows, ranks, fixed
<1>11. CASE \E k \in Ranks : Fetch(k)
  BY <1>11 DEF Fetch, OwnInv, RowsOwned, Current, engine, schedule, rows, ranks, fixed
<1>12. CASE \E k \in Ranks : WriteBack(k)
  BY <1>12 DEF WriteBack, Written, OwnInv, RowsOwned, Current, engine, schedule, rows, ranks, fixed
<1>13. CASE Join
  BY <1>13 DEF Join, OwnInv, RowsOwned, Current, engine, schedule, rows, ranks, fixed
<1>14. CASE Advantage
  BY <1>14 DEF Advantage, Written, OwnInv, RowsOwned, Current, engine, schedule, rows, ranks, fixed
<1>15. CASE Train
  BY <1>15 DEF Train, OwnInv, RowsOwned, Current, engine, schedule, rows, ranks, fixed
<1>16. CASE FinishStep
  BY <1>16 DEF FinishStep, Refit, Cleared, OwnInv, RowsOwned, Current, engine, schedule, rows, ranks, fixed
<1>17. CASE EndStep
  BY <1>17 DEF EndStep, Snapshot, OwnInv, RowsOwned, Current, engine, schedule, rows, ranks, fixed
<1>18. CASE Crash
  BY <1>18 DEF Crash, OwnInv, RowsOwned, Current, engine, schedule, rows, ranks, fixed
<1>19. CASE Relaunch
  BY <1>19 DEF Relaunch, OwnInv, RowsOwned, Current, engine, schedule, rows, ranks, fixed
<1>20. CASE UNCHANGED vars
  BY <1>20 DEF vars, OwnInv, RowsOwned, Current, engine, schedule, rows, ranks, fixed
<1> QED
  BY <1>1, <1>2, <1>3, <1>4, <1>5, <1>6, <1>7, <1>8, <1>9, <1>10, <1>11, <1>12,
     <1>13, <1>14, <1>15, <1>16, <1>17, <1>18, <1>19, <1>20
     DEF Next, Driver, RankStep

(* The data plane holds the rows of meta and of pending_meta and no other  *)
(* row of the epoch: nothing leaks within an epoch, and no late write of a *)
(* rank brings a cleared row back.                                         *)
THEOREM RowsOwnedHolds == Spec => []RowsOwned
<1>1. OwnInv => RowsOwned
  BY DEF OwnInv
<1> QED
  BY OwnInit, OwnStep, <1>1, PTL DEF Spec

-----------------------------------------------------------------------------
(* Types                                                                   *)

Updated == {"finish", "validation", "save"}
InStep == {"rollout", "filter", "prev_lp", "ref_lp", "advantage", "train"}
            \cup Updated

(* What TypeOK rests on: the loops' bounds where they were checked, one    *)
(* update of the weights per step, and no more steps than batches drawn.   *)
CountInv ==
  /\ CountersOK
  /\ phase \in InStep \cup {"draw"} =>
       epoch < MaxEpochs /\ total < MaxSteps /\ numGen <= pos
  /\ phase # "stopped" => step <= pos
  /\ phase \in InStep => step < pos
  /\ phase = "rollout" => numGen < pos
  /\ ckpt.step <= ckpt.pos
WeightInv ==
  /\ WeightsOK
  /\ phase \notin {"stopped", "missing"} =>
       Len(weights) = IF phase \in Updated THEN total + 1 ELSE total
  /\ Len(weights) <= MaxSteps
  /\ Len(ckpt.weights) = ckpt.total
TypeInv == CountInv /\ WeightInv /\ RowsOK /\ ckpt \in Checkpoints

LEMMA Constants ==
  /\ P \in Nat /\ G \in Nat /\ Batches \in Nat \ {0} /\ MaxEpochs \in Nat \ {0}
  /\ MaxSteps \in Nat \ {0} /\ MaxCrashes \in Nat
  BY SyncConstants

LEMMA TypeInit == Init => TypeInv
<1> SUFFICES ASSUME Init PROVE TypeInv
  OBVIOUS
<1> USE Constants DEF Init
<1>1. CountInv
  BY DEF CountInv, CountersOK, Phases, Stage, Ended, InStep, Updated
<1>2. <<>> \in TrainedOn /\ Len(<<>>) = 0
  BY DEF TrainedOn
<1>3. WeightInv
  BY <1>2 DEF WeightInv, WeightsOK, Unloaded, Updated
<1>4. RowsOK
  BY DEF RowsOK
<1>5. ckpt \in Checkpoints
  BY <1>2 DEF Checkpoints
<1> QED
  BY <1>1, <1>3, <1>4, <1>5 DEF TypeInv

LEMMA CountStep == TypeInv /\ EngineInv /\ [Next]_vars => CountInv'
<1> SUFFICES ASSUME TypeInv, EngineInv, [Next]_vars
             PROVE  CountInv'
  OBVIOUS
<1> USE Constants DEF Stage, Ended, InStep, Updated, Phases
<1>0. CountInv /\ ckpt \in Checkpoints
  BY DEF TypeInv
<1>1. CASE Start
  BY <1>1, <1>0 DEF Start, CountInv, CountersOK, engine, schedule, rows, ranks, fixed
<1>2. CASE Validate
  BY <1>2, <1>0 DEF Validate, CountInv, CountersOK, engine, schedule, rows, ranks, fixed
<1>3. CASE BeginEpoch
  BY <1>3, <1>0 DEF BeginEpoch, CountInv, CountersOK, engine, schedule, rows, ranks, fixed
<1>4. CASE EndTraining
  BY <1>4, <1>0 DEF EndTraining, CountInv, CountersOK, engine, schedule, rows, ranks, fixed
<1>5. CASE EndEpoch
  BY <1>5, <1>0 DEF EndEpoch, CountInv, CountersOK, engine, schedule, rows, ranks, fixed
<1>6. CASE Draw
  BY <1>6, <1>0 DEF Draw, CountInv, CountersOK, engine, schedule, rows, ranks, fixed
<1>7. CASE Rollout
  BY <1>7, <1>0 DEF Rollout, CountInv, CountersOK, engine, schedule, rows, ranks, fixed
<1>8. CASE CompleteBatch
  BY <1>8, <1>0 DEF CompleteBatch, CountInv, CountersOK, engine, schedule, rows, ranks, fixed
<1>9. CASE SampleMore
  BY <1>9, <1>0 DEF SampleMore, CountInv, CountersOK, engine, schedule, rows, ranks, fixed
<1>10. CASE Dispatch
  BY <1>10, <1>0 DEF Dispatch, MarkStale, CountInv, CountersOK, engine, schedule, rows, ranks, fixed
<1>11. CASE \E k \in Ranks : Fetch(k)
  BY <1>11, <1>0 DEF Fetch, CountInv, CountersOK, engine, schedule, rows, ranks, fixed
<1>12. CASE \E k \in Ranks : WriteBack(k)
  BY <1>12, <1>0 DEF WriteBack, CountInv, CountersOK, engine, schedule, rows, ranks, fixed
<1>13. CASE Join
  BY <1>13, <1>0 DEF Join, CountInv, CountersOK, engine, schedule, rows, ranks, fixed
<1>14. CASE Advantage
  BY <1>14, <1>0 DEF Advantage, CountInv, CountersOK, engine, schedule, rows, ranks, fixed
<1>15. CASE Train
  BY <1>15, <1>0 DEF Train, CountInv, CountersOK, engine, schedule, rows, ranks, fixed
<1>16. CASE FinishStep
  BY <1>16, <1>0 DEF FinishStep, CountInv, CountersOK, engine, schedule, rows, ranks, fixed
<1>17. CASE EndStep
  BY <1>17, <1>0 DEF EndStep, Snapshot, CountInv, CountersOK, engine, schedule, rows, ranks, fixed
<1>18. CASE Crash
  BY <1>18, <1>0 DEF Crash, CountInv, CountersOK, engine, schedule, rows, ranks, fixed
<1>19. CASE Relaunch
  BY <1>19, <1>0 DEF Relaunch, Checkpoints, CountInv, CountersOK, engine, schedule, rows, ranks, fixed
<1>20. CASE UNCHANGED vars
  BY <1>20, <1>0 DEF vars, CountInv, CountersOK, engine, schedule, rows, ranks, fixed
<1> QED
  BY <1>1, <1>2, <1>3, <1>4, <1>5, <1>6, <1>7, <1>8, <1>9, <1>10, <1>11, <1>12,
     <1>13, <1>14, <1>15, <1>16, <1>17, <1>18, <1>19, <1>20
     DEF Next, Driver, RankStep

LEMMA TrainedLen ==
  ASSUME NEW w \in TrainedOn
  PROVE  Len(w) \in Nat
  BY DEF TrainedOn

LEMMA TrainedAppend ==
  ASSUME NEW w \in TrainedOn, NEW R \in SUBSET Row
  PROVE  /\ Append(w, {Group(r) : r \in R}) \in TrainedOn
         /\ Len(Append(w, {Group(r) : r \in R})) = Len(w) + 1
<1>1. \A r \in R :
        Group(r) \in [epoch : 0 .. MaxEpochs, batch : 1 .. Batches,
                     prompt : 1 .. P, ver : 0 .. MaxSteps]
  BY DEF Row, Group
<1>2. {Group(r) : r \in R} \in
        SUBSET [epoch : 0 .. MaxEpochs, batch : 1 .. Batches,
                prompt : 1 .. P, ver : 0 .. MaxSteps]
  BY <1>1
<1> QED
  BY <1>2 DEF TrainedOn

LEMMA WeightStep == TypeInv /\ EngineInv /\ [Next]_vars => WeightInv'
<1> SUFFICES ASSUME TypeInv, EngineInv, [Next]_vars
             PROVE  WeightInv'
  OBVIOUS
<1> USE Constants DEF Stage, Ended, InStep, Updated
<1>0. /\ CountInv /\ WeightInv /\ ckpt \in Checkpoints
      /\ meta \in SUBSET Row
  BY DEF TypeInv, RowsOK
<1>a. Len(weights) \in 0 .. MaxSteps
  BY <1>0, TrainedLen DEF WeightInv, WeightsOK
<1>b. genWeights \in -1 .. MaxSteps /\ stale \in BOOLEAN
  BY <1>0 DEF WeightInv, WeightsOK
<1>c. ASSUME Refit
      PROVE  genWeights' \in -1 .. MaxSteps /\ stale' \in BOOLEAN
  <2>1. Len(weights) \in -1 .. MaxSteps
    BY <1>a
  <2>2. genWeights' \in {Len(weights), genWeights} /\ stale' = FALSE
    BY <1>c DEF Refit
  <2> QED
    BY <1>b, <2>1, <2>2
<1>1. CASE Start
  BY <1>1, <1>0, <1>c DEF Start, WeightInv, WeightsOK, CountInv, CountersOK, engine, schedule, rows, ranks, fixed
<1>2. CASE Validate
  BY <1>2, <1>0 DEF Validate, WeightInv, WeightsOK, CountInv, CountersOK, engine, schedule, rows, ranks, fixed
<1>3. CASE BeginEpoch
  BY <1>3, <1>0 DEF BeginEpoch, WeightInv, WeightsOK, CountInv, CountersOK, engine, schedule, rows, ranks, fixed
<1>4. CASE EndTraining
  BY <1>4, <1>0 DEF EndTraining, WeightInv, WeightsOK, CountInv, CountersOK, engine, schedule, rows, ranks, fixed
<1>5. CASE EndEpoch
  BY <1>5, <1>0 DEF EndEpoch, WeightInv, WeightsOK, CountInv, CountersOK, engine, schedule, rows, ranks, fixed
<1>6. CASE Draw
  BY <1>6, <1>0, <1>c DEF Draw, WeightInv, WeightsOK, CountInv, CountersOK, engine, schedule, rows, ranks, fixed
<1>7. CASE Rollout
  BY <1>7, <1>0 DEF Rollout, WeightInv, WeightsOK, CountInv, CountersOK, engine, schedule, rows, ranks, fixed
<1>8. CASE CompleteBatch
  BY <1>8, <1>0 DEF CompleteBatch, WeightInv, WeightsOK, CountInv, CountersOK, engine, schedule, rows, ranks, fixed
<1>9. CASE SampleMore
  BY <1>9, <1>0 DEF SampleMore, WeightInv, WeightsOK, CountInv, CountersOK, engine, schedule, rows, ranks, fixed
<1>10. CASE Dispatch
  BY <1>10, <1>0 DEF Dispatch, MarkStale, WeightInv, WeightsOK, CountInv, CountersOK, engine, schedule, rows, ranks, fixed
<1>11. CASE \E k \in Ranks : Fetch(k)
  BY <1>11, <1>0 DEF Fetch, WeightInv, WeightsOK, CountInv, CountersOK, engine, schedule, rows, ranks, fixed
<1>12. CASE \E k \in Ranks : WriteBack(k)
  BY <1>12, <1>0 DEF WriteBack, WeightInv, WeightsOK, CountInv, CountersOK, engine, schedule, rows, ranks, fixed
<1>13. CASE Join
  BY <1>13, <1>0 DEF Join, WeightInv, WeightsOK, CountInv, CountersOK, engine, schedule, rows, ranks, fixed
<1>14. CASE Advantage
  BY <1>14, <1>0 DEF Advantage, WeightInv, WeightsOK, CountInv, CountersOK, engine, schedule, rows, ranks, fixed
<1>15. CASE Train
  BY <1>15, <1>0, <1>a, TrainedAppend DEF Train, WeightInv, WeightsOK, CountInv, CountersOK, engine, schedule, rows, ranks, fixed
<1>16. CASE FinishStep
  <2>1. genWeights' \in -1 .. MaxSteps /\ stale' \in BOOLEAN
    BY <1>16, <1>b, <1>c DEF FinishStep, engine
  <2>2. /\ phase = "finish" /\ phase' \in {"validation", "save", "missing"}
        /\ UNCHANGED <<total, weights, rank, config, ckpt>>
    BY <1>16 DEF FinishStep, schedule, ranks, fixed
  <2>3. Len(weights) = total + 1
    BY <1>0, <2>2 DEF WeightInv
  <2> QED
    BY <1>0, <2>1, <2>2, <2>3 DEF WeightInv, WeightsOK
<1>17. CASE EndStep
  BY <1>17, <1>0 DEF EndStep, Snapshot, WeightInv, WeightsOK, CountInv, CountersOK, engine, schedule, rows, ranks, fixed
<1>18. CASE Crash
  BY <1>18, <1>0 DEF Crash, WeightInv, WeightsOK, CountInv, CountersOK, engine, schedule, rows, ranks, fixed
<1>19. CASE Relaunch
  BY <1>19, <1>0 DEF Relaunch, Checkpoints, Unloaded, WeightInv, WeightsOK, CountInv, CountersOK, engine, schedule, rows, ranks, fixed
<1>20. CASE UNCHANGED vars
  BY <1>20, <1>0 DEF vars, WeightInv, WeightsOK, CountInv, CountersOK, engine, schedule, rows, ranks, fixed
<1> QED
  BY <1>1, <1>2, <1>3, <1>4, <1>5, <1>6, <1>7, <1>8, <1>9, <1>10, <1>11, <1>12,
     <1>13, <1>14, <1>15, <1>16, <1>17, <1>18, <1>19, <1>20
     DEF Next, Driver, RankStep

LEMMA DrawnIsRow ==
  ASSUME TypeInv, EngineInv, phase = "rollout"
  PROVE  DrawnRows \subseteq Row
<1>1. genWeights \in 0 .. MaxSteps /\ pos \in 1 .. Batches /\ epoch \in 0 .. MaxEpochs
  BY Constants, TrainedLen
     DEF TypeInv, CountInv, CountersOK, WeightInv, WeightsOK, EngineInv, OnPolicy,
         InStep, Updated
<1> QED
  BY <1>1 DEF DrawnRows, Row

StoreOK(s) == DOMAIN s \subseteq Row /\ s \in [DOMAIN s -> SUBSET DP_TRAIN_FIELDS]

LEMMA WrittenOK ==
  ASSUME RowsOK, NEW R \in SUBSET Row, NEW cols \in SUBSET DP_TRAIN_FIELDS
  PROVE  StoreOK(Written(R, cols))
<1> DEFINE new(r) == (IF r \in DOMAIN store THEN store[r] ELSE {})
                       \cup (IF r \in R THEN cols ELSE {})
<1>1. Written(R, cols) = [r \in DOMAIN store \cup R |-> new(r)]
  BY DEF Written
<1>2. \A r \in DOMAIN store \cup R : new(r) \in SUBSET DP_TRAIN_FIELDS
  BY DEF RowsOK
<1> QED
  BY <1>1, <1>2 DEF StoreOK, RowsOK

LEMMA ClearedOK ==
  ASSUME RowsOK, NEW R
  PROVE  StoreOK(Cleared(R))
  BY DEF RowsOK, Cleared, StoreOK

LEMMA RowsStep == TypeInv /\ EngineInv /\ [Next]_vars => RowsOK'
<1> SUFFICES ASSUME TypeInv, EngineInv, [Next]_vars
             PROVE  RowsOK'
  OBVIOUS
<1>0. RowsOK /\ ckpt \in Checkpoints
  BY DEF TypeInv
<1>1. CASE Start
  BY <1>1, <1>0 DEF Start, RowsOK, engine, schedule, rows, ranks, fixed
<1>2. CASE Validate
  BY <1>2, <1>0 DEF Validate, RowsOK, engine, schedule, rows, ranks, fixed
<1>3. CASE BeginEpoch
  BY <1>3, <1>0 DEF BeginEpoch, RowsOK, engine, schedule, rows, ranks, fixed
<1>4. CASE EndTraining
  BY <1>4, <1>0 DEF EndTraining, RowsOK, engine, schedule, rows, ranks, fixed
<1>5. CASE EndEpoch
  BY <1>5, <1>0 DEF EndEpoch, RowsOK, engine, schedule, rows, ranks, fixed
<1>6. CASE Draw
  BY <1>6, <1>0 DEF Draw, RowsOK, engine, schedule, rows, ranks, fixed
<1>7. CASE Rollout
  <2>1. StoreOK(store')
    BY <1>7, <1>0, WrittenOK, DrawnIsRow DEF Rollout, LP_SEED_FIELDS, DP_TRAIN_FIELDS
  <2> QED
    BY <1>7, <1>0, <2>1, DrawnIsRow DEF Rollout, RowsOK, StoreOK, LP_SEED_FIELDS, DP_TRAIN_FIELDS, engine, schedule, rows, ranks, fixed
<1>8. CASE CompleteBatch
  <2>1. StoreOK(store')
    BY <1>8, <1>0, ClearedOK DEF CompleteBatch
  <2>2. Kept \subseteq Row /\ Discarded \subseteq Row
    BY <1>0 DEF Kept, Discarded, Slice, Survivors, RowsOK
  <2> QED
    BY <1>8, <1>0, <2>1, <2>2 DEF CompleteBatch, RowsOK, StoreOK, engine, schedule, rows, ranks, fixed
<1>9. CASE SampleMore
  <2>1. StoreOK(store')
    BY <1>9, <1>0, ClearedOK DEF SampleMore, Survivors
  <2> QED
    BY <1>9, <1>0, <2>1 DEF SampleMore, RowsOK, StoreOK, Survivors, engine, schedule, rows, ranks, fixed
<1>10. CASE Dispatch
  BY <1>10, <1>0 DEF Dispatch, Shards, RowsOK, engine, schedule, rows, ranks, fixed
<1>11. CASE \E k \in Ranks : Fetch(k)
  BY <1>11, <1>0 DEF Fetch, RowsOK, engine, schedule, rows, ranks, fixed
<1>12. CASE \E k \in Ranks : WriteBack(k)
  <2>1. StoreOK(store')
    BY <1>12, <1>0, WrittenOK DEF WriteBack, Result, DP_TRAIN_FIELDS, RowsOK
  <2> QED
    BY <1>12, <1>0, <2>1 DEF WriteBack, RowsOK, StoreOK, engine, schedule, rows, ranks, fixed
<1>13. CASE Join
  BY <1>13, <1>0 DEF Join, RowsOK, engine, schedule, rows, ranks, fixed
<1>14. CASE Advantage
  <2>1. StoreOK(store')
    BY <1>14, <1>0, WrittenOK DEF Advantage, DP_TRAIN_FIELDS, LP_SEED_FIELDS, RowsOK, StoreOK
  <2> QED
    BY <1>14, <1>0, <2>1 DEF Advantage, RowsOK, StoreOK, engine, schedule, rows, ranks, fixed
<1>15. CASE Train
  BY <1>15, <1>0 DEF Train, RowsOK, engine, schedule, rows, ranks, fixed
<1>16. CASE FinishStep
  <2>1. StoreOK(store')
    BY <1>16, <1>0, ClearedOK DEF FinishStep, RowsOK, StoreOK
  <2> QED
    BY <1>16, <1>0, <2>1 DEF FinishStep, RowsOK, StoreOK, engine, schedule, rows, ranks, fixed
<1>17. CASE EndStep
  BY <1>17, <1>0 DEF EndStep, RowsOK, engine, schedule, rows, ranks, fixed
<1>18. CASE Crash
  BY <1>18, <1>0 DEF Crash, RowsOK, engine, schedule, rows, ranks, fixed
<1>19. CASE Relaunch
  BY <1>19, <1>0 DEF Relaunch, Checkpoints, RowsOK, engine, schedule, rows, ranks, fixed
<1>20. CASE UNCHANGED vars
  BY <1>20, <1>0 DEF vars, RowsOK, engine, schedule, rows, ranks, fixed
<1> QED
  BY <1>1, <1>2, <1>3, <1>4, <1>5, <1>6, <1>7, <1>8, <1>9, <1>10, <1>11, <1>12,
     <1>13, <1>14, <1>15, <1>16, <1>17, <1>18, <1>19, <1>20
     DEF Next, Driver, RankStep

LEMMA CheckpointStep ==
  TypeInv /\ [Next]_vars => (ckpt \in Checkpoints)'
<1> SUFFICES ASSUME TypeInv, [Next]_vars
             PROVE  ckpt' \in Checkpoints
  OBVIOUS
<1>1. CASE EndStep
  <2>1. /\ epoch \in 0 .. MaxEpochs /\ step + 1 \in 0 .. Batches
        /\ total + 1 \in 0 .. MaxSteps /\ pos \in 0 .. Batches
    BY <1>1, Constants DEF EndStep, TypeInv, CountInv, CountersOK, InStep, Updated
  <2>2. Snapshot \in Checkpoints
    BY <2>1 DEF Snapshot, Checkpoints, TypeInv, WeightInv, WeightsOK, RowsOK
  <2> QED
    BY <1>1, <2>2 DEF EndStep, TypeInv
<1>2. CASE UNCHANGED ckpt
  BY <1>2 DEF TypeInv
<1>3. EndStep \/ UNCHANGED ckpt
  BY DEF Next, Driver, RankStep, vars, fixed, Start, Validate, BeginEpoch,
         EndTraining, EndEpoch, Draw, Rollout, CompleteBatch, SampleMore, Dispatch,
         Fetch, WriteBack, Join, Advantage, Train, FinishStep, Crash, Relaunch
<1> QED
  BY <1>1, <1>2, <1>3

(* The variables keep their types: among them, total_steps never passes    *)
(* max_num_steps and current_step never passes len(dataloader).            *)
THEOREM TypeCorrect == Spec => []TypeOK
<1>1. TypeInv /\ EngineInv /\ [Next]_vars => TypeInv'
  BY CountStep, WeightStep, RowsStep, CheckpointStep DEF TypeInv
<1>2. TypeInv => TypeOK
  BY DEF TypeInv, TypeOK, CountInv, WeightInv
<1> QED
  BY EngineInit, EngineStep, TypeInit, <1>1, <1>2, PTL DEF Spec

-----------------------------------------------------------------------------
(* Columns                                                                 *)

Reads(st, R, cols) == \A r \in R : r \in DOMAIN st /\ cols \subseteq st[r]

(* What every row of the batch surely has by now *)
Needed ==
  LP_SEED_FIELDS
    \cup (IF phase \in {"ref_lp", "advantage", "train", "finish"}
            THEN {"prev_logprobs"} ELSE {})
    \cup (IF phase \in {"advantage", "train", "finish"} /\ ~config.skipRef
            THEN {"reference_policy_logprobs"} ELSE {})
    \cup (IF phase \in {"train", "finish"} THEN {"advantages"} ELSE {})

(* What ColumnsThere rests on: the driver goes on when every rank has      *)
(* written back, the ranks have all of meta among them, and a job that     *)
(* skips the reference log-probs never has any.                            *)
ColumnInv ==
  /\ config.skipRef => /\ phase # "ref_lp"
                       /\ \A r \in DOMAIN store : "reference_policy_logprobs" \notin store[r]
  /\ phase \notin Ended \cup {"epoch"} => Reads(store, meta \cup pending, Needed)
  /\ phase \in {"prev_lp", "ref_lp"} =>
       /\ (\A k \in Ranks : rank[k] = "idle") \/ meta = UNION {shard[k] : k \in Ranks}
       /\ \A k \in Ranks : rank[k] = "back" => Reads(store, shard[k], Result)
  /\ ColumnsThere

LEMMA ReadsMore ==
  ASSUME NEW R, NEW cols
  PROVE  LET st == Written(R, cols)
         IN  /\ DOMAIN st = DOMAIN store \cup R
             /\ \A S, c : Reads(store, S, c) => Reads(st, S, c)
             /\ \A S, c : Reads(store, S, c) /\ S \subseteq R => Reads(st, S, c \cup cols)
             /\ \A r \in DOMAIN st : \A c : c \notin cols =>
                  (c \in st[r] <=> r \in DOMAIN store /\ c \in store[r])
             /\ Reads(st, R, cols)
<1> PICK st : st = Written(R, cols) OBVIOUS
<1>1. /\ DOMAIN st = DOMAIN store \cup R
      /\ \A r \in DOMAIN st : st[r] = (IF r \in DOMAIN store THEN store[r] ELSE {})
                                        \cup (IF r \in R THEN cols ELSE {})
  BY DEF Written
<1> QED BY <1>1 DEF Reads

LEMMA ReadsLess ==
  ASSUME NEW R
  PROVE  LET st == Cleared(R)
         IN  /\ DOMAIN st = DOMAIN store \ R /\ \A r \in DOMAIN st : st[r] = store[r]
             /\ \A S, c : Reads(store, S, c) /\ S \cap R = {} => Reads(st, S, c)
BY DEF Cleared, Reads

LEMMA ReadableReads == \A R, cols : Readable(R, cols) <=> Reads(store, R, cols)
BY DEF Readable, Reads

LEMMA ColumnInit == Init => ColumnInv
BY DEF Init, ColumnInv, Reads, Needed, ColumnsThere, Stage, Ended

(* The steps that leave the rows and what is known of them alone *)
LEMMA ColumnAlike ==
  ASSUME ColumnInv, UNCHANGED <<meta, pending, store, shard, rank, config>>,
         \/ phase' = phase
         \/ phase' \in Ended \ {"missing"}
         \/ phase \notin {"prev_lp", "ref_lp", "advantage", "train", "finish", "epoch"} \cup Ended
              /\ phase' \in {"first_validation", "epoch", "draw", "rollout", "save"}
  PROVE  ColumnInv'
<1>1. phase' # phase => phase' # "missing" /\ phase' # "ref_lp" /\ phase' # "prev_lp"
  BY DEF Ended
<1>2. phase' # phase /\ phase' \notin Ended \cup {"epoch"} =>
        Needed' = Needed /\ phase \notin Ended \cup {"epoch"}
  BY DEF Needed, Ended
<1>3. phase' = phase => Needed' = Needed /\ (ColumnsThere' <=> ColumnsThere) /\ Result' = Result
  BY DEF Needed, ColumnsThere, Result
<1>4. ColumnsThere' BY <1>1, <1>3 DEF ColumnInv, ColumnsThere
<1> QED BY <1>1, <1>2, <1>3, <1>4 DEF ColumnInv

LEMMA RolloutColumns == ASSUME ColumnInv, EngineInv, Rollout PROVE ColumnInv'
<1>1. /\ phase = "rollout" /\ store' = Written(meta', LP_SEED_FIELDS)
      /\ phase' \in {"filter", "prev_lp"} /\ UNCHANGED <<pending, config, rank, shard>>
  BY DEF Rollout, fixed, ranks
<1>2. Needed = LP_SEED_FIELDS /\ Needed' = LP_SEED_FIELDS
  BY <1>1 DEF Needed
<1>3. Reads(store, meta \cup pending, Needed) BY <1>1 DEF ColumnInv, Ended
<1>4. Reads(store', meta', LP_SEED_FIELDS) /\ Reads(store', pending, LP_SEED_FIELDS)
  <2>1. Reads(store, pending, LP_SEED_FIELDS) BY <1>2, <1>3 DEF Reads
  <2> QED BY <1>1, <2>1, ReadsMore
<1>5. Reads(store', meta' \cup pending', Needed') BY <1>1, <1>2, <1>4 DEF Reads
<1>6. config'.skipRef =>
        \A r \in DOMAIN store' : "reference_policy_logprobs" \notin store'[r]
  BY <1>1, ReadsMore DEF ColumnInv, LP_SEED_FIELDS
<1>7. \A k \in Ranks : rank[k] = "idle" 
  BY <1>1 DEF EngineInv, Stage, Ended
<1> QED BY <1>1, <1>5, <1>6, <1>7 DEF ColumnInv, ColumnsThere, Ended

LEMMA FilterColumns ==
  ASSUME ColumnInv, EngineInv, OwnInv, CompleteBatch \/ SampleMore
  PROVE  ColumnInv'
<1>1. /\ phase = "filter" /\ phase' \in {"prev_lp", "too_many_batches", "draw"}
      /\ UNCHANGED <<config, rank, shard>>
  BY DEF CompleteBatch, SampleMore, fixed, ranks
<1>2. pending \cap flat = {} BY <1>1 DEF OwnInv, Ended
<1>3. PICK D : store' = Cleared(D) /\ (meta' \cup pending') \cap D = {}
                 /\ meta' \cup pending' \subseteq meta \cup pending
  <2>1. CASE CompleteBatch
    <3>1. Kept \subseteq Survivors /\ Kept \cap Discarded = {}
      BY <1>2 DEF Kept, Slice, Discarded, Survivors
    <3> QED BY <2>1, <3>1 DEF CompleteBatch, Survivors
  <2>2. CASE SampleMore BY <1>2, <2>2 DEF SampleMore, Survivors
  <2> QED BY <2>1, <2>2
<1>4. Needed = LP_SEED_FIELDS /\ Needed' = LP_SEED_FIELDS BY <1>1 DEF Needed
<1>5. Reads(store, meta \cup pending, LP_SEED_FIELDS) BY <1>1, <1>4 DEF ColumnInv, Ended
<1>6. Reads(store, meta' \cup pending', LP_SEED_FIELDS) BY <1>3, <1>5 DEF Reads
<1>7. Reads(store', meta' \cup pending', Needed') BY <1>3, <1>4, <1>6, ReadsLess
<1>8. config'.skipRef =>
        \A r \in DOMAIN store' : "reference_policy_logprobs" \notin store'[r]
  BY <1>1, <1>3, ReadsLess DEF ColumnInv
<1>9. \A k \in Ranks : rank[k] = "idle" BY <1>1 DEF EngineInv, Stage, Ended
<1> QED BY <1>1, <1>7, <1>8, <1>9 DEF ColumnInv, ColumnsThere, Ended

LEMMA DispatchColumns ==
  ASSUME ColumnInv, Dispatch
  PROVE  ColumnInv'
<1>1. /\ UNCHANGED <<phase, meta, pending, store, config>>
      /\ shard' \in Shards(meta) /\ rank' = [k \in Ranks |-> "fetch"]
  BY DEF Dispatch, rows, fixed
<1>2. meta = UNION {shard'[k] : k \in Ranks} BY <1>1 DEF Shards
<1>3. Needed' = Needed /\ (ColumnsThere' <=> ColumnsThere) BY <1>1 DEF Needed, ColumnsThere
<1>4. \A k \in Ranks : rank'[k] = "fetch" BY <1>1
<1> QED BY <1>1, <1>2, <1>3, <1>4 DEF ColumnInv

(* A rank only misses what the configuration never computes.               *)
LEMMA FetchColumns ==
  ASSUME ColumnInv, OwnInv, TypeInv, NEW k \in Ranks, Fetch(k)
  PROVE  ColumnInv'
<1>1. /\ UNCHANGED <<meta, pending, store, config, shard>> /\ phase \in Stage
      /\ \/ rank' = [rank EXCEPT ![k] = "compute"] /\ phase' = phase
         \/ rank' = rank /\ phase' = "missing" /\ ~Readable(shard[k], Fields)
      /\ rank[k] = "fetch"
  BY DEF Fetch, rows, fixed
<1>2. shard[k] \subseteq meta /\ Reads(store, meta \cup pending, Needed)
  BY <1>1 DEF OwnInv, ColumnInv, Stage, Ended
<1>3. Reads(store, shard[k], Needed) /\ Reads(store, meta, Needed) BY <1>2 DEF Reads
<1>4. CASE phase' = phase
  <2>1. /\ \A j \in Ranks : rank'[j] = "back" => rank[j] = "back"
        /\ (\A j \in Ranks : rank[j] = "idle") => FALSE
    BY <1>1, <1>4 DEF TypeInv, WeightInv, WeightsOK, Stage
  <2>2. Needed' = Needed /\ (ColumnsThere' <=> ColumnsThere) /\ Result' = Result
    BY <1>1, <1>4 DEF Needed, ColumnsThere, Result
  <2> QED BY <1>1, <1>4, <2>1, <2>2 DEF ColumnInv
<1>5. CASE phase' = "missing"
  <2>1. ~Reads(store, shard[k], Fields) /\ phase \in Stage
    BY <1>1, <1>5, ReadableReads DEF Stage
  <2>2. ~(Fields \subseteq Needed) BY <1>3, <2>1 DEF Reads
  <2>3. phase = "train" /\ config.skipRef
    BY <2>1, <2>2 DEF Fields, Needed, Stage, DP_TRAIN_FIELDS, LP_SEED_FIELDS
  <2>4. ASSUME NEW r \in meta
        PROVE  store[r] = DP_TRAIN_FIELDS \ {"reference_policy_logprobs"}
    <3>1. r \in DOMAIN store /\ Needed \subseteq store[r] BY <1>3 DEF Reads
    <3>2. store[r] \subseteq DP_TRAIN_FIELDS /\ "reference_policy_logprobs" \notin store[r]
      BY <2>3, <3>1 DEF TypeInv, RowsOK, ColumnInv
    <3>3. Needed = DP_TRAIN_FIELDS \ {"reference_policy_logprobs"}
      BY <2>3 DEF Needed, DP_TRAIN_FIELDS, LP_SEED_FIELDS
    <3> QED BY <3>1, <3>2, <3>3
  <2> QED BY <1>1, <1>5, <2>3, <2>4 DEF ColumnInv, ColumnsThere, Ended
<1> QED BY <1>1, <1>4, <1>5

LEMMA WriteBackColumns ==
  ASSUME ColumnInv, TypeInv, NEW k \in Ranks, WriteBack(k)
  PROVE  ColumnInv'
<1>1. /\ UNCHANGED <<meta, pending, config, shard, phase>> /\ phase \in {"prev_lp", "ref_lp"}
      /\ store' = Written(shard[k], Result) /\ rank' = [rank EXCEPT ![k] = "back"]
      /\ rank[k] = "compute"
  BY DEF WriteBack, rows, fixed
<1>2. \A S, c : Reads(store, S, c) => Reads(store', S, c) BY <1>1, ReadsMore
<1>3. Reads(store', shard[k], Result) BY <1>1, ReadsMore
<1>4. config.skipRef =>
        \A r \in DOMAIN store' : "reference_policy_logprobs" \notin store'[r]
  <2>1. SUFFICES ASSUME config.skipRef, NEW r \in DOMAIN store'
                 PROVE  "reference_policy_logprobs" \notin store'[r]
    OBVIOUS
  <2>2. "reference_policy_logprobs" \notin Result BY <1>1, <2>1 DEF Result, ColumnInv
  <2> QED BY <1>1, <2>1, <2>2, ReadsMore DEF ColumnInv
<1>5. \A j \in Ranks : rank'[j] = "back" => rank[j] = "back" \/ j = k
  BY <1>1 DEF TypeInv, WeightInv, WeightsOK
<1>6. Needed' = Needed /\ Result' = Result /\ phase \notin Ended \cup {"epoch", "missing"}
  BY <1>1 DEF Needed, Result, Ended
<1>7. ~\A j \in Ranks : rank[j] = "idle" BY <1>1
<1> QED BY <1>1, <1>2, <1>3, <1>4, <1>5, <1>6, <1>7 DEF ColumnInv, ColumnsThere

LEMMA JoinColumns == ASSUME ColumnInv, OwnInv, Join PROVE ColumnInv'
<1>1. /\ UNCHANGED <<meta, pending, store, config>> /\ phase \in {"prev_lp", "ref_lp"}
      /\ phase' = IF phase = "prev_lp" /\ ~config.skipRef THEN "ref_lp" ELSE "advantage"
      /\ rank' = [k \in Ranks |-> "idle"] /\ \A k \in Ranks : rank[k] = "back"
  BY DEF Join, rows, fixed, AllAt
<1>2. Ranks # {} BY SyncConstants
<1>3. meta = UNION {shard[k] : k \in Ranks} /\ \A k \in Ranks : Reads(store, shard[k], Result)
  BY <1>1, <1>2 DEF ColumnInv
<1>4. Reads(store, meta, Result) BY <1>3 DEF Reads
<1>5. pending = {} /\ Reads(store, meta, Needed) BY <1>1 DEF OwnInv, ColumnInv, Stage, Ended, Reads
<1>6. Needed' \subseteq Needed \cup Result
  BY <1>1 DEF Needed, Result, ColumnInv
<1>7. Reads(store, meta \cup pending, Needed') BY <1>4, <1>5, <1>6 DEF Reads
<1>8. \A k \in Ranks : rank'[k] = "idle" BY <1>1
<1> QED BY <1>1, <1>7, <1>8 DEF ColumnInv, ColumnsThere

LEMMA AdvantageColumns == ASSUME ColumnInv, EngineInv, OwnInv, Advantage PROVE ColumnInv'
<1>1. /\ UNCHANGED <<meta, pending, config, rank, shard>> /\ phase = "advantage"
  BY DEF Advantage, rows, fixed, ranks
<1>2. pending = {} /\ Reads(store, meta, Needed) BY <1>1 DEF OwnInv, ColumnInv, Ended, Reads
<1>3. phase' = "train" /\ store' = Written(meta, {"advantages", "sample_mask"})
  <2>1. Readable(meta, {"rollout", "prev_logprobs"}
                   \cup (IF config.skipRef THEN {} ELSE {"reference_policy_logprobs"}))
    BY <1>1, <1>2 DEF Readable, Reads, Needed, LP_SEED_FIELDS
  <2> QED BY <2>1 DEF Advantage
<1>4. Reads(store', meta, Needed \cup {"advantages", "sample_mask"}) BY <1>2, <1>3, ReadsMore
<1>5. Needed' \subseteq Needed \cup {"advantages", "sample_mask"} BY <1>1, <1>3 DEF Needed
<1>6. Reads(store', meta \cup pending, Needed') BY <1>2, <1>4, <1>5 DEF Reads
<1>7. config.skipRef =>
        \A r \in DOMAIN store' : "reference_policy_logprobs" \notin store'[r]
  BY <1>3, ReadsMore DEF ColumnInv
<1> QED BY <1>1, <1>3, <1>6, <1>7 DEF ColumnInv, ColumnsThere

LEMMA StepColumns ==
  ASSUME ColumnInv, OwnInv, Train \/ FinishStep \/ BeginEpoch \/ Relaunch
  PROVE  ColumnInv'
<1>1. CASE Train
  <2>1. UNCHANGED <<meta, pending, store, config>> /\ phase = "train" /\ phase' = "finish"
    BY <1>1 DEF Train, rows, fixed
  <2>2. Needed' = Needed BY <2>1 DEF Needed
  <2> QED BY <2>1, <2>2 DEF ColumnInv, ColumnsThere, Ended
<1>2. CASE FinishStep
  <2>1. UNCHANGED <<pending, config>> /\ phase = "finish" BY <1>2 DEF FinishStep, fixed
  <2>2. Reads(store, meta, Needed) /\ pending = {} BY <2>1 DEF OwnInv, ColumnInv, Ended, Reads
  <2>3. Readable(meta, {"rollout"}) BY <2>1, <2>2 DEF Readable, Reads, Needed, LP_SEED_FIELDS
  <2>4. store' = Cleared(meta) /\ meta' = {} /\ phase' \in {"validation", "save"}
    BY <1>2, <2>3 DEF FinishStep
  <2>5. config.skipRef =>
          \A r \in DOMAIN store' : "reference_policy_logprobs" \notin store'[r]
    BY <2>4, ReadsLess DEF ColumnInv
  <2> QED BY <2>1, <2>2, <2>4, <2>5 DEF ColumnInv, ColumnsThere, Reads
<1>3. CASE BeginEpoch
  <2>1. /\ UNCHANGED <<meta, store, config>> /\ phase = "epoch" /\ phase' = "draw"
        /\ pending' = {} /\ meta = {}
    BY <1>3 DEF BeginEpoch, fixed, OwnInv
  <2> QED BY <2>1 DEF ColumnInv, ColumnsThere, Reads
<1>4. CASE Relaunch
  <2>1. /\ UNCHANGED config /\ phase' = "start" /\ pending' = {} /\ meta' = {} /\ store' = <<>>
    BY <1>4 DEF Relaunch, fixed
  <2> QED BY <2>1 DEF ColumnInv, ColumnsThere, Reads
<1> QED BY <1>1, <1>2, <1>3, <1>4

LEMMA ColumnStep == TypeInv /\ EngineInv /\ OwnInv /\ ColumnInv /\ [Next]_vars => ColumnInv'
<1>1. SUFFICES ASSUME TypeInv, EngineInv, OwnInv, ColumnInv, [Next]_vars PROVE ColumnInv'
  OBVIOUS
<1>2. CASE Start \/ Validate \/ EndTraining \/ EndEpoch \/ Draw \/ EndStep \/ Crash \/ UNCHANGED vars
  <2>1. UNCHANGED <<meta, pending, store, shard, rank, config>>
    BY <1>2 DEF Start, Validate, EndTraining, EndEpoch, Draw, EndStep, Crash, vars, rows, ranks, fixed
  <2>2. \/ phase' = phase
        \/ phase' \in Ended \ {"missing"}
        \/ phase \notin {"prev_lp", "ref_lp", "advantage", "train", "finish", "epoch"} \cup Ended
             /\ phase' \in {"first_validation", "epoch", "draw", "rollout", "save"}
    BY <1>2 DEF Start, Validate, EndTraining, EndEpoch, Draw, EndStep, Crash, vars, Ended
  <2> QED BY <1>1, <2>1, <2>2, ColumnAlike
<1>3. CASE Rollout BY <1>1, <1>3, RolloutColumns
<1>4. CASE CompleteBatch \/ SampleMore BY <1>1, <1>4, FilterColumns
<1>5. CASE Dispatch BY <1>1, <1>5, DispatchColumns
<1>6. CASE \E k \in Ranks : RankStep(k)
  BY <1>1, <1>6, FetchColumns, WriteBackColumns DEF RankStep
<1>7. CASE Join BY <1>1, <1>7, JoinColumns
<1>8. CASE Advantage BY <1>1, <1>8, AdvantageColumns
<1>9. CASE Train \/ FinishStep \/ BeginEpoch \/ Relaunch BY <1>1, <1>9, StepColumns
<1> QED BY <1>1, <1>2, <1>3, <1>4, <1>5, <1>6, <1>7, <1>8, <1>9 DEF Next, Driver

LEMMA SyncHolds == Spec => [](TypeInv /\ EngineInv /\ OwnInv)
<1>1. TypeInv /\ EngineInv /\ [Next]_vars => TypeInv'
  BY CountStep, WeightStep, RowsStep, CheckpointStep DEF TypeInv
<1> QED BY EngineInit, EngineStep, TypeInit, OwnInit, OwnStep, <1>1, PTL DEF Spec

(* Neither the driver nor a rank asks the data plane for a row that was    *)
(* cleared or a column nobody wrote, in whatever order the ranks write     *)
(* back; only a job that skips the reference log-probs ends for that.      *)
THEOREM ColumnsHold == Spec => []ColumnsThere
<1>1. ColumnInv => ColumnsThere BY DEF ColumnInv
<1> QED BY SyncHolds, ColumnInit, ColumnStep, <1>1, PTL DEF Spec
-----------------------------------------------------------------------------
(* Sizes                                                                   *)

LEMMA SameSize ==
  ASSUME NEW S, IsFiniteSet(S), NEW T, NEW f \in [S -> T],
         \A x, y \in S : f[x] = f[y] => x = y, \A t \in T : \E x \in S : f[x] = t
  PROVE  IsFiniteSet(T) /\ Cardinality(T) = Cardinality(S)
<1>1. f \in Bijection(S, T) BY Fun_IsBij
<1>2. ExistsBijection(S, T) BY <1>1 DEF ExistsBijection
<1> QED BY <1>2, FS_Bijection

(* Numbers of two digits are ordered by the first digit, then the second.  *)
LEMMA Digits ==
  ASSUME NEW m \in Nat \ {0}, NEW x \in Int, NEW y \in Int, NEW a \in 1 .. m, NEW b \in 1 .. m
  PROVE  /\ x * m + a < y * m + b <=> x < y \/ (x = y /\ a < b)
         /\ x * m + a = y * m + b <=> x = y /\ a = b
<1>1. ASSUME NEW u \in Int, NEW w \in Int, u < w PROVE u * m + m <= w * m
  <2>1. PICK d \in Nat : w = u + 1 + d
    <3>1. w - u - 1 \in Nat /\ w = u + 1 + (w - u - 1) BY <1>1
    <3> QED BY <3>1
  <2>2. w * m = u * m + m + d * m BY <2>1
  <2>3. d * m \in Nat /\ u * m \in Int /\ w * m \in Int OBVIOUS
  <2> QED BY <2>2, <2>3
<1>2. x * m \in Int /\ y * m \in Int /\ a \in Int /\ b \in Int /\ 1 <= a /\ a <= m /\ 1 <= b /\ b <= m
  OBVIOUS
<1>3. x < y => x * m + m <= y * m BY <1>1
<1>4. y < x => y * m + m <= x * m BY <1>1
<1>5. CASE x < y BY <1>2, <1>3, <1>5
<1>6. CASE x = y BY <1>2, <1>6
<1>7. CASE y < x BY <1>2, <1>4, <1>7
<1> QED BY <1>5, <1>6, <1>7

(* Rows of one epoch, answered by one set of weights                       *)
RowsOf(e, v) ==
  [epoch : {e}, batch : Nat, prompt : 1 .. P, gen : 1 .. G, ver : {v}]
Base(r) == r.batch * P + r.prompt
Closed(R) == \A r \in R, g \in 1 .. G : [r EXCEPT !.gen = g] \in R
Groups(R) == {Group(r) : r \in R}

LEMMA PlaceOrder ==
  ASSUME NEW e, NEW v, NEW q \in RowsOf(e, v), NEW r \in RowsOf(e, v)
  PROVE  /\ Base(q) \in Int /\ Place(q) = Base(q) * G + q.gen /\ Place(q) \in Int
         /\ Place(q) < Place(r) <=> Base(q) < Base(r) \/ (Base(q) = Base(r) /\ q.gen < r.gen)
         /\ Place(q) = Place(r) => q = r
         /\ Base(q) = Base(r) <=> Group(q) = Group(r)
<1>1. P \in Nat \ {0} /\ G \in Nat \ {0} BY SyncConstants
<1>2. /\ q.batch \in Int /\ q.prompt \in 1 .. P /\ q.gen \in 1 .. G /\ q.epoch = e /\ q.ver = v
      /\ r.batch \in Int /\ r.prompt \in 1 .. P /\ r.gen \in 1 .. G /\ r.epoch = e /\ r.ver = v
  BY DEF RowsOf
<1>3. Base(q) \in Int /\ Base(r) \in Int BY <1>1, <1>2 DEF Base
<1>4. Place(q) = Base(q) * G + q.gen /\ Place(r) = Base(r) * G + r.gen BY DEF Place, Base
<1>5. Place(q) \in Int BY <1>1, <1>2, <1>3, <1>4
<1>6. /\ Place(q) < Place(r) <=> Base(q) < Base(r) \/ (Base(q) = Base(r) /\ q.gen < r.gen)
      /\ Place(q) = Place(r) <=> Base(q) = Base(r) /\ q.gen = r.gen
  BY <1>1, <1>2, <1>3, <1>4, Digits
<1>7. Base(q) = Base(r) <=> q.batch = r.batch /\ q.prompt = r.prompt
  BY <1>1, <1>2, Digits DEF Base
<1>8. q.batch = r.batch /\ q.prompt = r.prompt /\ q.gen = r.gen => q = r BY <1>2 DEF RowsOf
<1>9. Group(q) = Group(r) <=> q.batch = r.batch /\ q.prompt = r.prompt BY <1>2 DEF Group
<1> QED BY <1>3, <1>4, <1>5, <1>6, <1>7, <1>8, <1>9

LEMMA Answers ==
  ASSUME NEW e, NEW v, NEW r \in RowsOf(e, v), NEW g \in 1 .. G
  PROVE  LET s == [r EXCEPT !.gen = g]
         IN  /\ s \in RowsOf(e, v) /\ s.gen = g /\ Group(s) = Group(r) /\ Base(s) = Base(r)
             /\ s.epoch = r.epoch /\ s.batch = r.batch /\ s.prompt = r.prompt
BY DEF RowsOf, Group, Base

LEMMA SameAnswer ==
  ASSUME NEW e, NEW v, NEW q \in RowsOf(e, v), NEW r \in RowsOf(e, v), Group(q) = Group(r)
  PROVE  q = [r EXCEPT !.gen = q.gen]
<1>1. q.batch = r.batch /\ q.prompt = r.prompt BY DEF Group
<1> QED BY <1>1 DEF RowsOf

(* Rows that come with all their answers are G times as many as their      *)
(* groups.                                                                 *)
LEMMA Tiled ==
  ASSUME NEW e, NEW v, NEW R \in SUBSET RowsOf(e, v), IsFiniteSet(R), Closed(R)
  PROVE  /\ IsFiniteSet(Groups(R)) /\ Cardinality(Groups(R)) \in Nat
         /\ Cardinality(R) = Cardinality(Groups(R)) * G
<1>0. G \in Nat \ {0} BY SyncConstants
<1>1. PICK h : h = [r \in R |-> Group(r)] OBVIOUS
<1>2. h \in Surjection(R, Groups(R)) BY <1>1 DEF Groups, Surjection
<1>3. IsFiniteSet(Groups(R)) /\ Cardinality(Groups(R)) \in Nat
  BY <1>2, FS_Surjection, FS_CardinalityType
<1>4. /\ IsFiniteSet(1 .. G) /\ Cardinality(1 .. G) = G
  BY <1>0, FS_Interval
<1>5. PICK T : T = Groups(R) \X (1 .. G) OBVIOUS
<1>6. IsFiniteSet(T) /\ Cardinality(T) = Cardinality(Groups(R)) * G
  BY <1>3, <1>4, <1>5, FS_Product
<1>7. PICK f : f = [r \in R |-> <<Group(r), r.gen>>] OBVIOUS
<1>8. \A r \in R : r.gen \in 1 .. G /\ Group(r) \in Groups(R) BY DEF RowsOf, Groups
<1>9. f \in [R -> T] BY <1>5, <1>7, <1>8
<1>10. ASSUME NEW x \in R, NEW y \in R, f[x] = f[y] PROVE x = y
  <2>1. Group(x) = Group(y) /\ x.gen = y.gen BY <1>7, <1>10
  <2>2. Base(x) = Base(y) /\ Place(x) = Base(x) * G + x.gen /\ Place(y) = Base(y) * G + y.gen
    BY <2>1, PlaceOrder
  <2>3. Place(x) = Place(y) BY <2>1, <2>2
  <2> QED BY <2>3, PlaceOrder
<1>11. ASSUME NEW t \in T PROVE \E x \in R : f[x] = t
  <2>1. PICK r \in R, g \in 1 .. G : t = <<Group(r), g>> BY <1>5 DEF Groups
  <2>2. PICK s : s = [r EXCEPT !.gen = g] OBVIOUS
  <2>3. s \in R BY <2>2 DEF Closed
  <2>4. s.gen = g /\ Group(s) = Group(r) BY <2>2, Answers
  <2> QED BY <1>7, <2>1, <2>3, <2>4
<1>12. Cardinality(T) = Cardinality(R) BY <1>9, <1>10, <1>11, SameSize
<1> QED BY <1>3, <1>6, <1>12

(* A slice has as many rows as it was asked for.                           *)
Below(R, r) == {q \in R : Place(q) < Place(r)}

LEMMA SliceSize ==
  ASSUME NEW e, NEW v, NEW R \in SUBSET RowsOf(e, v), IsFiniteSet(R),
         NEW n \in 0 .. Cardinality(R)
  PROVE  Cardinality(Slice(R, n)) = n /\ Slice(R, n) \subseteq R
<1>1. Cardinality(R) \in Nat BY FS_CardinalityType
<1>2. \A q, r \in R : /\ Place(q) \in Int /\ Place(r) \in Int
                      /\ Place(q) = Place(r) => q = r
  BY PlaceOrder
<1>3. \A r \in R : /\ IsFiniteSet(Below(R, r)) /\ Cardinality(Below(R, r)) \in Nat
                   /\ Cardinality(Below(R, r)) < Cardinality(R)
  <2>1. SUFFICES ASSUME NEW r \in R
                 PROVE  /\ IsFiniteSet(Below(R, r)) /\ Cardinality(Below(R, r)) \in Nat
                        /\ Cardinality(Below(R, r)) < Cardinality(R)
    OBVIOUS
  <2>2. Below(R, r) \in SUBSET R /\ Below(R, r) # R BY <1>2 DEF Below
  <2> QED BY <1>1, <2>2, FS_Subset, FS_CardinalityType
<1>4. \A q, r \in R : Place(q) < Place(r) => Cardinality(Below(R, q)) < Cardinality(Below(R, r))
  <2>1. SUFFICES ASSUME NEW q \in R, NEW r \in R, Place(q) < Place(r)
                 PROVE  Cardinality(Below(R, q)) < Cardinality(Below(R, r))
    OBVIOUS
  <2>2. Below(R, q) \in SUBSET Below(R, r) /\ Below(R, q) # Below(R, r)
    BY <1>2, <2>1 DEF Below
  <2> QED BY <1>3, <2>2, FS_Subset
<1>5. PICK f, T : f = [r \in R |-> Cardinality(Below(R, r))] /\ T = 0 .. (Cardinality(R) - 1)
  OBVIOUS
<1>6. IsFiniteSet(T) /\ Cardinality(T) = Cardinality(R) BY <1>1, <1>5, FS_Interval
<1>7. f \in [R -> T] BY <1>1, <1>3, <1>5
<1>8. \A q, r \in R : f[q] = f[r] => q = r
  <2>1. SUFFICES ASSUME NEW q \in R, NEW r \in R, f[q] = f[r] PROVE q = r
    OBVIOUS
  <2>2. Cardinality(Below(R, q)) = Cardinality(Below(R, r)) BY <1>5, <2>1
  <2>3. ~(Place(q) < Place(r)) /\ ~(Place(r) < Place(q)) BY <1>3, <1>4, <2>2
  <2> QED BY <1>2, <2>3
<1>9. f \in Injection(R, T) BY <1>7, <1>8, Fun_IsInj
<1>10. f \in Surjection(R, T) BY <1>6, <1>9, FS_Injection
<1>11. \A t \in T : \E r \in R : f[r] = t BY <1>10 DEF Surjection
<1>12. PICK S, U, h : S = Slice(R, n) /\ U = 0 .. (n - 1) /\ h = [r \in S |-> f[r]] OBVIOUS
<1>13. S = {r \in R : f[r] < n} BY <1>5, <1>12 DEF Slice, Below
<1>14. IsFiniteSet(S) /\ S \in SUBSET R BY <1>13, FS_Subset
<1>15. n \in Nat /\ n <= Cardinality(R) BY <1>1
<1>16. h \in [S -> U]
  <2>1. \A r \in S : f[r] \in U BY <1>1, <1>5, <1>7, <1>12, <1>13, <1>15
  <2> QED BY <1>12, <2>1
<1>17. \A x, y \in S : h[x] = h[y] => x = y BY <1>8, <1>12, <1>14
<1>18. \A t \in U : \E x \in S : h[x] = t
  <2>1. SUFFICES ASSUME NEW t \in U PROVE \E x \in S : h[x] = t OBVIOUS
  <2>2. t \in T /\ t < n BY <1>1, <1>5, <1>12, <1>15
  <2>3. PICK r \in R : f[r] = t BY <1>11, <2>2
  <2>4. r \in S /\ h[r] = t BY <1>12, <1>13, <2>2, <2>3
  <2> QED BY <2>4
<1>19. Cardinality(U) = Cardinality(S) BY <1>14, <1>16, <1>17, <1>18, SameSize
<1>20. Cardinality(U) = n BY <1>12, <1>15, FS_Interval
<1> QED BY <1>12, <1>14, <1>19, <1>20
(* The rows before an answer are whole groups and its own earlier answers. *)
Earlier(R, r) == {q \in R : Base(q) < Base(r)}

LEMMA BelowSize ==
  ASSUME NEW e, NEW v, NEW R \in SUBSET RowsOf(e, v), IsFiniteSet(R), Closed(R), NEW r \in R
  PROVE  /\ Cardinality(Groups(Earlier(R, r))) \in Nat
         /\ Cardinality(Below(R, r)) = Cardinality(Groups(Earlier(R, r))) * G + (r.gen - 1)
<1>0. G \in Nat \ {0} /\ r.gen \in 1 .. G /\ r \in RowsOf(e, v) BY SyncConstants DEF RowsOf
<1>1. PICK E, D, A, f : /\ E = {q \in R : Base(q) < Base(r)} /\ D = 1 .. (r.gen - 1)
                     /\ A = {[r EXCEPT !.gen = i] : i \in 1 .. (r.gen - 1)}
                     /\ f = [i \in 1 .. (r.gen - 1) |-> [r EXCEPT !.gen = i]]
  OBVIOUS
<1>2. \A i \in 1 .. (r.gen - 1) : i \in 1 .. G /\ i < r.gen BY <1>0
<1>3. \A i \in 1 .. (r.gen - 1) :
        /\ [r EXCEPT !.gen = i] \in R /\ [r EXCEPT !.gen = i].gen = i
        /\ Group([r EXCEPT !.gen = i]) = Group(r) /\ Base([r EXCEPT !.gen = i]) = Base(r)
  BY <1>0, <1>2, Answers DEF Closed
<1>4. IsFiniteSet(A) /\ Cardinality(A) = r.gen - 1
  <2>1. IsFiniteSet(D) /\ Cardinality(D) = r.gen - 1
    <3>1. 1 \in Int /\ r.gen \in Int /\ r.gen - 1 \in Int /\ r.gen >= 1 BY <1>0
    <3>2. IsFiniteSet(1 .. (r.gen - 1))
          /\ Cardinality(1 .. (r.gen - 1)) = IF 1 > r.gen - 1 THEN 0 ELSE r.gen - 1 - 1 + 1
      BY <3>1, FS_Interval
    <3>3. Cardinality(1 .. (r.gen - 1)) = r.gen - 1 BY <3>1, <3>2
    <3>4. D = 1 .. (r.gen - 1) BY <1>1
    <3> QED BY <3>2, <3>3, <3>4
  <2>2. f \in [D -> A] BY <1>1
  <2>3. \A x, y \in D : f[x] = f[y] => x = y BY <1>1, <1>3
  <2>4. \A t \in A : \E x \in D : f[x] = t BY <1>1
  <2>5. IsFiniteSet(A) /\ Cardinality(A) = Cardinality(D) BY <2>1, <2>2, <2>3, <2>4, SameSize
  <2> QED BY <2>1, <2>5
<1>5. E \in SUBSET RowsOf(e, v) /\ IsFiniteSet(E) BY <1>1, FS_Subset
<1>6. Closed(E)
  <2>1. SUFFICES ASSUME NEW q \in E, NEW g \in 1 .. G PROVE [q EXCEPT !.gen = g] \in E
    BY DEF Closed
  <2>2. [q EXCEPT !.gen = g] \in R /\ Base([q EXCEPT !.gen = g]) = Base(q)
    BY <1>1, Answers DEF Closed
  <2> QED BY <1>1, <2>2
<1>7. /\ Cardinality(Groups(E)) \in Nat /\ Cardinality(E) = Cardinality(Groups(E)) * G
      /\ Cardinality(E) \in Nat
  BY <1>5, <1>6, Tiled, FS_CardinalityType
<1>8. Below(R, r) = E \cup A
  <2>1. ASSUME NEW q \in Below(R, r) PROVE q \in E \cup A
    <3>1. q \in R /\ Place(q) < Place(r) BY DEF Below
    <3>2. Base(q) < Base(r) \/ (Base(q) = Base(r) /\ q.gen < r.gen)
      BY <1>0, <3>1, PlaceOrder
    <3>3. CASE Base(q) = Base(r) /\ q.gen < r.gen
      <4>1. q.gen \in 1 .. (r.gen - 1) BY <1>0, <3>1, <3>3 DEF RowsOf
      <4>2. Group(q) = Group(r) BY <1>0, <3>1, <3>3, PlaceOrder
      <4>3. q = [r EXCEPT !.gen = q.gen] BY <1>0, <3>1, <4>2, SameAnswer
      <4> QED BY <1>1, <4>1, <4>3
    <3> QED BY <1>1, <3>1, <3>2, <3>3
  <2>2. ASSUME NEW q \in E PROVE q \in Below(R, r)
    <3>1. q \in R /\ Base(q) < Base(r) BY <1>1
    <3> QED BY <1>0, <3>1, PlaceOrder DEF Below
  <2>3. ASSUME NEW q \in A PROVE q \in Below(R, r)
    <3>1. PICK i \in 1 .. (r.gen - 1) : q = [r EXCEPT !.gen = i] BY <1>1
    <3>2. q \in R /\ q.gen < r.gen /\ Base(q) = Base(r) BY <1>2, <1>3, <3>1
    <3> QED BY <1>0, <3>2, PlaceOrder DEF Below
  <2> QED BY <2>1, <2>2, <2>3
<1>9. E \cap A = {}
  <2>1. \A q \in A : Base(q) = Base(r) BY <1>1, <1>3
  <2>2. Base(r) \in Int BY <1>0, PlaceOrder
  <2> QED BY <1>1, <2>1, <2>2
<1>10. Cardinality(E \cup A) = Cardinality(E) + Cardinality(A)
  <2>1. Cardinality(E \cup A) = Cardinality(E) + Cardinality(A) - Cardinality(E \cap A)
    BY <1>4, <1>5, FS_Union
  <2>2. Cardinality(E \cap A) = 0 BY <1>9, FS_EmptySet
  <2> QED BY <1>0, <1>4, <1>7, <2>1, <2>2
<1>11. E = Earlier(R, r) BY <1>1 DEF Earlier
<1> QED BY <1>4, <1>7, <1>8, <1>10, <1>11

(* Cutting whole groups at a multiple of G leaves whole groups.            *)
LEMMA SliceClosed ==
  ASSUME NEW e, NEW v, NEW R \in SUBSET RowsOf(e, v), IsFiniteSet(R), Closed(R)
  PROVE  Closed(Slice(R, Size))
<1>0. G \in Nat \ {0} /\ P \in Nat BY SyncConstants
<1>1. SUFFICES ASSUME NEW r \in R, NEW g \in 1 .. G, Cardinality(Below(R, r)) < Size
               PROVE  [r EXCEPT !.gen = g] \in R /\ Cardinality(Below(R, [r EXCEPT !.gen = g])) < Size
  BY DEF Closed, Slice, Below
<1>2. PICK s : s = [r EXCEPT !.gen = g] OBVIOUS
<1>3. s \in R /\ s.gen = g /\ Base(s) = Base(r) BY <1>2, Answers DEF Closed
<1>4. Earlier(R, r) = Earlier(R, s) BY <1>3 DEF Earlier
<1>5. PICK c : c = Cardinality(Groups(Earlier(R, r))) OBVIOUS
<1>6. /\ c \in Nat /\ Cardinality(Below(R, r)) = c * G + (r.gen - 1)
      /\ Cardinality(Below(R, s)) = c * G + (g - 1)
  <2>1. c \in Nat /\ Cardinality(Below(R, r)) = c * G + (r.gen - 1) BY <1>5, BelowSize
  <2>2. Cardinality(Below(R, s)) = c * G + (s.gen - 1) BY <1>3, <1>4, <1>5, BelowSize
  <2> QED BY <1>3, <2>1, <2>2
<1>7. r.gen \in 1 .. G BY DEF RowsOf
<1>8. \A a \in 1 .. G : c * G + (a - 1) < P * G <=> c < P
  <2>1. SUFFICES ASSUME NEW a \in 1 .. G PROVE c * G + (a - 1) < P * G <=> c < P OBVIOUS
  <2>2. c * G + a < P * G + 1 <=> c < P \/ (c = P /\ a < 1) BY <1>0, <1>6, Digits
  <2>3. c * G \in Int /\ P * G \in Int BY <1>0, <1>6
  <2> QED BY <2>2, <2>3
<1> QED BY <1>1, <1>2, <1>3, <1>6, <1>7, <1>8 DEF Size

LEMMA DrawnSize ==
  ASSUME TypeInv, EngineInv, phase = "rollout"
  PROVE  /\ DrawnRows \subseteq RowsOf(epoch, Len(weights)) /\ Closed(DrawnRows)
         /\ IsFiniteSet(DrawnRows) /\ Cardinality(DrawnRows) = Size
<1>0. G \in Nat \ {0} /\ P \in Nat \ {0} BY SyncConstants
<1>1. genWeights = Len(weights) /\ pos \in Nat
  BY DEF EngineInv, OnPolicy, TypeInv, CountInv, CountersOK
<1>2. DrawnRows \subseteq RowsOf(epoch, Len(weights)) /\ Closed(DrawnRows)
  BY <1>1 DEF DrawnRows, RowsOf, Closed
<1>3. PICK T, f : /\ T = (1 .. P) \X (1 .. G)
                  /\ f = [t \in T |-> [epoch |-> epoch, batch |-> pos, prompt |-> t[1],
                                       gen |-> t[2], ver |-> genWeights]]
  OBVIOUS
<1>4. IsFiniteSet(T) /\ Cardinality(T) = P * G
  <2>1. /\ IsFiniteSet(1 .. P) /\ Cardinality(1 .. P) = P
        /\ IsFiniteSet(1 .. G) /\ Cardinality(1 .. G) = G
    BY <1>0, FS_Interval
  <2>2. /\ IsFiniteSet((1 .. P) \X (1 .. G))
        /\ Cardinality((1 .. P) \X (1 .. G)) = Cardinality(1 .. P) * Cardinality(1 .. G)
    BY <2>1, FS_Product
  <2>3. T = (1 .. P) \X (1 .. G) BY <1>3
  <2> QED BY <2>1, <2>2, <2>3
<1>5. f \in [T -> DrawnRows] BY <1>3 DEF DrawnRows
<1>6. ASSUME NEW x \in T, NEW y \in T, f[x] = f[y] PROVE x = y
  <2>1. x[1] = y[1] /\ x[2] = y[2] BY <1>3, <1>6
  <2> QED BY <1>3, <2>1
<1>7. ASSUME NEW r \in DrawnRows PROVE \E x \in T : f[x] = r
  <2>1. <<r.prompt, r.gen>> \in T BY <1>3 DEF DrawnRows
  <2>2. f[<<r.prompt, r.gen>>] = r BY <1>3, <2>1 DEF DrawnRows
  <2> QED BY <2>1, <2>2
<1>8. IsFiniteSet(DrawnRows) /\ Cardinality(DrawnRows) = Cardinality(T)
  BY <1>4, <1>5, <1>6, <1>7, SameSize
<1> QED BY <1>2, <1>4, <1>8 DEF Size
-----------------------------------------------------------------------------
(* Whole groups                                                            *)

Working == {"draw", "rollout", "filter", "prev_lp", "ref_lp", "advantage", "train"}
Filled == {"filter", "advantage", "finish"} \cup Stage
Batched == Stage \cup {"advantage", "finish"}

(* What WholeGroups rests on: the rows at hand are of one epoch and one    *)
(* version, wherever a prompt's row is there all its answers are, and the  *)
(* rows of std 0 come with all theirs, in a checkpoint too.                *)
GroupInv ==
  /\ phase \in Working => meta \cup pending \subseteq RowsOf(epoch, Len(weights))
  /\ phase = "finish" => meta \subseteq RowsOf(epoch, Len(weights) - 1)
  /\ Closed(pending) /\ Closed(flat) /\ Closed(ckpt.flat)
  /\ phase \notin Ended => Closed(meta)
  /\ IsFiniteSet(meta) /\ IsFiniteSet(pending)
  /\ ~config.dynamic => flat = {} /\ ckpt.flat = {}
  /\ phase \in Filled => Cardinality(meta) = Size
  /\ phase \in Batched => meta \cap flat = {}

LEMMA NoneClosed == Closed({}) /\ IsFiniteSet({})
BY FS_EmptySet DEF Closed

LEMMA ClosedCup == ASSUME NEW R, NEW S, Closed(R), Closed(S) PROVE Closed(R \cup S)
BY DEF Closed

LEMMA ClosedMinus ==
  ASSUME NEW e, NEW v, NEW R \in SUBSET RowsOf(e, v), Closed(R), NEW F, Closed(F)
  PROVE  Closed(R \ F)
<1>1. SUFFICES ASSUME NEW r \in R, r \notin F, NEW g \in 1 .. G, [r EXCEPT !.gen = g] \in F
               PROVE  FALSE
  BY DEF Closed
<1>2. r.gen \in 1 .. G /\ [[r EXCEPT !.gen = g] EXCEPT !.gen = r.gen] = r BY DEF RowsOf
<1> QED BY <1>1, <1>2 DEF Closed

LEMMA GroupInit == Init => GroupInv
<1>1. SUFFICES ASSUME Init PROVE GroupInv OBVIOUS
<1>2. /\ phase = "start" /\ meta = {} /\ pending = {} /\ flat = {} /\ ckpt.flat = {}
  BY <1>1 DEF Init
<1> QED BY <1>2, NoneClosed DEF GroupInv, Working, Filled, Batched, Stage

(* The steps that leave the rows at hand alone, and have any only if they  *)
(* had them before                                                         *)
LEMMA GroupAlike ==
  ASSUME GroupInv, UNCHANGED <<meta, pending, flat, ckpt, config, epoch, weights>>,
         phase' \in Working => phase \in Working \/ meta \cup pending = {},
         phase' = "finish" => phase = "finish",
         phase' \notin Ended => phase \notin Ended,
         phase' \in Filled => phase \in Filled,
         phase' \in Batched => phase \in Batched
  PROVE  GroupInv'
BY DEF GroupInv, Size

LEMMA RolloutGroups ==
  ASSUME TypeInv, EngineInv, GroupInv, Rollout
  PROVE  GroupInv'
<1>1. /\ phase = "rollout" /\ UNCHANGED <<pending, ckpt, config, epoch, weights>>
      /\ phase' = IF config.dynamic THEN "filter" ELSE "prev_lp"
      /\ meta' = DrawnRows
  BY DEF Rollout, fixed
<1>2. PICK Z \in SUBSET (1 .. P) :
        (~config.dynamic => Z = {}) /\ flat' = flat \cup {r \in meta' : r.prompt \in Z}
  BY DEF Rollout
<1>3. /\ DrawnRows \subseteq RowsOf(epoch, Len(weights)) /\ Closed(DrawnRows)
      /\ IsFiniteSet(DrawnRows) /\ Cardinality(DrawnRows) = Size
  BY <1>1, DrawnSize
<1>4. Closed({r \in meta' : r.prompt \in Z})
  <2>1. SUFFICES ASSUME NEW r \in meta', r.prompt \in Z, NEW g \in 1 .. G
                 PROVE  [r EXCEPT !.gen = g] \in meta' /\ [r EXCEPT !.gen = g].prompt \in Z
    BY DEF Closed
  <2>2. r \in RowsOf(epoch, Len(weights)) /\ [r EXCEPT !.gen = g] \in meta'
    BY <1>1, <1>3 DEF Closed
  <2> QED BY <2>1, <2>2, Answers
<1>5. Closed(flat') BY <1>2, <1>4, ClosedCup DEF GroupInv
<1>6. ~config.dynamic => flat' = {}
  BY <1>2 DEF GroupInv
<1>7. pending \subseteq RowsOf(epoch, Len(weights)) BY <1>1 DEF GroupInv, Working
<1>8. phase' \in {"filter", "prev_lp"} /\ (phase' = "filter" => config.dynamic) 
      /\ (phase' = "prev_lp" => ~config.dynamic)
  BY <1>1
<1>9. meta' \cup pending' \subseteq RowsOf(epoch', Len(weights')) BY <1>1, <1>3, <1>7
<1>10. phase' \in Batched => meta' \cap flat' = {} BY <1>6, <1>8 DEF Batched, Stage
<1>11. Closed(meta') /\ IsFiniteSet(meta') /\ Cardinality(meta') = Size BY <1>1, <1>3
<1> QED BY <1>1, <1>5, <1>6, <1>8, <1>9, <1>10, <1>11 DEF GroupInv, Size

LEMMA SurvivorsWhole ==
  ASSUME GroupInv, phase = "filter"
  PROVE  /\ Survivors \subseteq RowsOf(epoch, Len(weights))
         /\ Closed(Survivors) /\ IsFiniteSet(Survivors) /\ Cardinality(Survivors) \in Nat
<1>1. meta \cup pending \subseteq RowsOf(epoch, Len(weights)) BY DEF GroupInv, Working
<1>2. /\ Closed(meta) /\ Closed(flat) /\ Closed(pending)
      /\ IsFiniteSet(meta) /\ IsFiniteSet(pending)
  BY DEF GroupInv, Ended
<1>3. Closed(meta \ flat) BY <1>1, <1>2, ClosedMinus
<1>4. IsFiniteSet(meta \ flat) BY <1>2, FS_Subset
<1>5. IsFiniteSet(pending \cup (meta \ flat)) BY <1>2, <1>4, FS_Union
<1>6. Closed(pending \cup (meta \ flat)) BY <1>2, <1>3, ClosedCup
<1> QED BY <1>1, <1>5, <1>6, FS_CardinalityType DEF Survivors

LEMMA FilterGroups ==
  ASSUME OwnInv, GroupInv, CompleteBatch \/ SampleMore
  PROVE  GroupInv'
<1>1. phase = "filter" /\ UNCHANGED <<flat, ckpt, config, epoch, weights>>
  BY DEF CompleteBatch, SampleMore, schedule, fixed
<1>2. PICK v : v = Len(weights) OBVIOUS
<1>3. /\ Survivors \subseteq RowsOf(epoch, v) /\ Closed(Survivors) /\ IsFiniteSet(Survivors)
      /\ Cardinality(Survivors) \in Nat
  BY <1>1, <1>2, SurvivorsWhole
<1>4. Survivors \cap flat = {} BY <1>1 DEF OwnInv, Ended, Survivors
<1>5. CASE CompleteBatch
  <2>1. Size \in Nat BY SyncConstants DEF Size
  <2>2. Size \in 0 .. Cardinality(Survivors) BY <1>3, <1>5, <2>1 DEF CompleteBatch
  <2>3. Cardinality(Kept) = Size /\ Kept \subseteq Survivors
    BY <1>3, <2>2, SliceSize DEF Kept
  <2>4. Closed(Kept) BY <1>3, SliceClosed DEF Kept
  <2>5. IsFiniteSet(Kept) BY <1>3, <2>3, FS_Subset
  <2>6. meta' = Kept /\ pending' = {} /\ phase' = "prev_lp" BY <1>5 DEF CompleteBatch
  <2>7. meta' \cup pending' \subseteq RowsOf(epoch', Len(weights'))
    BY <1>1, <1>2, <1>3, <2>3, <2>6
  <2>8. Closed(pending') /\ IsFiniteSet(pending') BY <2>6, NoneClosed
  <2>9. meta' \cap flat' = {} BY <1>1, <1>4, <2>3, <2>6
  <2> QED BY <1>1, <2>3, <2>4, <2>5, <2>6, <2>7, <2>8, <2>9 DEF GroupInv, Size
<1>6. CASE SampleMore
  <2>1. /\ meta' = {} /\ pending' = Survivors /\ phase' \in {"too_many_batches", "draw"}
    BY <1>6 DEF SampleMore
  <2>2. meta' \cup pending' \subseteq RowsOf(epoch', Len(weights')) BY <1>1, <1>2, <1>3, <2>1
  <2>3. Closed(meta') /\ IsFiniteSet(meta') BY <2>1, NoneClosed
  <2>4. Closed(pending') /\ IsFiniteSet(pending') BY <1>3, <2>1
  <2>5. phase' \notin Filled \cup Batched /\ phase' # "finish" BY <2>1 DEF Filled, Batched, Stage
  <2> QED BY <1>1, <2>2, <2>3, <2>4, <2>5 DEF GroupInv, Size
<1> QED BY <1>5, <1>6

LEMMA StepGroups ==
  ASSUME TypeInv, OwnInv, GroupInv,
         Train \/ FinishStep \/ EndStep \/ EndEpoch \/ BeginEpoch \/ Relaunch
  PROVE  GroupInv'
<1>1. CASE Train
  <2>1. /\ phase = "train" /\ phase' = "finish" /\ UNCHANGED <<meta, pending, flat, ckpt, config, epoch>>
        /\ \E b : weights' = Append(weights, b)
    BY <1>1 DEF Train, rows, schedule, fixed
  <2>2. weights \in Seq(SUBSET [epoch : 0 .. MaxEpochs, batch : 1 .. Batches, prompt : 1 .. P,
                                ver : 0 .. MaxSteps])
    BY DEF TypeInv, WeightInv, WeightsOK, TrainedOn
  <2>3. Len(weights') - 1 = Len(weights) BY <2>1, <2>2
  <2> QED BY <2>1, <2>3 DEF GroupInv, Size, Working, Filled, Batched, Stage, Ended
<1>2. CASE FinishStep
  <2>1. \/ phase' \in {"validation", "save"} /\ meta' = {}
        \/ phase' = "missing" /\ meta' = meta
    BY <1>2 DEF FinishStep
  <2>3. UNCHANGED <<pending, flat, ckpt, config>>
    BY <1>2 DEF FinishStep, fixed
  <2>2. (phase' \notin Ended => Closed(meta')) /\ IsFiniteSet(meta')
    BY <2>1, NoneClosed DEF GroupInv, Ended
  <2> QED BY <2>1, <2>2, <2>3 DEF GroupInv, Size, Working, Filled, Batched, Stage
<1>3. CASE EndStep
  <2>1. /\ phase' \in {"stopped", "done", "draw"} /\ meta = {} /\ pending = {}
        /\ UNCHANGED <<meta, pending, flat, config>> /\ (ckpt' = ckpt \/ ckpt'.flat = flat)
    BY <1>3 DEF EndStep, rows, OwnInv, Snapshot
  <2>2. Closed(ckpt'.flat) BY <2>1 DEF GroupInv
  <2>3. ~config.dynamic => ckpt'.flat = {} BY <2>1 DEF GroupInv
  <2> QED BY <2>1, <2>2, <2>3, NoneClosed DEF GroupInv, Size, Working, Filled, Batched, Stage
<1>4. CASE EndEpoch
  <2>1. /\ phase = "draw" /\ phase' = "epoch" /\ UNCHANGED <<meta, pending, flat, ckpt, config>>
    BY <1>4 DEF EndEpoch, rows, fixed
  <2> QED BY <2>1 DEF GroupInv, Size, Working, Filled, Batched, Stage, Ended
<1>5. CASE BeginEpoch
  <2>1. /\ phase = "epoch" /\ phase' = "draw" /\ UNCHANGED <<meta, flat, ckpt, config>>
        /\ meta = {} /\ pending' = {}
    BY <1>5 DEF BeginEpoch, fixed, OwnInv
  <2> QED BY <2>1, NoneClosed DEF GroupInv, Size, Working, Filled, Batched, Stage
<1>6. CASE Relaunch
  <2>1. /\ phase' = "start" /\ UNCHANGED <<ckpt, config>>
        /\ meta' = {} /\ pending' = {} /\ flat' = ckpt.flat
    BY <1>6 DEF Relaunch, fixed
  <2> QED BY <2>1, NoneClosed DEF GroupInv, Size, Working, Filled, Batched, Stage
<1> QED BY <1>1, <1>2, <1>3, <1>4, <1>5, <1>6

LEMMA GroupStep == TypeInv /\ EngineInv /\ OwnInv /\ GroupInv /\ [Next]_vars => GroupInv'
<1>1. SUFFICES ASSUME TypeInv, EngineInv, OwnInv, GroupInv, [Next]_vars PROVE GroupInv' OBVIOUS
<1>2. CASE \/ Start \/ Validate \/ EndTraining \/ Draw \/ Dispatch \/ Join \/ Advantage \/ Crash
           \/ (\E k \in Ranks : RankStep(k)) \/ UNCHANGED vars
  <2>1. UNCHANGED <<meta, pending, flat, ckpt, config, epoch, weights>>
    BY <1>2 DEF Start, Validate, EndTraining, Draw, Dispatch, Join, Advantage, Crash, RankStep,
                Fetch, WriteBack, vars, rows, fixed, schedule
  <2>2. /\ phase' \in Working => phase \in Working \/ meta \cup pending = {}
        /\ phase' = "finish" => phase = "finish"
        /\ phase' \notin Ended => phase \notin Ended
        /\ phase' \in Filled => phase \in Filled
        /\ phase' \in Batched => phase \in Batched
    BY <1>2 DEF Start, Validate, EndTraining, Draw, Dispatch, Join, Advantage, Crash, RankStep,
                Fetch, WriteBack, vars, Working, Filled, Batched, Stage, Ended
  <2> QED BY <1>1, <2>1, <2>2, GroupAlike
<1>3. CASE Rollout BY <1>1, <1>3, RolloutGroups
<1>4. CASE CompleteBatch \/ SampleMore BY <1>1, <1>4, FilterGroups
<1>5. CASE Train \/ FinishStep \/ EndStep \/ EndEpoch \/ BeginEpoch \/ Relaunch
  BY <1>1, <1>5, StepGroups
<1> QED BY <1>1, <1>2, <1>3, <1>4, <1>5 DEF Next, Driver

(* The batch the ranks work on is one full batch of whole groups, none of  *)
(* std 0, however many batches dynamic sampling merged into it.            *)
LEMMA GroupsAreWhole == ASSUME GroupInv PROVE WholeGroups
<1>1. SUFFICES ASSUME phase \in Batched
               PROVE  /\ Cardinality(meta) = Size /\ meta \cap flat = {}
                      /\ \A r \in meta : {q \in meta : Group(q) = Group(r)} =
                                           {[r EXCEPT !.gen = g] : g \in 1 .. G}
  BY DEF WholeGroups, Batched
<1>2. Cardinality(meta) = Size /\ meta \cap flat = {} /\ Closed(meta)
  BY <1>1 DEF GroupInv, Batched, Filled, Stage, Ended
<1>3. PICK v : meta \subseteq RowsOf(epoch, v)
  BY <1>1 DEF GroupInv, Batched, Working, Stage
<1>4. ASSUME NEW r \in meta
      PROVE  {q \in meta : Group(q) = Group(r)} = {[r EXCEPT !.gen = g] : g \in 1 .. G}
  <2>1. ASSUME NEW q \in meta, Group(q) = Group(r)
        PROVE  \E g \in 1 .. G : q = [r EXCEPT !.gen = g]
    <3>1. q.gen \in 1 .. G BY <1>3 DEF RowsOf
    <3>2. q = [r EXCEPT !.gen = q.gen] BY <1>3, <2>1, SameAnswer
    <3> QED BY <3>1, <3>2
  <2>2. ASSUME NEW g \in 1 .. G
        PROVE  [r EXCEPT !.gen = g] \in meta /\ Group([r EXCEPT !.gen = g]) = Group(r)
    <3>1. [r EXCEPT !.gen = g] \in meta BY <1>2 DEF Closed
    <3> QED BY <1>3, <3>1, Answers
  <2> QED BY <2>1, <2>2
<1> QED BY <1>2, <1>4
-----------------------------------------------------------------------------
(* Fresh prompts                                                           *)

(* Every prompt these weights were trained on                              *)
Seen(w) == UNION {w[i] : i \in 1 .. Len(w)}
Before(e, b, h) == h.epoch < e \/ (h.epoch = e /\ h.batch < b)
UpTo(e, b, h) == h.epoch < e \/ (h.epoch = e /\ h.batch <= b)

(* Training has seen nothing the dataloader has not yet given out, and     *)
(* none of the prompts at hand; what a checkpoint saves of the two agrees. *)
FreshInv ==
  /\ \A h \in Seen(ckpt.weights) : UpTo(ckpt.epoch, ckpt.pos, h)
  /\ phase \notin {"stopped", "missing"} => \A h \in Seen(weights) : UpTo(epoch, pos, h)
  /\ phase = "rollout" => \A h \in Seen(weights) : Before(epoch, pos, h)
  /\ phase \in Working =>
       \A h \in Seen(weights), r \in meta \cup pending : Before(r.epoch, r.batch, h)

LEMMA SeenTyped ==
  ASSUME NEW w \in TrainedOn
  PROVE  /\ \A h \in Seen(w) : h.epoch \in Int /\ h.batch \in Int
         /\ \A b : Seen(Append(w, b)) = Seen(w) \cup b
<1>1. /\ Len(w) \in Nat
      /\ \A i \in 1 .. Len(w) : w[i] \subseteq [epoch : 0 .. MaxEpochs, batch : 1 .. Batches,
                                                prompt : 1 .. P, ver : 0 .. MaxSteps]
  BY DEF TrainedOn
<1>2. \A h \in Seen(w) : h.epoch \in Int /\ h.batch \in Int BY <1>1 DEF Seen
<1>3. ASSUME NEW b PROVE Seen(Append(w, b)) = Seen(w) \cup b
  <2>1. PICK z : z = Append(w, b) OBVIOUS
  <2>2. /\ Len(z) = Len(w) + 1 /\ z[Len(w) + 1] = b
        /\ \A i \in 1 .. Len(w) : z[i] = w[i]
    BY <2>1 DEF TrainedOn
  <2>3. 1 .. Len(z) = (1 .. Len(w)) \cup {Len(w) + 1} BY <1>1, <2>2
  <2>4. Seen(z) = Seen(w) \cup b BY <2>2, <2>3 DEF Seen
  <2> QED BY <2>1, <2>4
<1> QED BY <1>2, <1>3

LEMMA FreshInit == Init => FreshInv
<1>1. SUFFICES ASSUME Init PROVE FreshInv OBVIOUS
<1>2. phase = "start" /\ weights = <<>> /\ ckpt.weights = <<>> BY <1>1 DEF Init
<1>3. Seen(<<>>) = {} BY DEF Seen
<1> QED BY <1>2, <1>3 DEF FreshInv, Working

(* The steps that draw and train on nothing                                *)
LEMMA FreshAlike ==
  ASSUME FreshInv, UNCHANGED <<ckpt, epoch, pos, weights>>,
         meta' \cup pending' \subseteq meta \cup pending,
         phase' \in Working => phase \in Working \/ meta' \cup pending' = {},
         phase' = "rollout" => phase = "rollout",
         phase' \notin {"stopped", "missing"} => phase \notin {"stopped", "missing"}
  PROVE  FreshInv'
BY DEF FreshInv

LEMMA DrawFresh ==
  ASSUME TypeInv, OwnInv, GroupInv, FreshInv, Draw \/ Rollout
  PROVE  FreshInv'
<1>1. UNCHANGED <<ckpt, epoch, weights, pending>> BY DEF Draw, Rollout, rows, fixed
<1>2. epoch \in Int /\ pos \in Int /\ weights \in TrainedOn
  BY DEF OwnInv, TypeInv, WeightInv, WeightsOK
<1>3. \A h \in Seen(weights) : h.epoch \in Int /\ h.batch \in Int BY <1>2, SeenTyped
<1>4. CASE Draw
  <2>1. phase = "draw" /\ phase' = "rollout" /\ pos' = pos + 1 /\ meta' = meta
    BY <1>4 DEF Draw, rows
  <2>2. \A h \in Seen(weights) : UpTo(epoch, pos, h) BY <2>1 DEF FreshInv
  <2>3. \A h \in Seen(weights) : UpTo(epoch, pos + 1, h) /\ Before(epoch, pos + 1, h)
    BY <1>2, <1>3, <2>2 DEF UpTo, Before
  <2>4. \A h \in Seen(weights), r \in meta \cup pending : Before(r.epoch, r.batch, h)
    BY <2>1 DEF FreshInv, Working
  <2> QED BY <1>1, <2>1, <2>3, <2>4 DEF FreshInv
<1>5. CASE Rollout
  <2>1. phase = "rollout" /\ phase' \in {"filter", "prev_lp"} /\ pos' = pos /\ meta' = DrawnRows
    BY <1>5 DEF Rollout
  <2>2. \A h \in Seen(weights), r \in DrawnRows : Before(r.epoch, r.batch, h)
    BY <2>1, DrawnRow DEF FreshInv
  <2>3. \A h \in Seen(weights), r \in pending : Before(r.epoch, r.batch, h)
    BY <2>1 DEF FreshInv, Working
  <2>4. \A h \in Seen(weights) : UpTo(epoch, pos, h) BY <2>1 DEF FreshInv
  <2> QED BY <1>1, <2>1, <2>2, <2>3, <2>4 DEF FreshInv
<1> QED BY <1>4, <1>5

LEMMA TrainFresh == ASSUME TypeInv, OwnInv, GroupInv, FreshInv, Train PROVE FreshInv'
<1>1. /\ phase = "train" /\ phase' = "finish" /\ UNCHANGED <<ckpt, epoch, pos>>
      /\ weights' = Append(weights, Groups(meta))
  BY DEF Train, schedule, fixed, Groups
<1>2. epoch \in Int /\ pos \in Int /\ weights \in TrainedOn
  BY DEF OwnInv, TypeInv, WeightInv, WeightsOK
<1>3. Seen(weights') = Seen(weights) \cup Groups(meta) BY <1>1, <1>2, SeenTyped
<1>4. \A r \in meta : r.epoch = epoch /\ r.batch \in Int /\ r.batch <= pos
  BY <1>1 DEF OwnInv, GroupInv, Working, Ended, RowsOf
<1>5. \A g \in Groups(meta) : UpTo(epoch, pos, g) BY <1>4 DEF Groups, Group, UpTo
<1>6. \A h \in Seen(weights) : UpTo(epoch, pos, h) BY <1>1 DEF FreshInv
<1> QED BY <1>1, <1>3, <1>5, <1>6 DEF FreshInv, Working

LEMMA TurnFresh ==
  ASSUME TypeInv, OwnInv, FreshInv, EndStep \/ EndEpoch \/ Relaunch
  PROVE  FreshInv'
<1>1. epoch \in Int /\ pos \in Int /\ weights \in TrainedOn
  BY DEF OwnInv, TypeInv, WeightInv, WeightsOK
<1>2. CASE EndStep
  <2>1. /\ phase = "save" /\ phase' \in {"stopped", "done", "draw"} /\ meta = {} /\ pending = {}
        /\ UNCHANGED <<epoch, pos, weights, meta, pending>>
    BY <1>2 DEF EndStep, rows, OwnInv
  <2>2. \/ ckpt' = ckpt
        \/ ckpt'.epoch = epoch /\ ckpt'.pos = pos /\ ckpt'.weights = weights
    BY <1>2 DEF EndStep, Snapshot
  <2>3. \A h \in Seen(weights) : UpTo(epoch, pos, h) BY <2>1 DEF FreshInv
  <2>4. \A h \in Seen(ckpt'.weights) : UpTo(ckpt'.epoch, ckpt'.pos, h)
    BY <2>2, <2>3 DEF FreshInv
  <2> QED BY <2>1, <2>3, <2>4 DEF FreshInv
<1>3. CASE EndEpoch
  <2>1. /\ phase = "draw" /\ phase' = "epoch" /\ epoch' = epoch + 1 /\ UNCHANGED <<ckpt, weights>>
    BY <1>3 DEF EndEpoch, fixed
  <2>2. \A h \in Seen(weights) : h.epoch \in Int /\ UpTo(epoch, pos, h)
    BY <1>1, <2>1, SeenTyped DEF FreshInv
  <2>3. \A h \in Seen(weights) : UpTo(epoch', pos', h) BY <1>1, <2>1, <2>2 DEF UpTo
  <2> QED BY <2>1, <2>3 DEF FreshInv, Working
<1>4. CASE Relaunch
  <2>1. /\ phase' = "start" /\ ckpt' = ckpt /\ epoch' = ckpt.epoch /\ pos' = ckpt.pos
        /\ weights' = ckpt.weights
    BY <1>4 DEF Relaunch, fixed
  <2> QED BY <2>1 DEF FreshInv, Working
<1> QED BY <1>2, <1>3, <1>4

LEMMA KeptSome ==
  ASSUME CompleteBatch \/ SampleMore
  PROVE  meta' \cup pending' \subseteq meta \cup pending
BY DEF CompleteBatch, SampleMore, Kept, Slice, Survivors

LEMMA FreshStep == TypeInv /\ OwnInv /\ GroupInv /\ FreshInv /\ [Next]_vars => FreshInv'
<1>1. SUFFICES ASSUME TypeInv, OwnInv, GroupInv, FreshInv, [Next]_vars PROVE FreshInv' OBVIOUS
<1>2. CASE \/ Start \/ Validate \/ EndTraining \/ Dispatch \/ Join \/ Advantage \/ Crash
           \/ (\E k \in Ranks : RankStep(k)) \/ UNCHANGED vars
           \/ CompleteBatch \/ SampleMore \/ BeginEpoch
  <2>1. UNCHANGED <<ckpt, epoch, pos, weights>>
    BY <1>2 DEF Start, Validate, EndTraining, Dispatch, Join, Advantage, Crash, RankStep,
                Fetch, WriteBack, CompleteBatch, SampleMore, BeginEpoch, vars, fixed, schedule
  <2>2. meta' \cup pending' \subseteq meta \cup pending
    <3>1. CASE CompleteBatch \/ SampleMore BY <3>1, KeptSome
    <3>2. CASE ~(CompleteBatch \/ SampleMore)
      BY <1>2, <3>2 DEF Start, Validate, EndTraining, Dispatch, Join, Advantage, Crash, RankStep,
                Fetch, WriteBack, BeginEpoch, vars, rows
    <3> QED BY <3>1, <3>2
  <2>3. /\ phase' \in Working => phase \in Working \/ meta' \cup pending' = {}
        /\ phase' = "rollout" => phase = "rollout"
        /\ phase' \notin {"stopped", "missing"} => phase \notin {"stopped", "missing"}
    BY <1>1, <1>2 DEF Start, Validate, EndTraining, Dispatch, Join, Advantage, Crash, RankStep,
                Fetch, WriteBack, CompleteBatch, SampleMore, BeginEpoch, vars, Working, Stage,
                Ended, OwnInv
  <2> QED BY <1>1, <2>1, <2>2, <2>3, FreshAlike
<1>3. CASE FinishStep
  <2>1. /\ UNCHANGED <<ckpt, epoch, pos, weights, pending>> /\ phase' \notin Working
        /\ phase = "finish" /\ phase' # "rollout"
    BY <1>3 DEF FinishStep, schedule, fixed, Working
  <2>2. meta' \subseteq meta BY <1>3 DEF FinishStep
  <2> QED BY <1>1, <2>1, <2>2, FreshAlike
<1>4. CASE Draw \/ Rollout BY <1>1, <1>4, DrawFresh
<1>5. CASE Train BY <1>1, <1>5, TrainFresh
<1>6. CASE EndStep \/ EndEpoch \/ Relaunch BY <1>1, <1>6, TurnFresh
<1> QED BY <1>1, <1>2, <1>3, <1>4, <1>5, <1>6 DEF Next, Driver
-----------------------------------------------------------------------------
(* No prompt is lost                                                       *)

Of(e, b, p, r) == r.epoch = e /\ r.batch = b /\ r.prompt = p
Accounted(e, n, w, R) ==
  \A b \in 1 .. n, p \in 1 .. P : \E r \in Seen(w) \cup R : Of(e, b, p, r)

Work == {"filter", "prev_lp", "ref_lp", "advantage", "train"}
Drawn == IF phase = "rollout" THEN pos - 1 ELSE pos
Held == dropped \cup pending \cup (IF phase \in Work THEN meta ELSE {})

(* Every prompt drawn this epoch was trained on, dropped, or is at hand;   *)
(* a checkpoint, which keeps no rows, was written when none were pending.  *)
AccountInv ==
  /\ Accounted(ckpt.epoch, ckpt.pos, ckpt.weights, ckpt.dropped)
  /\ phase \notin Ended => Accounted(epoch, Drawn, weights, Held)
  /\ phase \in {"start", "first_validation", "epoch"} => pending = {} \/ pos = 0

LEMMA AccountedMore ==
  ASSUME NEW e, NEW n, NEW w, NEW R, Accounted(e, n, w, R), NEW v, NEW S,
         \A r \in Seen(w) \cup R : \E s \in Seen(v) \cup S :
            s.epoch = r.epoch /\ s.batch = r.batch /\ s.prompt = r.prompt
  PROVE  Accounted(e, n, v, S)
BY DEF Accounted, Of

LEMMA NoneDrawn == \A e, w, R : Accounted(e, 0, w, R)
BY DEF Accounted

LEMMA AccountInit == Init => AccountInv
<1>1. SUFFICES ASSUME Init PROVE AccountInv OBVIOUS
<1>2. phase = "start" /\ pos = 0 /\ ckpt.pos = 0 BY <1>1 DEF Init
<1> QED BY <1>2, NoneDrawn DEF AccountInv, Drawn

(* The steps that draw, train, save or restart nothing                     *)
LEMMA AccountAlike ==
  ASSUME AccountInv, UNCHANGED <<ckpt, epoch, weights>>,
         phase' \notin Ended => phase \notin Ended /\ Drawn' = Drawn /\ Held \subseteq Held',
         phase' \in {"start", "first_validation", "epoch"} =>
           phase \in {"start", "first_validation", "epoch"} /\ pending' = pending /\ pos' = pos
  PROVE  AccountInv'
<1>1. phase' \notin Ended => Accounted(epoch', Drawn', weights', Held')
  BY AccountedMore DEF AccountInv
<1> QED BY <1>1 DEF AccountInv

LEMMA RolloutAccounted ==
  ASSUME TypeInv, AccountInv, Rollout
  PROVE  AccountInv'
<1>1. /\ phase = "rollout" /\ phase' \in {"filter", "prev_lp"} /\ meta' = DrawnRows
      /\ UNCHANGED <<pos, epoch, weights, ckpt, dropped, pending>>
  BY DEF Rollout, fixed
<1>2. /\ Accounted(epoch, pos - 1, weights, Held) /\ Held = dropped \cup pending
      /\ Drawn' = pos /\ Held' = dropped \cup pending \cup DrawnRows
  BY <1>1 DEF AccountInv, Drawn, Held, Work, Ended
<1>3. pos \in Int /\ 1 \in 1 .. G BY SyncConstants DEF TypeInv, CountInv, CountersOK
<1>4. ASSUME NEW b \in 1 .. pos, NEW p \in 1 .. P
      PROVE  \E r \in Seen(weights) \cup Held' : Of(epoch, b, p, r)
  <2>1. CASE b = pos
    <3>1. PICK r : r = [epoch |-> epoch, batch |-> pos, prompt |-> p, gen |-> 1, ver |-> genWeights]
      OBVIOUS
    <3>2. r \in DrawnRows /\ Of(epoch, b, p, r) BY <1>3, <2>1, <3>1 DEF DrawnRows, Of
    <3> QED BY <1>2, <3>2
  <2>2. CASE b # pos
    <3>1. b \in 1 .. (pos - 1) BY <1>3, <2>2
    <3> QED BY <1>2, <3>1 DEF Accounted
  <2> QED BY <2>1, <2>2
<1>5. Accounted(epoch', Drawn', weights', Held') BY <1>1, <1>2, <1>4 DEF Accounted
<1> QED BY <1>1, <1>5 DEF AccountInv

LEMMA FilterAccounted ==
  ASSUME AccountInv, CompleteBatch \/ SampleMore
  PROVE  AccountInv'
<1>1. phase = "filter" /\ UNCHANGED <<ckpt, epoch, weights, pos>>
      /\ phase' \in {"prev_lp", "too_many_batches", "draw"}
  BY DEF CompleteBatch, SampleMore, schedule, fixed
<1>2. Drawn' = Drawn /\ Held = dropped \cup pending \cup meta
  BY <1>1 DEF Drawn, Held, Work
<1>3. dropped \cup pending \cup meta \subseteq Held'
  <2>1. CASE CompleteBatch
    <3>1. /\ phase' = "prev_lp" /\ meta' = Kept /\ dropped' = dropped \cup Discarded
      BY <2>1 DEF CompleteBatch
    <3> QED BY <3>1 DEF Held, Work, Discarded, Survivors
  <2>2. CASE SampleMore
    BY <2>2 DEF SampleMore, Held, Work, Survivors
  <2> QED BY <2>1, <2>2
<1> QED BY <1>1, <1>2, <1>3, AccountAlike DEF Ended

LEMMA TrainAccounted == ASSUME TypeInv, AccountInv, Train PROVE AccountInv'
<1>1. /\ phase = "train" /\ phase' = "finish" /\ UNCHANGED <<ckpt, epoch, pos, dropped, pending>>
      /\ weights' = Append(weights, Groups(meta))
  BY DEF Train, schedule, rows, fixed, Groups
<1>2. weights \in TrainedOn BY DEF TypeInv, WeightInv, WeightsOK
<1>3. Seen(weights') = Seen(weights) \cup Groups(meta) BY <1>1, <1>2, SeenTyped
<1>4. /\ Held = dropped \cup pending \cup meta /\ Held' = dropped \cup pending
      /\ Drawn' = Drawn /\ Accounted(epoch, Drawn, weights, Held)
  BY <1>1 DEF Held, Work, Drawn, AccountInv, Ended
<1>5. \A r \in meta : /\ Group(r) \in Groups(meta) /\ Group(r).epoch = r.epoch
                      /\ Group(r).batch = r.batch /\ Group(r).prompt = r.prompt
  BY DEF Groups, Group
<1>6. \A r \in Seen(weights) \cup Held : \E s \in Seen(weights') \cup Held' :
         s.epoch = r.epoch /\ s.batch = r.batch /\ s.prompt = r.prompt
  BY <1>3, <1>4, <1>5
<1>7. Accounted(epoch', Drawn', weights', Held') BY <1>1, <1>4, <1>6, AccountedMore
<1> QED BY <1>1, <1>7 DEF AccountInv

LEMMA TurnAccounted ==
  ASSUME TypeInv, OwnInv, AccountInv, Draw \/ EndStep \/ EndEpoch \/ BeginEpoch \/ Relaunch
  PROVE  AccountInv'
<1>1. CASE Draw
  <2>1. /\ phase = "draw" /\ phase' = "rollout" /\ pos' = pos + 1
        /\ UNCHANGED <<ckpt, epoch, weights, dropped, pending>>
    BY <1>1 DEF Draw, rows, fixed
  <2>2. pos \in Int BY DEF OwnInv
  <2>3. Drawn' = Drawn /\ Held' = Held BY <2>1, <2>2 DEF Drawn, Held, Work
  <2> QED BY <2>1, <2>3, AccountAlike DEF Ended
<1>2. CASE EndStep
  <2>1. /\ phase = "save" /\ phase' \in {"stopped", "done", "draw"} /\ pending = {}
        /\ UNCHANGED <<epoch, pos, weights, dropped, pending>>
    BY <1>2 DEF EndStep, rows, OwnInv
  <2>2. \/ ckpt' = ckpt
        \/ /\ ckpt'.epoch = epoch /\ ckpt'.pos = pos /\ ckpt'.weights = weights
           /\ ckpt'.dropped = dropped
    BY <1>2 DEF EndStep, Snapshot
  <2>3. /\ Held = dropped /\ Held' = dropped /\ Drawn = pos /\ Drawn' = pos
        /\ Accounted(epoch, Drawn, weights, Held)
    BY <2>1 DEF Held, Work, Drawn, AccountInv, Ended
  <2>4. Accounted(ckpt'.epoch, ckpt'.pos, ckpt'.weights, ckpt'.dropped)
    BY <2>2, <2>3 DEF AccountInv
  <2> QED BY <2>1, <2>3, <2>4 DEF AccountInv
<1>3. CASE EndEpoch
  <2>1. phase' = "epoch" /\ pos' = 0 /\ ckpt' = ckpt BY <1>3 DEF EndEpoch, fixed
  <2>2. Accounted(epoch', Drawn', weights', Held') BY <2>1, NoneDrawn DEF Drawn
  <2> QED BY <2>1, <2>2 DEF AccountInv
<1>4. CASE BeginEpoch
  <2>1. /\ phase = "epoch" /\ phase' = "draw" /\ pending' = {}
        /\ UNCHANGED <<ckpt, epoch, weights, dropped, pos>>
    BY <1>4 DEF BeginEpoch, fixed
  <2>2. Accounted(epoch, Drawn, weights, Held) /\ Drawn = pos /\ Drawn' = pos
    BY <2>1 DEF AccountInv, Drawn, Ended
  <2>3. Held = dropped \cup pending /\ Held' = dropped /\ (pending = {} \/ pos = 0)
    BY <2>1 DEF AccountInv, Held, Work
  <2>4. Accounted(epoch', Drawn', weights', Held')
    <3>1. CASE pending = {} BY <2>1, <2>2, <2>3, <3>1
    <3>2. CASE pos = 0 BY <2>2, <3>2, NoneDrawn
    <3> QED BY <2>3, <3>1, <3>2
  <2> QED BY <2>1, <2>4 DEF AccountInv
<1>5. CASE Relaunch
  <2>1. /\ phase' = "start" /\ ckpt' = ckpt /\ epoch' = ckpt.epoch /\ pos' = ckpt.pos
        /\ weights' = ckpt.weights /\ pending' = {} /\ dropped' = ckpt.dropped
    BY <1>5 DEF Relaunch, fixed
  <2>2. Drawn' = ckpt.pos /\ Held' = ckpt.dropped BY <2>1 DEF Drawn, Held, Work
  <2> QED BY <2>1, <2>2 DEF AccountInv
<1> QED BY <1>1, <1>2, <1>3, <1>4, <1>5

LEMMA AccountStep == TypeInv /\ OwnInv /\ AccountInv /\ [Next]_vars => AccountInv'
<1>1. SUFFICES ASSUME TypeInv, OwnInv, AccountInv, [Next]_vars PROVE AccountInv' OBVIOUS
<1>2. CASE \/ Start \/ Validate \/ EndTraining \/ Dispatch \/ Join \/ Advantage \/ Crash
           \/ (\E k \in Ranks : RankStep(k)) \/ UNCHANGED vars
  <2>1. UNCHANGED <<ckpt, epoch, weights, pos, pending, dropped, meta>>
    BY <1>2 DEF Start, Validate, EndTraining, Dispatch, Join, Advantage, Crash, RankStep,
                Fetch, WriteBack, vars, fixed, schedule, rows
  <2>2. /\ phase' \notin Ended => phase \notin Ended
        /\ phase' \notin Ended => (phase' = "rollout" <=> phase = "rollout")
        /\ phase \in Work => phase' \in Work \cup Ended
        /\ phase' \in {"start", "first_validation", "epoch"} =>
             phase \in {"start", "first_validation", "epoch"}
    BY <1>2 DEF Start, Validate, EndTraining, Dispatch, Join, Advantage, Crash, RankStep,
                Fetch, WriteBack, vars, Work, Stage, Ended
  <2>3. phase' \notin Ended => Drawn' = Drawn /\ Held \subseteq Held'
    BY <2>1, <2>2 DEF Drawn, Held
  <2> QED BY <1>1, <2>1, <2>2, <2>3, AccountAlike
<1>3. CASE FinishStep
  <2>1. /\ UNCHANGED <<ckpt, epoch, pos, weights, pending, dropped>> /\ phase = "finish"
    BY <1>3 DEF FinishStep, schedule, fixed
  <2>2. phase' \in {"validation", "save", "missing"} BY <1>3 DEF FinishStep
  <2>3. Drawn' = Drawn /\ Held' = Held BY <2>1, <2>2 DEF Drawn, Held, Work
  <2> QED BY <1>1, <2>1, <2>2, <2>3, AccountAlike DEF Ended
<1>4. CASE Rollout BY <1>1, <1>4, RolloutAccounted
<1>5. CASE CompleteBatch \/ SampleMore BY <1>1, <1>5, FilterAccounted
<1>6. CASE Train BY <1>1, <1>6, TrainAccounted
<1>7. CASE Draw \/ EndStep \/ EndEpoch \/ BeginEpoch \/ Relaunch BY <1>1, <1>7, TurnAccounted
<1> QED BY <1>1, <1>2, <1>3, <1>4, <1>5, <1>6, <1>7 DEF Next, Driver
-----------------------------------------------------------------------------
(* The last weights are saved                                              *)

Lost == \E r \in dropped : r.epoch = epoch

(* What ResultSaved rests on: an epoch has as many steps as batches unless *)
(* dynamic sampling dropped a prompt in it, and the step that fills the    *)
(* last epoch or reaches max_num_steps saves.                              *)
SavedInv ==
  /\ ckpt.epoch < MaxEpochs
  /\ (\E r \in ckpt.dropped : r.epoch = ckpt.epoch) \/ ckpt.step = ckpt.pos
  /\ phase \notin Ended =>
       Lost \/ pos = IF phase \in InStep THEN step + 1 ELSE step
  /\ phase \notin Ended /\ epoch + 1 = MaxEpochs /\ step = Batches => ckpt.weights = weights
  /\ phase = "epoch" /\ epoch = MaxEpochs =>
       ckpt.weights = weights \/ \E r \in dropped : r.epoch = MaxEpochs - 1
  /\ phase \in {"start", "first_validation"} => epoch < MaxEpochs
  /\ phase \in {"start", "first_validation", "epoch"} /\ total >= MaxSteps =>
       ckpt.weights = weights
  /\ ResultSaved

LEMMA SavedInit == Init => SavedInv
<1>1. SUFFICES ASSUME Init PROVE SavedInv OBVIOUS
<1>2. /\ phase = "start" /\ epoch = 0 /\ step = 0 /\ total = 0 /\ pos = 0 /\ weights = <<>>
      /\ ckpt.epoch = 0 /\ ckpt.step = 0 /\ ckpt.pos = 0 /\ ckpt.weights = <<>>
  BY <1>1 DEF Init
<1> QED BY <1>2, Constants DEF SavedInv, ResultSaved, InStep, Updated

(* The steps inside a step of training                                     *)
LEMMA SavedAlike ==
  ASSUME SavedInv, UNCHANGED <<ckpt, epoch, step, total, pos, dropped, weights>>,
         phase' \notin {"start", "epoch", "done"}, phase' = "first_validation" => phase = "start",
         phase' \notin Ended => phase \notin Ended /\ (phase' \in InStep <=> phase \in InStep)
  PROVE  SavedInv'
BY DEF SavedInv, Lost, ResultSaved

(* Dynamic sampling asks for another batch only after it dropped a prompt. *)
LEMMA FilterSaved ==
  ASSUME OwnInv, GroupInv, SavedInv, CompleteBatch \/ SampleMore
  PROVE  SavedInv'
<1>1. /\ phase = "filter" /\ UNCHANGED <<ckpt, epoch, step, total, pos, weights>>
      /\ phase' \in {"prev_lp", "too_many_batches", "draw"}
  BY DEF CompleteBatch, SampleMore, schedule, fixed
<1>2. dropped \subseteq dropped' BY DEF CompleteBatch, SampleMore
<1>3. Lost => Lost' BY <1>1, <1>2 DEF Lost
<1>4. CASE CompleteBatch
  <2>1. phase' = "prev_lp" BY <1>4 DEF CompleteBatch
  <2> QED BY <1>1, <1>2, <1>3, <2>1 DEF SavedInv, ResultSaved, InStep, Updated, Ended
<1>5. CASE SampleMore
  <2>1. meta \cap flat # {}
    <3>1. SUFFICES ASSUME meta \cap flat = {} PROVE FALSE OBVIOUS
    <3>2. meta \subseteq Survivors BY <3>1 DEF Survivors
    <3>3. IsFiniteSet(Survivors) /\ Cardinality(Survivors) \in Nat BY <1>1, SurvivorsWhole
    <3>4. Cardinality(meta) = Size BY <1>1 DEF GroupInv, Filled
    <3>5. Cardinality(meta) <= Cardinality(Survivors) BY <3>2, <3>3, FS_Subset
    <3>6. Size \in Nat BY SyncConstants DEF Size
    <3> QED BY <1>5, <3>3, <3>4, <3>5, <3>6 DEF SampleMore
  <2>2. \A r \in meta : r.epoch = epoch BY <1>1 DEF GroupInv, Working, RowsOf
  <2>3. Lost' BY <1>1, <1>5, <2>1, <2>2 DEF SampleMore, Lost
  <2> QED BY <1>1, <1>3, <2>3 DEF SavedInv, ResultSaved, InStep, Updated, Ended
<1> QED BY <1>4, <1>5

LEMMA TrainSaved == ASSUME TypeInv, SavedInv, Train PROVE SavedInv'
<1>1. /\ phase = "train" /\ phase' = "finish"
      /\ UNCHANGED <<ckpt, epoch, step, total, pos, dropped>>
  BY DEF Train, schedule, rows, fixed
<1>2. step \in Int /\ pos \in Int /\ step < pos /\ pos <= Batches /\ Batches \in Int
  BY <1>1, Constants DEF TypeInv, CountInv, CountersOK, InStep
<1>3. Lost \/ pos = step + 1 BY <1>1 DEF SavedInv, InStep, Ended
<1>4. Lost' \/ pos' = step' + 1 BY <1>1, <1>3 DEF Lost
<1>5. step' # Batches BY <1>1, <1>2
<1> QED BY <1>1, <1>4, <1>5 DEF SavedInv, ResultSaved, InStep, Updated, Ended

LEMMA TurnSaved ==
  ASSUME TypeInv, SavedInv, Draw \/ Start \/ EndTraining \/ EndEpoch \/ Relaunch
  PROVE  SavedInv'
<1>0. /\ epoch \in 0 .. MaxEpochs /\ step \in 0 .. Batches /\ total \in 0 .. MaxSteps
      /\ pos \in 0 .. Batches
      /\ MaxEpochs \in Nat \ {0} /\ Batches \in Nat \ {0} /\ MaxSteps \in Nat \ {0}
  BY Constants DEF TypeInv, CountInv, CountersOK
<1>1. CASE Draw
  <2>1. /\ phase = "draw" /\ phase' = "rollout" /\ pos' = pos + 1
        /\ UNCHANGED <<ckpt, epoch, step, total, dropped, weights>>
    BY <1>1 DEF Draw, rows, fixed
  <2> QED BY <1>0, <2>1 DEF SavedInv, Lost, ResultSaved, InStep, Updated, Ended
<1>2. CASE Start
  <2>1. /\ phase = "start" /\ phase' \in {"first_validation", "epoch"}
        /\ UNCHANGED <<ckpt, epoch, step, total, pos, dropped, weights>>
    BY <1>2 DEF Start, schedule, rows, fixed
  <2> QED BY <1>0, <2>1 DEF SavedInv, Lost, ResultSaved, InStep, Updated, Ended
<1>3. CASE EndTraining
  <2>1. /\ phase = "epoch" /\ phase' = "done" /\ (epoch >= MaxEpochs \/ total >= MaxSteps)
        /\ UNCHANGED <<ckpt, epoch, step, total, pos, dropped, pending, weights>>
    BY <1>3 DEF EndTraining, schedule, rows, fixed
  <2>2. ckpt.weights = weights \/ \E r \in dropped : r.epoch = MaxEpochs - 1
    BY <1>0, <2>1 DEF SavedInv
  <2>3. ResultSaved' BY <2>1, <2>2 DEF ResultSaved
  <2> QED BY <2>1, <2>3 DEF SavedInv, Ended
<1>4. CASE EndEpoch
  <2>1. /\ phase = "draw" /\ phase' = "epoch" /\ pos = Batches
        /\ epoch' = epoch + 1 /\ step' = 0 /\ pos' = 0
        /\ UNCHANGED <<ckpt, total, dropped, weights>>
    BY <1>4 DEF EndEpoch, rows, fixed
  <2>2. epoch < MaxEpochs /\ total < MaxSteps BY <2>1 DEF TypeInv, CountInv
  <2>3. Lost \/ pos = step BY <2>1 DEF SavedInv, InStep, Updated, Ended
  <2>4. epoch' = MaxEpochs =>
          ckpt.weights = weights \/ \E r \in dropped : r.epoch = MaxEpochs - 1
    <3>1. SUFFICES ASSUME epoch + 1 = MaxEpochs
                   PROVE  ckpt.weights = weights \/ \E r \in dropped : r.epoch = MaxEpochs - 1
      BY <2>1
    <3>2. CASE Lost BY <1>0, <3>1, <3>2 DEF Lost
    <3>3. CASE pos = step BY <2>1, <3>1, <3>3 DEF SavedInv, Ended
    <3> QED BY <2>3, <3>2, <3>3
  <2>5. ResultSaved' BY <2>1 DEF ResultSaved
  <2> QED BY <1>0, <2>1, <2>2, <2>4, <2>5 DEF SavedInv, InStep, Updated
<1>5. CASE Relaunch
  <2>1. /\ phase' = "start" /\ ckpt' = ckpt /\ epoch' = ckpt.epoch /\ step' = ckpt.step
        /\ pos' = ckpt.pos /\ weights' = ckpt.weights /\ dropped' = ckpt.dropped
    BY <1>5 DEF Relaunch, fixed
  <2>2. ResultSaved' BY <2>1 DEF ResultSaved
  <2>3. Lost' \/ pos' = step' BY <2>1 DEF SavedInv, Lost
  <2> QED BY <2>1, <2>2, <2>3 DEF SavedInv, InStep, Updated
<1> QED BY <1>1, <1>2, <1>3, <1>4, <1>5

LEMMA EndStepSaved == ASSUME TypeInv, SavedInv, EndStep PROVE SavedInv'
<1>0. /\ epoch \in 0 .. MaxEpochs /\ step \in 0 .. Batches /\ total \in 0 .. MaxSteps
      /\ pos \in 0 .. Batches
      /\ MaxEpochs \in Nat \ {0} /\ Batches \in Nat \ {0} /\ MaxSteps \in Nat \ {0}
  BY Constants DEF TypeInv, CountInv, CountersOK
<1>1. /\ phase = "save" /\ phase' \in {"stopped", "done", "draw"} /\ step' = step + 1
      /\ UNCHANGED <<epoch, pos, dropped, pending, weights>>
      /\ phase' = "done" => total + 1 >= MaxSteps
  BY DEF EndStep, rows
<1>2. epoch < MaxEpochs /\ (Lost \/ pos = step + 1)
  BY <1>1 DEF TypeInv, CountInv, SavedInv, InStep, Updated, Ended
<1>3. /\ ckpt' = Snapshot \/ ckpt' = ckpt
      /\ IsLastStep => ckpt' = Snapshot
  BY DEF EndStep
<1>4. /\ Snapshot.epoch = epoch /\ Snapshot.step = step + 1 /\ Snapshot.pos = pos
      /\ Snapshot.weights = weights /\ Snapshot.dropped = dropped
  BY DEF Snapshot
<1>5. /\ ckpt'.epoch < MaxEpochs
      /\ (\E r \in ckpt'.dropped : r.epoch = ckpt'.epoch) \/ ckpt'.step = ckpt'.pos
  <2>1. CASE ckpt' = ckpt BY <2>1 DEF SavedInv
  <2>2. CASE ckpt' = Snapshot BY <1>2, <1>4, <2>2 DEF Lost
  <2> QED BY <1>3, <2>1, <2>2
<1>6. epoch' + 1 = MaxEpochs /\ step' = Batches => ckpt'.weights = weights'
  BY <1>1, <1>3, <1>4 DEF IsLastStep
<1>7. phase' = "done" => ckpt'.weights = weights'
  BY <1>1, <1>3, <1>4 DEF IsLastStep
<1>8. Lost' \/ pos' = step' BY <1>1, <1>2 DEF Lost
<1> QED BY <1>1, <1>5, <1>6, <1>7, <1>8 DEF SavedInv, ResultSaved, InStep, Updated

LEMMA SavedStep == TypeInv /\ OwnInv /\ GroupInv /\ SavedInv /\ [Next]_vars => SavedInv'
<1>1. SUFFICES ASSUME TypeInv, OwnInv, GroupInv, SavedInv, [Next]_vars PROVE SavedInv' OBVIOUS
<1>2. CASE \/ Dispatch \/ Join \/ Advantage \/ Crash \/ Rollout \/ FinishStep
           \/ (\E k \in Ranks : RankStep(k))
  <2>1. UNCHANGED <<ckpt, epoch, step, total, pos, dropped, weights>>
    BY <1>2 DEF Dispatch, Join, Advantage, Crash, Rollout, FinishStep, RankStep,
                Fetch, WriteBack, fixed, schedule, rows
  <2>2. /\ phase' \notin {"start", "epoch", "done"}
        /\ phase' = "first_validation" => phase = "start"
        /\ phase' \notin Ended => phase \notin Ended /\ (phase' \in InStep <=> phase \in InStep)
    BY <1>2 DEF Dispatch, Join, Advantage, Crash, Rollout, FinishStep, RankStep,
                Fetch, WriteBack, InStep, Updated, Stage, Ended
  <2> QED BY <1>1, <2>1, <2>2, SavedAlike
<1>3. CASE Validate \/ BeginEpoch \/ UNCHANGED vars
  <2>1. UNCHANGED <<ckpt, epoch, step, total, pos, dropped, weights>>
    BY <1>3 DEF Validate, BeginEpoch, vars, fixed, schedule, rows
  <2>2. \/ phase = "first_validation" /\ phase' = "epoch" /\ pending' = pending
        \/ phase = "validation" /\ phase' = "save"
        \/ phase = "epoch" /\ phase' = "draw"
        \/ phase' = phase /\ pending' = pending
    BY <1>3 DEF Validate, BeginEpoch, vars, rows
  <2>3. epoch \in Int /\ MaxEpochs \in Int BY <1>1, Constants DEF OwnInv
  <2> QED BY <1>1, <2>1, <2>2, <2>3 DEF SavedInv, Lost, ResultSaved, InStep, Updated, Ended
<1>4. CASE CompleteBatch \/ SampleMore BY <1>1, <1>4, FilterSaved
<1>5. CASE Train BY <1>1, <1>5, TrainSaved
<1>6. CASE Draw \/ Start \/ EndTraining \/ EndEpoch \/ Relaunch BY <1>1, <1>6, TurnSaved
<1>7. CASE EndStep BY <1>1, <1>7, EndStepSaved
<1> QED BY <1>1, <1>2, <1>3, <1>4, <1>5, <1>6, <1>7 DEF Next, Driver

LEMMA KeepersHold == Spec => [](GroupInv /\ FreshInv /\ AccountInv /\ SavedInv)
<1>1. Init => GroupInv /\ FreshInv /\ AccountInv /\ SavedInv
  BY GroupInit, FreshInit, AccountInit, SavedInit
<1>2. /\ TypeInv /\ EngineInv /\ OwnInv
      /\ GroupInv /\ FreshInv /\ AccountInv /\ SavedInv /\ [Next]_vars
      => (GroupInv /\ FreshInv /\ AccountInv /\ SavedInv)'
  BY GroupStep, FreshStep, AccountStep, SavedStep
<1> QED BY SyncHolds, <1>1, <1>2, PTL DEF Spec

(* Dynamic sampling, epochs and restarts lose no prompt: the batch the     *)
(* ranks work on is one full batch of whole groups, every prompt the       *)
(* dataloader gave out this epoch was trained on, dropped or is pending,   *)
(* also after a restart in mid-epoch, and a job ends with its last weights *)
(* saved.                                                                  *)
THEOREM PromptsKept == Spec => []PromptsAccounted
<1>1. ASSUME GroupInv, AccountInv, SavedInv PROVE PromptsAccounted
  <2>1. WholeGroups BY <1>1, GroupsAreWhole
  <2>2. ResultSaved BY <1>1 DEF SavedInv
  <2>3. ASSUME phase \in {"start", "draw", "save"}, NEW b \in 1 .. pos, NEW p \in 1 .. P
        PROVE  \/ \E i \in 1 .. Len(weights) : \E g \in weights[i] : Of(epoch, b, p, g)
               \/ \E r \in dropped \cup pending : Of(epoch, b, p, r)
    <3>1. Accounted(epoch, pos, weights, dropped \cup pending)
      BY <1>1, <2>3 DEF AccountInv, Drawn, Held, Work, Ended
    <3>2. PICK r \in Seen(weights) \cup dropped \cup pending : Of(epoch, b, p, r)
      BY <3>1 DEF Accounted
    <3> QED BY <3>2 DEF Seen
  <2> QED BY <2>1, <2>2, <2>3 DEF PromptsAccounted, Of
<1> QED BY KeepersHold, <1>1, PTL
-----------------------------------------------------------------------------
(* The promise                                                             *)

LEMMA SameCardinality == ASSUME NEW S PROVE Abstract!Cardinality(S) = Cardinality(S)
BY DEF Abstract!Cardinality, Cardinality

(* A batch of P * G rows in whole groups is of P prompts.                  *)
LEMMA BatchOfPrompts ==
  ASSUME NEW e, NEW v, NEW R \in SUBSET RowsOf(e, v), IsFiniteSet(R), Closed(R),
         Cardinality(R) = Size
  PROVE  /\ Cardinality(Groups(R)) = P
         /\ Cardinality({Abstract!Prompt(g) : g \in Groups(R)}) = P
<1>0. G \in Nat \ {0} /\ P \in Nat /\ 1 \in 1 .. G BY SyncConstants
<1>1. /\ IsFiniteSet(Groups(R)) /\ Cardinality(Groups(R)) \in Nat
      /\ Cardinality(R) = Cardinality(Groups(R)) * G
  BY Tiled
<1>2. Cardinality(Groups(R)) * G + 1 = P * G + 1 BY <1>1 DEF Size
<1>3. Cardinality(Groups(R)) = P BY <1>0, <1>1, <1>2, Digits
<1>4. PICK S, T, f : /\ S = Groups(R) /\ T = {Abstract!Prompt(g) : g \in Groups(R)}
                     /\ f = [g \in S |-> Abstract!Prompt(g)]
  OBVIOUS
<1>5. f \in [S -> T] BY <1>4
<1>6. ASSUME NEW x \in S, NEW y \in S, f[x] = f[y] PROVE x = y
  <2>1. PICK q \in R : x = Group(q) BY <1>4 DEF Groups
  <2>2. PICK r \in R : y = Group(r) BY <1>4 DEF Groups
  <2>3. x.batch = y.batch /\ x.prompt = y.prompt
    BY <1>4, <1>6 DEF Abstract!Prompt
  <2>4. q.epoch = e /\ q.ver = v /\ r.epoch = e /\ r.ver = v BY DEF RowsOf
  <2>5. q.batch = r.batch /\ q.prompt = r.prompt BY <2>1, <2>2, <2>3 DEF Group
  <2> QED BY <2>1, <2>2, <2>4, <2>5 DEF Group
<1>7. \A t \in T : \E x \in S : f[x] = t BY <1>4
<1>8. IsFiniteSet(S) BY <1>1, <1>4
<1>9. Cardinality(T) = Cardinality(S) BY <1>5, <1>6, <1>7, <1>8, SameSize
<1> QED BY <1>3, <1>4, <1>9

LEMMA TrainSteps ==
  ASSUME TypeInv, GroupInv, FreshInv, Train
  PROVE  Abstract!Step
<1>1. /\ phase = "train" /\ ckpt' = ckpt /\ weights' = Append(weights, Groups(meta))
  BY DEF Train, fixed, Groups
<1>2. PICK n : n = Len(weights) OBVIOUS
<1>3. meta \subseteq RowsOf(epoch, n) /\ IsFiniteSet(meta) /\ Closed(meta) /\ Cardinality(meta) = Size
  BY <1>1, <1>2 DEF GroupInv, Working, Filled, Stage, Ended
<1>4. weights \in TrainedOn BY DEF TypeInv, WeightInv, WeightsOK
<1>5. Len(weights') = Len(weights) + 1 /\ weights'[Len(weights) + 1] = Groups(meta)
  BY <1>1, <1>4 DEF TrainedOn
<1>6. Abstract!Batch = Groups(meta) BY <1>5 DEF Abstract!Batch
<1>7. /\ Cardinality(Groups(meta)) = P
      /\ Cardinality({Abstract!Prompt(g) : g \in Groups(meta)}) = P
  BY <1>3, BatchOfPrompts
<1>8. \A g \in Groups(meta) : g.ver = Len(weights) BY <1>2, <1>3 DEF Groups, Group, RowsOf
<1>9. Abstract!Trained = Seen(weights) BY DEF Abstract!Trained, Seen
<1>10. ASSUME NEW g \in Groups(meta), NEW h \in Seen(weights),
              Abstract!Prompt(g) = Abstract!Prompt(h)
       PROVE  FALSE
  <2>1. PICK r \in meta : g = Group(r) BY DEF Groups
  <2>2. r.epoch = h.epoch /\ r.batch = h.batch BY <1>10, <2>1 DEF Abstract!Prompt, Group
  <2>3. Before(r.epoch, r.batch, h) BY <1>1 DEF FreshInv, Working
  <2>4. h.epoch \in Int /\ h.batch \in Int BY <1>4, SeenTyped
  <2> QED BY <2>2, <2>3, <2>4 DEF Before
<1>11. /\ Abstract!Cardinality(Groups(meta)) = P
       /\ Abstract!Cardinality({Abstract!Prompt(g) : g \in Groups(meta)}) = P
  BY <1>7, SameCardinality
<1> QED BY <1>1, <1>5, <1>6, <1>8, <1>9, <1>10, <1>11 DEF Abstract!Step

LEMMA StepsArePromised ==
  TypeInv /\ GroupInv /\ FreshInv /\ [Next]_vars => [Abstract!Next]_Abstract!vars
<1>1. SUFFICES ASSUME TypeInv, GroupInv, FreshInv, [Next]_vars
               PROVE  Abstract!Next \/ UNCHANGED <<weights, ckpt.weights>>
  BY DEF Abstract!vars
<1>2. CASE Train BY <1>1, <1>2, TrainSteps DEF Abstract!Next
<1>3. CASE EndStep
  <2>1. weights' = weights /\ (ckpt' = ckpt \/ ckpt' = Snapshot) BY <1>3 DEF EndStep
  <2>2. CASE ckpt' = ckpt BY <2>1, <2>2
  <2>3. CASE ckpt' = Snapshot
    <3>1. ckpt'.weights = weights BY <2>3 DEF Snapshot
    <3> QED BY <2>1, <3>1 DEF Abstract!Save, Abstract!Next
  <2> QED BY <2>1, <2>2, <2>3
<1>4. CASE Relaunch
  <2>1. weights' = ckpt.weights /\ ckpt' = ckpt BY <1>4 DEF Relaunch, fixed
  <2> QED BY <2>1 DEF Abstract!Restart, Abstract!Next
<1>5. CASE ~(Train \/ EndStep \/ Relaunch)
  <2>1. UNCHANGED <<weights, ckpt>>
    BY <1>1, <1>5 DEF Next, Driver, RankStep, vars, fixed, Start, Validate, BeginEpoch,
         EndTraining, EndEpoch, Draw, Rollout, CompleteBatch, SampleMore, Dispatch,
         Fetch, WriteBack, Join, Advantage, FinishStep, Crash
  <2> QED BY <2>1
<1> QED BY <1>2, <1>3, <1>4, <1>5

(* grpo_train_sync keeps the promise of on-policy training: each update is *)
(* of P prompts these weights were never trained on, answered by these     *)
(* very weights, whatever the dataloader, dynamic sampling, the ranks,     *)
(* refits, checkpoints, crashes and restarts do in between.                *)
THEOREM ImplementsOnPolicy == Spec => Promise
<1>1. Init => Abstract!Init
  BY DEF Init, Abstract!Init
<1> QED BY <1>1, StepsArePromised, SyncHolds, KeepersHold, PTL DEF Spec, Promise, Abstract!Spec
=============================================================================
