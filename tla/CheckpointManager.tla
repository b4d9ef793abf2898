------------------------- MODULE CheckpointManager -------------------------
(***************************************************************************)
(* CheckpointManager (nemo_rl/utils/checkpoint.py): how a checkpoint is    *)
(* written to tmp_step_N, moved to step_N and how old ones are pruned,     *)
(* with a crash between any two operations on the file system.  A rename   *)
(* is atomic; removing a tree removes its files one by one, in an order    *)
(* the file system chooses.                                                *)
(*                                                                         *)
(* A directory is there or not and holds two files: info                   *)
(* (training_info.json) and state (the weights, optimizer, dataloader and  *)
(* buffer the loop saves).  A file is the number of the save that wrote    *)
(* it, 0 if missing.                                                       *)
(***************************************************************************)
EXTENDS Integers, FiniteSets

CONSTANTS
  KeepTopK,   \* keep_top_k
  MaxStep,    \* bound: the largest step saved
  MaxSaves,   \* bound: how many saves are begun
  MaxMetric,  \* bound: values of the metric; 0 when training_info has none
  MayResave   \* clients may save a step that is not above the latest

ASSUME CheckpointConstants ==
  /\ KeepTopK \in Nat /\ MaxStep \in Nat /\ MaxSaves \in Nat /\ MaxMetric \in Nat
  /\ MayResave \in BOOLEAN

VARIABLES
  final, tmp, old,  \* step_N, tmp_step_N, old_step_N
  metric,           \* per save: the metric in its training_info
  pc, step,         \* where the saving job is, and the step it saves
  saves,            \* how many saves were begun; the current one's number
  victims,          \* checkpoints remove_old_checkpoints has still to delete
  condemned,        \* history: steps whose present step_N was chosen for deletion
  resaved           \* history: whether a step was ever saved again

vars == <<final, tmp, old, metric, pc, step, saves, victims, condemned, resaved>>
history == <<condemned, resaved>>

Steps == 1 .. MaxStep
Stamps == 0 .. MaxSaves
Dirs == [there : BOOLEAN, info : Stamps, state : Stamps]
Gone == [there |-> FALSE, info |-> 0, state |-> 0]

Whole(d) == d.info # 0 /\ d.info = d.state
IsEmpty(d) == d.info = 0 /\ d.state = 0

Finals == {n \in Steps : final[n].there}
IsLatest(n, S) == n \in S /\ \A k \in S : k <= n

(* _load_checkpoint_history: only directories with a training_info.json *)
History == {n \in Finals : final[n].info # 0}
MetricOf(n) == metric[final[n].info]

(* Mutant: the sort keeps the worst *)
RanksAboveWorst(m, n) ==
  MetricOf(m) < MetricOf(n) \/ (MetricOf(m) = MetricOf(n) /\ m > n)

(* The order of remove_old_checkpoints: the better metric, then the later   *)
(* step; a checkpoint without the metric comes last.  With no metric_name   *)
(* configured the order is by step, as when all lack it.                   *)
RanksAbove(m, n) ==
  MetricOf(m) > MetricOf(n) \/ (MetricOf(m) = MetricOf(n) /\ m > n)

(* Mutant: the latest checkpoint is not spared *)
OutsideTopKAll(n) == Cardinality({m \in History : RanksAbove(m, n)}) >= KeepTopK

OutsideTopK(n) ==
  /\ Cardinality({m \in History : RanksAbove(m, n)}) >= KeepTopK
  /\ ~IsLatest(n, History)

(* get_best_checkpoint_path: of equal metrics, whichever the directory      *)
(* listing gives first; without metrics, get_latest_checkpoint_path.       *)
IsBest(n) ==
  LET rated == {m \in History : MetricOf(m) > 0}
  IN  IF rated = {} THEN History # {} /\ IsLatest(n, Finals)
      ELSE n \in rated /\ \A m \in rated : MetricOf(m) <= MetricOf(n)

Init ==
  /\ final = [n \in Steps |-> Gone] /\ tmp = final /\ old = final
  /\ metric = [s \in Stamps |-> 0]
  /\ pc = "idle" /\ step = 0 /\ saves = 0
  /\ victims = {} /\ condemned = {} /\ resaved = FALSE

(* init_tmp_checkpoint: the directory may be there from a crashed save *)
InitTmp(n, m) ==
  /\ pc = "idle" /\ saves < MaxSaves
  /\ MayResave \/ \A k \in Finals : k < n
  /\ saves' = saves + 1
  /\ metric' = [metric EXCEPT ![saves'] = m]
  /\ tmp' = [tmp EXCEPT ![n] = [@ EXCEPT !.there = TRUE, !.info = saves']]
  /\ step' = n /\ pc' = "write"
  /\ resaved' = (resaved \/ \E k \in Finals : n <= k)
  /\ UNCHANGED <<final, old, victims, condemned>>

(* Mutant: finalized before the state is written *)
WriteStateLate ==
  /\ pc = "write" /\ pc' = "finalize"
  /\ UNCHANGED <<final, tmp, old, metric, step, saves, victims, history>>

(* The loop saves its state into the directory. *)
WriteState ==
  /\ pc = "write"
  /\ tmp' = [tmp EXCEPT ![step].state = saves]
  /\ pc' = "finalize"
  /\ UNCHANGED <<final, old, metric, step, saves, victims, history>>

(* finalize_checkpoint: one rename when step_N is free ... *)
MoveIn ==
  /\ pc = "finalize" /\ ~final[step].there
  /\ final' = [final EXCEPT ![step] = tmp[step]]
  /\ tmp' = [tmp EXCEPT ![step] = Gone]
  /\ condemned' = condemned \ {step}
  /\ pc' = "prune"
  /\ UNCHANGED <<old, metric, step, saves, victims, resaved>>

(* Mutant: the old directory is deleted where it should be renamed *)
SetAsideDeletes ==
  /\ pc = "finalize" /\ final[step].there
  /\ final' = [final EXCEPT ![step] = Gone]
  /\ pc' = "swap"
  /\ UNCHANGED <<tmp, old, metric, step, saves, victims, history>>

(* ... else step_N is set aside first.  The rename raises when a crash left *)
(* an old_step_N with files in it; the job ends.                           *)
SetAside ==
  /\ pc = "finalize" /\ final[step].there
  /\ IF IsEmpty(old[step])
     THEN /\ old' = [old EXCEPT ![step] = final[step]]
          /\ final' = [final EXCEPT ![step] = Gone]
          /\ pc' = "swap"
     ELSE pc' = "down" /\ UNCHANGED <<old, final>>
  /\ UNCHANGED <<tmp, metric, step, saves, victims, history>>

Swap ==
  /\ pc = "swap"
  /\ final' = [final EXCEPT ![step] = tmp[step]]
  /\ tmp' = [tmp EXCEPT ![step] = Gone]
  /\ condemned' = condemned \ {step}
  /\ pc' = "dropOld"
  /\ UNCHANGED <<old, metric, step, saves, victims, resaved>>

(* One step of shutil.rmtree: a file, or at last the directory *)
LosesFile(d, e) ==
  \/ d.info # 0 /\ e = [d EXCEPT !.info = 0]
  \/ d.state # 0 /\ e = [d EXCEPT !.state = 0]
  \/ IsEmpty(d) /\ e = Gone

DropOld ==
  /\ pc = "dropOld"
  /\ \E d \in Dirs :
       /\ LosesFile(old[step], d)
       /\ old' = [old EXCEPT ![step] = d]
       /\ pc' = IF d = Gone THEN "prune" ELSE pc
  /\ UNCHANGED <<final, tmp, metric, step, saves, victims, history>>

(* remove_old_checkpoints reads the history once, then deletes in order of  *)
(* rank.                                                                   *)
ChooseVictims ==
  /\ pc = "prune"
  /\ victims' = {n \in History : OutsideTopK(n)}
  /\ condemned' = condemned \cup victims'
  /\ pc' = IF victims' = {} THEN "idle" ELSE "remove"
  /\ UNCHANGED <<final, tmp, old, metric, step, saves, resaved>>

(* The rank is that of the history read before, so a victim under deletion  *)
(* stays first until it is gone.                                           *)
RemoveVictim ==
  /\ pc = "remove"
  /\ \E n \in victims :
       /\ \/ ~Whole(final[n])
          \/ \A v \in victims : Whole(final[v]) /\ (v = n \/ RanksAbove(n, v))
       /\ \E d \in Dirs :
            /\ LosesFile(final[n], d)
            /\ final' = [final EXCEPT ![n] = d]
            /\ victims' = IF d = Gone THEN victims \ {n} ELSE victims
  /\ pc' = IF victims' = {} THEN "idle" ELSE "remove"
  /\ UNCHANGED <<tmp, old, metric, step, saves, history>>

Crash ==
  /\ pc # "down"
  /\ pc' = "down" /\ victims' = {}
  /\ UNCHANGED <<final, tmp, old, metric, step, saves, history>>

(* A new job, which resumes from get_latest_checkpoint_path *)
Restart ==
  /\ pc = "down"
  /\ pc' = "idle"
  /\ UNCHANGED <<final, tmp, old, metric, step, saves, victims, history>>

Next ==
  \/ \E n \in Steps, m \in 0 .. MaxMetric : InitTmp(n, m)
  \/ WriteState \/ MoveIn \/ SetAside \/ Swap \/ DropOld
  \/ ChooseVictims \/ RemoveVictim \/ Crash \/ Restart

Spec == Init /\ [][Next]_vars
-----------------------------------------------------------------------------
(* The type of the state, with what the saving job may rely on where it is: *)
(* the directory it moves is complete and the way for it is free.          *)
TypeOK ==
  /\ final \in [Steps -> Dirs] /\ tmp \in [Steps -> Dirs] /\ old \in [Steps -> Dirs]
  /\ metric \in [Stamps -> 0 .. MaxMetric]
  /\ pc \in {"idle", "write", "finalize", "swap", "dropOld", "prune", "remove", "down"}
  /\ step \in Steps \cup {0} /\ saves \in Stamps
  /\ victims \subseteq Steps /\ condemned \subseteq Steps /\ resaved \in BOOLEAN
  /\ pc \in {"finalize", "swap"} => Whole(tmp[step])
  /\ pc = "swap" => ~final[step].there

(* A directory called step_N is a complete save of one moment, whatever was *)
(* interrupted, unless remove_old_checkpoints chose it (finalize_checkpoint *)
(* and its pseudo-atomic save).                                            *)
SavesAreWhole == \A n \in Finals \ condemned : Whole(final[n])

(* While saved steps only grow, what get_latest_checkpoint_path gives a     *)
(* resuming job is complete: a half-deleted checkpoint is never the latest *)
(* (exclude_latest of remove_old_checkpoints).                             *)
ResumeLoadable == ~resaved => \A n \in Steps : IsLatest(n, Finals) => Whole(final[n])

(* While saved steps only grow and no two have one metric, what             *)
(* get_best_checkpoint_path returns is complete although it looks at        *)
(* nothing but training_info.json: a half-deleted checkpoint is outranked. *)
BestLoadable ==
  ~resaved /\ (\A m, n \in History : MetricOf(m) = MetricOf(n) => m = n)
    => \A n \in Steps : IsBest(n) => Whole(final[n])

(* No step takes the newest complete checkpoint from the disk, where it is  *)
(* step_N or, in the middle of an override, old_step_N (finalize_checkpoint *)
(* and remove_old_checkpoints, crashes included).                          *)
OnDisk(n) == Whole(final[n]) \/ Whole(old[n])
NewestKept ==
  [][\A n \in Steps :
       OnDisk(n) /\ (\A k \in Steps : k > n => ~OnDisk(k)) => OnDisk(n)']_vars
=============================================================================
