-------------------------- MODULE ReplayBufferOps --------------------------
(***************************************************************************)
(* The queries and selections of ReplayBufferImpl                          *)
(* (nemo_rl/algorithms/async_utils/replay_buffer.py) as operators on its   *)
(* contents.                                                               *)
(*                                                                         *)
(* The three parallel lists of the code are one set of entries: id is the  *)
(* order of arrival (the list index orders entries the same way), ver the  *)
(* weight version that generated the group, tgt the training step it is    *)
(* meant for.  The trajectory itself is not modelled.                      *)
(***************************************************************************)
EXTENDS Integers, FiniteSets

Entry(Versions, Targets) == [id : Nat, ver : Versions, tgt : Targets]

(* max_age_steps=None, current_training_step=None, num_prompts=None *)
None == -1

(* Mutant: a window one step short *)
OldestValidShort(step, age) == IF step >= age THEN step - age + 1 ELSE 0

OldestValid(step, age) == IF step > age THEN step - age ELSE 0

(* Mutant: the age is not looked at *)
ValidForTargetAny(e, age) == TRUE

(* _is_valid_for_target *)
ValidForTarget(e, age) ==
  \/ age = None
  \/ OldestValid(e.tgt, age) <= e.ver /\ e.ver <= e.tgt

CountForTarget(buf, t, age) ==
  Cardinality({e \in buf : e.tgt = t /\ ValidForTarget(e, age)})

(* Mutant: an incomplete target is generated from scratch *)
TrajectoriesNeededAll(buf, t, n, age) == IF CountForTarget(buf, t, age) < n THEN n ELSE 0

TrajectoriesNeeded(buf, t, n, age) ==
  LET c == CountForTarget(buf, t, age) IN IF c < n THEN n - c ELSE 0

HasCompleteBatch(buf, t, n, age) == CountForTarget(buf, t, age) >= n

-----------------------------------------------------------------------------
(* sample(n, cur, age): what the age window evicts, what it leaves, and    *)
(* which entries the step cur may train on.                                *)

AfterEviction(buf, cur, age) == {e \in buf : e.ver >= OldestValid(cur, age)}

WithinWindow(buf, cur, age) == {e \in AfterEviction(buf, cur, age) : e.ver <= cur}

(* Mutant: any group of the window will do *)
IntendedForAny(buf, cur, age) == WithinWindow(buf, cur, age)

IntendedFor(buf, cur, age) == {e \in WithinWindow(buf, cur, age) : e.tgt = cur}

CanSample(buf, n, cur, age) ==
  /\ WithinWindow(buf, cur, age) # {}
  /\ Cardinality(WithinWindow(buf, cur, age)) >= n
  /\ Cardinality(IntendedFor(buf, cur, age)) >= n

(* S is the FIFO choice of n entries of T *)
IsOldest(S, T, n) ==
  /\ S \subseteq T
  /\ Cardinality(S) = n
  /\ \A x \in S, y \in T \ S : x.id < y.id

-----------------------------------------------------------------------------
(* load_state_dict: the clean-up passes, in the order the code applies     *)
(* them.  A pass maps [items, last] to [items, last].                      *)

(* Mutant: the watermark is put on the step being resumed *)
PrepareForStepOff(b, step) ==
  [items |-> {e \in b.items : e.tgt >= step}, last |-> step]

(* _prepare_for_training_step *)
PrepareForStep(b, step) ==
  [items |-> {e \in b.items : e.tgt >= step}, last |-> step - 1]

(* _remove_incomplete_target_steps *)
RemoveIncomplete(b, n) ==
  LET kept  == {e \in b.items : CountForTarget(b.items, e.tgt, None) >= n}
      first == CHOOSE t \in {e.tgt : e \in kept} : \A e \in kept : t <= e.tgt
  IN  [items |-> kept,
       last  |-> IF kept = b.items THEN b.last
                 ELSE IF kept = {} THEN -1
                 ELSE IF b.last < first THEN b.last ELSE first - 1]

(* _remove_stale_trajectories *)
RemoveStale(b, age) ==
  [items |-> {e \in b.items : ValidForTarget(e, age)}, last |-> b.last]

(* Mutant: incomplete targets are not looked for again among the fresh *)
CleanedUpOnce(b, n, step, age) ==
  LET first == IF n # None /\ step # None THEN PrepareForStep(b, step)
               ELSE IF n # None THEN RemoveIncomplete(b, n) ELSE b
  IN  IF age = None THEN first ELSE RemoveStale(first, age)

(* Everything load_state_dict does before it truncates *)
CleanedUp(b, n, step, age) ==
  LET first  == IF n # None /\ step # None THEN PrepareForStep(b, step)
                ELSE IF n # None /\ b.items # {} THEN RemoveIncomplete(b, n)
                ELSE b
      fresh  == RemoveStale(first, age)
  IN  IF age = None \/ first.items = {} THEN first
      ELSE IF step = None /\ n # None THEN RemoveIncomplete(fresh, n)
      ELSE fresh

(* Mutant: the newest entries are kept also when a step is resumed *)
KeptBeforeNewest(x, y, step) == x.id > y.id

(* _truncate_to_max_size: the newest entries when no step is being resumed, *)
(* else those of the nearest targets, the older first.                      *)
KeptBefore(x, y, step) ==
  IF step = None THEN x.id > y.id
  ELSE x.tgt < y.tgt \/ (x.tgt = y.tgt /\ x.id < y.id)

IsTruncation(K, items, max, step) ==
  /\ K \subseteq items
  /\ IF Cardinality(items) <= max THEN K = items
     ELSE /\ Cardinality(K) = max
          /\ \A x \in K, y \in items \ K : KeptBefore(x, y, step)
=============================================================================
