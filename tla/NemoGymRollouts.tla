-------------------------- MODULE NemoGymRollouts --------------------------
(***************************************************************************)
(* A rollout through NeMo-Gym: the caller numbers its rows, the actor      *)
(* NemoGym runs one task per row, takes the results in the order they come *)
(* in, retries the whole batch while logprobs are NaN, and puts the        *)
(* results back in the order of the rows.  A task that fails leaves a      *)
(* placeholder without messages, to be masked by the caller.               *)
(***************************************************************************)
EXTENDS Naturals, Sequences

CONSTANTS
  NumRows,
  MaxAttempts,    \* rollout_max_attempts_to_avoid_lp_nan
  None

VARIABLES
  at,         \* "tasks", "sort", "mask", "done" or "crashed" (the caller)
  trial,
  running,    \* the rows whose task has not come in yet
  rowidxs,    \* nemo_rl_rowidxs: _rowidx of the results, as they came in
  results,    \* nemo_rl_results
  masked      \* the rows with loss_multiplier 0

gymVars == <<at, trial, running, rowidxs, results, masked>>

Rows == 0 .. NumRows - 1
Kinds == {"good", "nan", "empty"}     \* logprobs, NaN logprobs, no message
Result(row, kind) == [of |-> row, kind |-> kind]

GymInit ==
  /\ at = "tasks" /\ trial = 0 /\ running = Rows
  /\ rowidxs = <<>> /\ results = <<>> /\ masked = {}

(* run_examples hands out the tasks as they complete, in any order.        *)
ComesIn(row, idx, result) ==
  /\ at = "tasks" /\ running' = running \ {row}
  /\ rowidxs' = Append(rowidxs, idx)
  /\ results' = Append(results, result)
  /\ UNCHANGED <<at, trial, masked>>

TaskReturns(row, kind) == ComesIn(row, row, Result(row, kind))

(* A task raises: its row is unknown, its place in the order of arrival is *)
(* taken for it (postprocessing that fails keeps the row: kind "empty").   *)
TaskFails(row) == ComesIn(row, Len(results), Result(None, "empty"))

AllIn ==
  /\ at = "tasks" /\ running = {}
  /\ IF \E k \in DOMAIN results : results[k].kind = "nan"
       THEN /\ trial' = trial + 1
            /\ IF trial + 1 < MaxAttempts
                 THEN /\ running' = Rows /\ rowidxs' = <<>> /\ results' = <<>>
                      /\ at' = at
                 ELSE at' = "sort" /\ UNCHANGED <<running, rowidxs, results>>
       ELSE at' = "sort" /\ UNCHANGED <<trial, running, rowidxs, results>>
  /\ UNCHANGED masked

(* The result of a row is the last one that names it, or none.             *)
Sort ==
  /\ at = "sort"
  /\ results' = [i \in 1 .. NumRows |->
       LET named == {k \in DOMAIN rowidxs : rowidxs[k] = i - 1}
       IN  IF named = {} THEN None
           ELSE results[CHOOSE k \in named : \A j \in named : j <= k]]
  /\ at' = "mask"
  /\ UNCHANGED <<trial, running, rowidxs, masked>>

(* The caller: a missing result raises, an empty message log is masked.    *)
Mask ==
  /\ at = "mask"
  /\ IF \E i \in DOMAIN results : results[i] = None
       THEN at' = "crashed" /\ UNCHANGED masked
       ELSE /\ at' = "done"
            /\ masked' = {i - 1 : i \in {k \in DOMAIN results : results[k].kind = "empty"}}
  /\ UNCHANGED <<trial, running, rowidxs, results>>

GymNext ==
  \/ \E row \in running :
       TaskFails(row) \/ \E kind \in Kinds : TaskReturns(row, kind)
  \/ AllIn \/ Sort \/ Mask
  \/ at \in {"done", "crashed"} /\ UNCHANGED gymVars

GymSpec == GymInit /\ [][GymNext]_gymVars

-----------------------------------------------------------------------------
(* A rollout that fails costs its own row and no other: every row comes    *)
(* back with its own result, and training goes on.                         *)
FailedRowIsMasked ==
  /\ at # "crashed"
  /\ at = "done" => \A i \in Rows :
       /\ results[i + 1].of \in {i, None}
       /\ (i \in masked <=> results[i + 1].kind = "empty")
=============================================================================
