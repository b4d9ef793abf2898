----------------------------- MODULE AsyncGRPO -----------------------------
(***************************************************************************)
(* Asynchronous GRPO: the training loop (async_grpo_train in               *)
(* nemo_rl/algorithms/grpo.py), the trajectory collector actor with its    *)
(* collection thread and prompt-group workers                              *)
(* (nemo_rl/algorithms/async_utils/trajectory_collector.py) and the replay *)
(* buffer actor (replay_buffer.py) they share.                             *)
(*                                                                         *)
(* Processes: the trainer; the collector actor, which serves its mailbox   *)
(* one call at a time in the order the trainer sent them; the collection   *)
(* thread; one thread per prompt group in flight.  The threads share the   *)
(* collector's fields with the actor.  A buffer call is one step.          *)
(* Only the order of arrival among the groups of one target is ever        *)
(* consulted here, so the id of an entry counts within its target.         *)
(***************************************************************************)
EXTENDS ReplayBufferOps, Sequences

CONSTANTS
  N,            \* num_prompts_per_step (also the size of a dataloader batch)
  A,            \* max_trajectory_age_steps
  MaxSteps,     \* max_num_steps
  Slots,        \* the permits of _inflight_sema (N * A of them)
  InFlight,     \* in_flight_weight_updates
  Validates,    \* validation may run at the start and after a step
  Checkpoints,  \* checkpointing.enabled
  MayExhaust,   \* the dataloader may end
  MaxFailures,  \* bound: rollouts and thread starts that raise
  MaxCrashes    \* bound: crashes of the job, each followed by a restart

ASSUME AsyncConstants ==
  /\ N \in Nat \ {0} /\ A \in Nat \ {0} /\ MaxSteps \in Nat \ {0}
  /\ IsFiniteSet(Slots) /\ Cardinality(Slots) = N * A
  /\ {InFlight, Validates, Checkpoints, MayExhaust} \subseteq BOOLEAN
  /\ MaxFailures \in Nat /\ MaxCrashes \in Nat

VARIABLES
  tpc, step, weightVersion,            \* the trainer
  genWeights,                          \* version of the weights in the engine
  buf, last,                           \* the replay buffer (see ReplayBuffer)
  arrivals,                            \* per target: groups ever added for it
  mailbox, draining,                   \* the collector actor's pending calls
  colVersion, initVersion,             \* current_, initial_weight_version
  gates,                               \* the events that are set
  warned,                              \* _last_limit_warning_version
  loop,                                \* the collection thread: pc and locals
  generating, spawning,                \* _generating_targets, _spawning_targets
  spawned, completed,                  \* the per-target counters
  workers,                             \* one prompt-group thread per slot
  inflight,                            \* _inflight_threads
  saved,                               \* the latest finalized checkpoint
  failures, crashes                    \* how many happened (bounded)

trainerVars == <<tpc, step, weightVersion>>
bufferVars  == <<buf, last, arrivals>>
actorVars   == <<mailbox, draining, colVersion, initVersion>>
counterVars == <<spawning, spawned, completed>>
budgetVars  == <<failures, crashes>>
workerVars  == <<workers, inflight>>
threadVars  == <<warned, loop, generating, counterVars, workerVars>>
vars == <<trainerVars, genWeights, bufferVars, actorVars, gates, threadVars,
          saved, budgetVars>>

-----------------------------------------------------------------------------
(* Sizes, targets, records                                                 *)

(* optimal_buffer_size: late_arrival_slack = 2 *)
Capacity == 2 * N * A

(* The engine's weights before the first refit (load_format "dummy") *)
Unloaded == -1

TargetRange == 0 .. (MaxSteps + A)

(* Mutant: one target too far                                              *)
TargetWeightsFar(v) == IF v = initVersion THEN v .. (v + A + 1) ELSE (v + 1) .. (v + A + 1)

(* _calculate_target_weights *)
TargetWeights(v) ==
  IF v = initVersion THEN v .. (v + A) ELSE (v + 1) .. (v + A)

LoopAt(pc) ==
  [pc |-> pc, gv |-> None, lw |-> None, tgt |-> None, left |-> 0, aborted |-> FALSE]

Idle == [st |-> "idle", ver |-> None, tgt |-> None]

Msg(op, v) == [op |-> op, v |-> v]

Running == loop.pc \notin {"off", "stopped"}

Gates == {"manual", "refit", "limit"}

NoCounts == [t \in TargetRange |-> 0]

BootMail(s) == <<Msg("start", None), Msg("set", s)>>

Init ==
  /\ tpc = "setup" /\ step = 0 /\ weightVersion = 0
  /\ genWeights = Unloaded
  /\ buf = {} /\ last = -1 /\ arrivals = NoCounts
  /\ mailbox = BootMail(0) /\ draining = FALSE
  /\ colVersion = 0 /\ initVersion = 0
  /\ gates = Gates /\ warned = None /\ loop = LoopAt("off")
  /\ generating = {} /\ spawning = {}
  /\ spawned = NoCounts /\ completed = NoCounts
  /\ workers = [s \in Slots |-> Idle] /\ inflight = {}
  /\ saved = [step |-> 0, items |-> {}, last |-> -1, arrivals |-> NoCounts]
  /\ failures = 0 /\ crashes = 0

-----------------------------------------------------------------------------
(* The trainer                                                             *)

Send(msgs) == mailbox' = mailbox \o msgs

(* The first refit loads real weights; the collector already runs. *)
InitialRefit ==
  /\ tpc = "setup"
  /\ genWeights' = step
  /\ tpc' = "start"
  /\ UNCHANGED <<step, weightVersion, bufferVars, actorVars, gates,
                 threadVars, saved, budgetVars>>

BeginValidation ==
  /\ Validates
  /\ \/ tpc = "start" /\ step = 0 /\ tpc' = "validateStart"
     \/ tpc = "trained" /\ tpc' = "validateStep"
  /\ Send(<<Msg("pause", None)>>)
  /\ UNCHANGED <<step, weightVersion, genWeights, bufferVars,
                 draining, colVersion, initVersion, gates, threadVars, saved, budgetVars>>

EndValidation ==
  /\ \/ tpc = "validateStart" /\ tpc' = "fill"
     \/ tpc = "validateStep" /\ tpc' = "save"
  /\ Send(<<Msg("resume", None)>>)
  /\ UNCHANGED <<step, weightVersion, genWeights, bufferVars,
                 draining, colVersion, initVersion, gates, threadVars, saved, budgetVars>>

SkipValidation ==
  /\ \/ tpc = "start" /\ tpc' = "fill"
     \/ tpc = "trained" /\ tpc' = "save"
  /\ UNCHANGED <<step, weightVersion, genWeights, bufferVars,
                 actorVars, gates, threadVars, saved, budgetVars>>

(* Poll has_complete_batch(step) until it holds. *)
BufferFilled ==
  /\ tpc = "fill"
  /\ HasCompleteBatch(buf, step, N, A)
  /\ tpc' = "sample"
  /\ UNCHANGED <<step, weightVersion, genWeights, bufferVars,
                 actorVars, gates, threadVars, saved, budgetVars>>

(* sample(N, weight_version, A): a batch to train on, or None and the       *)
(* trainer polls again; either way stale entries are evicted.              *)
Sample ==
  /\ tpc = "sample"
  /\ IF CanSample(buf, N, weightVersion, A)
     THEN \E S \in SUBSET IntendedFor(buf, weightVersion, A) :
            /\ IsOldest(S, IntendedFor(buf, weightVersion, A), N)
            /\ buf' = AfterEviction(buf, weightVersion, A) \ S
            /\ last' = IF last < weightVersion THEN weightVersion ELSE last
            /\ tpc' = "train"
     ELSE /\ buf' = AfterEviction(buf, weightVersion, A)
          /\ UNCHANGED <<last, tpc>>
  /\ UNCHANGED <<step, weightVersion, genWeights, arrivals, actorVars,
                 gates, threadVars, saved, budgetVars>>

(* policy.train, then the blocking prepare_for_refit call *)
Train ==
  /\ tpc = "train"
  /\ tpc' = "preparing"
  /\ Send(<<Msg("prepare_for_refit", None)>>)
  /\ UNCHANGED <<step, weightVersion, genWeights, bufferVars,
                 draining, colVersion, initVersion, gates, threadVars, saved, budgetVars>>

(* refit_policy_generation, then set_weight_version and resume_after_refit *)
(* without waiting for either                                              *)
Refit ==
  /\ tpc = "refit"
  /\ weightVersion' = weightVersion + 1
  /\ genWeights' = weightVersion'
  /\ Send(<<Msg("set", weightVersion'), Msg("resume_after_refit", None)>>)
  /\ tpc' = "trained"
  /\ UNCHANGED <<step, bufferVars, draining, colVersion,
                 initVersion, gates, threadVars, saved, budgetVars>>

(* Saving a checkpoint first asks the collector for the dataloader state, *)
(* a blocking call served after the calls already sent ...                *)
BeginCheckpoint ==
  /\ tpc = "save" /\ Checkpoints
  /\ tpc' = "dataloaderState"
  /\ Send(<<Msg("get_dataloader_state", None)>>)
  /\ UNCHANGED <<step, weightVersion, genWeights, bufferVars,
                 draining, colVersion, initVersion, gates, threadVars, saved, budgetVars>>

(* ... then takes the buffer's state_dict and finalizes the checkpoint.     *)
FinishCheckpoint ==
  /\ tpc = "snapshot"
  /\ saved' = [step |-> step + 1, items |-> buf, last |-> last, arrivals |-> arrivals]
  /\ tpc' = "advance"
  /\ UNCHANGED <<step, weightVersion, genWeights, bufferVars,
                 actorVars, gates, threadVars, budgetVars>>

(* The end of an iteration; the last step never skips its checkpoint. *)
NextStep ==
  /\ \/ tpc = "advance"
     \/ tpc = "save" /\ (Checkpoints => step + 1 < MaxSteps)
  /\ step' = step + 1
  /\ tpc' = IF step' < MaxSteps THEN "sample" ELSE "done"
  /\ UNCHANGED <<weightVersion, genWeights, bufferVars, actorVars, gates,
                 threadVars, saved, budgetVars>>

Trainer ==
  \/ InitialRefit \/ BeginValidation \/ EndValidation \/ SkipValidation
  \/ BufferFilled \/ Sample \/ Train \/ Refit
  \/ BeginCheckpoint \/ FinishCheckpoint \/ NextStep

-----------------------------------------------------------------------------
(* The collector actor                                                     *)

Call(op) ==
  /\ ~draining /\ mailbox # <<>> /\ Head(mailbox).op = op
  /\ mailbox' = Tail(mailbox)

StartCollection ==
  /\ Call("start")
  /\ loop' = LoopAt("batch")
  /\ UNCHANGED <<trainerVars, genWeights, bufferVars, draining, colVersion,
                 initVersion, gates, warned, generating, counterVars, workerVars,
                 saved, budgetVars>>

SetWeightVersion ==
  /\ Call("set")
  /\ colVersion' = Head(mailbox).v
  /\ gates' = gates \cup {"limit"}
  /\ UNCHANGED <<trainerVars, genWeights, bufferVars, draining, initVersion,
                 threadVars, saved, budgetVars>>

(* Closes the refit gate; without in-flight updates the call returns only  *)
(* when wait_for_pending_generations has seen no worker thread.            *)
PrepareForRefit ==
  /\ Call("prepare_for_refit")
  /\ gates' = gates \ {"refit"}
  /\ IF InFlight THEN tpc' = "refit" /\ UNCHANGED draining
     ELSE draining' = TRUE /\ UNCHANGED tpc
  /\ UNCHANGED <<step, weightVersion, genWeights, bufferVars, colVersion,
                 initVersion, threadVars, saved, budgetVars>>

(* wait_for_pending_generations: a pass over the threads in flight takes    *)
(* out those that are not alive, also one that is not yet started; it is   *)
(* repeated until none is left.                                            *)
Registered == {s \in Slots : workers[s].st = "registered"}

(* Mutant: one pass, whoever is left                                       *)
PendingGenerationsIgnored ==
  /\ draining /\ inflight' = inflight \ Registered
  /\ draining' = FALSE /\ tpc' = "refit"
  /\ UNCHANGED <<step, weightVersion, genWeights, bufferVars, mailbox, colVersion,
                 initVersion, gates, warned, loop, generating, counterVars, workers,
                 saved, budgetVars>>

WaitForPendingGenerations ==
  /\ draining /\ inflight' = inflight \ Registered
  /\ IF inflight' = {} THEN draining' = FALSE /\ tpc' = "refit"
     ELSE UNCHANGED <<draining, tpc>>
  /\ UNCHANGED <<step, weightVersion, genWeights, bufferVars, mailbox, colVersion,
                 initVersion, gates, warned, loop, generating, counterVars, workers,
                 saved, budgetVars>>

(* pause, resume and resume_after_refit clear or set one event. *)
OpenOrCloseGate ==
  /\ \/ Call("pause") /\ gates' = gates \ {"manual"}
     \/ Call("resume") /\ gates' = gates \cup {"manual"}
     \/ Call("resume_after_refit") /\ gates' = gates \cup {"refit"}
  /\ UNCHANGED <<trainerVars, genWeights, bufferVars, draining, colVersion,
                 initVersion, threadVars, saved, budgetVars>>

GetDataloaderState ==
  /\ Call("get_dataloader_state")
  /\ tpc' = "snapshot"
  /\ UNCHANGED <<step, weightVersion, genWeights, bufferVars, draining,
                 colVersion, initVersion, gates, threadVars, saved, budgetVars>>

Actor ==
  \/ StartCollection \/ SetWeightVersion \/ PrepareForRefit
  \/ WaitForPendingGenerations \/ OpenOrCloseGate \/ GetDataloaderState

-----------------------------------------------------------------------------
(* The collection thread                                                   *)

At(pc) == loop.pc = pc
GoTo(pc) == loop' = [loop EXCEPT !.pc = pc]

(* What the steps of the thread never write *)
outside == <<trainerVars, genWeights, bufferVars, actorVars, saved>>
allButLoop ==
  <<outside, gates, warned, generating, counterVars, workerVars, budgetVars>>

(* A target that the scans under _generation_check_lock find wanting, given *)
(* the watermark read before the lock was taken                            *)
NeedsGeneration(t, lw) ==
  /\ t > lw
  /\ t \notin generating
  /\ TrajectoriesNeeded(buf, t, N, A) > 0

(* The next batch, then the wait for a manual pause to end *)
FetchBatch ==
  /\ At("batch") /\ "manual" \in gates
  /\ GoTo("refitGate")
  /\ UNCHANGED allButLoop

(* The dataloader is a single pass: the loop ends and running turns false. *)
DataloaderExhausted ==
  /\ MayExhaust /\ At("batch")
  /\ GoTo("stopped")
  /\ UNCHANGED allButLoop

PassRefitGate ==
  /\ At("refitGate") /\ "refit" \in gates
  /\ GoTo("limitVersion")
  /\ UNCHANGED allButLoop

(* _should_pause_for_generation_limits and _process_batch both read the     *)
(* version, then the watermark, then scan: each read is a step.            *)
ReadVersion ==
  /\ \/ At("limitVersion") /\ loop' = [loop EXCEPT !.gv = colVersion, !.pc = "limitLast"]
     \/ At("version") /\ loop' = [loop EXCEPT !.gv = colVersion, !.pc = "targetLast"]
  /\ UNCHANGED allButLoop

ReadWatermark ==
  /\ \/ At("limitLast") /\ loop' = [loop EXCEPT !.lw = last, !.pc = "limitScan"]
     \/ At("targetLast") /\ loop' = [loop EXCEPT !.lw = last, !.pc = "reserve"]
  /\ UNCHANGED allButLoop

LimitScan ==
  /\ At("limitScan")
  /\ loop' = LoopAt(IF \E t \in TargetWeights(loop.gv) : NeedsGeneration(t, loop.lw)
                    THEN "version" ELSE "limitReached")
  /\ UNCHANGED allButLoop

(* Clears the limit event once per weight version *)
LimitReached ==
  /\ At("limitReached")
  /\ IF warned # colVersion
     THEN warned' = colVersion /\ gates' = gates \ {"limit"}
     ELSE UNCHANGED <<warned, gates>>
  /\ GoTo("limitWait")
  /\ UNCHANGED <<outside, generating, counterVars, workerVars, budgetVars>>

PassLimitGate ==
  /\ At("limitWait") /\ "limit" \in gates
  /\ GoTo("version")
  /\ UNCHANGED allButLoop

(* _get_next_target_for_generation, under the lock: the first target that   *)
(* needs groups is reserved; with none the batch is dropped.               *)
ReserveTarget ==
  /\ At("reserve")
  /\ LET wanting == {t \in TargetWeights(loop.gv) : NeedsGeneration(t, loop.lw)}
     IN  \/ /\ wanting = {}
            /\ loop' = LoopAt("batch")
            /\ UNCHANGED generating
         \/ \E t \in wanting :
              /\ \A u \in wanting : t <= u
              /\ generating' = generating \cup {t}
              /\ loop' = [loop EXCEPT !.pc = "open", !.tgt = t, !.lw = None]
  /\ UNCHANGED <<outside, gates, warned, counterVars, workerVars, budgetVars>>

(* The need is read again; the batch has N prompts, so the need bounds it. *)
OpenSpawning ==
  /\ At("open")
  /\ LET need == TrajectoriesNeeded(buf, loop.tgt, N, A)
     IN  IF need = 0
         THEN /\ generating' = generating \ {loop.tgt}
              /\ loop' = LoopAt("batch")
              /\ UNCHANGED spawning
         ELSE /\ spawning' = spawning \cup {loop.tgt}
              /\ loop' = [loop EXCEPT !.pc = "spawnGate", !.left = need]
              /\ UNCHANGED generating
  /\ UNCHANGED <<outside, gates, warned, spawned, completed, workerVars, budgetVars>>

(* Before each prompt: if a refit is on, wait for its end and take the new *)
(* version; else keep the version read at the start of the batch.          *)
SpawnGate ==
  /\ \/ At("spawnGate") /\ GoTo(IF "refit" \in gates THEN "spawn" ELSE "spawnBlocked")
     \/ /\ At("spawnBlocked") /\ "refit" \in gates
        /\ loop' = [loop EXCEPT !.pc = "spawn", !.gv = colVersion]
  /\ UNCHANGED allButLoop

(* A permit is acquired and a worker registered among the threads in        *)
(* flight, then counted; nobody reads the count of a target while it is    *)
(* spawning.                                                               *)
RegisterWorker ==
  /\ At("spawn")
  /\ \E s \in Slots :
       /\ workers[s] = Idle
       /\ workers' = [workers EXCEPT ![s] =
                        [st |-> "registered", ver |-> loop.gv, tgt |-> loop.tgt]]
       /\ inflight' = inflight \cup {s}
  /\ spawned' = [spawned EXCEPT ![loop.tgt] = @ + 1]
  /\ GoTo("start")
  /\ UNCHANGED <<outside, gates, warned, generating, spawning, completed, budgetVars>>

(* The worker that is registered, the only one, is started ...              *)
StartWorker ==
  /\ At("start")
  /\ \E s \in Registered : workers' = [workers EXCEPT ![s].st = "rollout"]
  /\ loop' = [loop EXCEPT !.left = @ - 1,
                          !.pc = IF loop.left = 1 THEN "close" ELSE "spawnGate"]
  /\ UNCHANGED <<outside, gates, warned, generating, counterVars, inflight, budgetVars>>

(* ... or start() raises: its bookkeeping is undone and the batch is given *)
(* up; the handler of _process_batch closes and releases a second time.    *)
StartFails ==
  /\ At("start") /\ failures < MaxFailures /\ failures' = failures + 1
  /\ \E s \in Registered :
       /\ workers' = [workers EXCEPT ![s] = Idle]
       /\ inflight' = inflight \ {s}
  /\ spawned' = [spawned EXCEPT ![loop.tgt] = IF @ > 0 THEN @ - 1 ELSE 0]
  /\ loop' = [loop EXCEPT !.pc = "close", !.aborted = TRUE]
  /\ UNCHANGED <<outside, gates, warned, generating, spawning, completed, crashes>>

CloseSpawning ==
  /\ At("close")
  /\ spawning' = spawning \ {loop.tgt}
  /\ GoTo("release")
  /\ UNCHANGED <<outside, gates, warned, generating, spawned, completed, workerVars,
                 budgetVars>>

-----------------------------------------------------------------------------
(* _maybe_release_target: two critical sections, the counters first, the   *)
(* reservation after.  Run by the collection thread and by every worker.   *)

Releasable(t) == t \notin spawning /\ completed[t] >= spawned[t]

(* Mutant: a counter outlives the release *)
DropSpawned(t) == spawned' = [spawned EXCEPT ![t] = 0] /\ UNCHANGED completed

DropCounters(t) ==
  /\ spawned' = [spawned EXCEPT ![t] = 0]
  /\ completed' = [completed EXCEPT ![t] = 0]

(* After an aborted spawn the exception handler repeats close and release; *)
(* else _cleanup_finished_threads finds nothing to do: a worker that ends  *)
(* takes itself out, and none is waiting to be started here.               *)
AfterRelease == IF loop.aborted THEN [loop EXCEPT !.pc = "close", !.aborted = FALSE]
                ELSE LoopAt("batch")

LoopRelease ==
  /\ At("release")
  /\ IF Releasable(loop.tgt)
     THEN DropCounters(loop.tgt) /\ GoTo("discard")
     ELSE loop' = AfterRelease /\ UNCHANGED <<spawned, completed>>
  /\ UNCHANGED <<outside, gates, warned, generating, spawning, workerVars, budgetVars>>

LoopDiscard ==
  /\ At("discard")
  /\ generating' = generating \ {loop.tgt}
  /\ loop' = AfterRelease
  /\ UNCHANGED <<outside, gates, warned, counterVars, workerVars, budgetVars>>

CollectionLoop ==
  \/ FetchBatch \/ DataloaderExhausted \/ PassRefitGate \/ ReadVersion
  \/ ReadWatermark \/ LimitScan \/ LimitReached \/ PassLimitGate
  \/ ReserveTarget \/ OpenSpawning \/ SpawnGate \/ RegisterWorker \/ StartWorker
  \/ StartFails \/ CloseSpawning \/ LoopRelease \/ LoopDiscard

-----------------------------------------------------------------------------
(* A prompt-group worker                                                   *)

Stage(s, from, to) ==
  /\ workers[s].st = from
  /\ workers' = [workers EXCEPT ![s].st = to] /\ UNCHANGED inflight

(* Mutant: the permit is not given back *)
EndsHolding(s) == workers' = [workers EXCEPT ![s].st = "ended"] /\ inflight' = inflight \ {s}

Ends(s) == workers' = [workers EXCEPT ![s] = Idle] /\ inflight' = inflight \ {s}

(* The rollout and the teacher pass succeed, or raise *)
Rollout(s) ==
  /\ \/ Stage(s, "rollout", "push") /\ UNCHANGED failures
     \/ /\ failures < MaxFailures /\ failures' = failures + 1
        /\ Stage(s, "rollout", "count")
  /\ UNCHANGED <<outside, gates, warned, loop, generating, counterVars, crashes>>

(* add, retried while the buffer is full; given up when running is false *)
Push(s) ==
  /\ Stage(s, "push", "count")
  /\ IF Running
     THEN /\ Cardinality(buf) < Capacity
          /\ LET t == workers[s].tgt
             IN  /\ buf' = buf \cup {[id |-> arrivals[t], ver |-> workers[s].ver, tgt |-> t]}
                 /\ arrivals' = [arrivals EXCEPT ![t] = @ + 1]
     ELSE UNCHANGED <<buf, arrivals>>
  /\ UNCHANGED <<trainerVars, genWeights, last, actorVars, gates, warned, loop,
                 generating, counterVars, saved, budgetVars>>

CountCompleted(s) ==
  /\ Stage(s, "count", "release")
  /\ completed' = [completed EXCEPT ![workers[s].tgt] = @ + 1]
  /\ UNCHANGED <<outside, gates, warned, loop, generating, spawning, spawned,
                 budgetVars>>

(* Having released its target, or found that others still work for it, the *)
(* thread gives up its record and its permit, and ends.                    *)
WorkerRelease(s) ==
  /\ workers[s].st = "release"
  /\ IF Releasable(workers[s].tgt)
     THEN Stage(s, "release", "discard") /\ DropCounters(workers[s].tgt)
     ELSE Ends(s) /\ UNCHANGED <<spawned, completed>>
  /\ UNCHANGED <<outside, gates, warned, loop, generating, spawning, budgetVars>>

WorkerDiscard(s) ==
  /\ workers[s].st = "discard" /\ Ends(s)
  /\ generating' = generating \ {workers[s].tgt}
  /\ UNCHANGED <<outside, gates, warned, loop, counterVars, budgetVars>>

Worker(s) ==
  \/ Rollout(s) \/ Push(s) \/ CountCompleted(s) \/ WorkerRelease(s)
  \/ WorkerDiscard(s)

-----------------------------------------------------------------------------
(* The job dies and is started again from the latest checkpoint: the       *)
(* buffer is restored before the new collector starts.                     *)
CrashAndRestart ==
  /\ crashes < MaxCrashes /\ crashes' = crashes + 1
  /\ LET s == saved.step
         restored == CleanedUp([items |-> saved.items, last |-> saved.last], N, s, A)
     IN  /\ s < MaxSteps
         /\ tpc' = "setup" /\ step' = s /\ weightVersion' = s
         /\ genWeights' = Unloaded
         /\ \E K \in SUBSET restored.items :
              /\ IsTruncation(K, restored.items, Capacity, s)
              /\ buf' = K
         /\ last' = restored.last /\ arrivals' = saved.arrivals
         /\ mailbox' = BootMail(s) /\ draining' = FALSE
         /\ colVersion' = s /\ initVersion' = s
  /\ gates' = Gates /\ warned' = None /\ loop' = LoopAt("off")
  /\ generating' = {} /\ spawning' = {}
  /\ spawned' = NoCounts /\ completed' = NoCounts
  /\ workers' = [w \in Slots |-> Idle] /\ inflight' = {}
  /\ UNCHANGED <<saved, failures>>

(* At the end the trainer kills the actors and their threads. *)
Finished == tpc = "done" /\ UNCHANGED vars

Next ==
  \/ Trainer \/ Finished
  \/ tpc # "done" /\ (Actor \/ CollectionLoop \/ CrashAndRestart)
  \/ tpc # "done" /\ \E s \in Slots : Worker(s)

(* Every thread and actor is scheduled as long as it can run. *)
Fairness ==
  /\ WF_vars(Trainer)
  /\ WF_vars(tpc # "done" /\ Actor)
  /\ WF_vars(tpc # "done" /\ CollectionLoop)
  /\ \A s \in Slots : WF_vars(tpc # "done" /\ Worker(s))

Spec == Init /\ [][Next]_vars
FairSpec == Spec /\ Fairness
=============================================================================
