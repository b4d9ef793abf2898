------------------------ MODULE AsyncGRPOProperties ------------------------
(* What AsyncGRPO must satisfy. *)
EXTENDS AsyncGRPO

-----------------------------------------------------------------------------
(* Types                                                                   *)

LoopPCs ==
  {"off", "batch", "refitGate", "limitVersion", "limitLast", "limitScan",
   "limitReached", "limitWait", "version", "targetLast", "reserve", "open",
   "spawnGate", "spawnBlocked", "spawn", "start", "close", "release", "discard", "stopped"}
TrainerPCs ==
  {"setup", "start", "validateStart", "fill", "sample", "train", "preparing",
   "refit", "trained", "validateStep", "save", "dataloaderState", "snapshot",
   "advance", "done"}
WorkerStages ==
  {"idle", "registered", "rollout", "push", "count", "release", "discard"}
Calls ==
  {"start", "set", "prepare_for_refit", "resume_after_refit", "pause", "resume",
   "get_dataloader_state"}

Versions == 0 .. MaxSteps
Entries == Entry(Versions, TargetRange)

(* TypeOK: the values the fields of the trainer, the collector and the      *)
(* buffer range over; versions never pass MaxSteps, no target lies further  *)
(* ahead than the window, and the mailbox only holds the calls above.      *)
TypeOK ==
  /\ tpc \in TrainerPCs
  /\ step \in Versions /\ weightVersion \in Versions
  /\ genWeights \in Versions \cup {Unloaded}
  /\ buf \subseteq Entries /\ saved.items \subseteq Entries
  /\ IsFiniteSet(buf)
  /\ last \in -1 .. MaxSteps /\ arrivals \in [TargetRange -> Nat]
  /\ mailbox \in Seq([op : Calls, v : Versions \cup {None}])
  /\ draining \in BOOLEAN
  /\ colVersion \in Versions /\ initVersion \in Versions
  /\ gates \subseteq Gates
  /\ warned \in Versions \cup {None}
  /\ loop \in [pc : LoopPCs, gv : Versions \cup {None}, lw : -1 .. MaxSteps,
               tgt : TargetRange \cup {None}, left : 0 .. N, aborted : BOOLEAN]
  /\ generating \subseteq TargetRange /\ spawning \subseteq TargetRange
  /\ spawned \in [TargetRange -> Nat] /\ completed \in [TargetRange -> Nat]
  /\ workers \in [Slots -> [st : WorkerStages, ver : Versions \cup {None},
                            tgt : TargetRange \cup {None}]]
  /\ inflight \subseteq Slots
  /\ saved.step \in Versions /\ saved.last \in -1 .. MaxSteps
  /\ failures \in Nat /\ crashes \in Nat

(* The trainer has the batch of its step. *)
Taken == tpc \notin {"setup", "start", "validateStart", "fill", "sample", "done"}

Busy == {s \in Slots : workers[s] # Idle}

-----------------------------------------------------------------------------
(* Safety                                                                  *)

(* WindowKept: whatever is buffered, in flight or about to be spawned for  *)
(* a target was labelled with a version at most A behind it.  So when the  *)
(* trainer samples for a step, the eviction of sample() can only hit       *)
(* groups whose step has passed.  The label is read before the target is   *)
(* chosen, re-read in the middle of a spawn loop and outlives refits.      *)
WindowKept ==
  /\ \A e \in buf \cup saved.items : e.tgt <= e.ver + A
  /\ \A s \in Busy : workers[s].tgt <= workers[s].ver + A
  /\ loop.tgt # None => loop.tgt <= loop.gv + A

(* Promise: the composed system does what OffPolicyTraining promises.      *)
Abstract == INSTANCE OffPolicyTraining WITH
  pool <- buf, made <- arrivals, taken <- Taken, lives <- crashes
Promise == Abstract!Spec

(* NoLeakedReservation: a reserved target always has someone left who will *)
(* release it, the collection thread working on it or one of its workers:  *)
(* a leaked reservation would keep the target from ever being generated.   *)
NoLeakedReservation ==
  \A t \in generating :
    \/ loop.tgt = t
    \/ \E s \in Busy : workers[s].tgt = t

(* CountersAgree: the two counters of a target differ by the workers still *)
(* to be counted, through every order of completions, double releases and  *)
(* re-reservations; "completed < spawned" is what holds a release back.    *)
CountersAgree ==
  \A t \in TargetRange :
    spawned[t] = completed[t] +
      Cardinality({s \in Busy : workers[s].tgt = t /\ workers[s].st \in
                                   {"registered", "rollout", "push", "count"}})

(* ReservationsTracked: no reservation leaks, and the counters that decide *)
(* who releases it agree.                                                  *)
ReservationsTracked == NoLeakedReservation /\ CountersAgree

(* NoOverfill: for a step not yet consumed, the groups buffered, in flight *)
(* and still to be spawned never exceed one batch, gap-filling included.   *)
NoOverfill ==
  \A t \in TargetRange : t > last =>
    Cardinality({e \in buf : e.tgt = t})
      + Cardinality({s \in Busy : workers[s].tgt = t
                                  /\ workers[s].st \in {"rollout", "push"}})
      + (IF loop.tgt = t THEN loop.left ELSE 0) <= N

(* WatermarkIsProgress: the watermark the collector skips by is the last   *)
(* step whose batch the trainer took, also right after a restart.          *)
WatermarkIsProgress == last = IF Taken THEN step ELSE step - 1

(* StragglersCounted: when the weights are replaced without in-flight      *)
(* updates, at most one thread that wait_for_pending_generations knows of  *)
(* is under way, the one whose spawn had passed the refit gate before it   *)
(* closed.  A drain also forgets a thread that is registered and not yet   *)
(* started, and later drains do not wait for it; so that, all together,    *)
(* each refit since the launch has left at most one thread behind.         *)
StragglersCounted ==
  (tpc = "refit" /\ ~InFlight) =>
    /\ Cardinality(inflight) <= 1
    /\ Cardinality(Busy) <= weightVersion - initVersion + 1

(* LabelNotAhead: once the first refit has run, no rollout starts with a   *)
(* label newer than the weights in the engine: the version is announced    *)
(* only after the weights are there.                                       *)
LabelNotAhead ==
  [][\A s \in Slots :
       workers[s].st = "registered" /\ workers'[s].st = "rollout" /\ genWeights # Unloaded
         => workers'[s].ver <= genWeights]_vars

-----------------------------------------------------------------------------
(* Liveness                                                                *)

(* RefitReached: prepare_for_refit returns.                                *)
RefitReached == tpc = "preparing" ~> tpc = "refit"

(* ReservedStepTrains: a step whose groups are being generated is trained. *)
ReservedStepTrains ==
  \A t \in 0 .. (MaxSteps - 1) :
    (step = t /\ t \in generating) ~> (step > t \/ Taken)

-----------------------------------------------------------------------------
(* What comments and docs say and the code does not do                     *)

(* EveryStepTrains: training reaches max_num_steps.                        *)
EveryStepTrains == <>(tpc = "done")
=============================================================================
