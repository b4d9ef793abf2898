---------------------------- MODULE ReplayBuffer ----------------------------
(***************************************************************************)
(* The replay buffer actor (ReplayBufferImpl) by itself: a single-threaded *)
(* Ray actor, so each call is one step.  Its clients add groups whose      *)
(* target lies at most MaxAge versions ahead of the generating version,    *)
(* sample for any step, checkpoint it, and restore the checkpoint into an  *)
(* actor of another capacity.                                              *)
(***************************************************************************)
EXTENDS ReplayBufferOps

CONSTANTS
  N,           \* num_prompts_per_step
  MaxAge,      \* max_trajectory_age_steps
  Sizes,       \* the capacities an actor may be created with
  MaxStep,     \* bound: the largest training step clients name
  MaxArrivals  \* bound: how many groups are ever added

ASSUME BufferConstants ==
  /\ N \in Nat \ {0}
  /\ MaxAge \in Nat \ {0}
  /\ Sizes \subseteq Nat \ {0}
  /\ Sizes # {}
  /\ MaxStep \in Nat
  /\ MaxArrivals \in Nat

VARIABLES
  buf,       \* the stored entries
  last,      \* last_target_weight_already_generated
  maxSize,   \* max_size
  arrivals,  \* how many groups were added so far; stamps the entries
  saved,     \* what state_dict returned last (a checkpoint), or NoCheckpoint
  reply      \* what the last call returned

vars == <<buf, last, maxSize, arrivals, saved, reply>>

Steps == 0 .. MaxStep
Entries == Entry(Steps, Steps)
NoCheckpoint == [items |-> {}, last |-> -1]

Init ==
  /\ buf = {} /\ last = -1 /\ arrivals = 0
  /\ maxSize \in Sizes
  /\ saved = NoCheckpoint
  /\ reply = [call |-> "init", batch |-> {}]

Returns(call, batch) == reply' = [call |-> call, batch |-> batch]

(* A worker's add, for a group of version v meant for step t *)
Add(v, t) ==
  /\ arrivals < MaxArrivals
  /\ t - MaxAge <= v
  /\ IF Cardinality(buf) >= maxSize
     THEN /\ Returns("full", {})
          /\ UNCHANGED <<buf, arrivals>>
     ELSE /\ buf' = buf \cup {[id |-> arrivals, ver |-> v, tgt |-> t]}
          /\ arrivals' = arrivals + 1
          /\ Returns("success", {})
  /\ UNCHANGED <<last, maxSize, saved>>

(* The trainer's sample(N, step, MaxAge).  Stale entries are evicted even   *)
(* when the call then returns None.                                        *)
Sample(step) ==
  /\ LET fresh == AfterEviction(buf, step, MaxAge)
     IN  IF CanSample(buf, N, step, MaxAge)
         THEN \E S \in SUBSET IntendedFor(buf, step, MaxAge) :
                /\ IsOldest(S, IntendedFor(buf, step, MaxAge), N)
                /\ buf' = fresh \ S
                /\ last' = IF last < step THEN step ELSE last
                /\ Returns("batch", S)
         ELSE /\ buf' = fresh
              /\ Returns("none", {})
              /\ UNCHANGED last
  /\ UNCHANGED <<maxSize, arrivals, saved>>

(* clear drops the entries; the watermark stays *)
Clear ==
  /\ buf' = {}
  /\ Returns("clear", {})
  /\ UNCHANGED <<last, maxSize, arrivals, saved>>

StateDict ==
  /\ saved' = [items |-> buf, last |-> last]
  /\ Returns("state_dict", {})
  /\ UNCHANGED <<buf, last, maxSize, arrivals>>

(* A new actor, of a capacity the new job's configuration gives *)
Recreate ==
  /\ buf' = {} /\ last' = -1
  /\ maxSize' \in Sizes
  /\ Returns("init", {})
  /\ UNCHANGED <<arrivals, saved>>

(* load_state_dict(saved, n, step, age), arguments that may be None *)
LoadStateDict(n, step, age) ==
  LET b == CleanedUp(saved, n, step, age)
  IN  /\ \E K \in SUBSET b.items :
           /\ IsTruncation(K, b.items, maxSize, step)
           /\ buf' = K
      /\ last' = b.last
      /\ reply' = [call |-> "load", batch |-> {}, n |-> n, step |-> step, age |-> age]
      /\ UNCHANGED <<maxSize, arrivals, saved>>

(* A state with a missing key or lists of unequal length raises ValueError *)
(* before anything is assigned.                                            *)
LoadMalformed ==
  /\ Returns("ValueError", {})
  /\ UNCHANGED <<buf, last, maxSize, arrivals, saved>>

Next ==
  \/ \E v, t \in Steps : Add(v, t)
  \/ \E step \in Steps : Sample(step)
  \/ Clear \/ StateDict \/ Recreate \/ LoadMalformed
  \/ \E n \in {None, N}, step \in Steps \cup {None}, age \in {None, MaxAge} :
       LoadStateDict(n, step, age)

Spec == Init /\ [][Next]_vars

-----------------------------------------------------------------------------
(* TypeOK: the lists hold at most max_size groups, each stamped once, also *)
(* after a checkpoint of a larger buffer was restored into a smaller one   *)
(* (add's capacity check and _truncate_to_max_size together).              *)
TypeOK ==
  /\ buf \subseteq Entries
  /\ IsFiniteSet(buf)
  /\ Cardinality(buf) <= maxSize
  /\ maxSize \in Sizes
  /\ last \in Int
  /\ arrivals \in Nat
  /\ \A e \in buf \cup saved.items : e.id < arrivals
  /\ saved.items \subseteq Entries /\ IsFiniteSet(saved.items)
  /\ saved.last \in Int

(* ReadyMeansSamplable: when has_complete_batch(t) is true, sample(t) does  *)
(* return a batch.  The trainer stops waiting on the first and then relies *)
(* on the second; the two count with different formulas.                   *)
ReadyMeansSamplable ==
  \A t \in Steps :
    HasCompleteBatch(buf, t, N, MaxAge) => CanSample(buf, N, t, MaxAge)

(* LastChanceKept: sampling for a step never evicts a group whose own step *)
(* has not passed: it leaves the buffer only in a batch.  This is sample's *)
(* "no trajectory loses its last chance" (lines 105-107).                  *)
LastChanceKept ==
  [][\A step \in Steps :
       Sample(step) =>
         \A e \in buf \ buf' : e.tgt >= step => e \in reply'.batch]_vars

(* RestoreKeepsNearest: resuming at a step drops a saved group only when it *)
(* is for a past step, is stale for its target, or the buffer is full of   *)
(* groups whose targets are no further away (or as far, and older).        *)
RestoreKeepsNearest ==
  (reply.call = "load" /\ reply.step # None /\ reply.n # None) =>
    \A e \in saved.items \ buf :
      \/ e.tgt < reply.step
      \/ ~ValidForTarget(e, reply.age)
      \/ /\ Cardinality(buf) = maxSize
         /\ \A k \in buf : k.tgt < e.tgt \/ (k.tgt = e.tgt /\ k.id < e.id)

(* RestoredIsUsable: after resuming at a step with an age limit, every     *)
(* group left is for that step or a later one, can still be trained on at  *)
(* its step, and the watermark lies right below the resumed step, so that  *)
(* the collector skips no target that still needs groups.                  *)
RestoredIsUsable ==
  (reply.call = "load" /\ reply.step # None /\ reply.n # None) =>
    /\ last = reply.step - 1
    /\ \A e \in buf :
         /\ last < e.tgt
         /\ reply.age # None =>
              e \in IntendedFor(buf, e.tgt, MaxAge)

(* NoPartialTargets: a restore without a step keeps a target only with a   *)
(* complete batch, unless truncation then cut into it.                     *)
NoPartialTargets ==
  (reply.call = "load" /\ reply.step = None /\ reply.n # None) =>
    \A e \in buf :
      \/ HasCompleteBatch(buf, e.tgt, N, reply.age)
      \/ Cardinality(buf) = maxSize
=============================================================================
