------------------------- MODULE ReplayBufferProofs -------------------------
(* Theorems about the replay buffer, for every value of its constants. *)
EXTENDS ReplayBuffer, FiniteSetTheorems, TLAPS

-----------------------------------------------------------------------------
(* Lemmas about the operators of ReplayBufferOps                           *)

(* A non-empty set of steps has a least one (min(...) in the code). *)
LEMMA LeastStep ==
  ASSUME NEW S \in SUBSET Nat, S # {}
  PROVE  \E x \in S : \A y \in S : x <= y
<1>1. PICK x \in S : \A y \in S : ~(<<y, x>> \in OpToRel(<, Nat))
  BY NatLessThanWellFounded, WFMin
<1>2. \A y \in S : ~(y < x)
  BY <1>1 DEF OpToRel
<1> QED BY <1>2

(* The contents of a buffer: finitely many entries, and a watermark *)
IsContents(b) ==
  b.items \subseteq Entries /\ IsFiniteSet(b.items) /\ b.last \in Int

(* No clean-up pass of load_state_dict adds an entry, and each leaves a     *)
(* watermark that is an integer.                                           *)
LEMMA PrepareForStepShrinks ==
  ASSUME NEW b, IsContents(b), NEW s \in Int
  PROVE  /\ IsContents(PrepareForStep(b, s))
         /\ PrepareForStep(b, s).items \subseteq b.items
<1> DEFINE K == {e \in b.items : e.tgt >= s}
<1>1. K \subseteq b.items
  OBVIOUS
<1>2. IsFiniteSet(K)
  BY <1>1, FS_Subset DEF IsContents
<1>3. PrepareForStep(b, s).items = K /\ PrepareForStep(b, s).last = s - 1
  BY DEF PrepareForStep
<1> QED BY <1>1, <1>2, <1>3 DEF IsContents

LEMMA RemoveStaleShrinks ==
  ASSUME NEW b, IsContents(b), NEW a
  PROVE  /\ IsContents(RemoveStale(b, a))
         /\ RemoveStale(b, a).items \subseteq b.items
<1> DEFINE K == {e \in b.items : ValidForTarget(e, a)}
<1>1. K \subseteq b.items
  OBVIOUS
<1>2. IsFiniteSet(K)
  BY <1>1, FS_Subset DEF IsContents
<1>3. RemoveStale(b, a).items = K /\ RemoveStale(b, a).last = b.last
  BY DEF RemoveStale
<1> QED BY <1>1, <1>2, <1>3 DEF IsContents

LEMMA RemoveIncompleteShrinks ==
  ASSUME NEW b, IsContents(b), NEW n \in Int
  PROVE  /\ IsContents(RemoveIncomplete(b, n))
         /\ RemoveIncomplete(b, n).items \subseteq b.items
<1> DEFINE kept == {e \in b.items : CountForTarget(b.items, e.tgt, None) >= n}
           first == CHOOSE t \in {e.tgt : e \in kept} : \A e \in kept : t <= e.tgt
<1>1. kept \subseteq b.items
  OBVIOUS
<1>2. IsFiniteSet(kept)
  BY <1>1, FS_Subset DEF IsContents
<1>3. \A e \in kept : e.tgt \in Nat
  BY <1>1, BufferConstants DEF IsContents, Entries, Entry, Steps
<1> HIDE DEF kept
<1>4. ASSUME kept # {} PROVE first \in Int
  <2> DEFINE tgts == {e.tgt : e \in kept}
  <2>1. tgts \in SUBSET Nat /\ tgts # {}
    BY <1>3, <1>4
  <2>2. \E x \in tgts : \A y \in tgts : x <= y
    BY <2>1, LeastStep
  <2>3. \E x \in tgts : \A e \in kept : x <= e.tgt
    BY <2>2
  <2>4. first \in tgts
    BY <2>3
  <2> HIDE DEF tgts, first
  <2> QED BY <2>1, <2>4
<1>5. /\ RemoveIncomplete(b, n).items = kept
      /\ RemoveIncomplete(b, n).last = IF kept = b.items THEN b.last
                                       ELSE IF kept = {} THEN -1
                                       ELSE IF b.last < first THEN b.last ELSE first - 1
  BY DEF RemoveIncomplete, kept
<1> HIDE DEF first
<1>6. RemoveIncomplete(b, n).last \in Int
  BY <1>4, <1>5 DEF IsContents
<1> QED BY <1>1, <1>2, <1>5, <1>6 DEF IsContents

LEMMA CleanedUpShrinks ==
  ASSUME NEW b, IsContents(b), NEW n \in {None, N}, NEW s \in Steps \cup {None},
         NEW a \in {None, MaxAge}
  PROVE  /\ IsContents(CleanedUp(b, n, s, a))
         /\ CleanedUp(b, n, s, a).items \subseteq b.items
<1> DEFINE one == IF n # None /\ s # None THEN PrepareForStep(b, s)
                  ELSE IF n # None /\ b.items # {} THEN RemoveIncomplete(b, n)
                  ELSE b
           fresh == RemoveStale(one, a)
<1>1. s \in Int /\ n \in Int
  BY BufferConstants DEF Steps, None
<1>2. IsContents(one) /\ one.items \subseteq b.items
  BY <1>1, PrepareForStepShrinks, RemoveIncompleteShrinks
<1> HIDE DEF one
<1>3. IsContents(fresh) /\ fresh.items \subseteq one.items
  BY <1>2, RemoveStaleShrinks
<1> HIDE DEF fresh
<1>4. /\ IsContents(RemoveIncomplete(fresh, n))
      /\ RemoveIncomplete(fresh, n).items \subseteq fresh.items
  BY <1>1, <1>3, RemoveIncompleteShrinks
<1>5. CleanedUp(b, n, s, a) = IF a = None \/ one.items = {} THEN one
                              ELSE IF s = None /\ n # None THEN RemoveIncomplete(fresh, n)
                              ELSE fresh
  BY DEF CleanedUp, one, fresh
<1> QED BY <1>2, <1>3, <1>4, <1>5

-----------------------------------------------------------------------------
(* The inductive invariant: types, and the age window of what is stored    *)

InWindow == \A e \in buf \cup saved.items : e.tgt - MaxAge <= e.ver

IInv == TypeOK /\ InWindow

(* What a group that is in the buffer next was before *)
LEMMA KeepsIInv ==
  ASSUME IInv, buf' \subseteq buf \cup saved.items, IsFiniteSet(buf'),
         Cardinality(buf') <= maxSize', maxSize' \in Sizes, last' \in Int,
         arrivals' = arrivals, saved' = saved
  PROVE  IInv'
BY DEF IInv, TypeOK, InWindow

LEMMA InitIInv == Init => IInv
<1> SUFFICES ASSUME Init PROVE IInv
  OBVIOUS
<1>1. buf = {} /\ saved.items = {} /\ saved.last = -1 /\ maxSize \in Sizes
  BY DEF Init, NoCheckpoint
<1>2. IsFiniteSet({}) /\ Cardinality({}) = 0
  BY FS_EmptySet
<1> QED BY <1>1, <1>2, BufferConstants DEF Init, IInv, TypeOK, InWindow

LEMMA AddKeepsIInv ==
  ASSUME IInv, NEW v \in Steps, NEW t \in Steps, Add(v, t)
  PROVE  IInv'
<1>1. CASE Cardinality(buf) >= maxSize
  BY <1>1 DEF Add, IInv, TypeOK, InWindow
<1>2. CASE ~(Cardinality(buf) >= maxSize)
  <2> DEFINE g == [id |-> arrivals, ver |-> v, tgt |-> t]
  <2>1. /\ buf' = buf \cup {g} /\ arrivals' = arrivals + 1
        /\ t - MaxAge <= v /\ UNCHANGED <<last, maxSize, saved>>
    BY <1>2 DEF Add
  <2>2. g \in Entries /\ g.id = arrivals /\ g.ver = v /\ g.tgt = t
    BY DEF Entries, Entry, IInv, TypeOK
  <2> HIDE DEF g
  <2>3. IsFiniteSet(buf) /\ Cardinality(buf) \in Nat
    BY FS_CardinalityType DEF IInv, TypeOK
  <2>4. IsFiniteSet(buf') /\ Cardinality(buf') <= Cardinality(buf) + 1
    BY <2>1, <2>3, FS_AddElement
  <2>5. maxSize \in Nat
    BY BufferConstants DEF IInv, TypeOK
  <2>6. Cardinality(buf') \in Nat
    BY <2>4, FS_CardinalityType
  <2>7. Cardinality(buf') <= maxSize'
    BY <1>2, <2>1, <2>3, <2>4, <2>5, <2>6
  <2>8. \A e \in buf' \cup saved'.items : e.id < arrivals' /\ e.tgt - MaxAge <= e.ver
    <3>1. \A e \in buf \cup saved.items : e.id \in Nat /\ e.id < arrivals /\ e.tgt - MaxAge <= e.ver
      BY DEF IInv, TypeOK, InWindow, Entries, Entry
    <3>2. arrivals \in Nat
      BY DEF IInv, TypeOK
    <3> QED BY <2>1, <2>2, <3>1, <3>2
  <2> QED BY <2>1, <2>2, <2>4, <2>7, <2>8 DEF IInv, TypeOK, InWindow
<1> QED BY <1>1, <1>2

LEMMA SampleKeepsIInv ==
  ASSUME IInv, NEW step \in Steps, Sample(step)
  PROVE  IInv'
<1>1. buf' \subseteq buf
  BY DEF Sample, AfterEviction
<1>2. IsFiniteSet(buf') /\ Cardinality(buf') <= Cardinality(buf)
  BY <1>1, FS_Subset DEF IInv, TypeOK
<1>3. maxSize' = maxSize /\ arrivals' = arrivals /\ saved' = saved
  BY DEF Sample
<1>4. last' \in Int
  BY DEF Sample, IInv, TypeOK, Steps
<1>5. Cardinality(buf') \in Nat /\ Cardinality(buf) \in Nat /\ maxSize \in Nat
  BY <1>2, FS_CardinalityType, BufferConstants DEF IInv, TypeOK
<1>6. Cardinality(buf') <= maxSize' /\ maxSize' \in Sizes
  BY <1>2, <1>3, <1>5 DEF IInv, TypeOK
<1> QED BY <1>1, <1>2, <1>3, <1>4, <1>6, KeepsIInv

LEMMA LoadKeepsIInv ==
  ASSUME IInv, NEW n \in {None, N}, NEW s \in Steps \cup {None},
         NEW a \in {None, MaxAge}, LoadStateDict(n, s, a)
  PROVE  IInv'
<1> DEFINE b == CleanedUp(saved, n, s, a)
<1>1. IsContents(saved)
  BY DEF IInv, TypeOK, IsContents
<1>2. IsContents(b) /\ b.items \subseteq saved.items
  BY <1>1, CleanedUpShrinks
<1>3. PICK K \in SUBSET b.items : IsTruncation(K, b.items, maxSize, s) /\ buf' = K
  BY DEF LoadStateDict
<1>4. last' = b.last /\ UNCHANGED <<maxSize, arrivals, saved>>
  BY DEF LoadStateDict
<1> HIDE DEF b
<1>5. IsFiniteSet(buf') /\ Cardinality(buf') <= maxSize
  <2>1. IsFiniteSet(buf')
    BY <1>2, <1>3, FS_Subset DEF IsContents
  <2>2. maxSize \in Nat
    BY BufferConstants DEF IInv, TypeOK
  <2> QED BY <1>3, <2>1, <2>2 DEF IsTruncation
<1>6. last' \in Int
  BY <1>2, <1>4 DEF IsContents
<1> QED BY <1>2, <1>3, <1>4, <1>5, <1>6, KeepsIInv DEF IInv, TypeOK

LEMMA NextKeepsIInv == IInv /\ [Next]_vars => IInv'
<1> SUFFICES ASSUME IInv, [Next]_vars PROVE IInv'
  OBVIOUS
<1>1. ASSUME NEW v \in Steps, NEW t \in Steps, Add(v, t) PROVE IInv'
  BY <1>1, AddKeepsIInv
<1>2. ASSUME NEW step \in Steps, Sample(step) PROVE IInv'
  BY <1>2, SampleKeepsIInv
<1>3. CASE Clear \/ Recreate
  <2>1. buf' = {} /\ arrivals' = arrivals /\ saved' = saved
    BY <1>3 DEF Clear, Recreate
  <2>2. maxSize' \in Sizes /\ last' \in Int
    BY <1>3 DEF Clear, Recreate, IInv, TypeOK
  <2>3. IsFiniteSet(buf') /\ Cardinality(buf') = 0
    BY <2>1, FS_EmptySet
  <2> QED BY <2>1, <2>2, <2>3, BufferConstants, KeepsIInv
<1>4. CASE StateDict
  <2>1. saved'.items = buf /\ saved'.last = last /\ UNCHANGED <<buf, last, maxSize, arrivals>>
    BY <1>4 DEF StateDict
  <2> QED BY <2>1 DEF IInv, TypeOK, InWindow
<1>5. CASE LoadMalformed
  BY <1>5 DEF LoadMalformed, IInv, TypeOK, InWindow
<1>6. ASSUME NEW n \in {None, N}, NEW s \in Steps \cup {None},
             NEW a \in {None, MaxAge}, LoadStateDict(n, s, a)
      PROVE IInv'
  BY <1>6, LoadKeepsIInv
<1>7. CASE UNCHANGED vars
  BY <1>7 DEF vars, IInv, TypeOK, InWindow
<1> QED BY <1>1, <1>2, <1>3, <1>4, <1>5, <1>6, <1>7 DEF Next

THEOREM InvariantHolds == Spec => []IInv
BY InitIInv, NextKeepsIInv, PTL DEF Spec

-----------------------------------------------------------------------------
(* TypeCorrect: the buffer never holds more than max_size groups, whatever *)
(* its capacity and that of the checkpoint it was restored from.           *)
THEOREM TypeCorrect == Spec => []TypeOK
BY InvariantHolds, PTL DEF IInv

(* LastChance: sampling for a step removes a group whose own step has not  *)
(* passed only in the batch it returns (sample, lines 105-107).            *)
LEMMA SampleKeepsLastChance ==
  ASSUME IInv, NEW step \in Steps, Sample(step),
         NEW e \in buf \ buf', e.tgt >= step
  PROVE  e \in reply'.batch
<1>1. /\ e.ver \in Nat /\ e.tgt \in Nat /\ step \in Nat /\ MaxAge \in Nat
      /\ e.tgt - MaxAge <= e.ver
  BY BufferConstants DEF IInv, TypeOK, InWindow, Entries, Entry, Steps
<1>2. e.ver >= OldestValid(step, MaxAge)
  BY <1>1 DEF OldestValid
<1>3. e \in AfterEviction(buf, step, MaxAge)
  BY <1>2 DEF AfterEviction
<1> QED BY <1>3 DEF Sample, Returns

THEOREM LastChance == Spec => LastChanceKept
<1>1. IInv /\ [Next]_vars => [\A step \in Steps :
        Sample(step) => \A e \in buf \ buf' : e.tgt >= step => e \in reply'.batch]_vars
  BY SampleKeepsLastChance
<1> QED BY <1>1, InvariantHolds, PTL DEF Spec, LastChanceKept

-----------------------------------------------------------------------------
(* Ready: has_complete_batch(t) implies that sample(t) returns a batch: the *)
(* two counting formulas of the code name the same groups.                 *)
LEMMA SameGroupsCounted ==
  ASSUME NEW t \in Steps
  PROVE  IntendedFor(buf, t, MaxAge) = {e \in buf : e.tgt = t /\ ValidForTarget(e, MaxAge)}
<1>1. MaxAge # None
  BY BufferConstants DEF None
<1> QED BY <1>1 DEF IntendedFor, WithinWindow, AfterEviction, ValidForTarget

THEOREM Ready == Spec => []ReadyMeansSamplable
<1>1. IInv => ReadyMeansSamplable
  <2> SUFFICES ASSUME IInv, NEW t \in Steps, HasCompleteBatch(buf, t, N, MaxAge)
               PROVE  CanSample(buf, N, t, MaxAge)
    BY DEF ReadyMeansSamplable
  <2> DEFINE I == IntendedFor(buf, t, MaxAge)
             W == WithinWindow(buf, t, MaxAge)
  <2>1. Cardinality(I) >= N
    BY SameGroupsCounted DEF HasCompleteBatch, CountForTarget
  <2>2. I \subseteq W /\ W \subseteq buf
    BY DEF IntendedFor, WithinWindow, AfterEviction
  <2> HIDE DEF I, W
  <2>3. IsFiniteSet(W) /\ IsFiniteSet(I) /\ Cardinality(I) <= Cardinality(W)
    BY <2>2, FS_Subset DEF IInv, TypeOK
  <2>4. Cardinality(I) \in Nat /\ Cardinality(W) \in Nat
    BY <2>3, FS_CardinalityType
  <2>5. N \in Nat \ {0}
    BY BufferConstants
  <2>6. Cardinality(W) >= N /\ Cardinality(W) # 0
    BY <2>1, <2>3, <2>4, <2>5
  <2>7. W # {}
    BY <2>3, <2>6, FS_EmptySet
  <2> QED BY <2>1, <2>6, <2>7 DEF CanSample, I, W
<1> QED BY <1>1, InvariantHolds, PTL

-----------------------------------------------------------------------------
(* Restored: after resuming at a step, what is in the buffer is for that    *)
(* step or later and can be trained on at its own step, and the watermark  *)
(* lies right below the resumed step.                                      *)
LEMMA LoadIsUsable ==
  ASSUME IInv, NEW n \in {None, N}, NEW s \in Steps \cup {None},
         NEW a \in {None, MaxAge}, LoadStateDict(n, s, a)
  PROVE  RestoredIsUsable'
<1>1. reply' = [call |-> "load", batch |-> {}, n |-> n, step |-> s, age |-> a]
  BY DEF LoadStateDict
<1> SUFFICES ASSUME s # None, n # None
             PROVE  /\ last' = s - 1
                    /\ \A e \in buf' : /\ last' < e.tgt
                                       /\ a # None => e \in IntendedFor(buf', e.tgt, MaxAge)
  BY <1>1 DEF RestoredIsUsable
<1> DEFINE one == PrepareForStep(saved, s)
           b == CleanedUp(saved, n, s, a)
<1>2. one.items = {e \in saved.items : e.tgt >= s} /\ one.last = s - 1
  BY DEF PrepareForStep
<1>3. b = IF a = None \/ one.items = {} THEN one ELSE RemoveStale(one, a)
  BY DEF CleanedUp
<1>4. last' = b.last /\ buf' \subseteq b.items
  BY DEF LoadStateDict
<1> HIDE DEF one, b
<1>5. b.last = s - 1 /\ \A e \in b.items : e \in saved.items /\ e.tgt >= s
  BY <1>2, <1>3 DEF RemoveStale
<1>6. a # None => \A e \in b.items : ValidForTarget(e, a)
  BY <1>3 DEF RemoveStale
<1>7. s \in Int /\ \A e \in saved.items : e.tgt \in Int /\ e.ver \in Int
  BY BufferConstants DEF IInv, TypeOK, Entries, Entry, Steps
<1>8. \A e \in buf' : last' < e.tgt
  BY <1>4, <1>5, <1>7
<1>9. ASSUME a # None, NEW e \in buf' PROVE e \in IntendedFor(buf', e.tgt, MaxAge)
  <2>1. a = MaxAge /\ ValidForTarget(e, MaxAge)
    BY <1>4, <1>6, <1>9
  <2>2. e.ver >= OldestValid(e.tgt, MaxAge) /\ e.ver <= e.tgt
    BY <2>1, <1>9 DEF ValidForTarget
  <2> QED BY <2>2 DEF IntendedFor, WithinWindow, AfterEviction
<1> QED BY <1>4, <1>5, <1>8, <1>9

(* Only load_state_dict answers "load". *)
LEMMA OnlyLoadAnswersLoad ==
  ASSUME [Next]_vars
  PROVE  \/ UNCHANGED vars
         \/ reply'.call # "load"
         \/ \E n \in {None, N}, s \in Steps \cup {None}, a \in {None, MaxAge} :
              LoadStateDict(n, s, a)
<1>1. ASSUME NEW v \in Steps, NEW t \in Steps, Add(v, t) PROVE reply'.call # "load"
  BY <1>1 DEF Add, Returns
<1>2. ASSUME NEW step \in Steps, Sample(step) PROVE reply'.call # "load"
  BY <1>2 DEF Sample, Returns
<1>3. CASE Clear \/ StateDict \/ Recreate \/ LoadMalformed
  BY <1>3 DEF Clear, StateDict, Recreate, LoadMalformed, Returns
<1> QED BY <1>1, <1>2, <1>3 DEF Next

THEOREM Restored == Spec => []RestoredIsUsable
<1>1. Init => RestoredIsUsable
  BY DEF Init, RestoredIsUsable
<1>2. IInv /\ RestoredIsUsable /\ [Next]_vars => RestoredIsUsable'
  <2> SUFFICES ASSUME IInv, RestoredIsUsable, [Next]_vars PROVE RestoredIsUsable'
    OBVIOUS
  <2>1. CASE UNCHANGED vars
    BY <2>1 DEF vars, RestoredIsUsable, IntendedFor, WithinWindow, AfterEviction
  <2>2. CASE reply'.call # "load"
    BY <2>2 DEF RestoredIsUsable
  <2> QED BY <2>1, <2>2, LoadIsUsable, OnlyLoadAnswersLoad
<1> QED BY <1>1, <1>2, InvariantHolds, PTL DEF Spec

(* KeptNearest: a resume drops a saved group only when its step has passed, *)
(* when it is stale for its target, or for want of room, and then only     *)
(* groups no further away were kept.                                       *)
LEMMA LoadKeepsNearest ==
  ASSUME IInv, NEW n \in {None, N}, NEW s \in Steps \cup {None},
         NEW a \in {None, MaxAge}, LoadStateDict(n, s, a)
  PROVE  RestoreKeepsNearest'
<1>1. /\ reply' = [call |-> "load", batch |-> {}, n |-> n, step |-> s, age |-> a]
      /\ saved' = saved /\ maxSize' = maxSize
  BY DEF LoadStateDict
<1> SUFFICES ASSUME s # None, n # None, NEW e \in saved.items \ buf'
             PROVE  \/ e.tgt < s
                    \/ ~ValidForTarget(e, a)
                    \/ /\ Cardinality(buf') = maxSize
                       /\ \A k \in buf' : k.tgt < e.tgt \/ (k.tgt = e.tgt /\ k.id < e.id)
  BY <1>1 DEF RestoreKeepsNearest
<1> DEFINE one == PrepareForStep(saved, s)
           b == CleanedUp(saved, n, s, a)
<1>2. one.items = {x \in saved.items : x.tgt >= s}
  BY DEF PrepareForStep
<1>3. b = IF a = None \/ one.items = {} THEN one ELSE RemoveStale(one, a)
  BY DEF CleanedUp
<1>4. IsTruncation(buf', b.items, maxSize, s)
  BY DEF LoadStateDict
<1> HIDE DEF one, b
<1>5. s \in Int /\ e.tgt \in Int
  BY BufferConstants DEF IInv, TypeOK, Entries, Entry, Steps
<1>6. CASE e \notin b.items
  BY <1>2, <1>3, <1>5, <1>6 DEF RemoveStale
<1>7. CASE e \in b.items
  BY <1>4, <1>7 DEF IsTruncation, KeptBefore
<1> QED BY <1>6, <1>7

THEOREM KeptNearest == Spec => []RestoreKeepsNearest
<1>1. Init => RestoreKeepsNearest
  BY DEF Init, RestoreKeepsNearest
<1>2. IInv /\ RestoreKeepsNearest /\ [Next]_vars => RestoreKeepsNearest'
  <2> SUFFICES ASSUME IInv, RestoreKeepsNearest, [Next]_vars PROVE RestoreKeepsNearest'
    OBVIOUS
  <2>1. CASE UNCHANGED vars
    BY <2>1 DEF vars, RestoreKeepsNearest
  <2>2. CASE reply'.call # "load"
    BY <2>2 DEF RestoreKeepsNearest
  <2> QED BY <2>1, <2>2, LoadKeepsNearest, OnlyLoadAnswersLoad
<1> QED BY <1>1, <1>2, InvariantHolds, PTL DEF Spec

(* NoPartial: a restore without a step leaves of a target a complete batch  *)
(* or nothing.  The pass that looks for incomplete targets counts without  *)
(* an age, so it has to come after the one that drops the stale groups.    *)

(* The groups of one target are kept or dropped together. *)
LEMMA IncompleteGoTogether ==
  ASSUME NEW b, NEW n, NEW e \in RemoveIncomplete(b, n).items
  PROVE  CountForTarget(RemoveIncomplete(b, n).items, e.tgt, None) >= n
<1> DEFINE K == RemoveIncomplete(b, n).items
<1>1. K = {x \in b.items : CountForTarget(b.items, x.tgt, None) >= n}
  BY DEF RemoveIncomplete
<1> HIDE DEF K
<1>2. e \in K
  BY DEF K
<1>3. CountForTarget(b.items, e.tgt, None) >= n
  BY <1>1, <1>2
<1>4. {x \in K : x.tgt = e.tgt /\ ValidForTarget(x, None)}
        = {x \in b.items : x.tgt = e.tgt /\ ValidForTarget(x, None)}
  BY <1>1, <1>3
<1>5. CountForTarget(K, e.tgt, None) = CountForTarget(b.items, e.tgt, None)
  BY <1>4 DEF CountForTarget
<1> QED BY <1>3, <1>5 DEF K

(* Among groups none of which is stale, the age does not change the count. *)
LEMMA FreshAreCounted ==
  ASSUME NEW K, NEW a, \A x \in K : ValidForTarget(x, a), NEW t
  PROVE  CountForTarget(K, t, a) = CountForTarget(K, t, None)
<1>1. {x \in K : x.tgt = t /\ ValidForTarget(x, a)}
        = {x \in K : x.tgt = t /\ ValidForTarget(x, None)}
  BY DEF ValidForTarget
<1> QED BY <1>1 DEF CountForTarget

(* What load_state_dict keeps before it truncates, when no step is resumed *)
LEMMA CleanedUpIsComplete ==
  ASSUME NEW b, NEW a, NEW e \in CleanedUp(b, N, None, a).items
  PROVE  HasCompleteBatch(CleanedUp(b, N, None, a).items, e.tgt, N, a)
<1> DEFINE one   == IF b.items # {} THEN RemoveIncomplete(b, N) ELSE b
           fresh == RemoveStale(one, a)
           K     == CleanedUp(b, N, None, a).items
<1>1. N # None
  BY BufferConstants DEF None
<1>2. K = IF a = None \/ one.items = {} THEN one.items ELSE RemoveIncomplete(fresh, N).items
  BY <1>1 DEF CleanedUp
<1>3. e \in K
  OBVIOUS
<1>4. CASE a = None \/ one.items = {}
  <2>1. K = one.items /\ one.items # {} /\ a = None
    BY <1>2, <1>3, <1>4
  <2>2. one = RemoveIncomplete(b, N)
    BY <2>1
  <2> HIDE DEF K, one
  <2>3. e \in RemoveIncomplete(b, N).items
    BY <1>3, <2>1, <2>2
  <2>4. CountForTarget(RemoveIncomplete(b, N).items, e.tgt, None) >= N
    BY <2>3, IncompleteGoTogether
  <2>5. CountForTarget(K, e.tgt, a) >= N
    BY <2>1, <2>2, <2>4
  <2> QED BY <2>5 DEF HasCompleteBatch, K
<1>5. CASE ~(a = None \/ one.items = {})
  <2>1. K = RemoveIncomplete(fresh, N).items
    BY <1>2, <1>5
  <2>2. \A x \in fresh.items : ValidForTarget(x, a)
    BY DEF RemoveStale
  <2> HIDE DEF K, one, fresh
  <2>3. \A x \in K : ValidForTarget(x, a)
    BY <2>1, <2>2 DEF RemoveIncomplete
  <2>4. CountForTarget(RemoveIncomplete(fresh, N).items, e.tgt, None) >= N
    BY <1>3, <2>1, IncompleteGoTogether
  <2>5. CountForTarget(K, e.tgt, a) = CountForTarget(K, e.tgt, None)
    BY <2>3, FreshAreCounted
  <2>6. CountForTarget(K, e.tgt, a) >= N
    BY <2>1, <2>4, <2>5
  <2> QED BY <2>6 DEF HasCompleteBatch, K
<1> QED BY <1>4, <1>5

LEMMA LoadLeavesNoPartial ==
  ASSUME IInv, NEW n \in {None, N}, NEW s \in Steps \cup {None},
         NEW a \in {None, MaxAge}, LoadStateDict(n, s, a)
  PROVE  NoPartialTargets'
<1>1. /\ reply' = [call |-> "load", batch |-> {}, n |-> n, step |-> s, age |-> a]
      /\ maxSize' = maxSize
  BY DEF LoadStateDict
<1> SUFFICES ASSUME s = None, n = N, NEW e \in buf'
             PROVE  HasCompleteBatch(buf', e.tgt, N, a) \/ Cardinality(buf') = maxSize
  BY <1>1 DEF NoPartialTargets
<1> DEFINE K == CleanedUp(saved, N, None, a).items
<1>2. IsTruncation(buf', K, maxSize, None)
  BY DEF LoadStateDict
<1>3. e \in K
  BY <1>2 DEF IsTruncation
<1>4. HasCompleteBatch(K, e.tgt, N, a)
  BY <1>3, CleanedUpIsComplete
<1> HIDE DEF K
<1> QED BY <1>2, <1>4 DEF IsTruncation

THEOREM NoPartial == Spec => []NoPartialTargets
<1>1. Init => NoPartialTargets
  BY DEF Init, NoPartialTargets
<1>2. IInv /\ NoPartialTargets /\ [Next]_vars => NoPartialTargets'
  <2> SUFFICES ASSUME IInv, NoPartialTargets, [Next]_vars PROVE NoPartialTargets'
    OBVIOUS
  <2>1. CASE UNCHANGED vars
    BY <2>1 DEF vars, NoPartialTargets, HasCompleteBatch, CountForTarget
  <2>2. CASE reply'.call # "load"
    BY <2>2 DEF NoPartialTargets
  <2> QED BY <2>1, <2>2, LoadLeavesNoPartial, OnlyLoadAnswersLoad
<1> QED BY <1>1, <1>2, InvariantHolds, PTL DEF Spec
=============================================================================
