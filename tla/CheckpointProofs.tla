-------------------------- MODULE CheckpointProofs --------------------------
(***************************************************************************)
(* Proofs about CheckpointManager, for every keep_top_k, any number of     *)
(* steps, saves and metric values, and a crash anywhere.                   *)
(*                                                                         *)
(* SavesAreWhole is not inductive alone: that a rename publishes a whole   *)
(* directory rests on what the saving job knows of it (JobKnows).  That    *)
(* the newest checkpoint survives pruning rests on the fact that whatever  *)
(* was ever chosen for deletion has been outlived by a later checkpoint    *)
(* (Outlived), and for resuming that this one is under its own name        *)
(* (Growing).  The best checkpoint has an invariant of its own, further    *)
(* below.                                                                  *)
(***************************************************************************)
EXTENDS CheckpointManager, FiniteSetTheorems, TLAPS

JobKnows ==
  /\ pc \in {"write", "finalize", "swap", "dropOld"} => step \in Steps
  /\ pc = "write" => tmp[step].there /\ tmp[step].info = saves /\ saves # 0
  /\ pc \in {"finalize", "swap"} => tmp[step].there
  /\ pc = "dropOld" => Whole(final[step])
  /\ \A n \in Steps : ~final[n].there => IsEmpty(final[n])
  /\ victims \subseteq condemned /\ (pc # "remove" => victims = {})

Outlived == \A n \in condemned : \E k \in Steps : k > n /\ OnDisk(k)

Growing ==
  ~resaved =>
    /\ pc \in {"write", "finalize"} => \A k \in Finals : k < step
    /\ pc \notin {"swap", "dropOld"}
    /\ pc = "prune" => step \in Finals \ condemned /\ \A k \in Finals : k <= step
    /\ \A n \in condemned : \E k \in Finals \ condemned : k > n

IInv == TypeOK /\ JobKnows /\ SavesAreWhole /\ Outlived

(* The saving job starts with an empty checkpoint directory *)
LEMMA InitIInv == Init => IInv /\ Growing
<1> SUFFICES ASSUME Init PROVE IInv /\ Growing OBVIOUS
<1>1. Gone \in Dirs /\ ~Gone.there /\ IsEmpty(Gone) /\ 0 \in Stamps
  BY CheckpointConstants DEF Gone, Dirs, Stamps, IsEmpty
<1>2. TypeOK
  <2>1. final \in [Steps -> Dirs] /\ tmp = final /\ old = final BY <1>1 DEF Init
  <2>2. metric \in [Stamps -> 0 .. MaxMetric] BY CheckpointConstants DEF Init
  <2>3. /\ pc = "idle" /\ step = 0 /\ saves = 0
        /\ victims = {} /\ condemned = {} /\ resaved = FALSE
    BY DEF Init
  <2> QED BY <1>1, <2>1, <2>2, <2>3 DEF TypeOK
<1>3. JobKnows
  <2>1. \A n \in Steps : IsEmpty(final[n]) BY <1>1 DEF Init
  <2>2. pc = "idle" /\ victims = {} BY DEF Init
  <2> QED BY <2>1, <2>2 DEF JobKnows
<1>4. Finals = {} /\ condemned = {} BY <1>1 DEF Init, Finals
<1>5. SavesAreWhole /\ Outlived BY <1>4 DEF SavesAreWhole, Outlived
<1>6. Growing BY <1>4 DEF Init, Growing
<1> QED BY <1>2, <1>3, <1>5, <1>6 DEF IInv

(* Every step keeps the invariant of the saving job *)
LEMMA NextIInv == IInv /\ [Next]_vars => IInv'
<1> SUFFICES ASSUME IInv, [Next]_vars PROVE IInv' OBVIOUS
<1> USE CheckpointConstants DEF IInv
<1>1. ASSUME NEW n \in Steps, NEW m \in 0 .. MaxMetric, InitTmp(n, m) PROVE IInv'
  <2>1. saves' \in Stamps /\ saves' # 0 BY <1>1 DEF InitTmp, TypeOK, Stamps
  <2>2. TypeOK'
    <3>1. /\ n \in Steps /\ step' = n /\ pc' = "write" /\ m \in 0 .. MaxMetric
          /\ metric' = [metric EXCEPT ![saves'] = m]
          /\ UNCHANGED <<final, old, victims, condemned>> /\ resaved' \in BOOLEAN
      BY <1>1 DEF InitTmp, TypeOK
    <3>2. tmp' \in [Steps -> Dirs]
      <4>1. tmp' = [tmp EXCEPT ![n] = [tmp[n] EXCEPT !.there = TRUE, !.info = saves']]
        BY <1>1 DEF InitTmp
      <4>2. [tmp[n] EXCEPT !.there = TRUE, !.info = saves'] \in Dirs
        BY <1>1, <2>1 DEF TypeOK, Dirs
      <4> QED BY <4>1, <4>2 DEF TypeOK
    <3>3. metric' \in [Stamps -> 0 .. MaxMetric] BY <2>1, <3>1 DEF TypeOK
    <3> QED BY <2>1, <3>1, <3>2, <3>3 DEF TypeOK, Stamps
  <2>3. JobKnows'
    <3>1. /\ n \in Steps /\ step' = n /\ pc' = "write" /\ pc = "idle"
          /\ UNCHANGED <<final, victims, condemned>>
      BY <1>1 DEF InitTmp
    <3>2. tmp'[n].there /\ tmp'[n].info = saves' BY <1>1 DEF InitTmp, TypeOK, Dirs
    <3> QED BY <2>1, <3>1, <3>2 DEF JobKnows
  <2>4. SavesAreWhole' /\ Outlived'
    BY <1>1 DEF InitTmp, SavesAreWhole, Outlived, Finals, OnDisk
  <2> QED BY <2>2, <2>3, <2>4
<1>2. CASE WriteState
  <2>1. /\ pc = "write" /\ pc' = "finalize" /\ step \in Steps /\ saves # 0
        /\ tmp' = [tmp EXCEPT ![step].state = saves]
        /\ UNCHANGED <<final, old, metric, step, saves, victims, condemned, resaved>>
    BY <1>2 DEF WriteState, JobKnows, history
  <2>2. tmp' \in [Steps -> Dirs] BY <2>1 DEF TypeOK, Dirs
  <2>3. tmp'[step].there /\ Whole(tmp'[step]) BY <2>1 DEF TypeOK, JobKnows, Dirs, Whole
  <2>4. TypeOK' BY <2>1, <2>2, <2>3 DEF TypeOK
  <2>5. JobKnows' BY <2>1, <2>3 DEF JobKnows
  <2>6. SavesAreWhole' /\ Outlived'
    BY <2>1 DEF SavesAreWhole, Outlived, Finals, OnDisk
  <2> QED BY <2>4, <2>5, <2>6
<1>3. ASSUME MoveIn \/ Swap PROVE IInv'
  <2>1. /\ step \in Steps /\ Whole(tmp[step]) /\ ~final[step].there /\ IsEmpty(final[step])
        /\ final' = [final EXCEPT ![step] = tmp[step]]
        /\ tmp' = [tmp EXCEPT ![step] = Gone]
        /\ condemned' = condemned \ {step}
        /\ pc' \in {"prune", "dropOld"}
        /\ UNCHANGED <<old, metric, step, saves, victims, resaved>>
    BY <1>3 DEF MoveIn, Swap, TypeOK, JobKnows
  <2>2. tmp[step] \in Dirs /\ tmp[step].there BY <1>3 DEF MoveIn, Swap, TypeOK, JobKnows
  <2>3. Gone \in Dirs BY DEF Gone, Dirs, Stamps
  <2>4. TypeOK' BY <2>1, <2>2, <2>3 DEF TypeOK
  <2>5. step \notin victims BY <1>3 DEF MoveIn, Swap, JobKnows
  <2>6. JobKnows'
    <3>1. final'[step] = tmp[step] BY <2>1 DEF TypeOK
    <3>2. \A n \in Steps : ~final'[n].there => IsEmpty(final'[n])
      BY <2>1, <2>2, <3>1 DEF JobKnows, TypeOK
    <3>3. Whole(final'[step]) /\ victims' \subseteq condemned' /\ (pc' # "remove" => victims' = {})
      BY <1>3, <2>1, <2>5, <3>1 DEF MoveIn, Swap, JobKnows
    <3> QED BY <2>1, <3>2, <3>3 DEF JobKnows
  <2>7. SavesAreWhole' BY <2>1 DEF SavesAreWhole, Finals, TypeOK
  <2>8. \A k \in Steps : OnDisk(k) => OnDisk(k)' BY <2>1 DEF OnDisk, TypeOK, IsEmpty, Whole
  <2>9. Outlived' BY <2>1, <2>8 DEF Outlived
  <2> QED BY <2>4, <2>6, <2>7, <2>9
<1>4. CASE SetAside
  <2>1. /\ step \in Steps /\ pc = "finalize" /\ victims' = victims /\ condemned' = condemned
        /\ UNCHANGED <<tmp, metric, step, saves, resaved>>
    BY <1>4 DEF SetAside, JobKnows, history
  <2>2. CASE IsEmpty(old[step])
    <3>1. /\ old' = [old EXCEPT ![step] = final[step]]
          /\ final' = [final EXCEPT ![step] = Gone]
          /\ pc' = "swap"
      BY <1>4, <2>2 DEF SetAside
    <3>2. Gone \in Dirs /\ ~Gone.there /\ IsEmpty(Gone) BY DEF Gone, Dirs, Stamps, IsEmpty
    <3>3. TypeOK' BY <2>1, <3>1, <3>2 DEF TypeOK
    <3>4. JobKnows' BY <2>1, <3>1, <3>2 DEF JobKnows, TypeOK
    <3>5. SavesAreWhole' BY <2>1, <3>1, <3>2 DEF SavesAreWhole, Finals, TypeOK
    <3>6. \A k \in Steps : OnDisk(k) => OnDisk(k)'
      BY <2>1, <2>2, <3>1 DEF OnDisk, TypeOK, IsEmpty, Whole
    <3>7. Outlived' BY <2>1, <3>6 DEF Outlived
    <3> QED BY <3>3, <3>4, <3>5, <3>7
  <2>3. CASE ~IsEmpty(old[step])
    <3>1. pc' = "down" /\ UNCHANGED <<old, final>> BY <1>4, <2>3 DEF SetAside
    <3>2. TypeOK' /\ JobKnows' BY <2>1, <3>1 DEF TypeOK, JobKnows
    <3>3. SavesAreWhole' /\ Outlived'
      BY <2>1, <3>1 DEF SavesAreWhole, Outlived, Finals, OnDisk
    <3> QED BY <3>2, <3>3
  <2> QED BY <2>2, <2>3
<1>5. CASE DropOld
  <2>1. PICK d \in Dirs : /\ old' = [old EXCEPT ![step] = d]
                          /\ pc' = IF d = Gone THEN "prune" ELSE pc
    BY <1>5 DEF DropOld
  <2>2. /\ step \in Steps /\ pc = "dropOld" /\ Whole(final[step])
        /\ UNCHANGED <<final, tmp, metric, step, saves, victims, condemned, resaved>>
    BY <1>5 DEF DropOld, JobKnows, history
  <2>3. TypeOK' BY <2>1, <2>2 DEF TypeOK
  <2>4. JobKnows' BY <2>1, <2>2 DEF JobKnows
  <2>5. SavesAreWhole' BY <2>2 DEF SavesAreWhole, Finals
  <2>6. \A k \in Steps : OnDisk(k) => OnDisk(k)' BY <2>1, <2>2 DEF OnDisk, TypeOK
  <2>7. Outlived' BY <2>2, <2>6 DEF Outlived
  <2> QED BY <2>3, <2>4, <2>5, <2>7
<1>6. CASE ChooseVictims
  <2>1. /\ victims' = {n \in History : OutsideTopK(n)}
        /\ condemned' = condemned \cup victims'
        /\ pc' = IF victims' = {} THEN "idle" ELSE "remove"
        /\ UNCHANGED <<final, tmp, old, metric, step, saves, resaved>>
    BY <1>6 DEF ChooseVictims
  <2>2. victims' \subseteq Steps BY <2>1 DEF History, Finals
  <2>3. TypeOK' BY <2>1, <2>2 DEF TypeOK
  <2>4. JobKnows' BY <2>1 DEF JobKnows
  <2>5. SavesAreWhole' BY <2>1 DEF SavesAreWhole, Finals
  <2>6. ASSUME NEW n \in condemned' PROVE \E k \in Steps : k > n /\ OnDisk(k)
    <3>1. CASE n \in condemned BY <3>1 DEF Outlived
    <3>2. CASE n \in victims'
      <4>1. n \in History /\ ~IsLatest(n, History) BY <2>1, <3>2 DEF OutsideTopK
      <4>2. PICK k \in History : ~(k <= n) BY <4>1 DEF IsLatest
      <4>3. k \in Finals /\ k \in Steps /\ n \in Steps /\ k > n
        BY <4>1, <4>2 DEF History, Finals, Steps
      <4>4. CASE k \notin condemned BY <4>3, <4>4 DEF SavesAreWhole, OnDisk
      <4>5. CASE k \in condemned
        <5>1. PICK j \in Steps : j > k /\ OnDisk(j) BY <4>5 DEF Outlived
        <5> QED BY <4>3, <5>1 DEF Steps
      <4> QED BY <4>4, <4>5
    <3> QED BY <2>1, <3>1, <3>2
  <2>7. Outlived' BY <2>1, <2>6 DEF Outlived, OnDisk
  <2> QED BY <2>3, <2>4, <2>5, <2>7
<1>7. CASE RemoveVictim
  <2>1. PICK n \in victims, d \in Dirs :
          /\ LosesFile(final[n], d)
          /\ final' = [final EXCEPT ![n] = d]
          /\ victims' = IF d = Gone THEN victims \ {n} ELSE victims
    BY <1>7 DEF RemoveVictim
  <2>2. /\ pc = "remove" /\ pc' = IF victims' = {} THEN "idle" ELSE "remove"
        /\ UNCHANGED <<tmp, old, metric, step, saves, condemned, resaved>>
    BY <1>7 DEF RemoveVictim, history
  <2>3. n \in Steps /\ n \in condemned BY DEF TypeOK, JobKnows
  <2>4. TypeOK' BY <2>1, <2>2, <2>3 DEF TypeOK
  <2>5. final[n] \in Dirs BY <2>3 DEF TypeOK
  <2>6. IsEmpty(d) \/ d.there
    <3>1. final[n].there \/ IsEmpty(final[n]) BY <2>3 DEF JobKnows
    <3>2. CASE d = Gone BY <3>2 DEF Gone, IsEmpty
    <3>3. CASE d # Gone
      <4>1. d.there = final[n].there /\ ~IsEmpty(final[n])
        BY <2>1, <2>5, <3>3 DEF LosesFile, IsEmpty, Dirs
      <4> QED BY <3>1, <4>1
    <3> QED BY <3>2, <3>3
  <2>7. JobKnows' BY <2>1, <2>2, <2>3, <2>6 DEF JobKnows, TypeOK
  <2>8. SavesAreWhole' BY <2>1, <2>2, <2>3 DEF SavesAreWhole, Finals, TypeOK
  <2>9. \A k \in Steps : k # n /\ OnDisk(k) => OnDisk(k)' BY <2>1, <2>2 DEF OnDisk, TypeOK
  <2>10. ASSUME NEW c \in condemned PROVE \E k \in Steps : k > c /\ k # n /\ OnDisk(k)
    <3>1. PICK k \in Steps : k > c /\ OnDisk(k) BY DEF Outlived
    <3>2. PICK j \in Steps : j > n /\ OnDisk(j) BY <2>3 DEF Outlived
    <3>3. c \in Steps BY DEF TypeOK
    <3> QED BY <2>3, <3>1, <3>2, <3>3 DEF Steps
  <2>11. Outlived' BY <2>2, <2>9, <2>10 DEF Outlived
  <2> QED BY <2>4, <2>7, <2>8, <2>11
<1>8. ASSUME Crash \/ Restart \/ UNCHANGED vars PROVE IInv'
  <2>1. /\ victims' = victims \/ victims' = {}
        /\ pc' = pc \/ (pc' \in {"down", "idle"} /\ victims' = {})
        /\ UNCHANGED <<final, tmp, old, metric, step, saves, condemned, resaved>>
    BY <1>8 DEF Crash, Restart, vars, history, JobKnows
  <2>2. TypeOK' BY <2>1 DEF TypeOK
  <2>3. JobKnows' BY <2>1 DEF JobKnows
  <2>4. SavesAreWhole' /\ Outlived' BY <2>1 DEF SavesAreWhole, Outlived, Finals, OnDisk
  <2> QED BY <2>2, <2>3, <2>4
<1> QED BY <1>1, <1>2, <1>3, <1>4, <1>5, <1>6, <1>7, <1>8 DEF Next

(* While steps grow, the newest directory is never one under deletion *)
LEMMA NextGrowing == IInv /\ Growing /\ [Next]_vars => Growing'
<1> SUFFICES ASSUME IInv, Growing, [Next]_vars, ~resaved' PROVE Growing' BY DEF Growing
<1> USE DEF IInv
<1>1. ASSUME NEW n \in Steps, NEW m \in 0 .. MaxMetric, InitTmp(n, m) PROVE Growing'
  <2>1. ~resaved /\ \A k \in Finals : ~(n <= k) BY <1>1 DEF InitTmp, TypeOK
  <2>2. \A k \in Finals : k < n BY <2>1 DEF Finals, Steps
  <2> QED BY <1>1, <2>1, <2>2 DEF InitTmp, Growing, Finals
<1>2. ~resaved \/ \E n \in Steps, m \in 0 .. MaxMetric : InitTmp(n, m)
  BY DEF Next, vars, WriteState, MoveIn, SetAside, Swap, DropOld, ChooseVictims,
         RemoveVictim, Crash, Restart, history
<1>3. CASE WriteState BY <1>3 DEF WriteState, Growing, Finals, history
<1>4. ASSUME MoveIn, ~resaved PROVE Growing'
  <2>1. /\ step \in Steps /\ ~final[step].there /\ tmp[step].there
        /\ final' = [final EXCEPT ![step] = tmp[step]]
        /\ condemned' = condemned \ {step} /\ pc' = "prune" /\ step' = step
    BY <1>4 DEF MoveIn, JobKnows
  <2>2. Finals' = Finals \cup {step} /\ step \notin Finals BY <2>1 DEF Finals, TypeOK
  <2>3. \A k \in Finals : k < step BY <1>4 DEF Growing, MoveIn
  <2>4. \A k \in Finals' : k <= step BY <2>1, <2>2, <2>3 DEF Finals, Steps
  <2>5. \A n \in condemned : \E k \in Finals \ condemned : k > n BY <1>4 DEF Growing
  <2>6. \A n \in condemned' : \E k \in Finals' \ condemned' : k > n BY <2>1, <2>2, <2>5
  <2> QED BY <2>1, <2>2, <2>4, <2>6 DEF Growing
<1>5. ASSUME SetAside \/ Swap \/ DropOld, ~resaved PROVE FALSE
  <2>1. step \notin Finals \/ pc # "finalize"
    <3>1. pc = "finalize" => \A k \in Finals : k < step BY <1>5 DEF Growing
    <3> QED BY <3>1 DEF Finals, Steps
  <2> QED BY <1>5, <2>1 DEF SetAside, Swap, DropOld, Growing, Finals, JobKnows
<1>6. ASSUME ChooseVictims, ~resaved PROVE Growing'
  <2>1. /\ pc = "prune" /\ pc' \in {"idle", "remove"} /\ final' = final
        /\ victims' = {n \in History : OutsideTopK(n)}
        /\ condemned' = condemned \cup victims'
    BY <1>6 DEF ChooseVictims
  <2>2. step \in Finals \ condemned /\ \A k \in Finals : k <= step
    BY <1>6, <2>1 DEF Growing
  <2>3. step \in History BY <2>2 DEF SavesAreWhole, History, Whole
  <2>4. IsLatest(step, History) BY <2>2, <2>3 DEF IsLatest, History
  <2>5. step \in Finals' \ condemned' BY <2>1, <2>2, <2>4 DEF OutsideTopK, Finals
  <2>6. ASSUME NEW n \in victims' PROVE step > n
    <3>1. n \in Finals /\ n # step BY <2>1, <2>4 DEF OutsideTopK, History
    <3> QED BY <2>2, <3>1 DEF Finals, Steps
  <2>7. \A n \in condemned : \E k \in Finals \ condemned : k > n BY <1>6 DEF Growing
  <2>8. \A n \in condemned : step > n
    <3> SUFFICES ASSUME NEW n \in condemned PROVE step > n OBVIOUS
    <3>1. PICK k \in Finals : k > n BY <2>7
    <3> QED BY <2>2, <3>1 DEF Finals, Steps, TypeOK
  <2>9. \A n \in condemned' : \E k \in Finals' \ condemned' : k > n
    BY <2>1, <2>5, <2>6, <2>8
  <2> QED BY <2>1, <2>9 DEF Growing
<1>7. ASSUME RemoveVictim, ~resaved PROVE Growing'
  <2>1. PICK n \in victims, d \in Dirs : final' = [final EXCEPT ![n] = d]
    BY <1>7 DEF RemoveVictim
  <2>2. pc' \in {"idle", "remove"} /\ condemned' = condemned
    BY <1>7 DEF RemoveVictim, history
  <2>3. n \in condemned BY DEF JobKnows
  <2>4. Finals \ condemned \subseteq Finals' BY <2>1, <2>3 DEF Finals, TypeOK
  <2>5. \A c \in condemned : \E k \in Finals \ condemned : k > c BY <1>7 DEF Growing
  <2> QED BY <2>2, <2>4, <2>5 DEF Growing
<1>8. ASSUME Crash \/ Restart \/ UNCHANGED vars, ~resaved PROVE Growing'
  BY <1>8 DEF Crash, Restart, vars, history, Growing, Finals
<1> QED BY <1>1, <1>2, <1>3, <1>4, <1>5, <1>6, <1>7, <1>8 DEF Next

(* No step takes the newest checkpoint from the disk *)
LEMMA NextKeepsNewest ==
  ASSUME IInv, [Next]_vars, NEW n \in Steps, OnDisk(n),
         \A k \in Steps : k > n => ~OnDisk(k)
  PROVE  OnDisk(n)'
<1> USE DEF IInv
<1>1. CASE UNCHANGED <<final, old>> BY <1>1 DEF OnDisk
<1>2. CASE MoveIn \/ Swap
  BY <1>2 DEF MoveIn, Swap, OnDisk, TypeOK, JobKnows, IsEmpty, Whole
<1>3. CASE SetAside BY <1>3 DEF SetAside, OnDisk, TypeOK, JobKnows, IsEmpty, Whole
<1>4. CASE DropOld
  <2>1. /\ step \in Steps /\ Whole(final[step]) /\ final' = final
        /\ \A k \in Steps : k # step => old'[k] = old[k]
    BY <1>4 DEF DropOld, JobKnows, TypeOK
  <2> QED BY <2>1 DEF OnDisk
<1>5. CASE RemoveVictim
  <2>1. PICK v \in victims, d \in Dirs : final' = [final EXCEPT ![v] = d]
    BY <1>5 DEF RemoveVictim
  <2>2. v \in condemned /\ old' = old BY <1>5 DEF RemoveVictim, JobKnows
  <2>3. v # n BY <2>2 DEF Outlived
  <2> QED BY <2>1, <2>2, <2>3 DEF OnDisk, TypeOK
<1> QED
  BY <1>1, <1>2, <1>3, <1>4, <1>5
     DEF Next, vars, InitTmp, WriteState, ChooseVictims, Crash, Restart

(* The saving job, crashes and restarts included, keeps the invariant *)
THEOREM InvariantHolds == Spec => [](IInv /\ Growing)
<1>1. Init => IInv /\ Growing BY InitIInv
<1>2. (IInv /\ Growing) /\ [Next]_vars => (IInv /\ Growing)' BY NextIInv, NextGrowing
<1> QED BY <1>1, <1>2, PTL DEF Spec

(* The state of the directory and of the saving job is well typed, and what *)
(* finalize_checkpoint moves is complete.                                  *)
THEOREM TypeCorrect == Spec => []TypeOK
<1>1. IInv => TypeOK BY DEF IInv
<1> QED BY <1>1, InvariantHolds, PTL

(* finalize_checkpoint publishes complete saves only, wherever the job was  *)
(* interrupted, and only pruning takes one apart.                          *)
THEOREM PseudoAtomic == Spec => []SavesAreWhole
<1>1. IInv => SavesAreWhole BY DEF IInv
<1> QED BY <1>1, InvariantHolds, PTL

(* get_latest_checkpoint_path never hands a resuming job a checkpoint that  *)
(* remove_old_checkpoints was deleting, while saved steps only grow.       *)
THEOREM Resumable == Spec => []ResumeLoadable
<1>1. IInv /\ Growing => ResumeLoadable
  <2> SUFFICES ASSUME IInv, Growing, ~resaved, NEW n \in Steps, IsLatest(n, Finals)
               PROVE  Whole(final[n])
    BY DEF ResumeLoadable
  <2>1. n \in Finals /\ \A k \in Finals : k <= n BY DEF IsLatest
  <2>2. n \notin condemned
    <3> SUFFICES ASSUME n \in condemned PROVE FALSE OBVIOUS
    <3>1. PICK k \in Finals : k > n BY DEF Growing
    <3> QED BY <2>1, <3>1 DEF Finals, Steps
  <2> QED BY <2>1, <2>2 DEF IInv, SavesAreWhole
<1> QED BY <1>1, InvariantHolds, PTL

(* The newest complete checkpoint stays on disk through overrides, pruning  *)
(* and crashes.                                                            *)
THEOREM NewestSurvives == Spec => NewestKept
<1>1. IInv /\ [Next]_vars
      => [\A n \in Steps :
            OnDisk(n) /\ (\A k \in Steps : k > n => ~OnDisk(k)) => OnDisk(n)']_vars
  BY NextKeepsNewest
<1> QED BY <1>1, InvariantHolds, PTL DEF Spec, NewestKept

-----------------------------------------------------------------------------
(***************************************************************************)
(* The best checkpoint.  get_best_checkpoint_path looks at nothing but the *)
(* training_info.json files, so that what it picks is complete rests on    *)
(* the order in which remove_old_checkpoints ranks them: a directory it    *)
(* has begun to delete is outranked by one it never chose (Outranked).     *)
(* The metric of a directory is that of the save whose number its          *)
(* training_info.json bears, and no directory bears a number not yet given *)
(* out (Stamped), so beginning a save changes no rank.                     *)
(***************************************************************************)
Stamped == \A n \in Steps : final[n].info <= saves /\ tmp[n].info <= saves

Outranked ==
  ~resaved => \A n \in condemned \cap History :
                \E b \in History \ condemned : RanksAbove(b, n)

(* A non-empty set of numbers below a bound has a greatest one. *)
LEMMA Greatest ==
  ASSUME NEW M \in Nat, NEW S \in SUBSET (0 .. M), S # {}
  PROVE  \E x \in S : \A y \in S : y <= x
<1> DEFINE D == {M - x : x \in S}
<1>1. D \in SUBSET Nat /\ D # {}
  <2>1. \A x \in S : M - x \in Nat OBVIOUS
  <2>2. PICK x \in S : TRUE OBVIOUS
  <2>3. M - x \in D BY <2>2
  <2> QED BY <2>1, <2>3
<1> HIDE DEF D
<1>2. PICK d \in D : \A y \in D : ~(<<y, d>> \in OpToRel(<, Nat))
  BY <1>1, NatLessThanWellFounded, WFMin
<1>3. \A y \in D : ~(y < d) BY <1>1, <1>2 DEF OpToRel
<1>4. PICK x \in S : d = M - x BY DEF D
<1>5. ASSUME NEW y \in S PROVE y <= x
  <2>1. M - y \in D BY DEF D
  <2>2. ~(M - y < M - x) BY <1>3, <1>4, <2>1
  <2>3. x \in 0 .. M /\ y \in 0 .. M OBVIOUS
  <2> QED BY <2>2, <2>3
<1> QED BY <1>5

LEMMA HistoryTyped ==
  ASSUME TypeOK
  PROVE  \A n \in History : n \in Steps /\ MetricOf(n) \in 0 .. MaxMetric
BY DEF TypeOK, History, Finals, MetricOf, Dirs

(* The sort of remove_old_checkpoints puts one checkpoint first. *)
LEMMA TopOfHistory ==
  ASSUME TypeOK, History # {}
  PROVE  \E b \in History : \A m \in History : m # b => RanksAbove(b, m)
<1> USE CheckpointConstants
<1>1. \A n \in History : n \in Steps /\ MetricOf(n) \in 0 .. MaxMetric BY HistoryTyped
<1> DEFINE Metrics == {MetricOf(n) : n \in History}
<1>2. Metrics \in SUBSET (0 .. MaxMetric) /\ Metrics # {} BY <1>1
<1>3. \E v \in Metrics : \A w \in Metrics : w <= v
  <2> HIDE DEF Metrics
  <2> QED BY <1>2, Greatest
<1>4. PICK top \in History : \A n \in History : MetricOf(n) <= MetricOf(top) BY <1>3
<1> DEFINE Tops == {n \in History : MetricOf(n) = MetricOf(top)}
<1>5. Tops \in SUBSET (0 .. MaxStep) /\ Tops # {} BY <1>1 DEF Steps
<1>6. \E x \in Tops : \A y \in Tops : y <= x
  <2> HIDE DEF Tops
  <2> QED BY <1>5, Greatest
<1>7. PICK b \in Tops : \A y \in Tops : y <= b BY <1>6
<1>8. ASSUME NEW m \in History, m # b PROVE RanksAbove(b, m)
  <2>1. /\ MetricOf(m) \in Int /\ MetricOf(b) \in Int /\ m \in Int /\ b \in Int
        /\ MetricOf(m) <= MetricOf(b)
        /\ MetricOf(m) = MetricOf(b) => m <= b
    BY <1>1, <1>4, <1>7 DEF Steps
  <2> QED BY <1>8, <2>1 DEF RanksAbove
<1> QED BY <1>8

LEMMA InitBest == Init => Stamped /\ Outranked
BY CheckpointConstants DEF Init, Stamped, Outranked, Gone, Steps

(* A training_info.json bears the number of a save that was begun. *)
LEMMA NextStamped == IInv /\ Stamped /\ [Next]_vars => Stamped'
<1> SUFFICES ASSUME IInv, Stamped, [Next]_vars PROVE Stamped' OBVIOUS
<1> USE CheckpointConstants
<1>1. saves \in Nat /\ \A n \in Steps : final[n].info \in Nat /\ tmp[n].info \in Nat
  <2>1. Stamps \subseteq Nat BY DEF Stamps
  <2>2. saves \in Stamps BY DEF IInv, TypeOK
  <2>3. \A n \in Steps : final[n].info \in Stamps /\ tmp[n].info \in Stamps
    <3>1. \A d \in Dirs : d.info \in Stamps BY DEF Dirs
    <3>2. \A n \in Steps : final[n] \in Dirs /\ tmp[n] \in Dirs BY DEF IInv, TypeOK
    <3> QED BY <3>1, <3>2
  <2> QED BY <2>1, <2>2, <2>3
<1>2. ASSUME NEW n \in Steps, NEW m \in 0 .. MaxMetric, InitTmp(n, m) PROVE Stamped'
  <2>1. saves' = saves + 1 /\ final' = final BY <1>2 DEF InitTmp
  <2>2. \A k \in Steps : tmp'[k].info = IF k = n THEN saves' ELSE tmp[k].info
    BY <1>2 DEF InitTmp, IInv, TypeOK, Dirs
  <2> QED BY <1>1, <2>1, <2>2 DEF Stamped
<1>3. CASE WriteState
  <2>1. \A k \in Steps : tmp'[k].info = tmp[k].info
    BY <1>3 DEF WriteState, IInv, TypeOK, Dirs
  <2> QED BY <1>3, <2>1 DEF WriteState, Stamped
<1>4. CASE MoveIn \/ Swap
  <2>1. \A k \in Steps : /\ final'[k].info \in {final[k].info, tmp[k].info}
                         /\ tmp'[k].info \in {tmp[k].info, 0}
    BY <1>4 DEF MoveIn, Swap, IInv, TypeOK, Gone
  <2> QED BY <1>1, <1>4, <2>1 DEF MoveIn, Swap, Stamped
<1>5. CASE SetAside
  <2>1. \A k \in Steps : final'[k].info \in {final[k].info, 0}
    BY <1>5 DEF SetAside, IInv, TypeOK, Gone
  <2> QED BY <1>1, <1>5, <2>1 DEF SetAside, Stamped
<1>6. CASE RemoveVictim
  <2>1. PICK n \in victims, d \in Dirs : LosesFile(final[n], d) /\ final' = [final EXCEPT ![n] = d]
    BY <1>6 DEF RemoveVictim
  <2>2. n \in Steps /\ final[n] \in Dirs BY DEF IInv, TypeOK
  <2>3. d.info \in {final[n].info, 0} BY <2>1, <2>2 DEF LosesFile, Gone, Dirs
  <2>4. \A k \in Steps : final'[k].info \in {final[k].info, 0} BY <2>1, <2>3 DEF IInv, TypeOK
  <2> QED BY <1>1, <1>6, <2>4 DEF RemoveVictim, Stamped
<1>7. CASE UNCHANGED <<final, tmp, saves>> BY <1>7 DEF Stamped
<1> QED
  BY <1>2, <1>3, <1>4, <1>5, <1>6, <1>7
     DEF Next, vars, DropOld, ChooseVictims, Crash, Restart

(* A save that begins changes the metric of no checkpoint in the history. *)
LEMMA BeginningKeepsRanks ==
  ASSUME IInv, Stamped, NEW n \in Steps, NEW m \in 0 .. MaxMetric, InitTmp(n, m)
  PROVE  /\ History' = History
         /\ \A a, b \in History : RanksAbove(a, b)' = RanksAbove(a, b)
<1> USE CheckpointConstants
<1>1. /\ saves \in Nat /\ saves' = saves + 1 /\ final' = final
      /\ metric' = [metric EXCEPT ![saves'] = m]
  BY DEF InitTmp, IInv, TypeOK, Stamps
<1>2. History' = History BY <1>1 DEF History, Finals
<1>3. ASSUME NEW k \in History PROVE MetricOf(k)' = MetricOf(k)
  <2>1. k \in Steps BY DEF History, Finals
  <2>2. final[k] \in Dirs BY <2>1 DEF IInv, TypeOK
  <2>3. final[k].info \in Stamps /\ final[k].info <= saves BY <2>1, <2>2 DEF Dirs, Stamped
  <2>4. final[k].info # saves' BY <1>1, <2>3 DEF Stamps
  <2> QED BY <1>1, <2>3, <2>4 DEF MetricOf, IInv, TypeOK
<1> QED BY <1>2, <1>3 DEF RanksAbove

(* What stays in the history keeps its rank when the metrics and the        *)
(* training_info.json files there do not change.                           *)
LEMMA SameRanks ==
  ASSUME metric' = metric, NEW a, NEW b,
         final'[a].info = final[a].info, final'[b].info = final[b].info
  PROVE  RanksAbove(a, b)' = RanksAbove(a, b)
<1>1. MetricOf(a)' = MetricOf(a) /\ MetricOf(b)' = MetricOf(b) BY DEF MetricOf
<1> QED BY <1>1 DEF RanksAbove

(* The deletion under way never reaches the top of the ranking, as long as  *)
(* one checkpoint is to be kept.                                           *)
LEMMA NextOutranked ==
  ASSUME KeepTopK > 0, IInv, Growing, Stamped, Outranked, [Next]_vars
  PROVE  Outranked'
<1> SUFFICES ASSUME ~resaved' PROVE Outranked' BY DEF Outranked
<1> USE CheckpointConstants
<1>0. ~resaved
  BY DEF Next, vars, WriteState, MoveIn, SetAside, Swap, DropOld, ChooseVictims,
         RemoveVictim, Crash, Restart, history, InitTmp, IInv, TypeOK
<1>1. \A n \in condemned \cap History : \E b \in History \ condemned : RanksAbove(b, n)
  BY <1>0 DEF Outranked
<1>2. ASSUME NEW n \in Steps, NEW m \in 0 .. MaxMetric, InitTmp(n, m) PROVE Outranked'
  <2>1. condemned' = condemned BY <1>2 DEF InitTmp
  <2>2. /\ History' = History
        /\ \A a, b \in History : RanksAbove(a, b)' = RanksAbove(a, b)
    BY <1>2, BeginningKeepsRanks
  <2> QED BY <1>1, <2>1, <2>2 DEF Outranked
<1>3. CASE WriteState \/ Crash \/ Restart \/ UNCHANGED vars
  <2>1. UNCHANGED <<final, metric, condemned>>
    BY <1>3 DEF WriteState, Crash, Restart, vars, history
  <2>2. History' = History BY <2>1 DEF History, Finals
  <2>3. \A a, b \in History : RanksAbove(a, b)' = RanksAbove(a, b) BY <2>1, SameRanks
  <2> QED BY <1>1, <2>1, <2>2, <2>3 DEF Outranked
<1>4. CASE MoveIn
  <2>1. /\ step \in Steps /\ ~final[step].there /\ metric' = metric
        /\ final' = [final EXCEPT ![step] = tmp[step]]
        /\ condemned' = condemned \ {step}
    BY <1>4 DEF MoveIn, IInv, JobKnows
  <2>2. step \notin History BY <2>1 DEF History, Finals
  <2>3. \A k \in History : k # step /\ final'[k] = final[k]
    BY <2>1, <2>2 DEF History, Finals, IInv, TypeOK
  <2>4. History \subseteq History' /\ History' \subseteq History \cup {step}
    BY <2>1, <2>3 DEF History, Finals, IInv, TypeOK
  <2>5. ASSUME NEW n \in condemned' \cap History'
        PROVE  \E b \in History' \ condemned' : RanksAbove(b, n)'
    <3>1. n \in condemned \cap History BY <2>1, <2>4
    <3>2. PICK b \in History \ condemned : RanksAbove(b, n) BY <1>1, <3>1
    <3>3. RanksAbove(b, n)' BY <2>1, <2>3, <3>1, <3>2, SameRanks
    <3> QED BY <2>1, <2>4, <3>2, <3>3
  <2> QED BY <2>5 DEF Outranked
<1>5. ASSUME SetAside \/ Swap \/ DropOld PROVE FALSE
  <2>1. step \notin Finals \/ pc # "finalize"
    <3>1. pc = "finalize" => \A k \in Finals : k < step BY <1>0 DEF Growing
    <3> QED BY <3>1 DEF Finals, Steps
  <2> QED BY <1>0, <1>5, <2>1 DEF SetAside, Swap, DropOld, Growing, Finals, IInv, JobKnows
<1>6. CASE ChooseVictims
  <2>1. /\ victims' = {n \in History : OutsideTopK(n)} /\ condemned' = condemned \cup victims'
        /\ final' = final /\ metric' = metric
    BY <1>6 DEF ChooseVictims
  <2>2. History' = History BY <2>1 DEF History, Finals
  <2>3. ASSUME NEW n \in condemned' \cap History'
        PROVE  \E b \in History' \ condemned' : RanksAbove(b, n)'
    <3>1. n \in History BY <2>2
    <3>2. PICK b \in History : \A m \in History : m # b => RanksAbove(b, m)
      <4>1. TypeOK /\ History # {} BY <3>1 DEF IInv
      <4> QED BY <4>1, TopOfHistory
    <3>3. ASSUME NEW m \in History PROVE ~RanksAbove(m, b)
      <4>1. MetricOf(m) \in Int /\ MetricOf(b) \in Int /\ m \in Int /\ b \in Int
        BY HistoryTyped DEF IInv, Steps
      <4>2. m # b => RanksAbove(b, m) BY <3>2
      <4> QED BY <4>1, <4>2 DEF RanksAbove
    <3>4. b \notin condemned BY <1>1, <3>3
    <3>5. ~OutsideTopK(b)
      <4>1. {m \in History : RanksAbove(m, b)} = {} BY <3>3
      <4>2. Cardinality({m \in History : RanksAbove(m, b)}) = 0 BY <4>1, FS_EmptySet
      <4> QED BY <4>2 DEF OutsideTopK
    <3>6. b \in History' \ condemned' BY <2>1, <2>2, <3>4, <3>5
    <3>7. n # b BY <3>6
    <3>8. RanksAbove(b, n)' BY <2>1, <3>1, <3>2, <3>7, SameRanks
    <3> QED BY <3>6, <3>8
  <2> QED BY <2>3 DEF Outranked
<1>7. CASE RemoveVictim
  <2>1. PICK v \in victims, d \in Dirs : LosesFile(final[v], d) /\ final' = [final EXCEPT ![v] = d]
    BY <1>7 DEF RemoveVictim
  <2>2. v \in Steps /\ v \in condemned /\ condemned' = condemned /\ metric' = metric
    BY <1>7 DEF RemoveVictim, history, IInv, TypeOK, JobKnows
  <2>3. final[v] \in Dirs BY <2>2 DEF IInv, TypeOK
  <2>4. d.info = 0 \/ (d.info = final[v].info /\ d.there = final[v].there)
    BY <2>1, <2>3 DEF LosesFile, Gone, Dirs
  <2>5. /\ History' \subseteq History
        /\ \A k \in History' : final'[k].info = final[k].info
    BY <2>1, <2>2, <2>4 DEF History, Finals, IInv, TypeOK
  <2>6. \A k \in History \ condemned : k \in History' /\ final'[k].info = final[k].info
    BY <2>1, <2>2 DEF History, Finals, IInv, TypeOK
  <2>7. ASSUME NEW n \in condemned' \cap History'
        PROVE  \E b \in History' \ condemned' : RanksAbove(b, n)'
    <3>1. n \in condemned \cap History BY <2>2, <2>5
    <3>2. PICK b \in History \ condemned : RanksAbove(b, n) BY <1>1, <3>1
    <3>3. RanksAbove(b, n)' BY <2>2, <2>5, <2>6, <3>2, SameRanks
    <3> QED BY <2>2, <2>6, <3>2, <3>3
  <2> QED BY <2>7 DEF Outranked
<1> QED BY <1>2, <1>3, <1>4, <1>5, <1>6, <1>7 DEF Next

(* What get_best_checkpoint_path picks is complete. *)
LEMMA BestIsWhole ==
  ASSUME IInv, Growing, Outranked, ~resaved,
         \A m, n \in History : MetricOf(m) = MetricOf(n) => m = n,
         NEW n \in Steps, IsBest(n)
  PROVE  Whole(final[n])
<1> USE CheckpointConstants
<1> DEFINE rated == {m \in History : MetricOf(m) > 0}
<1>1. CASE rated = {}
  <2>1. n \in Finals /\ \A k \in Finals : k <= n BY <1>1 DEF IsBest, IsLatest
  <2>2. n \notin condemned
    <3> SUFFICES ASSUME n \in condemned PROVE FALSE OBVIOUS
    <3>1. PICK k \in Finals : k > n BY DEF Growing
    <3> QED BY <2>1, <3>1 DEF Finals, Steps
  <2> QED BY <2>1, <2>2 DEF IInv, SavesAreWhole
<1>2. CASE rated # {}
  <2>1. n \in rated /\ \A m \in rated : MetricOf(m) <= MetricOf(n) BY <1>2 DEF IsBest
  <2>2. n \notin condemned
    <3> SUFFICES ASSUME n \in condemned PROVE FALSE OBVIOUS
    <3>1. PICK b \in History \ condemned : RanksAbove(b, n) BY <2>1 DEF Outranked
    <3>2. MetricOf(b) \in Int /\ MetricOf(n) \in Int
      BY <2>1, HistoryTyped DEF IInv
    <3>3. MetricOf(b) # MetricOf(n) BY <2>1, <3>1
    <3>4. MetricOf(b) > MetricOf(n) BY <3>1, <3>3 DEF RanksAbove
    <3>5. b \in rated BY <2>1, <3>2, <3>4
    <3> QED BY <2>1, <3>2, <3>4, <3>5
  <2>3. n \in Finals BY <2>1 DEF History
  <2> QED BY <2>2, <2>3 DEF IInv, SavesAreWhole
<1> QED BY <1>1, <1>2

(* BestIsLoadable: when at least one checkpoint is to be kept,              *)
(* get_best_checkpoint_path never returns one that remove_old_checkpoints  *)
(* was deleting when the job crashed, while saved steps only grow and no   *)
(* two have one metric.  With keep_top_k = 0 only the latest is spared,    *)
(* and the best may be the one half deleted.                               *)
THEOREM BestIsLoadable == KeepTopK > 0 /\ Spec => []BestLoadable
<1> SUFFICES ASSUME KeepTopK > 0 PROVE Spec => []BestLoadable OBVIOUS
<1>1. Init => Stamped /\ Outranked BY InitBest
<1>2. (IInv /\ Growing) /\ (Stamped /\ Outranked) /\ [Next]_vars => (Stamped /\ Outranked)'
  BY NextStamped, NextOutranked
<1>3. (IInv /\ Growing) /\ (Stamped /\ Outranked) => BestLoadable
  BY BestIsWhole DEF BestLoadable
<1> QED BY <1>1, <1>2, <1>3, InvariantHolds, PTL DEF Spec
=============================================================================
