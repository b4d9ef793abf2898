-------------------------- MODULE AsyncGRPOProofs --------------------------
(***************************************************************************)
(* Proofs about AsyncGRPO, for every batch size, window, number of steps,  *)
(* of failures and of crashes, draining or in-flight refits.               *)
(*                                                                         *)
(* That everything made for a target carries a label inside its window     *)
(* (WindowKept) rests on the label never being ahead of the collector's    *)
(* version and that version only growing, since the spawn loop may replace *)
(* a label it chose a target by with the version it finds after a refit.   *)
(* That the version grows is a fact about the mailbox (MailboxOrdered):    *)
(* announcements wait there in order, none ahead of the trainer.           *)
(***************************************************************************)
EXTENDS AsyncGRPOProperties, FiniteSetTheorems, TLAPS

Refitted == {"trained", "validateStep", "save", "dataloaderState", "snapshot", "advance"}

(* Where the trainer stands, and what each thread knows where it is *)
Bookkeeping ==
  /\ tpc # "done" => step < MaxSteps
  /\ weightVersion = IF tpc \in Refitted THEN step + 1 ELSE step
  /\ genWeights = IF tpc = "setup" THEN Unloaded ELSE weightVersion
  /\ colVersion <= weightVersion
  /\ loop.gv <= colVersion
  /\ loop.pc \in {"limitLast", "limitScan", "targetLast", "reserve"} => loop.gv # None
  /\ loop.pc \in {"open", "spawnGate", "spawnBlocked", "spawn", "start", "close", "release",
                 "discard"}
       => loop.gv # None /\ loop.tgt # None
  /\ loop.pc \in {"spawnGate", "spawnBlocked", "spawn", "start"} => loop.left > 0
  /\ \A s \in Busy : workers[s].ver # None /\ workers[s].tgt # None
  /\ IsFiniteSet(saved.items) /\ saved.arrivals \in [TargetRange -> Nat]

(* Announced versions grow and do not pass the trainer's; a call that the   *)
(* trainer waits for is pending once, and only while it waits.             *)
MailboxOrdered ==
  /\ \A i \in 1 .. Len(mailbox) :
       /\ mailbox[i].op = "set"
            => colVersion <= mailbox[i].v /\ mailbox[i].v <= weightVersion
       /\ mailbox[i].op = "prepare_for_refit" => tpc = "preparing" /\ ~draining
       /\ mailbox[i].op = "get_dataloader_state" => tpc = "dataloaderState"
  /\ \A i, j \in 1 .. Len(mailbox) : i < j =>
       /\ mailbox[i].op = "set" /\ mailbox[j].op = "set" => mailbox[i].v <= mailbox[j].v
       /\ mailbox[i].op = mailbox[j].op
            => mailbox[i].op \notin {"prepare_for_refit", "get_dataloader_state"}
  /\ draining => tpc = "preparing"

IInv == TypeOK /\ Bookkeeping /\ MailboxOrdered /\ WindowKept /\ WatermarkIsProgress

-----------------------------------------------------------------------------
(* Lemmas                                                                  *)

(* A call is served from the head of the mailbox ... *)
LEMMA TailIndex ==
  ASSUME NEW S, NEW q \in Seq(S), q # <<>>
  PROVE  /\ Head(q) = q[1] /\ 1 \in 1 .. Len(q)
         /\ Tail(q) \in Seq(S) /\ Len(Tail(q)) = Len(q) - 1
         /\ \A i \in 1 .. Len(Tail(q)) : i + 1 \in 1 .. Len(q) /\ Tail(q)[i] = q[i + 1]
OBVIOUS

(* ... and put at its end. *)
LEMMA ConcatIndex ==
  ASSUME NEW S, NEW q \in Seq(S), NEW r \in Seq(S)
  PROVE  /\ q \o r \in Seq(S) /\ Len(q \o r) = Len(q) + Len(r)
         /\ \A i \in 1 .. Len(q) : (q \o r)[i] = q[i]
         /\ \A i \in 1 .. Len(r) : (q \o r)[Len(q) + i] = r[i]
OBVIOUS

(* A count of some of the N groups still needed *)
LEMMA NeededBound ==
  ASSUME NEW b, IsFiniteSet(b), NEW t
  PROVE  TrajectoriesNeeded(b, t, N, A) \in 0 .. N
<1> DEFINE S == {e \in b : e.tgt = t /\ ValidForTarget(e, A)}
<1>1. IsFiniteSet(S) BY FS_Subset
<1>2. Cardinality(S) \in Nat BY <1>1, FS_CardinalityType
<1>3. CountForTarget(b, t, A) = Cardinality(S) BY DEF CountForTarget
<1> QED BY <1>2, <1>3, AsyncConstants DEF TrajectoriesNeeded

(* The targets of a version lie in its window and in the range. *)
LEMMA TargetsInWindow ==
  ASSUME NEW v \in Versions, NEW t \in TargetWeights(v), initVersion \in Versions
  PROVE  t \in TargetRange /\ t # None /\ t <= v + A
BY AsyncConstants DEF Versions, TargetWeights, TargetRange, None

(* A resume drops groups, adds none, and puts the watermark below its step. *)
LEMMA ResumeCleanUp ==
  ASSUME NEW items, NEW l, NEW s \in Versions
  PROVE  LET r == CleanedUp([items |-> items, last |-> l], N, s, A)
         IN  r.items \subseteq items /\ r.last = s - 1
<1> DEFINE b == [items |-> items, last |-> l]
           first == PrepareForStep(b, s)
<1>1. N # None /\ s # None /\ A # None BY AsyncConstants DEF Versions, None
<1>2. first.items \subseteq items /\ first.last = s - 1 BY DEF PrepareForStep
<1> HIDE DEF first
<1>3. RemoveStale(first, A).items \subseteq first.items /\ RemoveStale(first, A).last = first.last
  BY DEF RemoveStale
<1>4. CleanedUp(b, N, s, A) = IF first.items = {} THEN first ELSE RemoveStale(first, A)
  BY <1>1 DEF CleanedUp, first
<1> QED BY <1>2, <1>3, <1>4

LEMMA InitIInv == Init => IInv
<1> SUFFICES ASSUME Init PROVE IInv OBVIOUS
<1> USE AsyncConstants
<1>1. 0 \in Versions /\ NoCounts \in [TargetRange -> Nat] BY DEF Versions, NoCounts
<1>2. mailbox = <<[op |-> "start", v |-> None], [op |-> "set", v |-> 0]>>
  BY DEF Init, BootMail, Msg
<1>3. mailbox \in Seq([op : Calls, v : Versions \cup {None}])
  BY <1>1, <1>2 DEF Calls
<1>4. loop = LoopAt("off") /\ Busy = {} BY DEF Init, Busy
<1>5. IsFiniteSet({}) BY FS_EmptySet
<1>6. TypeOK
  <2>1. /\ loop \in [pc : LoopPCs, gv : Versions \cup {None}, lw : -1 .. MaxSteps,
                     tgt : TargetRange \cup {None}, left : 0 .. N, aborted : BOOLEAN]
    BY <1>4 DEF LoopAt, LoopPCs, None
  <2>2. workers \in [Slots -> [st : WorkerStages, ver : Versions \cup {None},
                               tgt : TargetRange \cup {None}]]
    BY DEF Init, Idle, WorkerStages
  <2>3. /\ tpc = "setup" /\ step = 0 /\ weightVersion = 0 /\ colVersion = 0
        /\ initVersion = 0 /\ genWeights = Unloaded /\ buf = {} /\ last = -1
        /\ arrivals = NoCounts /\ draining = FALSE /\ gates = Gates /\ warned = None
        /\ generating = {} /\ spawning = {} /\ spawned = NoCounts /\ completed = NoCounts
        /\ saved.step = 0 /\ saved.items = {} /\ saved.last = -1
        /\ failures = 0 /\ crashes = 0 /\ inflight = {}
    BY DEF Init
  <2>4. last \in -1 .. MaxSteps /\ saved.last \in -1 .. MaxSteps BY <2>3
  <2> QED BY <1>1, <1>3, <1>5, <2>1, <2>2, <2>3, <2>4 DEF TypeOK, TrainerPCs
<1>7. Bookkeeping
  <2>1. saved.items = {} /\ saved.arrivals = NoCounts BY DEF Init
  <2>2. loop.pc = "off" /\ loop.gv = -1 BY <1>4 DEF LoopAt, None
  <2>3. /\ tpc = "setup" /\ step = 0 /\ weightVersion = 0 /\ colVersion = 0
        /\ genWeights = Unloaded
    BY DEF Init
  <2> QED BY <1>1, <1>4, <1>5, <2>1, <2>2, <2>3 DEF Bookkeeping, Refitted
<1>8. MailboxOrdered BY <1>2 DEF Init, MailboxOrdered
<1>9. WindowKept /\ WatermarkIsProgress
  BY <1>4 DEF Init, WindowKept, WatermarkIsProgress, Taken, LoopAt
<1> QED BY <1>6, <1>7, <1>8, <1>9 DEF IInv

-----------------------------------------------------------------------------
(* The mailbox                                                             *)

Call_ == [op : Calls, v : Versions \cup {None}]

LEMMA MailTyped ==
  ASSUME IInv
  PROVE  /\ weightVersion \in Int /\ colVersion \in Int
         /\ \A i \in 1 .. Len(mailbox) :
              mailbox[i] \in Call_ /\ mailbox[i].v \in Int
<1>1. mailbox \in Seq(Call_) BY DEF IInv, TypeOK, Call_
<1>2. \A i \in 1 .. Len(mailbox) : mailbox[i] \in Call_ BY <1>1
<1>3. \A m \in Call_ : m.v \in Int BY DEF Call_, Versions, None
<1>4. weightVersion \in Int /\ colVersion \in Int BY DEF IInv, TypeOK, Versions
<1> QED BY <1>2, <1>3, <1>4

(* Nothing is sent or served, and the trainer does not stop waiting. *)
LEMMA MailKept ==
  ASSUME IInv, UNCHANGED <<mailbox, colVersion, draining>>,
         weightVersion' \in Versions, weightVersion <= weightVersion',
         tpc' = tpc \/ tpc \notin {"preparing", "dataloaderState"}
  PROVE  MailboxOrdered'
<1>1. weightVersion' \in Int BY DEF Versions
<1>2. \A i \in 1 .. Len(mailbox) : mailbox'[i] = mailbox[i] /\ mailbox[i].v \in Int
  BY MailTyped
<1> QED BY <1>1, <1>2, MailTyped DEF IInv, MailboxOrdered

(* A call is served that the trainer does not wait for, or that it stops    *)
(* waiting for.                                                            *)
LEMMA MailServed ==
  ASSUME IInv, mailbox # <<>>, ~draining, mailbox' = Tail(mailbox),
         weightVersion' = weightVersion,
         \/ colVersion' = colVersion
         \/ mailbox[1].op = "set" /\ colVersion' = mailbox[1].v,
         \/ tpc' = tpc /\ draining' = FALSE
         \/ /\ mailbox[1].op = "prepare_for_refit"
            /\ (tpc' = "refit" /\ ~draining') \/ (tpc' = tpc /\ draining')
         \/ mailbox[1].op = "get_dataloader_state" /\ ~draining'
  PROVE  mailbox' \in Seq(Call_) /\ MailboxOrdered'
<1> USE DEF IInv, Call_
<1>1. mailbox \in Seq(Call_) BY DEF TypeOK
<1>2. /\ 1 \in 1 .. Len(mailbox) /\ mailbox' \in Seq(Call_)
      /\ Len(mailbox') = Len(mailbox) - 1
      /\ \A i \in 1 .. Len(mailbox') :
           i + 1 \in 1 .. Len(mailbox) /\ mailbox'[i] = mailbox[i + 1]
  BY <1>1, TailIndex
<1>3. ASSUME NEW i \in 1 .. Len(mailbox')
      PROVE  /\ mailbox'[i].op = "set"
                  => colVersion' <= mailbox'[i].v /\ mailbox'[i].v <= weightVersion'
             /\ mailbox'[i].op = "prepare_for_refit" => tpc' = "preparing" /\ ~draining'
             /\ mailbox'[i].op = "get_dataloader_state" => tpc' = "dataloaderState"
  <2>1. 1 < i + 1 /\ i + 1 \in 1 .. Len(mailbox) BY <1>2
  <2> QED BY <1>2, <2>1 DEF MailboxOrdered
<1>4. ASSUME NEW i \in 1 .. Len(mailbox'), NEW j \in 1 .. Len(mailbox'), i < j
      PROVE  /\ mailbox'[i].op = "set" /\ mailbox'[j].op = "set"
                  => mailbox'[i].v <= mailbox'[j].v
             /\ mailbox'[i].op = mailbox'[j].op
                  => mailbox'[i].op \notin {"prepare_for_refit", "get_dataloader_state"}
  <2>1. i + 1 < j + 1 BY <1>4
  <2> QED BY <1>2, <2>1 DEF MailboxOrdered
<1>5. draining' => tpc' = "preparing" BY <1>2 DEF MailboxOrdered
<1> QED BY <1>2, <1>3, <1>4, <1>5 DEF MailboxOrdered

(* The trainer sends one call and does not wait for it, or starts to. *)
LEMMA MailSentOne ==
  ASSUME IInv, NEW m \in Call_, mailbox' = mailbox \o <<m>>,
         UNCHANGED <<weightVersion, colVersion, draining>>,
         tpc \notin {"preparing", "dataloaderState"},
         m.op # "set",
         m.op = "prepare_for_refit" => tpc' = "preparing",
         m.op = "get_dataloader_state" => tpc' = "dataloaderState"
  PROVE  mailbox' \in Seq(Call_) /\ MailboxOrdered'
<1> USE DEF IInv, Call_
<1>1. mailbox \in Seq(Call_) BY DEF TypeOK
<1>2. /\ mailbox' \in Seq(Call_) /\ Len(mailbox') = Len(mailbox) + 1
      /\ \A i \in 1 .. Len(mailbox) : mailbox'[i] = mailbox[i]
      /\ mailbox'[Len(mailbox) + 1] = m
  <2>1. <<m>> \in Seq(Call_) /\ Len(<<m>>) = 1 /\ <<m>>[1] = m OBVIOUS
  <2> QED BY <1>1, <2>1, ConcatIndex
<1>3. /\ Len(mailbox) \in Nat
      /\ \A i \in 1 .. Len(mailbox') : i \in 1 .. Len(mailbox) \/ i = Len(mailbox) + 1
  BY <1>1, <1>2
<1>4. \A i \in 1 .. Len(mailbox) :
        mailbox[i].op \notin {"prepare_for_refit", "get_dataloader_state"}
  BY DEF MailboxOrdered
<1>5. ~draining BY DEF MailboxOrdered
<1>6. ASSUME NEW i \in 1 .. Len(mailbox')
      PROVE  /\ mailbox'[i].op = "set"
                  => colVersion' <= mailbox'[i].v /\ mailbox'[i].v <= weightVersion'
             /\ mailbox'[i].op = "prepare_for_refit" => tpc' = "preparing" /\ ~draining'
             /\ mailbox'[i].op = "get_dataloader_state" => tpc' = "dataloaderState"
  BY <1>2, <1>3, <1>4, <1>5 DEF MailboxOrdered
<1>7. ASSUME NEW i \in 1 .. Len(mailbox'), NEW j \in 1 .. Len(mailbox'), i < j
      PROVE  /\ mailbox'[i].op = "set" /\ mailbox'[j].op = "set"
                  => mailbox'[i].v <= mailbox'[j].v
             /\ mailbox'[i].op = mailbox'[j].op
                  => mailbox'[i].op \notin {"prepare_for_refit", "get_dataloader_state"}
  <2>1. i \in 1 .. Len(mailbox) BY <1>2, <1>3, <1>7
  <2> QED BY <1>2, <1>3, <1>4, <1>7, <2>1 DEF MailboxOrdered
<1> QED BY <1>2, <1>5, <1>6, <1>7 DEF MailboxOrdered

(* The trainer announces its next version and reopens the gate. *)
LEMMA MailAnnounced ==
  ASSUME IInv, weightVersion' \in Versions, weightVersion' = weightVersion + 1,
         mailbox' = mailbox \o <<Msg("set", weightVersion'), Msg("resume_after_refit", None)>>,
         UNCHANGED <<colVersion, draining>>,
         tpc \notin {"preparing", "dataloaderState"}
  PROVE  mailbox' \in Seq(Call_) /\ MailboxOrdered'
<1> USE DEF IInv, Call_
<1> DEFINE a == Msg("set", weightVersion')
           r == Msg("resume_after_refit", None)
<1>1. mailbox \in Seq(Call_) BY DEF TypeOK
<1>2. a \in Call_ /\ r \in Call_ /\ a.op = "set" /\ a.v = weightVersion'
      /\ r.op = "resume_after_refit"
  BY DEF Msg, Calls
<1> HIDE DEF a, r
<1>3. mailbox' = mailbox \o <<a, r>> BY DEF a, r
<1>4. /\ mailbox' \in Seq(Call_) /\ Len(mailbox') = Len(mailbox) + 2
      /\ \A i \in 1 .. Len(mailbox) : mailbox'[i] = mailbox[i]
      /\ mailbox'[Len(mailbox) + 1] = a /\ mailbox'[Len(mailbox) + 2] = r
  <2>1. /\ <<a, r>> \in Seq(Call_) /\ Len(<<a, r>>) = 2
        /\ <<a, r>>[1] = a /\ <<a, r>>[2] = r
    BY <1>2
  <2> HIDE DEF Call_
  <2> QED BY <1>1, <1>3, <2>1, ConcatIndex
<1>5. /\ Len(mailbox) \in Nat
      /\ \A i \in 1 .. Len(mailbox') :
           i \in 1 .. Len(mailbox) \/ i = Len(mailbox) + 1 \/ i = Len(mailbox) + 2
  BY <1>1, <1>4
<1>6. \A i \in 1 .. Len(mailbox) :
        /\ mailbox[i].op \notin {"prepare_for_refit", "get_dataloader_state"}
        /\ mailbox[i].op = "set" => colVersion <= mailbox[i].v
                                    /\ mailbox[i].v <= weightVersion /\ mailbox[i].v \in Int
  BY MailTyped DEF MailboxOrdered
<1>7. ~draining /\ colVersion <= weightVersion /\ colVersion \in Int /\ weightVersion \in Int
  BY DEF MailboxOrdered, Bookkeeping, TypeOK, Versions
<1>8. ASSUME NEW i \in 1 .. Len(mailbox')
      PROVE  /\ mailbox'[i].op = "set"
                  => colVersion' <= mailbox'[i].v /\ mailbox'[i].v <= weightVersion'
             /\ mailbox'[i].op \notin {"prepare_for_refit", "get_dataloader_state"}
  <2>1. /\ colVersion' = colVersion /\ weightVersion' \in Int
        /\ weightVersion <= weightVersion' /\ colVersion <= weightVersion'
    BY <1>7
  <2> HIDE DEF IInv, Call_
  <2>2. CASE i \in 1 .. Len(mailbox)
    <3>1. mailbox'[i] = mailbox[i] BY <1>4, <2>2
    <3>2. mailbox[i].op \notin {"prepare_for_refit", "get_dataloader_state"} BY <1>6, <2>2
    <3>3. ASSUME mailbox[i].op = "set"
          PROVE  colVersion <= mailbox[i].v /\ mailbox[i].v <= weightVersion'
      <4>1. mailbox[i].v \in Int /\ colVersion <= mailbox[i].v /\ mailbox[i].v <= weightVersion
        BY <1>6, <2>2, <3>3
      <4> QED BY <1>7, <2>1, <4>1
    <3> QED BY <2>1, <3>1, <3>2, <3>3
  <2>3. CASE i = Len(mailbox) + 1 BY <1>2, <1>4, <2>1, <2>3
  <2>4. CASE i = Len(mailbox) + 2 BY <1>2, <1>4, <2>4
  <2> QED BY <1>5, <2>2, <2>3, <2>4
<1>9. ASSUME NEW i \in 1 .. Len(mailbox'), NEW j \in 1 .. Len(mailbox'), i < j,
             mailbox'[i].op = "set", mailbox'[j].op = "set"
      PROVE  mailbox'[i].v <= mailbox'[j].v
  <2>1. CASE j \in 1 .. Len(mailbox)
    <3>1. i \in 1 .. Len(mailbox) BY <1>9, <2>1
    <3> QED BY <1>4, <1>9, <2>1, <3>1 DEF MailboxOrdered
  <2>2. CASE j = Len(mailbox) + 1
    <3>1. i \in 1 .. Len(mailbox) BY <1>5, <1>9, <2>2
    <3> QED BY <1>2, <1>4, <1>6, <1>7, <1>9, <2>2, <3>1
  <2>3. CASE j = Len(mailbox) + 2 BY <1>2, <1>4, <1>9, <2>3
  <2> QED BY <1>5, <2>1, <2>2, <2>3
<1>10. ~draining' BY <1>7
<1> HIDE DEF IInv, Call_
<1>11. \A i \in 1 .. Len(mailbox') :
         /\ mailbox'[i].op = "set"
              => colVersion' <= mailbox'[i].v /\ mailbox'[i].v <= weightVersion'
         /\ mailbox'[i].op = "prepare_for_refit" => tpc' = "preparing" /\ ~draining'
         /\ mailbox'[i].op = "get_dataloader_state" => tpc' = "dataloaderState"
  BY <1>8
<1>12. \A i, j \in 1 .. Len(mailbox') : i < j =>
         /\ mailbox'[i].op = "set" /\ mailbox'[j].op = "set"
              => mailbox'[i].v <= mailbox'[j].v
         /\ mailbox'[i].op = mailbox'[j].op
              => mailbox'[i].op \notin {"prepare_for_refit", "get_dataloader_state"}
  BY <1>8, <1>9
<1> QED BY <1>4, <1>10, <1>11, <1>12 DEF MailboxOrdered

-----------------------------------------------------------------------------
(* The trainer                                                             *)

(* What the steps of the trainer have in common *)
theThreads == <<draining, colVersion, initVersion, gates, threadVars, budgetVars>>

(* A step of the trainer that touches neither buffer nor checkpoint *)
LEMMA TrainerFrame ==
  ASSUME IInv, UNCHANGED <<theThreads, bufferVars, saved>>,
         tpc' \in TrainerPCs, step' \in Versions, weightVersion' \in Versions,
         genWeights' \in Versions \cup {Unloaded},
         weightVersion <= weightVersion',
         tpc' # "done" => step' < MaxSteps,
         weightVersion' = IF tpc' \in Refitted THEN step' + 1 ELSE step',
         genWeights' = IF tpc' = "setup" THEN Unloaded ELSE weightVersion',
         mailbox' \in Seq(Call_), MailboxOrdered', WatermarkIsProgress'
  PROVE  IInv'
<1> USE DEF IInv
<1>1. TypeOK'
  BY DEF TypeOK, Call_, theThreads, bufferVars, threadVars, workerVars, counterVars, budgetVars
<1>2. colVersion' <= weightVersion'
  <2>1. colVersion' = colVersion /\ weightVersion' \in Int BY DEF theThreads, Versions
  <2>2. colVersion <= weightVersion BY DEF Bookkeeping
  <2> QED BY <2>1, <2>2, MailTyped
<1>3. Bookkeeping' /\ WindowKept'
  BY <1>2 DEF Bookkeeping, WindowKept, Busy, theThreads, bufferVars, threadVars, workerVars
<1> QED BY <1>1, <1>3

(* Steps of the trainer that only send, or only go on *)
LEMMA TrainerGoesOn ==
  ASSUME IInv,
         InitialRefit \/ BeginValidation \/ EndValidation \/ SkipValidation \/ BufferFilled
           \/ Train \/ BeginCheckpoint
  PROVE  IInv'
<1> USE DEF IInv
<1>1. /\ UNCHANGED <<theThreads, bufferVars, saved, step, weightVersion>>
      /\ tpc' \in TrainerPCs \ {"setup", "done"}
      /\ tpc \notin {"done", "preparing", "dataloaderState"}
      /\ tpc \in Refitted <=> tpc' \in Refitted
      /\ Taken <=> Taken'
      /\ genWeights' = IF tpc = "setup" THEN step ELSE genWeights
  BY DEF InitialRefit, BeginValidation, EndValidation, SkipValidation, BufferFilled, Train,
         BeginCheckpoint, theThreads, bufferVars, threadVars, workerVars, counterVars, budgetVars, actorVars,
         TrainerPCs, Refitted, Taken
<1>2. mailbox' \in Seq(Call_) /\ MailboxOrdered'
  <2>1. CASE UNCHANGED mailbox
    <3>1. mailbox' \in Seq(Call_) BY <2>1 DEF TypeOK, Call_
    <3>2. weightVersion' \in Versions /\ weightVersion <= weightVersion'
      BY <1>1 DEF TypeOK, Versions
    <3>3. MailboxOrdered' BY <1>1, <2>1, <3>2, MailKept DEF theThreads
    <3> QED BY <3>1, <3>3
  <2>2. ASSUME NEW op \in Calls \ {"set"}, mailbox' = mailbox \o <<Msg(op, None)>>,
               op = "prepare_for_refit" => tpc' = "preparing",
               op = "get_dataloader_state" => tpc' = "dataloaderState"
        PROVE  mailbox' \in Seq(Call_) /\ MailboxOrdered'
    <3>1. Msg(op, None) \in Call_ /\ Msg(op, None).op = op BY DEF Msg, Call_
    <3> QED BY <1>1, <2>2, <3>1, MailSentOne DEF theThreads
  <2>3. \/ UNCHANGED mailbox
        \/ mailbox' = mailbox \o <<Msg("pause", None)>>
        \/ mailbox' = mailbox \o <<Msg("resume", None)>>
        \/ mailbox' = mailbox \o <<Msg("prepare_for_refit", None)>> /\ tpc' = "preparing"
        \/ mailbox' = mailbox \o <<Msg("get_dataloader_state", None)>> /\ tpc' = "dataloaderState"
    BY DEF InitialRefit, BeginValidation, EndValidation, SkipValidation, BufferFilled, Train,
           BeginCheckpoint, Send, actorVars
  <2>4. {"pause", "resume", "prepare_for_refit", "get_dataloader_state"} \subseteq Calls \ {"set"}
    BY DEF Calls
  <2> QED BY <2>1, <2>2, <2>3, <2>4
<1>3. tpc' # "done" => step' < MaxSteps BY <1>1 DEF Bookkeeping
<1>4. weightVersion' = IF tpc' \in Refitted THEN step' + 1 ELSE step' BY <1>1 DEF Bookkeeping
<1>5. genWeights' = weightVersion' /\ tpc' # "setup" BY <1>1 DEF Bookkeeping, Refitted
<1>6. WatermarkIsProgress' BY <1>1 DEF WatermarkIsProgress, bufferVars
<1>7. step' \in Versions /\ weightVersion' \in Versions /\ weightVersion <= weightVersion'
  BY <1>1 DEF TypeOK, Versions
<1> QED BY <1>1, <1>2, <1>3, <1>4, <1>5, <1>6, <1>7, TrainerFrame

LEMMA RefitKeeps == ASSUME IInv, Refit PROVE IInv'
<1> USE DEF IInv
<1>1. /\ UNCHANGED <<theThreads, bufferVars, saved, step>>
      /\ tpc = "refit" /\ tpc' = "trained"
      /\ weightVersion' = weightVersion + 1 /\ genWeights' = weightVersion'
      /\ mailbox' = mailbox \o <<Msg("set", weightVersion'), Msg("resume_after_refit", None)>>
  BY DEF Refit, Send, theThreads, bufferVars, threadVars, workerVars, counterVars, budgetVars
<1>2. step < MaxSteps /\ weightVersion = step /\ step \in Nat
  BY <1>1 DEF Bookkeeping, Refitted, TypeOK, Versions
<1>3. weightVersion' \in Versions /\ step' \in Versions /\ weightVersion <= weightVersion'
  BY <1>1, <1>2, AsyncConstants DEF Versions
<1>4. mailbox' \in Seq(Call_) /\ MailboxOrdered' BY <1>1, <1>3, MailAnnounced DEF theThreads
<1>5. WatermarkIsProgress' BY <1>1 DEF WatermarkIsProgress, Taken, bufferVars
<1>6. tpc' \in TrainerPCs /\ tpc' \in Refitted /\ tpc' \notin {"setup", "done"}
  BY <1>1 DEF TrainerPCs, Refitted
<1> QED BY <1>1, <1>2, <1>3, <1>4, <1>5, <1>6, TrainerFrame

LEMMA NextStepKeeps == ASSUME IInv, NextStep PROVE IInv'
<1> USE DEF IInv
<1>1. /\ UNCHANGED <<theThreads, bufferVars, saved, mailbox, weightVersion, genWeights>>
      /\ tpc \in {"advance", "save"} /\ step' = step + 1
      /\ tpc' = IF step' < MaxSteps THEN "sample" ELSE "done"
  BY DEF NextStep, theThreads, bufferVars, threadVars, workerVars, counterVars, budgetVars, actorVars
<1>2. step < MaxSteps /\ weightVersion = step + 1 /\ step \in Nat /\ genWeights = weightVersion
  BY <1>1 DEF Bookkeeping, Refitted, TypeOK, Versions
<1>3. /\ weightVersion' \in Versions /\ step' \in Versions /\ weightVersion <= weightVersion'
      /\ genWeights' \in Versions \cup {Unloaded} /\ mailbox' \in Seq(Call_)
  BY <1>1, <1>2, AsyncConstants DEF Versions, TypeOK, Call_
<1>4. MailboxOrdered' BY <1>1, <1>3, MailKept DEF theThreads
<1>5. WatermarkIsProgress' BY <1>1, <1>2 DEF WatermarkIsProgress, Taken, bufferVars
<1>6. /\ tpc' \in TrainerPCs \ {"setup"} /\ tpc' \notin Refitted
      /\ tpc' # "done" => step' < MaxSteps
  BY <1>1 DEF TrainerPCs, Refitted
<1> QED BY <1>1, <1>2, <1>3, <1>4, <1>5, <1>6, TrainerFrame

LEMMA SampleKeeps == ASSUME IInv, Sample PROVE IInv'
<1> USE DEF IInv
<1>1. /\ UNCHANGED <<theThreads, saved, mailbox, step, weightVersion, genWeights, arrivals>>
      /\ tpc = "sample" /\ buf' \subseteq buf
      /\ \/ /\ tpc' = "train"
            /\ last' = IF last < weightVersion THEN weightVersion ELSE last
         \/ tpc' = "sample" /\ last' = last
  BY DEF Sample, AfterEviction, theThreads, threadVars, workerVars, counterVars, budgetVars, actorVars
<1>2. IsFiniteSet(buf') BY <1>1, FS_Subset DEF TypeOK
<1>3. weightVersion = step /\ step \in Versions /\ last = step - 1
  BY <1>1 DEF Bookkeeping, Refitted, TypeOK, WatermarkIsProgress, Taken
<1>4. last' \in -1 .. MaxSteps /\ WatermarkIsProgress'
  <2>1. step \in Int /\ 0 <= step /\ step <= MaxSteps /\ MaxSteps \in Int
    BY <1>3, AsyncConstants DEF Versions
  <2>2. last' \in {step - 1, step} BY <1>1, <1>3
  <2>3. last' = IF tpc' = "train" THEN step ELSE step - 1 BY <1>1, <1>3, <2>1
  <2> QED BY <1>1, <2>1, <2>2, <2>3 DEF WatermarkIsProgress, Taken
<1>5. TypeOK'
  BY <1>1, <1>2, <1>4
     DEF TypeOK, theThreads, threadVars, workerVars, counterVars, budgetVars, TrainerPCs
<1>6. Bookkeeping'
  BY <1>1 DEF Bookkeeping, Refitted, Busy, theThreads, threadVars, workerVars
<1>7. MailboxOrdered' BY <1>1, <1>3, MailKept DEF theThreads, Versions
<1>8. WindowKept' BY <1>1 DEF WindowKept, Busy, theThreads, threadVars, workerVars
<1> QED BY <1>4, <1>5, <1>6, <1>7, <1>8

LEMMA CheckpointKeeps == ASSUME IInv, FinishCheckpoint PROVE IInv'
<1> USE DEF IInv
<1>1. /\ UNCHANGED <<theThreads, bufferVars, mailbox, step, weightVersion, genWeights>>
      /\ tpc = "snapshot" /\ tpc' = "advance"
      /\ saved'.step = step + 1 /\ saved'.items = buf /\ saved'.last = last
      /\ saved'.arrivals = arrivals
  BY DEF FinishCheckpoint, theThreads, bufferVars, threadVars, workerVars, counterVars, budgetVars, actorVars
<1>2. step < MaxSteps /\ step \in Nat BY <1>1 DEF Bookkeeping, TypeOK, Versions
<1>3. saved'.step \in Versions BY <1>1, <1>2, AsyncConstants DEF Versions
<1>4. TypeOK'
  BY <1>1, <1>3
     DEF TypeOK, theThreads, bufferVars, threadVars, workerVars, counterVars, budgetVars, TrainerPCs
<1>5. Bookkeeping'
  BY <1>1 DEF Bookkeeping, TypeOK, Refitted, Busy, theThreads, bufferVars, threadVars, workerVars
<1>6. MailboxOrdered'
  <2>1. UNCHANGED <<mailbox, colVersion, draining, weightVersion>> BY <1>1 DEF theThreads
  <2>2. weightVersion \in Versions BY DEF TypeOK
  <2>3. weightVersion' \in Versions /\ weightVersion <= weightVersion'
    BY <2>1, <2>2 DEF Versions
  <2> QED BY <1>1, <2>1, <2>3, MailKept
<1>7. WindowKept' /\ WatermarkIsProgress'
  BY <1>1 DEF WindowKept, WatermarkIsProgress, Taken, Busy, theThreads, bufferVars, threadVars, workerVars
<1> QED BY <1>4, <1>5, <1>6, <1>7

-----------------------------------------------------------------------------
(* The collector actor                                                     *)

LoopType ==
  [pc : LoopPCs, gv : Versions \cup {None}, lw : -1 .. MaxSteps,
   tgt : TargetRange \cup {None}, left : 0 .. N, aborted : BOOLEAN]

(* The thread starts over with the next batch. *)
LEMMA LoopRestarts ==
  ASSUME NEW pc \in LoopPCs
  PROVE  /\ LoopAt(pc) \in LoopType /\ LoopAt(pc).pc = pc /\ LoopAt(pc).gv = None
         /\ LoopAt(pc).tgt = None /\ LoopAt(pc).left = 0
BY AsyncConstants DEF LoopAt, LoopType, None

LEMMA ActorKeeps == ASSUME IInv, Actor PROVE IInv'
<1> USE DEF IInv
<1>1. /\ UNCHANGED <<step, weightVersion, genWeights, bufferVars, initVersion, saved>>
      /\ UNCHANGED <<warned, generating, counterVars, workers, budgetVars>>
      /\ gates' \subseteq Gates
  BY DEF Actor, StartCollection, SetWeightVersion, PrepareForRefit,
         WaitForPendingGenerations, OpenOrCloseGate, GetDataloaderState, trainerVars, threadVars,
         workerVars, TypeOK, Gates
<1>2. CASE WaitForPendingGenerations
  <2>1. /\ UNCHANGED <<mailbox, colVersion, loop>> /\ draining /\ draining' \in BOOLEAN
        /\ UNCHANGED <<tpc, draining>> \/ (tpc' = "refit" /\ ~draining')
        /\ inflight' \subseteq Slots
    BY <1>2 DEF WaitForPendingGenerations, TypeOK
  <2>2. tpc = "preparing" BY <2>1 DEF MailboxOrdered
  <2>3. \A i \in 1 .. Len(mailbox) :
          mailbox[i].op \notin {"prepare_for_refit", "get_dataloader_state"}
    BY <2>1, <2>2 DEF MailboxOrdered
  <2>4. MailboxOrdered' BY <1>1, <2>1, <2>3 DEF MailboxOrdered
  <2>5. TypeOK' BY <1>1, <2>1 DEF TypeOK, TrainerPCs, bufferVars, counterVars, budgetVars
  <2>6. Bookkeeping' BY <1>1, <2>1, <2>2 DEF Bookkeeping, Refitted, Busy
  <2>7. WindowKept' /\ WatermarkIsProgress'
    BY <1>1, <2>1, <2>2 DEF WindowKept, WatermarkIsProgress, Taken, Busy, bufferVars
  <2> QED BY <2>4, <2>5, <2>6, <2>7
<1>3. CASE ~WaitForPendingGenerations
  <2> DEFINE op == mailbox[1].op
  <2>1. mailbox \in Seq(Call_) BY DEF TypeOK, Call_
  <2>2. mailbox # <<>> /\ mailbox' = Tail(mailbox) /\ ~draining /\ op = Head(mailbox).op
        /\ Head(mailbox) = mailbox[1] /\ 1 \in 1 .. Len(mailbox)
    BY <1>3, <2>1, TailIndex
       DEF Actor, StartCollection, SetWeightVersion, PrepareForRefit, OpenOrCloseGate,
           GetDataloaderState, Call
  <2>3. /\ \/ colVersion' = colVersion
           \/ op = "set" /\ colVersion' = mailbox[1].v
        /\ \/ tpc' = tpc /\ draining' = FALSE
           \/ op = "prepare_for_refit" /\ tpc' = "refit" /\ draining' = FALSE
           \/ op = "prepare_for_refit" /\ tpc' = tpc /\ draining' = TRUE
           \/ op = "get_dataloader_state" /\ tpc' = "snapshot" /\ draining' = FALSE
        /\ loop' = loop \/ loop' = LoopAt("batch")
    BY <1>3, <2>2
       DEF Actor, StartCollection, SetWeightVersion, PrepareForRefit, OpenOrCloseGate,
           GetDataloaderState, Call, trainerVars, threadVars, TypeOK
  <2>4. mailbox' \in Seq(Call_) /\ MailboxOrdered' BY <1>1, <2>2, <2>3, MailServed
  <2>5. /\ op = "prepare_for_refit" => tpc = "preparing"
        /\ op = "get_dataloader_state" => tpc = "dataloaderState"
        /\ op = "set" => colVersion <= mailbox[1].v /\ mailbox[1].v <= weightVersion
    BY <2>2 DEF MailboxOrdered
  <2>6. colVersion <= colVersion' /\ colVersion' <= weightVersion /\ colVersion' \in Versions
    <3>1. mailbox[1].v \in Int /\ colVersion \in Int /\ weightVersion \in Int BY <2>2, MailTyped
    <3>2. 0 <= colVersion /\ colVersion <= weightVersion /\ weightVersion <= MaxSteps
      BY DEF Bookkeeping, TypeOK, Versions
    <3>3. MaxSteps \in Int BY AsyncConstants
    <3> HIDE DEF IInv, op
    <3>4. colVersion' = colVersion \/ (colVersion <= mailbox[1].v /\ mailbox[1].v <= weightVersion
                                       /\ colVersion' = mailbox[1].v)
      BY <2>3, <2>5
    <3>5. colVersion' \in Int /\ colVersion <= colVersion' /\ colVersion' <= weightVersion
      BY <3>1, <3>2, <3>4
    <3> QED BY <3>1, <3>2, <3>3, <3>5 DEF Versions
  <2>7. loop' \in LoopType
    <3>1. loop \in LoopType BY DEF TypeOK, LoopType
    <3>2. LoopAt("batch") \in LoopType BY LoopRestarts DEF LoopPCs
    <3> HIDE DEF IInv
    <3> QED BY <2>3, <3>1, <3>2
  <2>14. UNCHANGED inflight
    BY <1>3 DEF Actor, StartCollection, SetWeightVersion, PrepareForRefit, OpenOrCloseGate,
         GetDataloaderState, threadVars, workerVars
  <2>8. TypeOK'
    BY <1>1, <2>3, <2>4, <2>6, <2>7, <2>14
       DEF TypeOK, LoopType, TrainerPCs, Call_, bufferVars, counterVars, budgetVars
  <2>9. loop'.gv <= colVersion'
    <3>1. loop.gv <= colVersion /\ colVersion \in Int /\ loop.gv \in Int
      BY DEF Bookkeeping, TypeOK, Versions, None
    <3>2. None <= colVersion /\ LoopAt("batch").gv = None
      BY DEF TypeOK, LoopAt, Versions, None
    <3>3. None \in Int /\ colVersion' \in Int BY <2>6 DEF None, Versions
    <3> HIDE DEF IInv
    <3> QED BY <2>3, <2>6, <3>1, <3>2, <3>3
  <2>10. (loop' = loop) \/ (loop'.pc = "batch" /\ loop'.tgt = None) BY <2>3 DEF LoopAt
  <2>11. Bookkeeping'
    BY <1>1, <2>3, <2>5, <2>6, <2>9, <2>10 DEF Bookkeeping, Refitted, Busy
  <2>12. WindowKept' BY <1>1, <2>10 DEF WindowKept, Busy, bufferVars
  <2>13. WatermarkIsProgress' BY <1>1, <2>3, <2>5 DEF WatermarkIsProgress, Taken, bufferVars
  <2> QED BY <2>4, <2>8, <2>11, <2>12, <2>13
<1> QED BY <1>2, <1>3

-----------------------------------------------------------------------------
(* The collection thread                                                   *)

Picking == {"limitLast", "limitScan", "targetLast", "reserve"}
Spawning == {"spawnGate", "spawnBlocked", "spawn", "start"}
Holding == {"open"} \cup Spawning \cup {"close", "release", "discard"}

(* The invariant's parts about the thread's locals and about the workers *)
LoopOK(l) ==
  /\ l \in LoopType /\ l.gv <= colVersion
  /\ l.tgt # None => l.tgt <= l.gv + A
  /\ l.pc \in Picking => l.gv # None
  /\ l.pc \in Holding => l.gv # None /\ l.tgt # None
  /\ l.pc \in Spawning => l.left > 0

WorkersOK(ws) ==
  /\ ws \in [Slots -> [st : WorkerStages, ver : Versions \cup {None},
                       tgt : TargetRange \cup {None}]]
  /\ \A s \in Slots : ws[s] # Idle =>
       ws[s].ver # None /\ ws[s].tgt # None /\ ws[s].tgt <= ws[s].ver + A

LEMMA PartsOK == ASSUME IInv PROVE LoopOK(loop) /\ WorkersOK(workers)
<1>1. LoopOK(loop)
  BY DEF IInv, TypeOK, Bookkeeping, WindowKept, LoopOK, LoopType, Picking, Holding, Spawning
<1>2. WorkersOK(workers)
  BY DEF IInv, TypeOK, Bookkeeping, WindowKept, WorkersOK, Busy
<1> QED BY <1>1, <1>2

(* A step of the thread keeps everybody else's part of the invariant. *)
LEMMA LoopFrame ==
  ASSUME IInv, UNCHANGED outside, LoopOK(loop'),
         gates' \subseteq Gates, warned' \in Versions \cup {None},
         generating' \subseteq TargetRange, spawning' \subseteq TargetRange,
         spawned' \in [TargetRange -> Nat], completed' \in [TargetRange -> Nat],
         failures' \in Nat, crashes' = crashes, WorkersOK(workers'), inflight' \subseteq Slots
  PROVE  IInv'
<1> USE DEF IInv
<1>1. UNCHANGED <<tpc, step, weightVersion, genWeights, buf, last, arrivals, mailbox, draining,
                  colVersion, initVersion, saved>>
  BY DEF outside, trainerVars, bufferVars, actorVars
<1>2. TypeOK' BY <1>1 DEF TypeOK, LoopType, LoopOK, WorkersOK
<1>3. Bookkeeping' BY <1>1 DEF Bookkeeping, Busy, LoopOK, WorkersOK, Picking, Holding, Spawning
<1>4. MailboxOrdered' BY <1>1 DEF MailboxOrdered
<1>5. WindowKept' /\ WatermarkIsProgress'
  BY <1>1 DEF WindowKept, WatermarkIsProgress, Taken, Busy, LoopOK, WorkersOK
<1> QED BY <1>2, <1>3, <1>4, <1>5

LEMMA LoopAlone ==
  ASSUME IInv, UNCHANGED allButLoop, LoopOK(loop')
  PROVE  IInv'
<1>1. WorkersOK(workers) BY PartsOK
<1>2. UNCHANGED <<outside, gates, warned, generating, spawning, spawned, completed, workers,
                  inflight, failures, crashes>>
  BY DEF allButLoop, counterVars, workerVars, budgetVars
<1>3. /\ gates \subseteq Gates /\ warned \in Versions \cup {None}
      /\ generating \subseteq TargetRange /\ spawning \subseteq TargetRange
      /\ spawned \in [TargetRange -> Nat] /\ completed \in [TargetRange -> Nat]
      /\ failures \in Nat /\ inflight \subseteq Slots
  BY DEF IInv, TypeOK
<1> QED BY <1>1, <1>2, <1>3, LoopFrame

LEMMA LoopRestartsOK ==
  ASSUME IInv, NEW pc \in LoopPCs \ (Picking \cup Holding)
  PROVE  LoopOK(LoopAt(pc))
<1>1. None <= colVersion BY DEF IInv, TypeOK, Versions, None
<1> QED BY <1>1, LoopRestarts DEF LoopOK, Spawning, Holding

(* The steps of the thread that write nothing but its locals *)
LEMMA LoopLocalKeeps ==
  ASSUME IInv, UNCHANGED allButLoop,
         FetchBatch \/ DataloaderExhausted \/ PassRefitGate \/ ReadVersion \/ ReadWatermark
           \/ LimitScan \/ PassLimitGate \/ SpawnGate
  PROVE  IInv'
<1> SUFFICES LoopOK(loop') BY LoopAlone
<1>1. LoopOK(loop) BY PartsOK
<1>2. colVersion \in Versions /\ last \in -1 .. MaxSteps /\ None \notin Versions
      /\ (\A v \in Versions : v <= v)
  BY DEF IInv, TypeOK, Versions, None
<1>6. CASE ReadVersion
  <2>1. loop.tgt = None \/ loop.tgt <= colVersion + A
    BY <1>1, <1>2, AsyncConstants DEF LoopOK, LoopType, Versions, TargetRange, None
  <2>2. loop \in LoopType BY <1>1 DEF LoopOK
  <2>3. loop' \in LoopType /\ loop'.pc \in {"limitLast", "targetLast"}
        /\ loop'.gv = colVersion /\ loop'.tgt = loop.tgt
    BY <1>2, <1>6, <2>2 DEF ReadVersion, LoopType, LoopPCs
  <2> QED BY <1>2, <2>1, <2>3 DEF LoopOK, Picking, Holding, Spawning
<1>7. CASE ReadWatermark
  <2>1. loop \in LoopType BY <1>1 DEF LoopOK
  <2>2. /\ loop' \in LoopType /\ UNCHANGED <<loop.gv, loop.tgt>>
        /\ \/ loop.pc = "limitLast" /\ loop'.pc = "limitScan"
           \/ loop.pc = "targetLast" /\ loop'.pc = "reserve"
    BY <1>2, <1>7, <2>1 DEF ReadWatermark, At, LoopType, LoopPCs
  <2>3. UNCHANGED colVersion BY DEF allButLoop, outside, actorVars
  <2> QED BY <1>1, <2>2, <2>3 DEF LoopOK, Picking, Holding, Spawning
<1> USE DEF LoopOK, LoopType, LoopPCs, Picking, Holding, Spawning, At, GoTo
<1>3. CASE FetchBatch BY <1>1, <1>3 DEF FetchBatch
<1>4. CASE DataloaderExhausted BY <1>1, <1>4 DEF DataloaderExhausted
<1>5. CASE PassRefitGate BY <1>1, <1>5 DEF PassRefitGate
<1>8. CASE LimitScan
  <2>1. loop' = LoopAt("version") \/ loop' = LoopAt("limitReached") BY <1>8 DEF LimitScan
  <2> QED BY <2>1, LoopRestartsOK
<1>9. CASE PassLimitGate BY <1>1, <1>9 DEF PassLimitGate
<1>10. CASE SpawnGate
  <2>1. loop.tgt <= colVersion + A
    BY <1>1, <1>2, <1>10, AsyncConstants DEF SpawnGate, Versions, TargetRange, None
  <2> QED BY <1>1, <1>2, <1>10, <2>1 DEF SpawnGate
<1> QED BY <1>3, <1>4, <1>5, <1>6, <1>7, <1>8, <1>9, <1>10

(* The steps that choose, reserve and open a target *)
LEMMA LoopTargetKeeps ==
  ASSUME IInv, LimitReached \/ ReserveTarget \/ OpenSpawning
  PROVE  IInv'
<1>1. LoopOK(loop) /\ WorkersOK(workers) BY PartsOK
<1>2. /\ colVersion \in Versions /\ initVersion \in Versions /\ IsFiniteSet(buf)
      /\ gates \subseteq Gates /\ warned \in Versions \cup {None}
      /\ generating \subseteq TargetRange /\ spawning \subseteq TargetRange
      /\ spawned \in [TargetRange -> Nat] /\ completed \in [TargetRange -> Nat]
      /\ failures \in Nat /\ inflight \subseteq Slots
  BY DEF IInv, TypeOK
<1>3. LoopOK(LoopAt("batch")) BY LoopRestartsOK DEF LoopPCs, Picking, Holding, Spawning
<1>4. CASE LimitReached
  <2>1. /\ UNCHANGED <<outside, generating, spawning, spawned, completed, workers, inflight,
                       failures, crashes>>
        /\ loop' = [loop EXCEPT !.pc = "limitWait"]
        /\ gates' \subseteq Gates /\ warned' \in Versions \cup {None}
    BY <1>2, <1>4 DEF LimitReached, GoTo, counterVars, workerVars, budgetVars
  <2>2. LoopOK(loop')
    BY <1>1, <2>1 DEF LoopOK, LoopType, LoopPCs, Picking, Holding, Spawning
  <2> QED BY <1>1, <1>2, <2>1, <2>2, LoopFrame
<1>5. CASE ReserveTarget
  <2>1. UNCHANGED <<outside, gates, warned, spawning, spawned, completed, workers, inflight,
                    failures, crashes>>
    BY <1>5 DEF ReserveTarget, counterVars, workerVars, budgetVars
  <2>2. CASE loop' = LoopAt("batch") /\ generating' = generating
    BY <1>1, <1>2, <1>3, <2>1, <2>2, LoopFrame
  <2>3. CASE \E t \in TargetWeights(loop.gv) :
               /\ generating' = generating \cup {t}
               /\ loop' = [loop EXCEPT !.pc = "open", !.tgt = t, !.lw = None]
               /\ loop.pc = "reserve"
    <3>1. PICK t \in TargetWeights(loop.gv) :
               /\ generating' = generating \cup {t}
               /\ loop' = [loop EXCEPT !.pc = "open", !.tgt = t, !.lw = None]
               /\ loop.pc = "reserve"
      BY <2>3
    <3>2. loop.gv \in Versions BY <1>1, <3>1 DEF LoopOK, LoopType, Picking
    <3>3. t \in TargetRange /\ t # None /\ t <= loop.gv + A BY <1>2, <3>2, TargetsInWindow
    <3>4. None \in -1 .. MaxSteps BY AsyncConstants DEF None
    <3>5. LoopOK(loop')
      BY <1>1, <3>1, <3>2, <3>3, <3>4
         DEF LoopOK, LoopType, LoopPCs, Picking, Holding, Spawning
    <3>6. generating' \subseteq TargetRange BY <1>2, <3>1, <3>3
    <3> QED BY <1>1, <1>2, <2>1, <3>5, <3>6, LoopFrame
  <2> QED BY <1>5, <2>2, <2>3 DEF ReserveTarget, At
<1>6. CASE OpenSpawning
  <2> DEFINE need == TrajectoriesNeeded(buf, loop.tgt, N, A)
  <2>1. /\ UNCHANGED <<outside, gates, warned, spawned, completed, workers, inflight,
                     failures, crashes>>
        /\ loop.pc = "open"
        /\ \/ /\ loop' = LoopAt("batch") /\ generating' = generating \ {loop.tgt}
              /\ spawning' = spawning
           \/ /\ need # 0 /\ spawning' = spawning \cup {loop.tgt} /\ generating' = generating
              /\ loop' = [loop EXCEPT !.pc = "spawnGate", !.left = need]
    BY <1>6 DEF OpenSpawning, At, counterVars, workerVars, budgetVars
  <2>2. need \in 0 .. N BY <1>2, NeededBound
  <2> HIDE DEF need
  <2>3. loop.tgt \in TargetRange BY <1>1, <2>1 DEF LoopOK, LoopType, Holding
  <2>4. LoopOK(loop')
    <3>1. CASE need # 0 /\ loop' = [loop EXCEPT !.pc = "spawnGate", !.left = need]
      <4>1. need > 0 BY <2>2, <3>1, AsyncConstants
      <4> QED BY <1>1, <2>1, <2>2, <3>1, <4>1
            DEF LoopOK, LoopType, LoopPCs, Picking, Holding, Spawning
    <3> QED BY <1>3, <2>1, <3>1
  <2>5. generating' \subseteq TargetRange /\ spawning' \subseteq TargetRange
    BY <1>2, <2>1, <2>3
  <2> QED BY <1>1, <1>2, <2>1, <2>4, <2>5, LoopFrame
<1> QED BY <1>4, <1>5, <1>6

(* The steps that start the workers of a target and let it go *)
LEMMA LoopSpawnKeeps ==
  ASSUME IInv, RegisterWorker \/ StartWorker \/ StartFails \/ CloseSpawning
           \/ LoopRelease \/ LoopDiscard
  PROVE  IInv'
<1>1. LoopOK(loop) /\ WorkersOK(workers) BY PartsOK
<1>2. /\ gates \subseteq Gates /\ warned \in Versions \cup {None}
      /\ generating \subseteq TargetRange /\ spawning \subseteq TargetRange
      /\ spawned \in [TargetRange -> Nat] /\ completed \in [TargetRange -> Nat]
      /\ failures \in Nat /\ inflight \subseteq Slots
  BY DEF IInv, TypeOK
<1>3. LoopOK(LoopAt("batch")) BY LoopRestartsOK DEF LoopPCs, Picking, Holding, Spawning
<1>4. loop.pc \in Holding => /\ loop.gv \in Versions /\ loop.tgt \in TargetRange
                             /\ loop.tgt <= loop.gv + A
  BY <1>1 DEF LoopOK, LoopType, Holding
<1> USE DEF At, GoTo
<1>5. CASE RegisterWorker
  <2>1. /\ UNCHANGED <<outside, gates, warned, generating, spawning, completed, failures, crashes>>
        /\ loop.pc = "spawn"
        /\ spawned' = [spawned EXCEPT ![loop.tgt] = @ + 1]
        /\ loop' = [loop EXCEPT !.pc = "start"]
    BY <1>5 DEF RegisterWorker, counterVars, budgetVars
  <2>2. PICK s \in Slots :
          /\ workers' = [workers EXCEPT ![s] =
                            [st |-> "registered", ver |-> loop.gv, tgt |-> loop.tgt]]
          /\ inflight' = inflight \cup {s}
    BY <1>5 DEF RegisterWorker
  <2>3. LoopOK(loop')
    BY <1>1, <2>1 DEF LoopOK, LoopType, LoopPCs, Picking, Holding, Spawning
  <2>4. WorkersOK(workers')
    BY <1>1, <1>4, <2>1, <2>2 DEF WorkersOK, WorkerStages, Holding, Spawning, LoopOK
  <2>5. spawned' \in [TargetRange -> Nat] BY <1>2, <1>4, <2>1 DEF Holding, Spawning
  <2>6. inflight' \subseteq Slots BY <1>2, <2>2
  <2> QED BY <1>2, <2>1, <2>3, <2>4, <2>5, <2>6, LoopFrame
<1>6. CASE StartWorker
  <2>1. /\ UNCHANGED <<outside, gates, warned, generating, spawning, spawned, completed,
                       inflight, failures, crashes>>
        /\ loop.pc = "start"
        /\ loop' = [loop EXCEPT !.left = @ - 1,
                                !.pc = IF loop.left = 1 THEN "close" ELSE "spawnGate"]
    BY <1>6 DEF StartWorker, counterVars, budgetVars
  <2>2. PICK s \in Registered : workers' = [workers EXCEPT ![s].st = "rollout"]
    BY <1>6 DEF StartWorker
  <2>3. loop.left \in 1 .. N
    BY <1>1, <2>1, AsyncConstants DEF LoopOK, LoopType, Spawning
  <2>4. loop.left - 1 \in 0 .. N /\ (loop.left # 1 => loop.left - 1 > 0)
    BY <2>3, AsyncConstants
  <2>5. LoopOK(loop')
    BY <1>1, <1>4, <2>1, <2>4 DEF LoopOK, LoopType, LoopPCs, Picking, Holding, Spawning
  <2>6. WorkersOK(workers')
    BY <1>1, <2>2 DEF WorkersOK, WorkerStages, Registered, Idle
  <2> QED BY <1>2, <2>1, <2>5, <2>6, LoopFrame
<1>11. CASE StartFails
  <2>1. /\ UNCHANGED <<outside, gates, warned, generating, spawning, completed, crashes>>
        /\ failures' \in Nat /\ loop.pc = "start"
        /\ spawned' = [spawned EXCEPT ![loop.tgt] = IF @ > 0 THEN @ - 1 ELSE 0]
        /\ loop' = [loop EXCEPT !.pc = "close", !.aborted = TRUE]
    BY <1>2, <1>11 DEF StartFails, counterVars
  <2>2. PICK s \in Registered :
          workers' = [workers EXCEPT ![s] = Idle] /\ inflight' = inflight \ {s}
    BY <1>11 DEF StartFails
  <2>3. LoopOK(loop')
    BY <1>1, <2>1 DEF LoopOK, LoopType, LoopPCs, Picking, Holding, Spawning
  <2>4. Idle \in [st : WorkerStages, ver : Versions \cup {None}, tgt : TargetRange \cup {None}]
    BY DEF Idle, WorkerStages
  <2>5. WorkersOK(workers') BY <1>1, <2>2, <2>4 DEF WorkersOK, Registered
  <2>6. spawned' \in [TargetRange -> Nat]
    <3>1. loop.tgt \in TargetRange BY <1>4, <2>1 DEF Holding, Spawning
    <3>2. spawned[loop.tgt] \in Nat BY <1>2, <3>1
    <3>3. (IF spawned[loop.tgt] > 0 THEN spawned[loop.tgt] - 1 ELSE 0) \in Nat BY <3>2
    <3> QED BY <1>2, <2>1, <3>3
  <2>7. inflight' \subseteq Slots BY <1>2, <2>2
  <2> QED BY <1>2, <2>1, <2>3, <2>5, <2>6, <2>7, LoopFrame
<1>7. CASE CloseSpawning
  <2>1. /\ UNCHANGED <<outside, gates, warned, generating, spawned, completed, workers, inflight,
                       failures, crashes>>
        /\ loop.pc = "close" /\ loop' = [loop EXCEPT !.pc = "release"]
        /\ spawning' \subseteq TargetRange
    BY <1>2, <1>7 DEF CloseSpawning, workerVars, budgetVars
  <2>2. LoopOK(loop')
    BY <1>1, <2>1 DEF LoopOK, LoopType, LoopPCs, Picking, Holding, Spawning
  <2> QED BY <1>1, <1>2, <2>1, <2>2, LoopFrame
<1>8. loop.pc \in {"release", "discard"} => LoopOK(AfterRelease)
  <2>1. loop.pc \in {"release", "discard"}
          => LoopOK([loop EXCEPT !.pc = "close", !.aborted = FALSE])
    BY <1>1 DEF LoopOK, LoopType, LoopPCs, Picking, Holding, Spawning
  <2> QED BY <1>3, <2>1 DEF AfterRelease
<1>9. CASE LoopRelease
  <2>1. /\ UNCHANGED <<outside, gates, warned, generating, spawning, workers, inflight,
                       failures, crashes>>
        /\ loop.pc = "release"
        /\ \/ DropCounters(loop.tgt) /\ loop' = [loop EXCEPT !.pc = "discard"]
           \/ loop' = AfterRelease /\ UNCHANGED <<spawned, completed>>
    BY <1>9 DEF LoopRelease, workerVars, budgetVars
  <2>2. LoopOK([loop EXCEPT !.pc = "discard"])
    BY <1>1, <2>1 DEF LoopOK, LoopType, LoopPCs, Picking, Holding, Spawning
  <2>3. LoopOK(loop') BY <1>8, <2>1, <2>2
  <2>4. spawned' \in [TargetRange -> Nat] /\ completed' \in [TargetRange -> Nat]
    BY <1>2, <2>1 DEF DropCounters
  <2> QED BY <1>1, <1>2, <2>1, <2>3, <2>4, LoopFrame
<1>10. CASE LoopDiscard
  <2>1. /\ UNCHANGED <<outside, gates, warned, spawning, spawned, completed, workers, inflight,
                       failures, crashes>>
        /\ loop.pc = "discard" /\ loop' = AfterRelease
        /\ generating' \subseteq TargetRange
    BY <1>2, <1>10 DEF LoopDiscard, counterVars, workerVars, budgetVars
  <2>2. LoopOK(loop') BY <1>8, <2>1
  <2> QED BY <1>1, <1>2, <2>1, <2>2, LoopFrame
<1> QED BY <1>5, <1>6, <1>7, <1>9, <1>10, <1>11

LEMMA LoopKeeps == ASSUME IInv, CollectionLoop PROVE IInv'
<1>1. CASE FetchBatch \/ DataloaderExhausted \/ PassRefitGate \/ ReadVersion \/ ReadWatermark
             \/ LimitScan \/ PassLimitGate \/ SpawnGate
  BY <1>1, LoopLocalKeeps
     DEF FetchBatch, DataloaderExhausted, PassRefitGate, ReadVersion, ReadWatermark,
         LimitScan, PassLimitGate, SpawnGate
<1> QED BY <1>1, LoopTargetKeeps, LoopSpawnKeeps DEF CollectionLoop

-----------------------------------------------------------------------------
(* The workers                                                             *)

(* Every step of a worker moves it one stage on, or ends it. *)
LEMMA WorkerMoves ==
  ASSUME IInv, NEW s \in Slots, workers[s] # Idle, NEW to \in WorkerStages,
         \/ workers' = [workers EXCEPT ![s].st = to]
         \/ workers' = [workers EXCEPT ![s] = Idle]
  PROVE  WorkersOK(workers') /\ workers[s].tgt \in TargetRange
<1>1. WorkersOK(workers) BY PartsOK
<1>2. workers[s].tgt \in TargetRange BY <1>1 DEF WorkersOK
<1>3. CASE workers' = [workers EXCEPT ![s].st = to] BY <1>1, <1>3 DEF WorkersOK
<1>4. CASE workers' = [workers EXCEPT ![s] = Idle]
  <2>1. Idle \in [st : WorkerStages, ver : Versions \cup {None}, tgt : TargetRange \cup {None}]
    BY DEF Idle, WorkerStages
  <2> QED BY <1>1, <1>4, <2>1 DEF WorkersOK
<1> QED BY <1>2, <1>3, <1>4

LEMMA WorkerCountsKeep ==
  ASSUME IInv, NEW s \in Slots,
         Rollout(s) \/ CountCompleted(s) \/ WorkerRelease(s) \/ WorkerDiscard(s)
  PROVE  IInv'
<1>1. LoopOK(loop) BY PartsOK
<1>2. /\ gates \subseteq Gates /\ warned \in Versions \cup {None}
      /\ generating \subseteq TargetRange /\ spawning \subseteq TargetRange
      /\ spawned \in [TargetRange -> Nat] /\ completed \in [TargetRange -> Nat]
      /\ failures \in Nat /\ inflight \subseteq Slots
  BY DEF IInv, TypeOK
<1>3. UNCHANGED <<outside, gates, warned, loop, spawning, crashes>>
  BY DEF Rollout, CountCompleted, WorkerRelease, WorkerDiscard, counterVars, budgetVars
<1>4. workers[s] # Idle
  BY DEF Rollout, CountCompleted, WorkerRelease, WorkerDiscard, Stage, Idle
<1>5. \E to \in WorkerStages : \/ workers' = [workers EXCEPT ![s].st = to]
                               \/ workers' = [workers EXCEPT ![s] = Idle]
  BY DEF Rollout, CountCompleted, WorkerRelease, WorkerDiscard, Stage, Ends, WorkerStages
<1>6. WorkersOK(workers') /\ workers[s].tgt \in TargetRange BY <1>4, <1>5, WorkerMoves
<1>7. failures' \in Nat
  BY <1>2 DEF Rollout, CountCompleted, WorkerRelease, WorkerDiscard, budgetVars
<1>8. generating' \subseteq TargetRange
  BY <1>2 DEF Rollout, CountCompleted, WorkerRelease, WorkerDiscard
<1>9. spawned' \in [TargetRange -> Nat] /\ completed' \in [TargetRange -> Nat]
  BY <1>2, <1>6
     DEF Rollout, CountCompleted, WorkerRelease, WorkerDiscard, DropCounters, counterVars
<1>10. LoopOK(loop') BY <1>1, <1>3
<1>11. inflight' \subseteq Slots
  BY <1>2 DEF Rollout, CountCompleted, WorkerRelease, WorkerDiscard, Stage, Ends
<1> QED BY <1>2, <1>3, <1>6, <1>7, <1>8, <1>9, <1>10, <1>11, LoopFrame

(* A group enters the buffer with the label and the target of its worker. *)
LEMMA PushKeeps ==
  ASSUME IInv, NEW s \in Slots, Push(s)
  PROVE  IInv'
<1> DEFINE t == workers[s].tgt
           e == [id |-> arrivals[t], ver |-> workers[s].ver, tgt |-> t]
<1>1. WorkersOK(workers) BY PartsOK
<1>2. workers[s] # Idle BY DEF Push, Stage, Idle
<1>3. WorkersOK(workers') /\ t \in TargetRange
  BY <1>2, WorkerMoves DEF Push, Stage, WorkerStages
<1>4. UNCHANGED <<tpc, step, weightVersion, genWeights, last, mailbox, draining, colVersion,
                  initVersion, gates, warned, loop, generating, spawning, spawned, completed,
                  saved, failures, crashes, inflight>>
  BY DEF Push, Stage, trainerVars, actorVars, counterVars, budgetVars
<1>5. workers[s].ver \in Versions /\ t <= workers[s].ver + A BY <1>1, <1>2 DEF WorkersOK
<1>6. \/ buf' = buf \cup {e} /\ arrivals' = [arrivals EXCEPT ![t] = @ + 1]
      \/ UNCHANGED <<buf, arrivals>>
  BY DEF Push
<1>7. IsFiniteSet(buf) /\ buf \subseteq Entries /\ arrivals \in [TargetRange -> Nat]
  BY DEF IInv, TypeOK
<1>8. e \in Entries /\ e.tgt <= e.ver + A BY <1>3, <1>5, <1>7 DEF Entries, Entry
<1> HIDE DEF e, t
<1>9. /\ IsFiniteSet(buf') /\ buf' \subseteq Entries /\ arrivals' \in [TargetRange -> Nat]
      /\ buf' \subseteq buf \cup {e}
  BY <1>3, <1>6, <1>7, <1>8, FS_AddElement
<1>10. TypeOK' BY <1>3, <1>4, <1>9 DEF IInv, TypeOK, WorkersOK
<1>11. Bookkeeping' BY <1>3, <1>4 DEF IInv, Bookkeeping, Busy, WorkersOK
<1>12. MailboxOrdered' BY <1>4 DEF IInv, MailboxOrdered
<1>13. WindowKept' BY <1>3, <1>4, <1>8, <1>9 DEF IInv, WindowKept, Busy, WorkersOK
<1>14. WatermarkIsProgress' BY <1>4 DEF IInv, WatermarkIsProgress, Taken
<1> QED BY <1>10, <1>11, <1>12, <1>13, <1>14 DEF IInv

LEMMA WorkerKeeps == ASSUME IInv, NEW s \in Slots, Worker(s) PROVE IInv'
BY WorkerCountsKeep, PushKeeps DEF Worker

-----------------------------------------------------------------------------
(* A restart, and the theorems                                             *)

LEMMA CrashKeeps == ASSUME IInv, CrashAndRestart PROVE IInv'
<1> USE AsyncConstants
<1> DEFINE s == saved.step
           restored == CleanedUp([items |-> saved.items, last |-> saved.last], N, s, A)
<1>1. /\ s \in Versions /\ saved.items \subseteq Entries /\ IsFiniteSet(saved.items)
      /\ saved.arrivals \in [TargetRange -> Nat]
      /\ \A e \in saved.items : e.tgt <= e.ver + A
      /\ failures \in Nat /\ crashes \in Nat /\ saved.last \in -1 .. MaxSteps
  BY DEF IInv, TypeOK, Bookkeeping, WindowKept
<1>2. restored.items \subseteq saved.items /\ restored.last = s - 1 BY <1>1, ResumeCleanUp
<1>3. /\ s < MaxSteps /\ tpc' = "setup" /\ step' = s /\ weightVersion' = s
      /\ genWeights' = Unloaded /\ last' = restored.last /\ arrivals' = saved.arrivals
      /\ mailbox' = BootMail(s) /\ draining' = FALSE /\ colVersion' = s /\ initVersion' = s
      /\ gates' = Gates /\ warned' = None /\ loop' = LoopAt("off")
      /\ generating' = {} /\ spawning' = {} /\ spawned' = NoCounts /\ completed' = NoCounts
      /\ workers' = [w \in Slots |-> Idle] /\ saved' = saved /\ failures' = failures
      /\ crashes' = crashes + 1 /\ inflight' = {}
  BY DEF CrashAndRestart
<1>4. PICK K \in SUBSET restored.items : buf' = K BY DEF CrashAndRestart
<1>5. buf' \subseteq saved.items /\ IsFiniteSet(buf') /\ buf' \subseteq Entries
  BY <1>1, <1>2, <1>4, FS_Subset
<1> HIDE DEF s, restored
<1>6. last' = s - 1 /\ last' \in -1 .. MaxSteps BY <1>1, <1>2, <1>3 DEF Versions
<1>7. mailbox' = <<[op |-> "start", v |-> None], [op |-> "set", v |-> s]>>
  BY <1>3 DEF BootMail, Msg
<1>8. mailbox' \in Seq([op : Calls, v : Versions \cup {None}]) BY <1>1, <1>7 DEF Calls
<1>9. loop' \in LoopType /\ loop'.pc = "off" /\ loop'.gv = None /\ loop'.tgt = None
  BY <1>3, LoopRestarts DEF LoopPCs
<1>10. Idle \in [st : WorkerStages, ver : Versions \cup {None}, tgt : TargetRange \cup {None}]
  BY DEF Idle, WorkerStages
<1>11. NoCounts \in [TargetRange -> Nat] BY DEF NoCounts
<1>12. Busy' = {} BY <1>3 DEF Busy
<1>13. TypeOK'
  <2>1. /\ saved'.step \in Versions /\ saved'.items \subseteq Entries
        /\ saved'.last \in -1 .. MaxSteps
    BY <1>1, <1>3 DEF s
  <2>2. workers' \in [Slots -> [st : WorkerStages, ver : Versions \cup {None},
                               tgt : TargetRange \cup {None}]]
    BY <1>3, <1>10
  <2>3. failures' \in Nat /\ crashes' \in Nat BY <1>1, <1>3
  <2> QED
    BY <1>1, <1>3, <1>5, <1>6, <1>8, <1>9, <1>11, <2>1, <2>2, <2>3
       DEF TypeOK, TrainerPCs, LoopType
<1>14. Bookkeeping'
  <2>1. colVersion' <= weightVersion' /\ loop'.gv <= colVersion' /\ step' < MaxSteps
    BY <1>1, <1>3, <1>9 DEF Versions, None
  <2>2. IsFiniteSet(saved'.items) /\ saved'.arrivals \in [TargetRange -> Nat] BY <1>1, <1>3
  <2>3. tpc' = "setup" /\ step' = s /\ weightVersion' = s /\ genWeights' = Unloaded BY <1>3
  <2> QED BY <1>9, <1>12, <2>1, <2>2, <2>3 DEF Bookkeeping, Refitted
<1>15. MailboxOrdered' BY <1>1, <1>3, <1>7 DEF MailboxOrdered, Versions
<1>16. WindowKept' /\ WatermarkIsProgress'
  BY <1>1, <1>3, <1>5, <1>6, <1>9, <1>12 DEF WindowKept, WatermarkIsProgress, Taken
<1> QED BY <1>13, <1>14, <1>15, <1>16 DEF IInv

LEMMA IdleKeeps == ASSUME IInv, UNCHANGED vars PROVE IInv'
<1>1. UNCHANGED <<tpc, step, weightVersion, genWeights, buf, last, arrivals, mailbox, draining,
                  colVersion, initVersion, gates, warned, loop, generating, spawning, spawned,
                  completed, workers, inflight, saved, failures, crashes>>
  BY DEF vars, trainerVars, bufferVars, actorVars, threadVars, workerVars, counterVars, budgetVars
<1>2. TypeOK' BY <1>1 DEF IInv, TypeOK
<1>3. Bookkeeping' BY <1>1 DEF IInv, Bookkeeping, Busy
<1>4. MailboxOrdered' BY <1>1 DEF IInv, MailboxOrdered
<1>5. WindowKept' BY <1>1 DEF IInv, WindowKept, Busy
<1>6. WatermarkIsProgress' BY <1>1 DEF IInv, WatermarkIsProgress, Taken
<1> QED BY <1>2, <1>3, <1>4, <1>5, <1>6 DEF IInv

LEMMA TrainerKeeps == ASSUME IInv, Trainer PROVE IInv'
BY TrainerGoesOn, RefitKeeps, NextStepKeeps, SampleKeeps, CheckpointKeeps DEF Trainer

(* InvariantHolds: the inductive invariant is kept by every step of the    *)
(* trainer, the actor, the collection thread, the workers and a restart.   *)
THEOREM InvariantHolds == Spec => []IInv
<1>1. ASSUME IInv, [Next]_vars PROVE IInv'
  BY <1>1, TrainerKeeps, ActorKeeps, LoopKeeps, WorkerKeeps, CrashKeeps, IdleKeeps
     DEF Next, Finished
<1> QED BY <1>1, InitIInv, PTL DEF Spec

(* TypeCorrect: no version passes MaxSteps and no target the window, in    *)
(* async_grpo_train and the collector, for every value of the constants.   *)
THEOREM TypeCorrect == Spec => []TypeOK
<1>1. IInv => TypeOK BY DEF IInv
<1> QED BY <1>1, InvariantHolds, PTL

(* WindowHolds: whatever _process_batch and the workers make for a target  *)
(* carries a version at most A behind it, so that the eviction of sample() *)
(* never takes a group whose step is still to come.                        *)
THEOREM WindowHolds == Spec => []WindowKept
<1>1. IInv => WindowKept BY DEF IInv
<1> QED BY <1>1, InvariantHolds, PTL

(* WatermarkTracks: last_target_weight_already_generated is the last step  *)
(* whose batch sample() handed out, also after load_state_dict.            *)
THEOREM WatermarkTracks == Spec => []WatermarkIsProgress
<1>1. IInv => WatermarkIsProgress BY DEF IInv
<1> QED BY <1>1, InvariantHolds, PTL

-----------------------------------------------------------------------------
(***************************************************************************)
(* AsyncGRPO implements OffPolicyTraining, for every value of the          *)
(* constants: every step of the trainer, the collector actor, the          *)
(* collection thread, a worker or a restart is a step of the promise, or   *)
(* changes nothing it speaks of.                                           *)
(*                                                                         *)
(* The promise counts the groups ever made for a target and says that a    *)
(* restart never runs ahead of them, so the entries, those in the          *)
(* checkpoint included, must have been counted (EntriesCounted), and the   *)
(* checkpoint may be at most the step the trainer has just taken ahead.    *)
(***************************************************************************)

(* The groups in the buffer and in the checkpoint were numbered by the     *)
(* counters kept with them; the checkpoint is no newer than the trainer.   *)
EntriesCounted ==
  /\ \A e \in buf : e.id < arrivals[e.tgt]
  /\ \A e \in saved.items : e.id < saved.arrivals[e.tgt]
  /\ \A t \in TargetRange : saved.arrivals[t] <= arrivals[t]
  /\ saved.step <= IF Taken THEN step + 1 ELSE step

PInv == IInv /\ EntriesCounted

-----------------------------------------------------------------------------
(* Steps that change nothing the promise speaks of                         *)

promised == <<buf, arrivals, step, Taken, crashes>>

LEMMA StutterKeepsCounted ==
  ASSUME EntriesCounted, UNCHANGED <<promised, saved>>
  PROVE  EntriesCounted'
BY DEF EntriesCounted, promised

LEMMA TrainerStutters ==
  ASSUME IInv, InitialRefit \/ BeginValidation \/ EndValidation \/ SkipValidation
                 \/ BufferFilled \/ Train \/ Refit \/ BeginCheckpoint
  PROVE  UNCHANGED <<promised, saved>>
BY DEF InitialRefit, BeginValidation, EndValidation, SkipValidation, BufferFilled, Train, Refit,
       BeginCheckpoint, promised, bufferVars, budgetVars, Taken

LEMMA ActorStutters == ASSUME IInv, Actor PROVE UNCHANGED <<promised, saved>>
<1>1. mailbox \in Seq(Call_) BY DEF IInv, TypeOK, Call_
<1>2. PrepareForRefit => tpc = "preparing"
  BY <1>1, TailIndex DEF PrepareForRefit, Call, IInv, MailboxOrdered
<1>3. WaitForPendingGenerations => tpc = "preparing"
  BY DEF WaitForPendingGenerations, IInv, MailboxOrdered
<1>4. GetDataloaderState => tpc = "dataloaderState"
  BY <1>1, TailIndex DEF GetDataloaderState, Call, IInv, MailboxOrdered
<1> QED
  BY <1>2, <1>3, <1>4
     DEF Actor, StartCollection, SetWeightVersion, PrepareForRefit,
         WaitForPendingGenerations, OpenOrCloseGate, GetDataloaderState, promised, bufferVars, budgetVars, trainerVars,
         Taken

LEMMA LoopStutters == ASSUME CollectionLoop PROVE UNCHANGED <<promised, saved>>
BY DEF CollectionLoop, FetchBatch, DataloaderExhausted, PassRefitGate, ReadVersion, ReadWatermark,
       LimitScan, LimitReached, PassLimitGate, ReserveTarget, OpenSpawning, SpawnGate,
       RegisterWorker, StartWorker, StartFails, CloseSpawning, LoopRelease, LoopDiscard, allButLoop, outside, promised,
       trainerVars, bufferVars, budgetVars, Taken

LEMMA WorkerStutters ==
  ASSUME NEW s \in Slots,
         Rollout(s) \/ CountCompleted(s) \/ WorkerRelease(s) \/ WorkerDiscard(s)
  PROVE  UNCHANGED <<promised, saved>>
BY DEF Rollout, CountCompleted, WorkerRelease, WorkerDiscard, outside, promised, trainerVars,
       bufferVars, budgetVars, Taken

-----------------------------------------------------------------------------
(* The steps of the promise                                                *)

(* A push is a Generate, unless the thread has stopped running. *)
LEMMA PushGenerates ==
  ASSUME PInv, NEW s \in Slots, Push(s)
  PROVE  /\ EntriesCounted'
         /\ Abstract!Generate \/ UNCHANGED promised
<1> DEFINE t == workers[s].tgt
           v == workers[s].ver
           e == [id |-> arrivals[t], ver |-> v, tgt |-> t]
<1>1. workers[s] # Idle BY DEF Push, Stage, Idle
<1>2. v \in Versions /\ t \in TargetRange /\ t <= v + A
  BY <1>1, PartsOK DEF PInv, WorkersOK
<1>3. /\ UNCHANGED <<tpc, step, crashes, saved>>
      /\ \/ buf' = buf \cup {e} /\ arrivals' = [arrivals EXCEPT ![t] = @ + 1]
         \/ UNCHANGED <<buf, arrivals>>
  BY DEF Push, trainerVars, budgetVars
<1>4. UNCHANGED Taken BY <1>3 DEF Taken
<1>5. CASE UNCHANGED <<buf, arrivals>>
  BY <1>3, <1>4, <1>5, StutterKeepsCounted DEF PInv, promised
<1>6. CASE buf' = buf \cup {e} /\ arrivals' = [arrivals EXCEPT ![t] = @ + 1]
  <2>1. /\ arrivals \in [TargetRange -> Nat] /\ buf \subseteq Entries
        /\ saved.arrivals \in [TargetRange -> Nat] /\ saved.items \subseteq Entries
    BY DEF PInv, IInv, TypeOK, Bookkeeping
  <2>2. \A u \in TargetRange : arrivals[u] <= arrivals'[u]
    BY <1>6, <2>1
  <2>3. \A x \in buf : x.id < arrivals'[x.tgt]
    <3> SUFFICES ASSUME NEW x \in buf PROVE x.id < arrivals'[x.tgt] OBVIOUS
    <3>1. x.id \in Nat /\ x.tgt \in TargetRange BY <2>1 DEF Entries, Entry
    <3>2. x.id < arrivals[x.tgt] BY DEF PInv, EntriesCounted
    <3>3. arrivals[x.tgt] \in Nat /\ arrivals'[x.tgt] \in Nat BY <1>6, <2>1, <3>1
    <3> QED BY <2>2, <3>1, <3>2, <3>3
  <2>4. e.id < arrivals'[e.tgt] BY <1>2, <1>6, <2>1
  <2>5. \A u \in TargetRange : saved.arrivals[u] <= arrivals'[u]
    <3> SUFFICES ASSUME NEW u \in TargetRange PROVE saved.arrivals[u] <= arrivals'[u] OBVIOUS
    <3>1. saved.arrivals[u] <= arrivals[u] BY DEF PInv, EntriesCounted
    <3>2. arrivals'[u] \in Nat /\ arrivals[u] \in Nat /\ saved.arrivals[u] \in Nat
      BY <1>6, <2>1
    <3> QED BY <2>2, <3>1, <3>2
  <2>6. EntriesCounted'
    BY <1>3, <1>4, <1>6, <2>3, <2>4, <2>5 DEF PInv, EntriesCounted
  <2>7. Abstract!Generate
    BY <1>2, <1>3, <1>4, <1>6 DEF Abstract!Generate, Abstract!Targets, Versions, TargetRange
  <2> QED BY <2>6, <2>7
<1> QED BY <1>3, <1>5, <1>6

(* The promise counts as the buffer does. *)
LEMMA SameCardinality == ASSUME NEW S PROVE Abstract!Cardinality(S) = Cardinality(S)
BY DEF Abstract!Cardinality, Cardinality

(* What sampling takes away: its batch, and groups whose step has passed *)
LEMMA SampleConsumes ==
  ASSUME PInv, Sample
  PROVE  /\ EntriesCounted'
         /\ Abstract!Consume \/ Abstract!Discard
<1>1. /\ tpc = "sample" /\ weightVersion = step /\ step < MaxSteps /\ ~Taken /\ step \in Nat
      /\ buf \subseteq Entries /\ \A e \in buf : e.tgt <= e.ver + A
  BY DEF Sample, PInv, IInv, TypeOK, Bookkeeping, Refitted, Taken, WindowKept, Versions
<1>2. UNCHANGED <<step, arrivals, crashes, saved>> BY DEF Sample, budgetVars
<1>3. \A e \in buf : e.ver \in Nat /\ e.tgt \in Nat
  BY <1>1, AsyncConstants DEF Entries, Entry, Versions, TargetRange
<1>4. \A e \in buf \ AfterEviction(buf, step, A) : e.tgt < step
  BY <1>1, <1>3, AsyncConstants DEF AfterEviction, OldestValid
<1>5. \A e \in IntendedFor(buf, step, A) :
        e \in buf /\ e.tgt = step /\ step - A <= e.ver /\ e.ver <= step
  BY <1>1, <1>3, AsyncConstants DEF IntendedFor, WithinWindow, AfterEviction, OldestValid
<1>6. AfterEviction(buf, step, A) \subseteq buf BY DEF AfterEviction
<1>7. CASE CanSample(buf, N, weightVersion, A)
  <2>1. PICK S \in SUBSET IntendedFor(buf, weightVersion, A) :
               /\ IsOldest(S, IntendedFor(buf, weightVersion, A), N)
               /\ buf' = AfterEviction(buf, weightVersion, A) \ S
               /\ tpc' = "train"
    BY <1>7 DEF Sample
  <2>2. Taken' BY <2>1 DEF Taken
  <2>3. S \in SUBSET buf /\ Cardinality(S) = N
        /\ \A g \in S : g.tgt = step /\ step - A <= g.ver /\ g.ver <= step
    BY <1>1, <1>5, <2>1 DEF IsOldest
  <2>4. buf' \subseteq buf \ S /\ \A g \in buf \ buf' : g \in S \/ g.tgt < step
    BY <1>1, <1>4, <1>6, <2>1
  <2>5. Abstract!Consume BY <1>1, <1>2, <2>2, <2>3, <2>4, SameCardinality DEF Abstract!Consume
  <2>6. saved.step \in Nat /\ saved.step <= step BY <1>1 DEF PInv, EntriesCounted, IInv, TypeOK, Versions
  <2>7. EntriesCounted' BY <1>1, <1>2, <2>2, <2>4, <2>6 DEF PInv, EntriesCounted
  <2> QED BY <2>5, <2>7
<1>8. CASE ~CanSample(buf, N, weightVersion, A)
  <2>1. buf' = AfterEviction(buf, step, A) /\ tpc' = tpc BY <1>1, <1>8 DEF Sample
  <2>2. ~Taken' BY <1>1, <2>1 DEF Taken
  <2>3. UNCHANGED Taken BY <2>1 DEF Taken
  <2>4. Abstract!Discard
    BY <1>1, <1>2, <1>4, <1>6, <2>1, <2>3 DEF Abstract!Discard
  <2>5. EntriesCounted' BY <1>1, <1>2, <1>6, <2>1, <2>2 DEF PInv, EntriesCounted
  <2> QED BY <2>4, <2>5
<1> QED BY <1>7, <1>8

(* The checkpoint of the step just taken *)
LEMMA CheckpointCounts ==
  ASSUME PInv, FinishCheckpoint
  PROVE  EntriesCounted' /\ UNCHANGED promised
<1>1. /\ UNCHANGED <<buf, arrivals, step, crashes>> /\ tpc = "snapshot" /\ tpc' = "advance"
      /\ saved' = [step |-> step + 1, items |-> buf, last |-> last, arrivals |-> arrivals]
  BY DEF FinishCheckpoint, bufferVars, budgetVars
<1>2. Taken /\ Taken' BY <1>1 DEF Taken
<1>3. arrivals \in [TargetRange -> Nat] /\ step \in Nat
  BY DEF PInv, IInv, TypeOK, Versions
<1> QED BY <1>1, <1>2, <1>3 DEF PInv, EntriesCounted, promised

LEMMA NextStepFinishes ==
  ASSUME PInv, NextStep
  PROVE  EntriesCounted' /\ Abstract!FinishStep
<1>1. /\ UNCHANGED <<buf, arrivals, crashes, saved>> /\ tpc \in {"advance", "save"}
      /\ step' = step + 1 /\ tpc' \in {"sample", "done"}
  BY DEF NextStep, bufferVars, budgetVars
<1>2. Taken /\ ~Taken' BY <1>1 DEF Taken
<1> QED BY <1>1, <1>2 DEF PInv, EntriesCounted, Abstract!FinishStep

(* The groups a resume keeps are those of its step and of later ones. *)
LEMMA ResumeKeepsComing ==
  ASSUME NEW items, NEW l, NEW s \in Versions
  PROVE  \A e \in CleanedUp([items |-> items, last |-> l], N, s, A).items : e.tgt >= s
<1> DEFINE b == [items |-> items, last |-> l]
           first == PrepareForStep(b, s)
<1>1. N # None /\ s # None /\ A # None BY AsyncConstants DEF Versions, None
<1>2. \A e \in first.items : e.tgt >= s BY DEF PrepareForStep
<1> HIDE DEF first
<1>3. RemoveStale(first, A).items \subseteq first.items BY DEF RemoveStale
<1>4. CleanedUp(b, N, s, A) = IF first.items = {} THEN first ELSE RemoveStale(first, A)
  BY <1>1 DEF CleanedUp, first
<1> QED BY <1>2, <1>3, <1>4

(* A restart resumes from the checkpoint with the groups still of use. *)
LEMMA CrashResumes ==
  ASSUME PInv, CrashAndRestart
  PROVE  EntriesCounted' /\ Abstract!Resume
<1> DEFINE s == saved.step
           restored == CleanedUp([items |-> saved.items, last |-> saved.last], N, s, A)
<1>1. /\ s \in Versions /\ saved.items \subseteq Entries
      /\ saved.arrivals \in [TargetRange -> Nat] /\ arrivals \in [TargetRange -> Nat]
      /\ \A e \in saved.items : e.tgt <= e.ver + A
  BY DEF PInv, IInv, TypeOK, Bookkeeping, WindowKept
<1>2. restored.items \subseteq saved.items /\ \A e \in restored.items : e.tgt >= s
  BY <1>1, ResumeCleanUp, ResumeKeepsComing
<1>3. /\ s < MaxSteps /\ tpc' = "setup" /\ step' = s /\ arrivals' = saved.arrivals
      /\ saved' = saved /\ crashes' = crashes + 1 /\ inflight' = {}
  BY DEF CrashAndRestart
<1>4. PICK K \in SUBSET restored.items : buf' = K BY DEF CrashAndRestart
<1>5. ~Taken' BY <1>3 DEF Taken
<1>6. buf' \subseteq saved.items /\ \A g \in buf' : s <= g.tgt /\ g.tgt <= g.ver + A
  <2>1. \A e \in saved.items : e.tgt \in Int BY <1>1 DEF Entries, Entry, TargetRange
  <2>2. s \in Int BY <1>1 DEF Versions
  <2> HIDE DEF s, restored
  <2> QED BY <1>1, <1>2, <1>4, <2>1, <2>2
<1> HIDE DEF restored
<1>7. \A g \in buf' : g.id < arrivals'[g.tgt] BY <1>3, <1>6 DEF PInv, EntriesCounted
<1>8. s \in 0 .. (MaxSteps - 1) /\ s <= (IF Taken THEN step + 1 ELSE step)
  BY <1>1, <1>3, AsyncConstants DEF PInv, EntriesCounted, Versions
<1>9. \A t \in Abstract!Targets : arrivals'[t] <= arrivals[t]
  BY <1>3 DEF PInv, EntriesCounted, Abstract!Targets, TargetRange
<1>10. Abstract!Resume BY <1>3, <1>5, <1>6, <1>7, <1>8, <1>9 DEF Abstract!Resume
<1>11. EntriesCounted'
  <2>1. \A t \in TargetRange : saved.arrivals[t] <= saved.arrivals[t] BY <1>1
  <2>2. s <= s BY <1>1 DEF Versions
  <2> QED BY <1>3, <1>5, <1>7, <2>1, <2>2 DEF PInv, EntriesCounted
<1> QED BY <1>10, <1>11

-----------------------------------------------------------------------------
LEMMA InitCounted == Init => EntriesCounted
BY AsyncConstants DEF Init, EntriesCounted, NoCounts, Taken

(* Every step keeps the invariant, and is one of the promise's or stutters. *)
LEMMA StepsArePromised ==
  ASSUME PInv, [Next]_vars
  PROVE  EntriesCounted' /\ [Abstract!Next]_Abstract!vars
<1> SUFFICES EntriesCounted' /\ (Abstract!Next \/ UNCHANGED promised)
  BY DEF Abstract!vars, promised
<1> USE DEF PInv
<1>1. CASE UNCHANGED <<promised, saved>> BY <1>1, StutterKeepsCounted
<1>2. CASE UNCHANGED vars
  BY <1>1, <1>2 DEF vars, trainerVars, bufferVars, budgetVars, promised, Taken
<1>3. CASE Trainer
  BY <1>1, <1>3, TrainerStutters, SampleConsumes, CheckpointCounts, NextStepFinishes
     DEF Trainer, Abstract!Next
<1>4. CASE Actor BY <1>1, <1>4, ActorStutters
<1>5. CASE CollectionLoop BY <1>1, <1>5, LoopStutters
<1>6. ASSUME NEW s \in Slots, Worker(s)
      PROVE  EntriesCounted' /\ (Abstract!Next \/ UNCHANGED promised)
  BY <1>1, <1>6, WorkerStutters, PushGenerates DEF Worker, Abstract!Next
<1>7. CASE CrashAndRestart BY <1>7, CrashResumes DEF Abstract!Next
<1> QED BY <1>2, <1>3, <1>4, <1>5, <1>6, <1>7 DEF Next, Finished

(* Counted: every group in the buffer, or in the checkpoint that           *)
(* load_state_dict will restore, was numbered by its target's counter.     *)
THEOREM Counted == Spec => []PInv
<1>1. IInv /\ EntriesCounted /\ [Next]_vars => EntriesCounted'
  BY StepsArePromised DEF PInv
<1> QED BY <1>1, InitCounted, InvariantHolds, PTL DEF Spec, PInv

(* Implements: async_grpo_train, the collector and the replay buffer       *)
(* together train every step on exactly N groups made for it by weights at *)
(* most A versions old, and lose none whose step is still to come.         *)
THEOREM Implements == Spec => Promise
<1>1. Init => Abstract!Init
  BY DEF Init, Abstract!Init, NoCounts, Taken, TargetRange, Abstract!Targets
<1>2. PInv /\ [Next]_vars => [Abstract!Next]_Abstract!vars BY StepsArePromised
<1> QED BY <1>1, <1>2, Counted, PTL DEF Spec, Promise, Abstract!Spec

-----------------------------------------------------------------------------
(* The reservations: none leaks and the counters that decide who releases  *)
(* it agree with the threads (ReservationsTracked); while the weights are  *)
(* replaced at most one thread per refit is left behind                    *)
(* (StragglersCounted); and, when no rollout and no thread start fails, no *)
(* step gets more than one batch (NoOverfill).                             *)

Uncounted(t) ==
  {s \in Busy : workers[s].tgt = t
               /\ workers[s].st \in {"registered", "rollout", "push", "count"}}
WorkingFor(t) == {s \in Busy : workers[s].tgt = t}

(* The steps of the thread that touch a worker *)
Launches == RegisterWorker \/ StartWorker \/ StartFails

(* A worker that is registered and not started is the one the thread is    *)
(* about to start.                                                         *)
Launching ==
  \A s \in Registered :
    /\ loop.pc = "start" /\ Registered = {s}
    /\ workers[s].ver = loop.gv /\ workers[s].tgt = loop.tgt

(* The call that starts the thread comes once, before all others. *)
StartsOnce ==
  \A i \in 1 .. Len(mailbox) : mailbox[i].op = "start" => i = 1 /\ loop.pc = "off"

(* The thread has a target while it works on a batch, and only then holds  *)
(* it open.                                                                *)
LoopHolds ==
  /\ loop.tgt # None => loop.pc \in Holding
  /\ \A t \in spawning : loop.tgt = t /\ loop.pc \in Spawning \cup {"close"}
  /\ StartsOnce

RInv == LoopHolds /\ Launching /\ ReservationsTracked

(* The trainer waits for prepare_for_refit and sends nothing meanwhile, so  *)
(* nothing can reopen the gate before the weights are there.               *)
RefitClosed ==
  /\ \A i \in 1 .. Len(mailbox) :
       mailbox[i].op = "prepare_for_refit" => i = Len(mailbox)
  /\ draining \/ tpc = "refit" => mailbox = <<>> /\ "refit" \notin gates

(* The threads that a drain has forgotten; whether the thread has passed    *)
(* the gate with a worker to register, or with one that is still in the    *)
(* set; the refits that have closed the gate since the launch              *)
Forgotten == Busy \ inflight
Passed == IF loop.pc = "spawn" THEN 1 ELSE 0
Due == IF loop.pc = "spawn" \/ Registered \cap inflight # {} THEN 1 ELSE 0
Closings == weightVersion - initVersion + (IF draining \/ tpc = "refit" THEN 1 ELSE 0)

(* Only what has passed the gate when a refit closes it may be forgotten.   *)
Straggling ==
  /\ inflight \subseteq Busy
  /\ ~InFlight => Cardinality(Forgotten) + (IF "refit" \in gates THEN 0 ELSE Due) <= Closings
  /\ tpc = "refit" /\ ~InFlight =>
       /\ Cardinality(inflight) + Passed <= 1
       /\ Cardinality(Busy) + Passed <= Closings

-----------------------------------------------------------------------------
Made(t) == {e \in buf : e.tgt = t}
Flying(t) == {s \in Busy : workers[s].tgt = t /\ workers[s].st \in {"rollout", "push"}}
ToSpawn(t) == IF loop.tgt = t THEN loop.left ELSE 0
Committed(t) == Cardinality(Made(t)) + Cardinality(Flying(t)) + ToSpawn(t)

(* No group is newer than the trainer's version, nor one in the checkpoint *)
(* newer than its step.                                                    *)
NoneAhead ==
  /\ \A e \in buf : e.ver <= weightVersion
  /\ \A s \in Busy : workers[s].ver <= weightVersion
  /\ \A e \in saved.items : e.ver <= saved.step

(* While the collector runs, a target whose step is still to come is worked *)
(* on for exactly one batch, and stays reserved until it is complete.      *)
OneBatch(t) ==
  /\ WorkingFor(t) # {} \/ (loop.tgt = t /\ loop.pc # "open") => Committed(t) = N
  /\ WorkingFor(t) # {} /\ Cardinality(Made(t)) < N => t \in generating
  /\ loop.tgt = t /\ loop.pc \in {"open"} \cup Spawning => t \in generating
  /\ loop.tgt = t /\ loop.pc = "open" => WorkingFor(t) = {}
  /\ \/ loop.tgt = t /\ loop.pc = "discard"
     \/ \E s \in WorkingFor(t) : workers[s].st = "discard"
     => Cardinality(Made(t)) = N

FillInv ==
  /\ \A t \in TargetRange : t > last => Committed(t) <= N
  /\ Running => \A t \in TargetRange : t > last => OneBatch(t)
  /\ loop.pc \in Spawning => loop.tgt \in spawning
  /\ loop.pc \notin Spawning => loop.left = 0
  /\ loop.pc = "off" => Busy = {}
  /\ \A t \in TargetRange :
       t >= saved.step => Cardinality({e \in saved.items : e.tgt = t}) <= N
-----------------------------------------------------------------------------
(* What a step does to the workers and to the thread                       *)

LEMMA SlotSets ==
  ASSUME NEW S \in SUBSET Slots
  PROVE  IsFiniteSet(S) /\ Cardinality(S) \in Nat /\ (Cardinality(S) = 0 <=> S = {})
BY AsyncConstants, FS_Subset, FS_CardinalityType, FS_EmptySet

LEMMA WorkersTyped ==
  ASSUME IInv
  PROVE  /\ workers \in [Slots -> [st : WorkerStages, ver : Versions \cup {None},
                                   tgt : TargetRange \cup {None}]]
         /\ \A s \in Busy : workers[s].tgt \in TargetRange /\ workers[s].ver \in Versions
<1>1. workers \in [Slots -> [st : WorkerStages, ver : Versions \cup {None},
                            tgt : TargetRange \cup {None}]]
  BY DEF IInv, TypeOK
<1>2. \A s \in Busy : s \in Slots /\ workers[s].ver # None /\ workers[s].tgt # None
  BY DEF IInv, Bookkeeping, Busy
<1> QED BY <1>1, <1>2

(* A worker goes on to a later stage ... *)
LEMMA StageMoves ==
  ASSUME IInv, NEW s \in Slots, workers[s].st # "idle", NEW to \in WorkerStages \ {"idle"},
         workers' = [workers EXCEPT ![s].st = to]
  PROVE  /\ Busy' = Busy /\ s \in Busy /\ workers'[s].st = to
         /\ workers'[s].tgt = workers[s].tgt /\ workers'[s].ver = workers[s].ver
         /\ \A r \in Slots \ {s} : workers'[r] = workers[r]
<1>1. /\ workers'[s].st = to /\ workers'[s].tgt = workers[s].tgt
      /\ workers'[s].ver = workers[s].ver
      /\ \A r \in Slots \ {s} : workers'[r] = workers[r]
  BY WorkersTyped
<1>2. workers[s] # Idle /\ workers'[s] # Idle BY <1>1 DEF Idle
<1> QED BY <1>1, <1>2 DEF Busy

(* ... or ends ... *)
LEMMA EndMoves ==
  ASSUME IInv, NEW s \in Slots, workers[s].st # "idle", workers' = [workers EXCEPT ![s] = Idle]
  PROVE  /\ Busy' = Busy \ {s} /\ s \in Busy
         /\ \A r \in Slots \ {s} : workers'[r] = workers[r]
<1>1. workers'[s] = Idle /\ \A r \in Slots \ {s} : workers'[r] = workers[r] BY WorkersTyped
<1>2. workers[s] # Idle BY DEF Idle
<1> QED BY <1>1, <1>2 DEF Busy

(* ... or is registered on the target of the thread ... *)
LEMMA RegisterMoves ==
  ASSUME IInv, RegisterWorker
  PROVE  \E s \in Slots :
           /\ s \notin Busy /\ Busy' = Busy \cup {s} /\ inflight' = inflight \cup {s}
           /\ workers'[s].st = "registered" /\ workers'[s].tgt = loop.tgt
           /\ workers'[s].ver = loop.gv
           /\ \A r \in Slots \ {s} : workers'[r] = workers[r]
           /\ workers[s] = Idle
<1>1. PICK s \in Slots :
        /\ workers[s] = Idle
        /\ workers' = [workers EXCEPT ![s] =
                         [st |-> "registered", ver |-> loop.gv, tgt |-> loop.tgt]]
        /\ inflight' = inflight \cup {s}
  BY DEF RegisterWorker
<1>2. /\ workers'[s] = [st |-> "registered", ver |-> loop.gv, tgt |-> loop.tgt]
      /\ \A r \in Slots \ {s} : workers'[r] = workers[r]
  BY <1>1, WorkersTyped
<1>3. workers'[s] # Idle BY <1>2 DEF Idle
<1> QED BY <1>1, <1>2, <1>3 DEF Busy

(* ... started ... *)
LEMMA StartMoves ==
  ASSUME IInv, StartWorker
  PROVE  \E s \in Registered :
           /\ Busy' = Busy /\ s \in Busy /\ UNCHANGED inflight
           /\ workers'[s].st = "rollout" /\ workers'[s].tgt = workers[s].tgt
           /\ workers'[s].ver = workers[s].ver
           /\ \A r \in Slots \ {s} : workers'[r] = workers[r]
<1>1. PICK s \in Registered : workers' = [workers EXCEPT ![s].st = "rollout"]
  BY DEF StartWorker
<1>2. s \in Slots /\ workers[s].st # "idle" BY DEF Registered
<1>3. "rollout" \in WorkerStages \ {"idle"} BY DEF WorkerStages
<1>4. UNCHANGED inflight BY DEF StartWorker
<1> QED BY <1>1, <1>2, <1>3, <1>4, StageMoves

(* ... or given up. *)
LEMMA FailMoves ==
  ASSUME IInv, StartFails
  PROVE  \E s \in Registered :
           /\ Busy' = Busy \ {s} /\ s \in Busy /\ inflight' = inflight \ {s}
           /\ workers'[s] = Idle
           /\ \A r \in Slots \ {s} : workers'[r] = workers[r]
<1>1. PICK s \in Registered :
        workers' = [workers EXCEPT ![s] = Idle] /\ inflight' = inflight \ {s}
  BY DEF StartFails
<1>2. s \in Slots /\ workers[s].st # "idle" BY DEF Registered
<1>3. workers'[s] = Idle BY <1>1, <1>2, WorkersTyped
<1> QED BY <1>1, <1>2, <1>3, EndMoves

(* Steps that leave the reservations, their counters and the workers alone *)
untouched == <<generating, spawning, spawned, completed, workers>>

LEMMA LoopTyped == ASSUME IInv PROVE loop \in LoopType /\ LoopOK(loop)
BY PartsOK DEF LoopOK

(* The thread moves on without writing more than its locals and the gates. *)
LoopReads ==
  \/ FetchBatch \/ DataloaderExhausted \/ PassRefitGate \/ ReadVersion \/ ReadWatermark
  \/ LimitScan \/ LimitReached \/ PassLimitGate \/ SpawnGate

LEMMA LoopReadsAlone ==
  ASSUME IInv, LoopReads
  PROVE  /\ UNCHANGED <<untouched, outside>>
         /\ loop.pc # "off" /\ loop'.pc # "off"
         /\ loop.pc # "stopped" /\ (loop'.pc = "stopped" => loop.pc = "batch")
         /\ loop.pc \in Spawning <=> loop'.pc \in Spawning
         /\ loop.pc \notin Spawning => loop.pc \notin Holding /\ loop'.pc \notin Holding
         /\ \/ loop'.tgt = loop.tgt /\ loop'.left = loop.left
            \/ loop'.tgt = None /\ loop'.left = 0 /\ loop.pc \notin Spawning
         /\ loop.pc # "spawn" /\ loop'.pc = "spawn" => "refit" \in gates
         /\ loop.pc # "start" /\ UNCHANGED inflight
<1> USE DEF LoopReads, At, GoTo, Holding, Spawning
<1>1. loop \in LoopType BY LoopTyped
<1>2. UNCHANGED <<untouched, outside, inflight>> /\ loop.pc # "start"
  BY DEF FetchBatch, DataloaderExhausted, PassRefitGate, ReadVersion, ReadWatermark, LimitScan,
         LimitReached, PassLimitGate, SpawnGate, allButLoop, untouched, counterVars, workerVars
<1>3. CASE LimitScan BY <1>1, <1>2, <1>3 DEF LimitScan, LoopAt
<1>4. CASE FetchBatch \/ DataloaderExhausted \/ PassRefitGate \/ LimitReached \/ PassLimitGate
  BY <1>1, <1>2, <1>4
     DEF FetchBatch, DataloaderExhausted, PassRefitGate, LimitReached, PassLimitGate, LoopType
<1>5. CASE ReadVersion \/ ReadWatermark BY <1>1, <1>2, <1>5 DEF ReadVersion, ReadWatermark, LoopType
<1>6. CASE SpawnGate BY <1>1, <1>2, <1>6 DEF SpawnGate, LoopType
<1> QED BY <1>3, <1>4, <1>5, <1>6

-----------------------------------------------------------------------------
(* The mailbox: what the trainer sends, what the actor serves              *)

LEMMA TrainerSends ==
  ASSUME IInv, Trainer
  PROVE  /\ UNCHANGED <<untouched, loop, gates, draining, inflight>> /\ ~draining
         /\ tpc' # "refit"
         /\ tpc # "preparing"
         /\ \/ UNCHANGED mailbox
            \/ \E ms \in Seq(Call_) :
                 /\ mailbox' = mailbox \o ms
                 /\ \A i \in 1 .. Len(ms) :
                      /\ ms[i].op # "start"
                      /\ ms[i].op = "prepare_for_refit" => i = Len(ms)
<1>1. /\ UNCHANGED <<untouched, loop, gates, draining, inflight>>
      /\ tpc # "preparing" /\ tpc' # "refit"
  BY DEF Trainer, InitialRefit, BeginValidation, EndValidation, SkipValidation, BufferFilled,
         Sample, Train, Refit, BeginCheckpoint, FinishCheckpoint, NextStep, untouched, threadVars,
         workerVars, counterVars, actorVars
<1>2. ~draining BY <1>1 DEF IInv, MailboxOrdered
<1>3. CASE Refit
  <2> DEFINE ms == <<Msg("set", weightVersion'), Msg("resume_after_refit", None)>>
  <2>1. weightVersion' \in Versions
    BY <1>3, RefitKeeps DEF IInv, TypeOK
  <2>2. Msg("set", weightVersion') \in Call_ /\ Msg("resume_after_refit", None) \in Call_
    BY <2>1 DEF Msg, Call_, Calls
  <2>3. /\ ms \in Seq(Call_) /\ Len(ms) = 2
        /\ \A i \in 1 .. 2 : ms[i].op \in {"set", "resume_after_refit"}
    BY <2>2 DEF Msg
  <2>4. mailbox' = mailbox \o ms BY <1>3 DEF Refit, Send
  <2> QED BY <1>1, <1>2, <2>3, <2>4
<1>4. ASSUME NEW op \in Calls \ {"set", "start"}, mailbox' = mailbox \o <<Msg(op, None)>>
      PROVE  \E ms \in Seq(Call_) :
               /\ mailbox' = mailbox \o ms
               /\ \A i \in 1 .. Len(ms) :
                    /\ ms[i].op # "start"
                    /\ ms[i].op = "prepare_for_refit" => i = Len(ms)
  <2> DEFINE ms == <<Msg(op, None)>>
  <2>1. Msg(op, None) \in Call_ BY DEF Msg, Call_
  <2>2. ms \in Seq(Call_) /\ Len(ms) = 1 /\ ms[1].op = op /\ mailbox' = mailbox \o ms
    BY <1>4, <2>1 DEF Msg
  <2> HIDE DEF ms
  <2>3. \A i \in 1 .. Len(ms) : i = 1 BY <2>2
  <2> QED BY <1>4, <2>2, <2>3
<1>5. \/ Refit \/ UNCHANGED mailbox
      \/ mailbox' = mailbox \o <<Msg("pause", None)>>
      \/ mailbox' = mailbox \o <<Msg("resume", None)>>
      \/ mailbox' = mailbox \o <<Msg("prepare_for_refit", None)>>
      \/ mailbox' = mailbox \o <<Msg("get_dataloader_state", None)>>
  BY DEF Trainer, InitialRefit, BeginValidation, EndValidation, SkipValidation, BufferFilled,
         Sample, Train, BeginCheckpoint, FinishCheckpoint, NextStep, Send, actorVars
<1>6. {"pause", "resume", "prepare_for_refit", "get_dataloader_state"}
        \subseteq Calls \ {"set", "start"}
  BY DEF Calls
<1> QED BY <1>1, <1>2, <1>3, <1>4, <1>5, <1>6

(* The actor serves one call, or looks for workers it has to wait for. *)
LEMMA ActorServes ==
  ASSUME IInv, Actor
  PROVE  /\ UNCHANGED <<untouched, weightVersion, initVersion>>
         /\ \/ /\ UNCHANGED <<mailbox, loop, gates>> /\ draining
               /\ inflight' = inflight \ Registered
               /\ \/ ~draining' /\ tpc' = "refit" /\ inflight' = {}
                  \/ UNCHANGED <<draining, tpc>>
            \/ /\ mailbox # <<>> /\ ~draining /\ mailbox' = Tail(mailbox) /\ UNCHANGED inflight
               /\ "refit" \in gates \ gates' => draining' \/ InFlight
               /\ \/ loop' = loop /\ mailbox[1].op # "start"
                  \/ loop' = LoopAt("batch") /\ mailbox[1].op = "start"
               /\ "refit" \in gates' => "refit" \in gates \/ mailbox[1].op = "resume_after_refit"
               /\ \/ ~draining' /\ tpc' # "refit"
                  \/ ~draining' /\ tpc' = tpc
                  \/ /\ mailbox[1].op = "prepare_for_refit" /\ "refit" \notin gates'
                     /\ InFlight \/ tpc' # "refit"
<1>1. UNCHANGED <<untouched, weightVersion, initVersion>>
  BY DEF Actor, StartCollection, SetWeightVersion, PrepareForRefit, WaitForPendingGenerations,
         OpenOrCloseGate, GetDataloaderState, untouched, threadVars, workerVars, counterVars,
         trainerVars
<1>2. CASE WaitForPendingGenerations
  BY <1>1, <1>2 DEF WaitForPendingGenerations
<1>3. mailbox \in Seq(Call_) BY DEF IInv, TypeOK, Call_
<1>4. mailbox # <<>> => Head(mailbox) = mailbox[1] /\ 1 \in 1 .. Len(mailbox)
  BY <1>3, TailIndex
<1>5. draining \in BOOLEAN BY DEF IInv, TypeOK
<1>6. CASE StartCollection BY <1>1, <1>4, <1>5, <1>6 DEF StartCollection, Call, trainerVars, workerVars
<1>7. CASE SetWeightVersion
  BY <1>1, <1>4, <1>5, <1>7 DEF SetWeightVersion, Call, trainerVars, threadVars, workerVars
<1>8. CASE OpenOrCloseGate
  BY <1>1, <1>4, <1>5, <1>8 DEF OpenOrCloseGate, Call, trainerVars, threadVars, workerVars
<1>9. CASE GetDataloaderState
  BY <1>1, <1>4, <1>5, <1>9 DEF GetDataloaderState, Call, threadVars, workerVars
<1>10. CASE PrepareForRefit
  <2>1. tpc = "preparing"
    BY <1>4, <1>10 DEF PrepareForRefit, Call, IInv, MailboxOrdered
  <2> QED BY <1>1, <1>4, <1>5, <1>10, <2>1 DEF PrepareForRefit, Call, threadVars, workerVars
<1> QED BY <1>2, <1>6, <1>7, <1>8, <1>9, <1>10 DEF Actor
-----------------------------------------------------------------------------
(* No reservation leaks, and the counters agree                            *)

LEMMA StartsKept ==
  ASSUME IInv, StartsOnce,
         \/ UNCHANGED loop
         \/ loop.pc # "off",
         \/ UNCHANGED mailbox
         \/ \E ms \in Seq(Call_) :
              mailbox' = mailbox \o ms /\ \A i \in 1 .. Len(ms) : ms[i].op # "start"
  PROVE  StartsOnce'
<1>1. mailbox \in Seq(Call_) BY DEF IInv, TypeOK, Call_
<1>2. CASE UNCHANGED mailbox BY <1>2 DEF StartsOnce
<1>3. ASSUME NEW ms \in Seq(Call_), mailbox' = mailbox \o ms,
             \A i \in 1 .. Len(ms) : ms[i].op # "start"
      PROVE  StartsOnce'
  <2>1. /\ Len(mailbox') = Len(mailbox) + Len(ms)
        /\ \A i \in 1 .. Len(mailbox) : mailbox'[i] = mailbox[i]
        /\ \A i \in 1 .. Len(ms) : mailbox'[Len(mailbox) + i] = ms[i]
    BY <1>1, <1>3, ConcatIndex
  <2>2. Len(mailbox) \in Nat /\ Len(ms) \in Nat BY <1>1
  <2>3. ASSUME NEW i \in 1 .. Len(mailbox'), mailbox'[i].op = "start"
        PROVE  i = 1 /\ loop'.pc = "off"
    <3>1. i \in 1 .. Len(mailbox)
      <4>1. SUFFICES ASSUME i \notin 1 .. Len(mailbox) PROVE FALSE OBVIOUS
      <4>2. i - Len(mailbox) \in 1 .. Len(ms) /\ i = Len(mailbox) + (i - Len(mailbox))
        BY <2>1, <2>2, <4>1
      <4> QED BY <1>3, <2>1, <2>3, <4>2
    <3> QED BY <2>1, <2>3, <3>1 DEF StartsOnce
  <2> QED BY <2>3 DEF StartsOnce
<1> QED BY <1>2, <1>3

LEMMA StartsServed ==
  ASSUME IInv, StartsOnce, mailbox # <<>>, mailbox' = Tail(mailbox)
  PROVE  StartsOnce' /\ (mailbox[1].op = "start" => loop.pc = "off")
<1>1. mailbox \in Seq(Call_) BY DEF IInv, TypeOK, Call_
<1>2. /\ 1 \in 1 .. Len(mailbox) /\ Len(mailbox') = Len(mailbox) - 1 /\ Len(mailbox) \in Nat
      /\ \A i \in 1 .. Len(mailbox') :
           i + 1 \in 1 .. Len(mailbox) /\ mailbox'[i] = mailbox[i + 1]
  BY <1>1, TailIndex
<1>3. \A i \in 1 .. Len(mailbox') : mailbox'[i].op # "start" BY <1>2 DEF StartsOnce
<1> QED BY <1>2, <1>3 DEF StartsOnce

(* What is reserved has someone left, when its workers and the thread stay. *)
LEMMA TrackedAlike ==
  ASSUME IInv, ReservationsTracked, UNCHANGED <<workers, spawned, completed>>,
         generating' \subseteq generating,
         \A t \in generating' : loop.tgt = t => loop'.tgt = t
  PROVE  ReservationsTracked'
<1>1. UNCHANGED Busy BY DEF Busy
<1>2. NoLeakedReservation' BY <1>1 DEF ReservationsTracked, NoLeakedReservation
<1>3. CountersAgree' BY <1>1 DEF ReservationsTracked, CountersAgree
<1> QED BY <1>2, <1>3 DEF ReservationsTracked

(* A target that cannot be released is worked on, or being spawned for. *)
LEMMA HeldBack ==
  ASSUME IInv, RInv, NEW t \in TargetRange, ~Releasable(t)
  PROVE  t \in spawning \/ Uncounted(t) # {}
<1>1. spawned[t] = completed[t] + Cardinality(Uncounted(t))
  BY DEF RInv, ReservationsTracked, CountersAgree, Uncounted
<1>2. spawned[t] \in Nat /\ completed[t] \in Nat BY DEF IInv, TypeOK
<1>3. Uncounted(t) = {} => Cardinality(Uncounted(t)) = 0 BY FS_EmptySet
<1> QED BY <1>1, <1>2, <1>3 DEF Releasable

(* A target that can be released has no worker left to be counted. *)
LEMMA AllCounted ==
  ASSUME IInv, RInv, NEW t \in TargetRange, Releasable(t)
  PROVE  Uncounted(t) = {} /\ t \notin spawning
<1>1. spawned[t] = completed[t] + Cardinality(Uncounted(t))
  BY DEF RInv, ReservationsTracked, CountersAgree, Uncounted
<1>2. spawned[t] \in Nat /\ completed[t] \in Nat BY DEF IInv, TypeOK
<1>3. Uncounted(t) \in SUBSET Slots BY DEF Uncounted, Busy
<1>4. Cardinality(Uncounted(t)) = 0 BY <1>1, <1>2, <1>3, SlotSets DEF Releasable
<1> QED BY <1>3, <1>4, SlotSets DEF Releasable

(* Both counters of such a target may go back to zero. *)
LEMMA DropKeepsCounters ==
  ASSUME IInv, RInv, NEW t \in TargetRange, Releasable(t), DropCounters(t),
         \A u \in TargetRange : Uncounted(u)' = Uncounted(u)
  PROVE  CountersAgree'
<1> SUFFICES ASSUME NEW u \in TargetRange
             PROVE  spawned'[u] = completed'[u] + Cardinality(Uncounted(u)')
  BY DEF CountersAgree, Uncounted
<1>1. spawned \in [TargetRange -> Nat] /\ completed \in [TargetRange -> Nat]
  BY DEF IInv, TypeOK
<1>2. spawned[u] = completed[u] + Cardinality(Uncounted(u))
  BY DEF RInv, ReservationsTracked, CountersAgree, Uncounted
<1>3. CASE u = t
  <2>1. spawned'[t] = 0 /\ completed'[t] = 0 BY <1>1 DEF DropCounters
  <2>2. Cardinality(Uncounted(t)) = 0 BY AllCounted, FS_EmptySet
  <2> QED BY <1>3, <2>1, <2>2
<1>4. CASE u # t
  <2>1. spawned'[u] = spawned[u] /\ completed'[u] = completed[u] BY <1>1, <1>4 DEF DropCounters
  <2> QED BY <1>2, <2>1
<1> QED BY <1>3, <1>4

(* Nobody is registered while the thread is elsewhere. *)
LEMMA LaunchingKept ==
  ASSUME Launching, UNCHANGED loop \/ loop.pc # "start",
         \A s \in Registered' : s \in Registered /\ workers'[s] = workers[s]
  PROVE  Launching'
BY DEF Launching

LEMMA LaunchingAlike ==
  ASSUME Launching, UNCHANGED workers, UNCHANGED loop \/ loop.pc # "start"
  PROVE  Launching'
BY LaunchingKept DEF Registered

LEMMA InitRInv == Init => RInv /\ RefitClosed
<1> SUFFICES ASSUME Init PROVE RInv /\ RefitClosed OBVIOUS
<1>1. Busy = {} /\ loop = LoopAt("off") /\ generating = {} /\ spawning = {} BY DEF Init, Busy
<1>2. mailbox = <<[op |-> "start", v |-> None], [op |-> "set", v |-> 0]>>
  BY DEF Init, BootMail, Msg
<1>3. LoopHolds BY <1>1, <1>2 DEF LoopHolds, StartsOnce, LoopAt
<1>4. CountersAgree
  <2>1. \A t \in TargetRange : spawned[t] = 0 /\ completed[t] = 0 BY DEF Init, NoCounts
  <2> QED BY <1>1, <2>1, FS_EmptySet DEF CountersAgree
<1>5. NoLeakedReservation BY <1>1 DEF NoLeakedReservation
<1>6. RefitClosed BY <1>2 DEF RefitClosed, Init
<1>7. Launching BY DEF Init, Launching, Registered, Idle
<1> QED BY <1>3, <1>4, <1>5, <1>6, <1>7 DEF RInv, ReservationsTracked
LEMMA LoopReadsKeepR == ASSUME IInv, RInv, LoopReads PROVE RInv'
<1>1. /\ UNCHANGED <<untouched, mailbox>> /\ loop.pc # "off"
      /\ loop.pc \in Spawning <=> loop'.pc \in Spawning
      /\ loop.pc \notin Spawning => loop.pc \notin Holding /\ loop'.pc \notin Holding
      /\ \/ loop'.tgt = loop.tgt
         \/ loop'.tgt = None /\ loop.pc \notin Spawning
  BY LoopReadsAlone DEF outside, actorVars
<1>2. StartsOnce' BY <1>1, StartsKept DEF RInv, LoopHolds
<1>3. LoopHolds' BY <1>1, <1>2 DEF RInv, LoopHolds, untouched, Holding, Spawning
<1>4. loop.pc \notin Holding => loop.tgt = None BY DEF RInv, LoopHolds
<1>5. \A t \in generating : t # None
  BY DEF IInv, TypeOK, TargetRange, None
<1>6. ReservationsTracked' BY <1>1, <1>4, <1>5, TrackedAlike DEF RInv, untouched
<1>7. Launching' BY <1>1, LoopReadsAlone, LaunchingAlike DEF RInv, untouched
<1> QED BY <1>3, <1>6, <1>7 DEF RInv

LEMMA ReserveKeepsR == ASSUME IInv, RInv, ReserveTarget PROVE RInv'
<1>1. /\ UNCHANGED <<spawning, spawned, completed, workers, mailbox>> /\ loop.pc = "reserve"
  BY DEF ReserveTarget, counterVars, workerVars, outside, actorVars, At
<1>2. loop.tgt = None /\ spawning = {} BY <1>1 DEF RInv, LoopHolds, Holding, Spawning
<1>3. StartsOnce' BY <1>1, StartsKept DEF RInv, LoopHolds
<1>4. \A t \in generating : t # None BY DEF IInv, TypeOK, TargetRange, None
<1>7. Launching' BY <1>1, LaunchingAlike DEF RInv
<1>5. CASE loop' = LoopAt("batch") /\ UNCHANGED generating
  <2>1. LoopHolds' BY <1>1, <1>2, <1>3, <1>5 DEF LoopHolds, LoopAt
  <2> QED BY <1>1, <1>2, <1>4, <1>5, <1>7, <2>1, TrackedAlike DEF RInv
<1>6. CASE \E t \in TargetWeights(loop.gv) :
             /\ generating' = generating \cup {t}
             /\ loop' = [loop EXCEPT !.pc = "open", !.tgt = t, !.lw = None]
  <2>1. PICK t \in TargetWeights(loop.gv) :
             /\ generating' = generating \cup {t}
             /\ loop' = [loop EXCEPT !.pc = "open", !.tgt = t, !.lw = None]
    BY <1>6
  <2>2. loop'.tgt = t /\ loop'.pc = "open" BY <2>1, LoopTyped DEF LoopType
  <2>3. LoopHolds' BY <1>1, <1>2, <1>3, <2>2 DEF LoopHolds, Holding
  <2>4. UNCHANGED Busy BY <1>1 DEF Busy
  <2>5. CountersAgree' BY <1>1, <2>4 DEF RInv, ReservationsTracked, CountersAgree
  <2>6. NoLeakedReservation'
    BY <1>1, <1>2, <1>4, <2>1, <2>2, <2>4 DEF RInv, ReservationsTracked, NoLeakedReservation
  <2> QED BY <1>7, <2>3, <2>5, <2>6 DEF RInv, ReservationsTracked
<1> QED BY <1>5, <1>6 DEF ReserveTarget

LEMMA OpenKeepsR == ASSUME IInv, RInv, OpenSpawning PROVE RInv'
<1>1. /\ UNCHANGED <<spawned, completed, workers, mailbox>> /\ loop.pc = "open"
      /\ \/ /\ generating' = generating \ {loop.tgt} /\ loop' = LoopAt("batch")
            /\ UNCHANGED spawning
         \/ /\ UNCHANGED generating /\ spawning' = spawning \cup {loop.tgt}
            /\ loop'.pc = "spawnGate" /\ loop'.tgt = loop.tgt
  BY LoopTyped DEF OpenSpawning, outside, actorVars, workerVars, At, LoopType
<1>2. spawning = {} BY <1>1 DEF RInv, LoopHolds, Spawning
<1>3. StartsOnce' BY <1>1, StartsKept DEF RInv, LoopHolds
<1>4. LoopHolds' BY <1>1, <1>2, <1>3 DEF LoopHolds, LoopAt, Holding, Spawning
<1>5. \A t \in generating' : loop.tgt = t => loop'.tgt = t BY <1>1
<1>6. Launching' BY <1>1, LaunchingAlike DEF RInv
<1> QED BY <1>1, <1>4, <1>5, <1>6, TrackedAlike DEF RInv

LEMMA RegisterKeepsR == ASSUME IInv, RInv, RegisterWorker PROVE RInv'
<1>1. /\ UNCHANGED <<generating, spawning, completed, mailbox>> /\ loop.pc = "spawn"
      /\ spawned' = [spawned EXCEPT ![loop.tgt] = @ + 1]
      /\ loop'.tgt = loop.tgt /\ loop'.gv = loop.gv /\ loop'.pc = "start"
  BY LoopTyped DEF RegisterWorker, GoTo, outside, actorVars, At, LoopType
<1>2. PICK s \in Slots :
        /\ s \notin Busy /\ Busy' = Busy \cup {s}
        /\ workers'[s].st = "registered" /\ workers'[s].tgt = loop.tgt
        /\ workers'[s].ver = loop.gv
        /\ \A r \in Slots \ {s} : workers'[r] = workers[r]
  BY RegisterMoves
<1>3. loop.tgt \in TargetRange
  BY <1>1, LoopTyped DEF LoopOK, LoopType, Holding, Spawning
<1>4. StartsOnce' BY <1>1, StartsKept DEF RInv, LoopHolds
<1>5. LoopHolds' BY <1>1, <1>4 DEF RInv, LoopHolds, Spawning, Holding
<1>6. NoLeakedReservation'
  BY <1>1, <1>2 DEF RInv, ReservationsTracked, NoLeakedReservation, Busy
<1>7. ASSUME NEW t \in TargetRange
      PROVE  spawned'[t] = completed'[t] + Cardinality(Uncounted(t)')
  <2>1. spawned[t] = completed[t] + Cardinality(Uncounted(t))
    BY DEF RInv, ReservationsTracked, CountersAgree, Uncounted
  <2>2. spawned \in [TargetRange -> Nat] /\ completed \in [TargetRange -> Nat]
    BY DEF IInv, TypeOK
  <2>3. Uncounted(t) \in SUBSET Slots /\ s \notin Uncounted(t) BY <1>2 DEF Uncounted, Busy
  <2>4. IsFiniteSet(Uncounted(t)) /\ Cardinality(Uncounted(t)) \in Nat BY <2>3, SlotSets
  <2>5. CASE t = loop.tgt
    <3>1. Uncounted(t)' = Uncounted(t) \cup {s} BY <1>2, <2>5 DEF Uncounted, Busy
    <3>2. Cardinality(Uncounted(t)') = Cardinality(Uncounted(t)) + 1
      BY <2>3, <2>4, <3>1, FS_AddElement
    <3>3. spawned'[t] = spawned[t] + 1 /\ completed'[t] = completed[t]
      BY <1>1, <2>2, <2>5
    <3>4. completed[t] \in Nat /\ spawned[t] \in Nat BY <2>2
    <3> QED BY <2>1, <2>4, <3>2, <3>3, <3>4
  <2>6. CASE t # loop.tgt
    <3>1. Uncounted(t)' = Uncounted(t) BY <1>2, <2>6 DEF Uncounted, Busy
    <3>2. spawned'[t] = spawned[t] /\ completed'[t] = completed[t]
      BY <1>1, <2>2, <2>6
    <3> QED BY <2>1, <3>1, <3>2
  <2> QED BY <2>5, <2>6
<1>8. CountersAgree' BY <1>7 DEF CountersAgree, Uncounted
<1>9. Registered = {} BY <1>1 DEF RInv, Launching
<1>10. Registered' = {s} BY <1>2, <1>9 DEF Registered
<1>11. Launching' BY <1>1, <1>2, <1>10 DEF Launching
<1> QED BY <1>5, <1>6, <1>8, <1>11 DEF RInv, ReservationsTracked

LEMMA StartKeepsR == ASSUME IInv, RInv, StartWorker PROVE RInv'
<1>1. /\ UNCHANGED <<generating, spawning, spawned, completed, mailbox>> /\ loop.pc = "start"
      /\ loop'.tgt = loop.tgt /\ loop'.pc \in {"close", "spawnGate"}
  BY LoopTyped DEF StartWorker, outside, actorVars, counterVars, At, LoopType
<1>2. PICK s \in Registered :
        /\ Busy' = Busy /\ s \in Busy
        /\ workers'[s].st = "rollout" /\ workers'[s].tgt = workers[s].tgt
        /\ \A r \in Slots \ {s} : workers'[r] = workers[r]
  BY StartMoves
<1>3. StartsOnce' BY <1>1, StartsKept DEF RInv, LoopHolds
<1>4. LoopHolds' BY <1>1, <1>3 DEF RInv, LoopHolds, Spawning, Holding
<1>5. NoLeakedReservation'
  BY <1>1, <1>2 DEF RInv, ReservationsTracked, NoLeakedReservation, Busy
<1>6. \A t : Uncounted(t)' = Uncounted(t) BY <1>2 DEF Uncounted, Busy, Registered
<1>7. CountersAgree' BY <1>1, <1>6 DEF RInv, ReservationsTracked, CountersAgree, Uncounted
<1>8. Registered = {s} BY DEF RInv, Launching
<1>9. Registered' = {} BY <1>2, <1>8 DEF Registered
<1>10. Launching' BY <1>9 DEF Launching
<1> QED BY <1>4, <1>5, <1>7, <1>10 DEF RInv, ReservationsTracked

(* A start that raises takes back the count and leaves the target with the *)
(* thread.                                                                 *)
LEMMA FailKeepsR == ASSUME IInv, RInv, StartFails PROVE RInv'
<1>1. /\ UNCHANGED <<generating, spawning, completed, mailbox>> /\ loop.pc = "start"
      /\ spawned' = [spawned EXCEPT ![loop.tgt] = IF @ > 0 THEN @ - 1 ELSE 0]
      /\ loop'.tgt = loop.tgt /\ loop'.pc = "close"
  BY LoopTyped DEF StartFails, outside, actorVars, At, LoopType
<1>2. PICK s \in Registered :
        /\ Busy' = Busy \ {s} /\ s \in Busy
        /\ workers'[s] = Idle
        /\ \A r \in Slots \ {s} : workers'[r] = workers[r]
  BY FailMoves
<1>3. workers[s].tgt = loop.tgt /\ Registered = {s} BY DEF RInv, Launching
<1>4. loop.tgt \in TargetRange
  BY <1>1, LoopTyped DEF LoopOK, LoopType, Holding, Spawning
<1>5. StartsOnce' BY <1>1, StartsKept DEF RInv, LoopHolds
<1>6. LoopHolds' BY <1>1, <1>5 DEF RInv, LoopHolds, Spawning, Holding
<1>7. NoLeakedReservation'
  BY <1>1, <1>2, <1>3 DEF RInv, ReservationsTracked, NoLeakedReservation, Busy
<1>8. ASSUME NEW t \in TargetRange
      PROVE  spawned'[t] = completed'[t] + Cardinality(Uncounted(t)')
  <2>1. spawned[t] = completed[t] + Cardinality(Uncounted(t))
    BY DEF RInv, ReservationsTracked, CountersAgree, Uncounted
  <2>2. spawned \in [TargetRange -> Nat] /\ completed \in [TargetRange -> Nat]
    BY DEF IInv, TypeOK
  <2>3. Uncounted(t) \in SUBSET Slots BY DEF Uncounted, Busy
  <2>4. IsFiniteSet(Uncounted(t)) /\ Cardinality(Uncounted(t)) \in Nat BY <2>3, SlotSets
  <2>5. CASE t = loop.tgt
    <3>1. Uncounted(t)' = Uncounted(t) \ {s} /\ s \in Uncounted(t)
      BY <1>2, <1>3, <2>5 DEF Uncounted, Busy, Registered
    <3>2. Cardinality(Uncounted(t)') = Cardinality(Uncounted(t)) - 1
      <4>1. Cardinality(Uncounted(t) \ {s}) = Cardinality(Uncounted(t)) - 1
        BY <2>4, <3>1, FS_RemoveElement
      <4> QED BY <3>1, <4>1
    <3>3. Cardinality(Uncounted(t)) # 0 BY <2>3, <3>1, SlotSets
    <3>4. completed[t] \in Nat /\ spawned[t] \in Nat /\ completed'[t] = completed[t]
      BY <1>1, <2>2
    <3>5. spawned'[t] = IF spawned[t] > 0 THEN spawned[t] - 1 ELSE 0
      BY <1>1, <2>2, <2>5
    <3> QED BY <2>1, <2>4, <3>2, <3>3, <3>4, <3>5
  <2>6. CASE t # loop.tgt
    <3>1. Uncounted(t)' = Uncounted(t) BY <1>2, <1>3, <2>6 DEF Uncounted, Busy
    <3>2. spawned'[t] = spawned[t] /\ completed'[t] = completed[t]
      BY <1>1, <2>2, <2>6
    <3> QED BY <2>1, <3>1, <3>2
  <2> QED BY <2>5, <2>6
<1>9. CountersAgree' BY <1>8 DEF CountersAgree, Uncounted
<1>10. Registered' = {} BY <1>2, <1>3 DEF Registered, Idle
<1>11. Launching' BY <1>10 DEF Launching
<1> QED BY <1>6, <1>7, <1>9, <1>11 DEF RInv, ReservationsTracked

LEMMA CloseKeepsR == ASSUME IInv, RInv, CloseSpawning PROVE RInv'
<1>1. /\ UNCHANGED <<generating, spawned, completed, workers, mailbox>>
      /\ loop'.tgt = loop.tgt
      /\ loop.pc = "close" /\ loop'.pc = "release" /\ spawning' = spawning \ {loop.tgt}
  BY LoopTyped DEF CloseSpawning, GoTo, At, outside, actorVars, workerVars, LoopType
<1>2. StartsOnce' BY <1>1, StartsKept DEF RInv, LoopHolds
<1>3. LoopHolds' BY <1>1, <1>2 DEF RInv, LoopHolds, Spawning, Holding
<1>4. Launching' BY <1>1, LaunchingAlike DEF RInv
<1> QED BY <1>1, <1>3, <1>4, TrackedAlike DEF RInv

(* What AfterRelease does to the thread *)
LEMMA AfterReleaseMoves ==
  ASSUME IInv
  PROVE  \/ AfterRelease.pc = "close" /\ AfterRelease.tgt = loop.tgt
         \/ AfterRelease = LoopAt("batch")
BY LoopTyped DEF AfterRelease, LoopType

LEMMA ReleaseKeepsR == ASSUME IInv, RInv, LoopRelease PROVE RInv'
<1> DEFINE t == loop.tgt
<1>1. UNCHANGED <<generating, spawning, workers, mailbox>> /\ loop.pc = "release"
  BY DEF LoopRelease, outside, actorVars, workerVars, At
<1>2. t \in TargetRange BY <1>1, LoopTyped DEF LoopOK, LoopType, Holding
<1>3. spawning = {} BY <1>1 DEF RInv, LoopHolds, Spawning
<1>4. StartsOnce' BY <1>1, StartsKept DEF RInv, LoopHolds
<1>5. UNCHANGED Busy BY <1>1 DEF Busy
<1>8. Launching' BY <1>1, LaunchingAlike DEF RInv
<1>6. CASE Releasable(t)
  <2>1. DropCounters(t) /\ loop'.pc = "discard" /\ loop'.tgt = t
    BY <1>6, LoopTyped DEF LoopRelease, GoTo, LoopType
  <2>2. LoopHolds' BY <1>1, <1>3, <1>4, <2>1 DEF LoopHolds, Holding
  <2>3. NoLeakedReservation'
    BY <1>1, <1>5, <2>1 DEF RInv, ReservationsTracked, NoLeakedReservation
  <2>4. \A u \in TargetRange : Uncounted(u)' = Uncounted(u) BY <1>1, <1>5 DEF Uncounted
  <2>5. CountersAgree' BY <1>2, <1>6, <2>1, <2>4, DropKeepsCounters
  <2> QED BY <1>8, <2>2, <2>3, <2>5 DEF RInv, ReservationsTracked
<1>7. CASE ~Releasable(t)
  <2>1. loop' = AfterRelease /\ UNCHANGED <<spawned, completed>> BY <1>7 DEF LoopRelease
  <2>2. PICK s : s \in Uncounted(t) BY <1>2, <1>3, <1>7, HeldBack
  <2>3. (loop'.pc = "close" /\ loop'.tgt = t) \/ loop' = LoopAt("batch")
    BY <2>1, AfterReleaseMoves
  <2>4. LoopHolds' BY <1>1, <1>3, <1>4, <2>3 DEF LoopHolds, LoopAt, Holding
  <2>5. NoLeakedReservation'
    BY <1>1, <1>5, <2>2, <2>3
       DEF RInv, ReservationsTracked, NoLeakedReservation, Uncounted
  <2>6. CountersAgree' BY <1>1, <1>5, <2>1 DEF RInv, ReservationsTracked, CountersAgree
  <2> QED BY <1>8, <2>4, <2>5, <2>6 DEF RInv, ReservationsTracked
<1> QED BY <1>6, <1>7

LEMMA DiscardKeepsR == ASSUME IInv, RInv, LoopDiscard PROVE RInv'
<1>1. /\ UNCHANGED <<spawning, spawned, completed, workers, mailbox>> /\ loop.pc = "discard"
      /\ generating' = generating \ {loop.tgt} /\ loop' = AfterRelease
  BY DEF LoopDiscard, outside, actorVars, counterVars, workerVars, At
<1>2. spawning = {} BY <1>1 DEF RInv, LoopHolds, Spawning
<1>3. StartsOnce' BY <1>1, StartsKept DEF RInv, LoopHolds
<1>4. (loop'.pc = "close" /\ loop'.tgt = loop.tgt) \/ loop' = LoopAt("batch")
  BY <1>1, AfterReleaseMoves
<1>5. LoopHolds' BY <1>1, <1>2, <1>3, <1>4 DEF LoopHolds, LoopAt, Holding
<1>6. Launching' BY <1>1, LaunchingAlike DEF RInv
<1> QED BY <1>1, <1>5, <1>6, TrackedAlike DEF RInv

-----------------------------------------------------------------------------
LEMMA WorkerKeepsR == ASSUME IInv, RInv, NEW s \in Slots, Worker(s) PROVE RInv'
<1> DEFINE t == workers[s].tgt
<1>1. UNCHANGED <<loop, mailbox, spawning>>
  BY DEF Worker, Rollout, Push, CountCompleted, WorkerRelease, WorkerDiscard, outside, actorVars,
         counterVars
<1>2. LoopHolds' BY <1>1, StartsKept DEF RInv, LoopHolds
<1>8. Launching'
  <2>1. PICK to \in WorkerStages \ {"idle", "registered"} :
          /\ workers[s].st \notin {"idle", "registered"}
          /\ \/ workers' = [workers EXCEPT ![s].st = to]
             \/ workers' = [workers EXCEPT ![s] = Idle]
    BY DEF Worker, Rollout, Push, CountCompleted, WorkerRelease, WorkerDiscard, Stage, Ends,
           WorkerStages
  <2>2. workers'[s].st # "registered" /\ \A r \in Slots \ {s} : workers'[r] = workers[r]
    BY <2>1, WorkersTyped DEF Idle
  <2>3. \A r \in Registered' : r \in Registered /\ workers'[r] = workers[r]
    BY <2>2 DEF Registered
  <2> QED BY <1>1, <2>3, LaunchingKept DEF RInv
<1>3. /\ spawned \in [TargetRange -> Nat] /\ completed \in [TargetRange -> Nat]
  BY DEF IInv, TypeOK
<1>4. CASE Rollout(s) \/ Push(s)
  <2>1. PICK to \in {"push", "count"} :
          workers[s].st \in {"rollout", "push"} /\ workers' = [workers EXCEPT ![s].st = to]
    BY <1>4 DEF Rollout, Push, Stage
  <2>2. UNCHANGED <<generating, spawned, completed>>
    BY <1>4 DEF Rollout, Push, counterVars
  <2>3. /\ Busy' = Busy /\ workers'[s].st = to /\ workers'[s].tgt = t
        /\ \A r \in Slots \ {s} : workers'[r] = workers[r]
    BY <2>1, StageMoves DEF WorkerStages
  <2>4. \A u : Uncounted(u)' = Uncounted(u) BY <2>1, <2>3 DEF Uncounted, Busy
  <2>5. CountersAgree' BY <2>2, <2>4 DEF RInv, ReservationsTracked, CountersAgree, Uncounted
  <2>6. NoLeakedReservation'
    BY <1>1, <2>2, <2>3 DEF RInv, ReservationsTracked, NoLeakedReservation, Busy
  <2> QED BY <1>2, <1>8, <2>5, <2>6 DEF RInv, ReservationsTracked
<1>5. CASE CountCompleted(s)
  <2>1. /\ workers[s].st = "count" /\ workers' = [workers EXCEPT ![s].st = "release"]
        /\ UNCHANGED <<generating, spawned>> /\ completed' = [completed EXCEPT ![t] = @ + 1]
    BY <1>5 DEF CountCompleted, Stage
  <2>2. /\ Busy' = Busy /\ s \in Busy /\ workers'[s].st = "release" /\ workers'[s].tgt = t
        /\ \A r \in Slots \ {s} : workers'[r] = workers[r]
    BY <2>1, StageMoves DEF WorkerStages
  <2>3. t \in TargetRange BY <2>2, WorkersTyped
  <2>4. ASSUME NEW u \in TargetRange
        PROVE  spawned'[u] = completed'[u] + Cardinality(Uncounted(u)')
    <3>1. spawned[u] = completed[u] + Cardinality(Uncounted(u))
      BY DEF RInv, ReservationsTracked, CountersAgree, Uncounted
    <3>2. Uncounted(u) \in SUBSET Slots BY DEF Uncounted, Busy
    <3>3. IsFiniteSet(Uncounted(u)) /\ Cardinality(Uncounted(u)) \in Nat BY <3>2, SlotSets
    <3>4. CASE u = t
      <4>1. Uncounted(t)' = Uncounted(t) \ {s} /\ s \in Uncounted(t)
        BY <2>1, <2>2 DEF Uncounted, Busy
      <4>2. Cardinality(Uncounted(t)') = Cardinality(Uncounted(t)) - 1
        <5>1. IsFiniteSet(Uncounted(t)) BY <3>3, <3>4
        <5>2. Cardinality(Uncounted(t) \ {s}) = Cardinality(Uncounted(t)) - 1
          BY <4>1, <5>1, FS_RemoveElement
        <5> QED BY <4>1, <5>2
      <4>3. completed'[t] = completed[t] + 1 /\ completed[t] \in Nat BY <1>3, <2>1, <2>3
      <4> QED BY <2>1, <3>1, <3>3, <3>4, <4>2, <4>3
    <3>5. CASE u # t
      <4>1. Uncounted(u)' = Uncounted(u) BY <2>1, <2>2, <3>5 DEF Uncounted, Busy
      <4>2. completed'[u] = completed[u] BY <1>3, <2>1, <3>5
      <4> QED BY <2>1, <3>1, <4>1, <4>2
    <3> QED BY <3>4, <3>5
  <2>5. CountersAgree' BY <2>4 DEF CountersAgree, Uncounted
  <2>6. NoLeakedReservation'
    BY <1>1, <2>1, <2>2 DEF RInv, ReservationsTracked, NoLeakedReservation, Busy
  <2> QED BY <1>2, <1>8, <2>5, <2>6 DEF RInv, ReservationsTracked
<1>6. CASE WorkerRelease(s) /\ Releasable(t)
  <2>1. /\ workers[s].st = "release" /\ workers' = [workers EXCEPT ![s].st = "discard"]
        /\ UNCHANGED generating /\ DropCounters(t)
    BY <1>6 DEF WorkerRelease, Stage
  <2>2. /\ Busy' = Busy /\ s \in Busy /\ workers'[s].st = "discard" /\ workers'[s].tgt = t
        /\ \A r \in Slots \ {s} : workers'[r] = workers[r]
    BY <2>1, StageMoves DEF WorkerStages
  <2>3. t \in TargetRange BY <2>2, WorkersTyped
  <2>4. \A u \in TargetRange : Uncounted(u)' = Uncounted(u) BY <2>1, <2>2 DEF Uncounted, Busy
  <2>5. CountersAgree' BY <1>6, <2>1, <2>3, <2>4, DropKeepsCounters
  <2>6. NoLeakedReservation'
    BY <1>1, <2>1, <2>2 DEF RInv, ReservationsTracked, NoLeakedReservation, Busy
  <2> QED BY <1>2, <1>8, <2>5, <2>6 DEF RInv, ReservationsTracked
<1>7. CASE (WorkerRelease(s) /\ ~Releasable(t)) \/ WorkerDiscard(s)
  <2>1. /\ workers[s].st \in {"release", "discard"} /\ workers' = [workers EXCEPT ![s] = Idle]
        /\ UNCHANGED <<spawned, completed>>
        /\ \/ UNCHANGED generating /\ ~Releasable(t)
           \/ generating' = generating \ {t}
    BY <1>7 DEF WorkerRelease, WorkerDiscard, Ends, counterVars
  <2>2. /\ Busy' = Busy \ {s} /\ s \in Busy
        /\ \A r \in Slots \ {s} : workers'[r] = workers[r]
    BY <2>1, EndMoves
  <2>3. t \in TargetRange BY <2>2, WorkersTyped
  <2>4. \A u \in TargetRange : Uncounted(u)' = Uncounted(u) /\ s \notin Uncounted(u)
    BY <2>1, <2>2 DEF Uncounted, Busy
  <2>5. CountersAgree' BY <2>1, <2>4 DEF RInv, ReservationsTracked, CountersAgree, Uncounted
  <2>6. \A u \in generating' : u # t => loop.tgt = u \/ \E r \in Busy' : workers'[r].tgt = u
    BY <2>1, <2>2 DEF RInv, ReservationsTracked, NoLeakedReservation, Busy
  <2>7. t \in generating' => loop.tgt = t \/ \E r \in Busy' : workers'[r].tgt = t
    <3>1. SUFFICES ASSUME ~Releasable(t)
                   PROVE  loop.tgt = t \/ \E r \in Busy' : workers'[r].tgt = t
      BY <2>1
    <3>2. CASE t \in spawning BY <3>2 DEF RInv, LoopHolds
    <3>3. CASE Uncounted(t) # {}
      <4>1. PICK r : r \in Uncounted(t) BY <3>3
      <4>2. r \in Busy /\ r # s /\ r \in Slots /\ workers[r].tgt = t
        BY <2>3, <2>4, <4>1 DEF Uncounted, Busy
      <4> QED BY <2>2, <4>2
    <3> QED BY <2>3, <3>1, <3>2, <3>3, HeldBack
  <2>8. NoLeakedReservation' BY <1>1, <2>6, <2>7 DEF NoLeakedReservation
  <2> QED BY <1>2, <1>8, <2>5, <2>8 DEF RInv, ReservationsTracked
<1> QED BY <1>4, <1>5, <1>6, <1>7 DEF Worker

LEMMA CrashKeepsR == ASSUME CrashAndRestart PROVE RInv' /\ RefitClosed'
<1>1. /\ workers' = [w \in Slots |-> Idle] /\ loop' = LoopAt("off")
      /\ generating' = {} /\ spawning' = {} /\ spawned' = NoCounts /\ completed' = NoCounts
      /\ mailbox' = <<[op |-> "start", v |-> None], [op |-> "set", v |-> saved.step]>>
      /\ draining' = FALSE /\ tpc' = "setup"
  BY DEF CrashAndRestart, BootMail, Msg
<1>2. Busy' = {} BY <1>1 DEF Busy
<1>3. LoopHolds' BY <1>1 DEF LoopHolds, StartsOnce, LoopAt
<1>4. CountersAgree'
  <2>1. \A t \in TargetRange : spawned'[t] = 0 /\ completed'[t] = 0 BY <1>1 DEF NoCounts
  <2> QED BY <1>2, <2>1, FS_EmptySet DEF CountersAgree
<1>5. NoLeakedReservation' BY <1>1 DEF NoLeakedReservation
<1>6. RefitClosed' BY <1>1 DEF RefitClosed
<1>7. Launching' BY <1>1 DEF Launching, Registered, Idle
<1> QED BY <1>3, <1>4, <1>5, <1>6, <1>7 DEF RInv, ReservationsTracked

LEMMA TrainerKeepsR == ASSUME IInv, RInv, Trainer PROVE RInv'
<1>1. UNCHANGED <<untouched, loop>> BY TrainerSends
<1>2. StartsOnce'
  <2>1. CASE UNCHANGED mailbox BY <1>1, <2>1, StartsKept DEF RInv, LoopHolds
  <2>2. CASE ~UNCHANGED mailbox
    <3>1. \E ms \in Seq(Call_) :
             mailbox' = mailbox \o ms /\ \A i \in 1 .. Len(ms) : ms[i].op # "start"
      BY <2>2, TrainerSends
    <3> QED BY <1>1, <3>1, StartsKept DEF RInv, LoopHolds
  <2> QED BY <2>1, <2>2
<1>3. LoopHolds' BY <1>1, <1>2 DEF RInv, LoopHolds, untouched
<1>4. Launching' BY <1>1, LaunchingAlike DEF RInv, untouched
<1> QED BY <1>1, <1>3, <1>4, TrackedAlike DEF RInv, untouched

LEMMA ActorKeepsR == ASSUME IInv, RInv, Actor PROVE RInv'
<1>1. UNCHANGED untouched BY ActorServes
<1>2. /\ StartsOnce'
      /\ loop' = loop \/ (loop' = LoopAt("batch") /\ loop.pc = "off")
  BY ActorServes, StartsServed, StartsKept DEF RInv, LoopHolds, StartsOnce
<1>3. loop.pc = "off" => loop.tgt = None /\ spawning = {}
  BY DEF RInv, LoopHolds, Holding, Spawning
<1>4. LoopHolds' BY <1>1, <1>2, <1>3 DEF RInv, LoopHolds, untouched, LoopAt
<1>5. \A t \in generating : t # None BY DEF IInv, TypeOK, TargetRange, None
<1>6. Launching' BY <1>1, <1>2, LaunchingAlike DEF RInv, untouched
<1> QED BY <1>1, <1>2, <1>3, <1>4, <1>5, <1>6, TrackedAlike DEF RInv, untouched

LEMMA StepKeepsR == ASSUME IInv, RInv, [Next]_vars PROVE RInv'
<1>1. CASE UNCHANGED vars
  BY <1>1 DEF vars, actorVars, threadVars, workerVars, counterVars, RInv, LoopHolds, StartsOnce,
              Launching, Registered, ReservationsTracked, NoLeakedReservation, CountersAgree, Busy
<1>2. CASE CollectionLoop
  BY <1>2, LoopReadsKeepR, ReserveKeepsR, OpenKeepsR, RegisterKeepsR, StartKeepsR,
     FailKeepsR, CloseKeepsR, ReleaseKeepsR, DiscardKeepsR DEF CollectionLoop, LoopReads
<1> QED BY <1>1, <1>2, TrainerKeepsR, ActorKeepsR, WorkerKeepsR, CrashKeepsR DEF Next, Finished

(* Tracked: no reservation of a target outlives every thread that could    *)
(* release it, and _maybe_release_target counts right, through failures of *)
(* rollouts and thread starts, double releases and re-reservations.        *)
THEOREM Tracked == Spec => []ReservationsTracked
<1>1. Init => RInv BY InitRInv
<1>2. IInv /\ RInv /\ [Next]_vars => RInv' BY StepKeepsR
<1>3. RInv => ReservationsTracked BY DEF RInv
<1> QED BY <1>1, <1>2, <1>3, InvariantHolds, PTL DEF Spec

(* LabelsTrail: a worker that _process_batch starts after the first refit  *)
(* never carries a version newer than the weights in the engine: it copies *)
(* current_weight_version, set only from what the trainer announced.       *)
THEOREM LabelsTrail == Spec => LabelNotAhead
<1> DEFINE Trails ==
      \A s \in Slots :
        workers[s].st = "registered" /\ workers'[s].st = "rollout" /\ genWeights # Unloaded
          => workers'[s].ver <= genWeights
<1>1. ASSUME IInv, RInv, Next PROVE Trails
  <2>1. SUFFICES ASSUME NEW s \in Slots, workers[s].st = "registered",
                        workers'[s].st = "rollout", genWeights # Unloaded
                 PROVE  workers'[s].ver <= genWeights
    OBVIOUS
  <2>2. workers \in [Slots -> [st : WorkerStages, ver : Versions \cup {None},
                               tgt : TargetRange \cup {None}]]
    BY <1>1 DEF IInv, TypeOK
  <2>3. Idle.st = "idle" BY DEF Idle
  <2>4. CASE Trainer \/ Actor \/ Finished \/ (CollectionLoop /\ ~Launches)
    <3>1. workers' = workers
      BY <2>4 DEF Trainer, InitialRefit, BeginValidation, EndValidation, SkipValidation,
           BufferFilled, Sample, Train, Refit, BeginCheckpoint, FinishCheckpoint, NextStep,
           Actor, StartCollection, SetWeightVersion, PrepareForRefit,
           WaitForPendingGenerations, OpenOrCloseGate, GetDataloaderState, Finished, CollectionLoop, FetchBatch,
           DataloaderExhausted, PassRefitGate, ReadVersion, ReadWatermark, LimitScan,
           LimitReached, PassLimitGate, ReserveTarget, OpenSpawning, SpawnGate, Launches,
           CloseSpawning, LoopRelease, LoopDiscard, allButLoop, threadVars, workerVars, vars
    <3> QED BY <2>1, <2>3, <3>1
  <2>5. CASE Launches
    <3>1. workers[s].ver = loop.gv BY <1>1, <2>1 DEF RInv, Launching, Registered
    <3>2. workers'[s] = workers[s] \/ workers'[s].ver = workers[s].ver
      <4>1. CASE RegisterWorker BY <1>1, <2>1, <2>3, <4>1, RegisterMoves
      <4>2. CASE StartWorker BY <1>1, <2>1, <4>2, StartMoves
      <4>3. CASE StartFails BY <1>1, <2>1, <2>3, <4>3, FailMoves
      <4> QED BY <2>5, <4>1, <4>2, <4>3 DEF Launches
    <3>3. loop.gv <= colVersion /\ colVersion <= weightVersion /\ genWeights = weightVersion
      BY <1>1, <2>1 DEF IInv, Bookkeeping
    <3>4. loop.gv \in Int /\ colVersion \in Int /\ weightVersion \in Int
      BY <1>1 DEF IInv, TypeOK, Versions, None
    <3> QED BY <3>1, <3>2, <3>3, <3>4
  <2>6. CASE CrashAndRestart
    <3>1. workers' = [w \in Slots |-> Idle] BY <2>6 DEF CrashAndRestart
    <3> QED BY <2>1, <2>3, <3>1
  <2>7. CASE \E r \in Slots : Worker(r)
    <3>1. PICK r \in Slots : Worker(r) BY <2>7
    <3>2. r # s
      BY <2>1, <2>3, <3>1
         DEF Worker, Rollout, Push, CountCompleted, WorkerRelease, WorkerDiscard, Stage
    <3>3. workers'[s] = workers[s]
      BY <2>2, <3>1, <3>2
         DEF Worker, Rollout, Push, CountCompleted, WorkerRelease, WorkerDiscard, Stage, Ends
    <3> QED BY <2>1, <2>3, <3>3
  <2> QED BY <1>1, <2>4, <2>5, <2>6, <2>7 DEF Next
<1>2. ASSUME IInv, RInv, [Next]_vars PROVE [Trails]_vars BY <1>1, <1>2
<1>3. Init => RInv BY InitRInv
<1>4. IInv /\ RInv /\ [Next]_vars => RInv' BY StepKeepsR
<1> QED BY <1>2, <1>3, <1>4, InvariantHolds, PTL DEF Spec, LabelNotAhead
-----------------------------------------------------------------------------
(* How many threads are left when the weights are replaced                 *)

LEMMA ClosedAlike ==
  ASSUME RefitClosed, UNCHANGED mailbox, gates' \subseteq gates,
         draining' \/ tpc' = "refit" => draining \/ tpc = "refit"
  PROVE  RefitClosed'
BY DEF RefitClosed

LEMMA TrainerKeepsClosed == ASSUME IInv, RefitClosed, Trainer PROVE RefitClosed'
<1>1. ~draining' /\ tpc' # "refit" /\ tpc # "preparing" BY TrainerSends
<1>2. mailbox \in Seq(Call_) BY DEF IInv, TypeOK, Call_
<1>3. \A i \in 1 .. Len(mailbox) : mailbox[i].op # "prepare_for_refit"
  BY <1>1 DEF IInv, MailboxOrdered
<1>4. \A i \in 1 .. Len(mailbox') : mailbox'[i].op = "prepare_for_refit" => i = Len(mailbox')
  <2>1. CASE UNCHANGED mailbox BY <1>3, <2>1
  <2>2. ASSUME NEW ms \in Seq(Call_), mailbox' = mailbox \o ms,
               \A i \in 1 .. Len(ms) : ms[i].op = "prepare_for_refit" => i = Len(ms),
               NEW i \in 1 .. Len(mailbox'), mailbox'[i].op = "prepare_for_refit"
        PROVE  i = Len(mailbox')
    <3>1. /\ Len(mailbox') = Len(mailbox) + Len(ms)
          /\ \A j \in 1 .. Len(mailbox) : mailbox'[j] = mailbox[j]
          /\ \A j \in 1 .. Len(ms) : mailbox'[Len(mailbox) + j] = ms[j]
      BY <1>2, <2>2, ConcatIndex
    <3>2. Len(mailbox) \in Nat /\ Len(ms) \in Nat BY <1>2
    <3>3. i \notin 1 .. Len(mailbox) BY <1>3, <2>2, <3>1
    <3>4. i - Len(mailbox) \in 1 .. Len(ms) /\ i = Len(mailbox) + (i - Len(mailbox))
      BY <3>1, <3>2, <3>3
    <3>5. i - Len(mailbox) = Len(ms) BY <2>2, <3>1, <3>4
    <3> QED BY <3>1, <3>2, <3>5
  <2> QED BY <2>1, <2>2, TrainerSends
<1> QED BY <1>1, <1>4 DEF RefitClosed

LEMMA ActorKeepsClosed == ASSUME IInv, RefitClosed, Actor PROVE RefitClosed'
<1>1. mailbox \in Seq(Call_) BY DEF IInv, TypeOK, Call_
<1>2. CASE UNCHANGED <<mailbox, gates>> /\ draining BY <1>2, ClosedAlike
<1>3. CASE mailbox # <<>> /\ ~draining /\ mailbox' = Tail(mailbox)
  <2>1. /\ 1 \in 1 .. Len(mailbox) /\ Len(mailbox') = Len(mailbox) - 1 /\ Len(mailbox) \in Nat
        /\ \A i \in 1 .. Len(mailbox') :
             i + 1 \in 1 .. Len(mailbox) /\ mailbox'[i] = mailbox[i + 1]
        /\ mailbox' \in Seq(Call_)
    BY <1>1, <1>3, TailIndex
  <2>2. \A i \in 1 .. Len(mailbox') : mailbox'[i].op = "prepare_for_refit" => i = Len(mailbox')
    BY <2>1 DEF RefitClosed
  <2>3. tpc # "refit" /\ ~draining BY <1>3 DEF RefitClosed
  <2>4. draining' \/ tpc' = "refit" => mailbox' = <<>> /\ "refit" \notin gates'
    <3>1. SUFFICES ASSUME draining' \/ tpc' = "refit"
                   PROVE  mailbox' = <<>> /\ "refit" \notin gates'
      OBVIOUS
    <3>2. mailbox[1].op = "prepare_for_refit" /\ "refit" \notin gates'
      BY <1>3, <2>3, <3>1, ActorServes
    <3>3. Len(mailbox') = 0 BY <2>1, <3>2 DEF RefitClosed
    <3> QED BY <2>1, <3>2, <3>3
  <2> QED BY <2>2, <2>4 DEF RefitClosed
<1> QED BY <1>2, <1>3, ActorServes

(* The thread closes no gate but its own.                                  *)
LEMMA LoopLeavesGates ==
  ASSUME CollectionLoop
  PROVE  /\ UNCHANGED <<outside, weightVersion, initVersion, mailbox, draining, tpc>>
         /\ gates' \subseteq gates /\ ("refit" \in gates' <=> "refit" \in gates)
<1>1. UNCHANGED outside /\ (gates' = gates \/ gates' = gates \ {"limit"})
  BY DEF CollectionLoop, FetchBatch, DataloaderExhausted, PassRefitGate, ReadVersion, ReadWatermark,
         LimitScan, LimitReached, PassLimitGate, ReserveTarget, OpenSpawning, SpawnGate,
         RegisterWorker, StartWorker, StartFails, CloseSpawning, LoopRelease, LoopDiscard,
         allButLoop
<1> QED BY <1>1 DEF outside, trainerVars, actorVars

LEMMA LoopKeepsClosed == ASSUME RefitClosed, CollectionLoop PROVE RefitClosed'
BY LoopLeavesGates, ClosedAlike

LEMMA WorkerLeaves ==
  ASSUME NEW s \in Slots, Worker(s)
  PROVE  UNCHANGED <<mailbox, draining, tpc, gates, loop, weightVersion, initVersion>>
BY DEF Worker, Rollout, Push, CountCompleted, WorkerRelease, WorkerDiscard, outside, trainerVars,
       actorVars

LEMMA StepKeepsClosed == ASSUME IInv, RefitClosed, [Next]_vars PROVE RefitClosed'
<1>1. CASE UNCHANGED vars BY <1>1 DEF vars, trainerVars, actorVars, RefitClosed
<1>2. ASSUME NEW s \in Slots, Worker(s) PROVE RefitClosed' BY <1>2, WorkerLeaves, ClosedAlike
<1> QED BY <1>1, <1>2, TrainerKeepsClosed, ActorKeepsClosed, LoopKeepsClosed, CrashKeepsR
        DEF Next, Finished

-----------------------------------------------------------------------------
SInv == IInv /\ RInv /\ RefitClosed /\ Straggling

LEMMA BusyAndInflight ==
  ASSUME IInv
  PROVE  /\ Busy \in SUBSET Slots /\ inflight \in SUBSET Slots /\ Forgotten \in SUBSET Slots
         /\ Cardinality(Busy) \in Nat /\ Cardinality(inflight) \in Nat
         /\ Cardinality(Forgotten) \in Nat
         /\ Due \in {0, 1} /\ Passed \in {0, 1} /\ Passed <= Due /\ Closings \in Int
<1>1. Busy \in SUBSET Slots /\ inflight \in SUBSET Slots BY DEF IInv, TypeOK, Busy
<1>2. Closings \in Int BY DEF IInv, TypeOK, Versions, Closings
<1> QED BY <1>1, <1>2, SlotSets DEF Forgotten, Due, Passed

LEMMA Fewer ==
  ASSUME NEW S \in SUBSET Slots, NEW T \in SUBSET S
  PROVE  Cardinality(T) <= Cardinality(S) /\ Cardinality(T) \in Nat /\ Cardinality(S) \in Nat
BY SlotSets, FS_Subset

LEMMA OneMore ==
  ASSUME NEW S \in SUBSET Slots, NEW s \in Slots \ S
  PROVE  Cardinality(S \cup {s}) = Cardinality(S) + 1
BY SlotSets, FS_AddElement

(* Threads end, and none passes a gate that is closed. *)
LEMMA StragglersAlike ==
  ASSUME SInv, UNCHANGED <<draining, tpc, weightVersion, initVersion>>,
         "refit" \in gates' <=> "refit" \in gates,
         Busy' \subseteq Busy, inflight' = inflight \cap Busy',
         "refit" \notin gates => Due' <= Due /\ Passed' <= Passed,
         Due' \in {0, 1}, Passed' \in {0, 1}
  PROVE  Straggling'
<1>1. Straggling /\ IInv /\ (tpc = "refit" => "refit" \notin gates) BY DEF SInv, RefitClosed
<1>2. Forgotten' \subseteq Forgotten /\ inflight' \subseteq inflight /\ inflight' \subseteq Busy'
  BY DEF Forgotten
<1>3. /\ Cardinality(Forgotten') <= Cardinality(Forgotten) /\ Cardinality(Forgotten') \in Nat
      /\ Cardinality(inflight') <= Cardinality(inflight) /\ Cardinality(inflight') \in Nat
      /\ Cardinality(Busy') <= Cardinality(Busy) /\ Cardinality(Busy') \in Nat
  BY <1>1, <1>2, BusyAndInflight, Fewer
<1>4. Closings' = Closings BY DEF Closings
<1>5. /\ Cardinality(Forgotten) \in Nat /\ Cardinality(inflight) \in Nat
      /\ Cardinality(Busy) \in Nat /\ Due \in {0, 1} /\ Passed \in {0, 1} /\ Closings \in Int
  BY <1>1, BusyAndInflight
<1>6. ~InFlight => Cardinality(Forgotten') + (IF "refit" \in gates' THEN 0 ELSE Due') <= Closings'
  <2>1. SUFFICES ASSUME ~InFlight
                 PROVE  Cardinality(Forgotten') + (IF "refit" \in gates' THEN 0 ELSE Due') <= Closings'
    OBVIOUS
  <2>2. Cardinality(Forgotten) + (IF "refit" \in gates THEN 0 ELSE Due) <= Closings
    BY <1>1, <2>1 DEF Straggling
  <2>3. CASE "refit" \in gates BY <1>3, <1>4, <1>5, <2>2, <2>3
  <2>4. CASE "refit" \notin gates
    <3>1. Due' <= Due BY <2>4
    <3>2. Cardinality(Forgotten) + Due <= Closings BY <2>2, <2>4
    <3> QED BY <1>3, <1>4, <1>5, <2>4, <3>1, <3>2
  <2> QED BY <2>3, <2>4
<1>7. ASSUME tpc' = "refit", ~InFlight
      PROVE  Cardinality(inflight') + Passed' <= 1 /\ Cardinality(Busy') + Passed' <= Closings'
  <2>1. Passed' <= Passed BY <1>1, <1>7
  <2>2. Cardinality(inflight) + Passed <= 1 /\ Cardinality(Busy) + Passed <= Closings
    BY <1>1, <1>7 DEF Straggling
  <2> QED BY <1>3, <1>4, <1>5, <2>1, <2>2
<1> QED BY <1>2, <1>6, <1>7 DEF Straggling

LEMMA WorkersAlike ==
  ASSUME UNCHANGED workers
  PROVE  UNCHANGED <<Busy, Registered>>
BY DEF Busy, Registered

LEMMA TrainerKeepsStraggling == ASSUME SInv, Trainer PROVE Straggling'
<1>1. /\ UNCHANGED <<workers, loop, gates, draining, inflight>> /\ ~draining /\ ~draining'
      /\ tpc' # "refit"
  BY TrainerSends DEF SInv, untouched
<1>2. UNCHANGED <<Busy, Registered>> BY <1>1, WorkersAlike
<1>3. UNCHANGED <<Forgotten, Due>> BY <1>1, <1>2 DEF Forgotten, Due
<1>4. /\ UNCHANGED initVersion
      /\ weightVersion' = IF tpc = "refit" THEN weightVersion + 1 ELSE weightVersion
  BY DEF Trainer, InitialRefit, BeginValidation, EndValidation, SkipValidation, BufferFilled,
         Sample, Train, Refit, BeginCheckpoint, FinishCheckpoint, NextStep, actorVars
<1>5. weightVersion \in Int /\ initVersion \in Int BY DEF SInv, IInv, TypeOK, Versions
<1>6. Closings' = Closings BY <1>1, <1>4, <1>5 DEF Closings
<1> QED BY <1>1, <1>2, <1>3, <1>6 DEF SInv, Straggling

LEMMA ActorKeepsStraggling == ASSUME SInv, Actor PROVE Straggling'
<1>1. /\ UNCHANGED <<workers, weightVersion, initVersion>> /\ IInv /\ Straggling
      /\ draining \/ tpc = "refit" => mailbox = <<>> /\ "refit" \notin gates
  BY ActorServes DEF SInv, untouched, RefitClosed
<1>2. UNCHANGED <<Busy, Registered>> BY <1>1, WorkersAlike
<1>3. /\ Cardinality(Forgotten) \in Nat /\ Due \in {0, 1} /\ Closings \in Int
      /\ Forgotten \in SUBSET Slots
  BY <1>1, BusyAndInflight
<1>4. weightVersion \in Int /\ initVersion \in Int BY <1>1 DEF IInv, TypeOK, Versions
<1>5. CASE /\ UNCHANGED <<mailbox, loop, gates>> /\ draining
           /\ inflight' = inflight \ Registered
           /\ \/ ~draining' /\ tpc' = "refit" /\ inflight' = {}
              \/ UNCHANGED <<draining, tpc>>
  <2>1. tpc # "refit" BY <1>1, <1>5 DEF IInv, MailboxOrdered
  <2>2. Closings' = Closings BY <1>1, <1>5 DEF Closings
  <2>3. inflight \subseteq Busy /\ inflight' \subseteq Busy' BY <1>1, <1>2, <1>5 DEF Straggling
  <2>4. Due' = Passed /\ Passed' = Passed
    <3>1. Registered' \cap inflight' = {} BY <1>2, <1>5
    <3> QED BY <1>5, <3>1 DEF Due, Passed
  <2>5. Cardinality(Forgotten') + Due' <= Cardinality(Forgotten) + Due
    <3>1. CASE Registered \cap inflight = {}
      <4>1. inflight' = inflight BY <1>5, <3>1
      <4>2. Forgotten' = Forgotten BY <1>2, <4>1 DEF Forgotten
      <4>3. Due = Passed BY <3>1 DEF Due, Passed
      <4> QED BY <1>3, <2>4, <4>2, <4>3
    <3>2. CASE Registered \cap inflight # {}
      <4>1. PICK s : s \in Registered \cap inflight BY <3>2
      <4>2. Registered = {s} /\ loop.pc = "start" BY <4>1 DEF SInv, RInv, Launching
      <4>3. Forgotten' = Forgotten \cup {s} /\ s \in Slots \ Forgotten
        BY <1>2, <1>5, <2>3, <4>1, <4>2 DEF Forgotten, Registered
      <4>4. Cardinality(Forgotten \cup {s}) = Cardinality(Forgotten) + 1
        BY <1>3, <4>3, OneMore
      <4>5. Due = 1 /\ Due' = 0 BY <2>4, <3>2, <4>2 DEF Due, Passed
      <4> QED BY <1>3, <4>3, <4>4, <4>5
    <3> QED BY <3>1, <3>2
  <2>6. ~InFlight => Cardinality(Forgotten') + Due' <= Closings'
    <3>1. SUFFICES ASSUME ~InFlight PROVE Cardinality(Forgotten') + Due' <= Closings'
      OBVIOUS
    <3>2. Cardinality(Forgotten) + Due <= Closings BY <1>1, <1>5, <3>1 DEF Straggling
    <3>3. Cardinality(Forgotten') \in Nat /\ Due' \in {0, 1}
      <4>1. Forgotten' \in SUBSET Slots BY <1>1, <1>2, BusyAndInflight DEF Forgotten
      <4> QED BY <4>1, SlotSets DEF Due
    <3> QED BY <1>3, <2>2, <2>5, <3>2, <3>3
  <2>7. ASSUME tpc' = "refit", ~InFlight
        PROVE  Cardinality(inflight') + Passed' <= 1 /\ Cardinality(Busy') + Passed' <= Closings'
    <3>1. inflight' = {} BY <1>5, <2>1, <2>7
    <3>2. Forgotten' = Busy' BY <3>1 DEF Forgotten
    <3>3. Cardinality(inflight') = 0 BY <3>1, FS_EmptySet
    <3>4. Passed' <= 1 /\ Passed' \in {0, 1} BY DEF Passed
    <3> QED BY <2>4, <2>6, <2>7, <3>2, <3>3, <3>4
  <2>8. "refit" \notin gates' BY <1>1, <1>5
  <2> QED BY <2>3, <2>6, <2>7, <2>8 DEF Straggling
<1>6. CASE /\ mailbox # <<>> /\ ~draining /\ mailbox' = Tail(mailbox) /\ UNCHANGED inflight
           /\ "refit" \in gates \ gates' => draining' \/ InFlight
           /\ \/ loop' = loop /\ mailbox[1].op # "start"
              \/ loop' = LoopAt("batch") /\ mailbox[1].op = "start"
           /\ \/ ~draining' /\ tpc' # "refit"
              \/ ~draining' /\ tpc' = tpc
              \/ /\ mailbox[1].op = "prepare_for_refit" /\ "refit" \notin gates'
                 /\ InFlight \/ tpc' # "refit"
  <2>1. tpc # "refit" /\ ~draining BY <1>1, <1>6
  <2>2. loop' = loop \/ (loop'.pc = "batch" /\ loop.pc = "off")
    BY <1>1, <1>6, StartsServed DEF SInv, RInv, LoopHolds, LoopAt
  <2>3. Due' = Due BY <1>2, <1>6, <2>2 DEF Due
  <2>4. Forgotten' = Forgotten BY <1>2, <1>6 DEF Forgotten
  <2>5. inflight' \subseteq Busy' BY <1>1, <1>2, <1>6 DEF Straggling
  <2>6. tpc' = "refit" => InFlight BY <1>6, <2>1
  <2>7. Closings' = Closings + (IF draining' \/ tpc' = "refit" THEN 1 ELSE 0)
    BY <1>1, <1>4, <2>1 DEF Closings
  <2>8. ASSUME ~InFlight
        PROVE  Cardinality(Forgotten') + (IF "refit" \in gates' THEN 0 ELSE Due') <= Closings'
    <3>1. Cardinality(Forgotten) + (IF "refit" \in gates THEN 0 ELSE Due) <= Closings
      BY <1>1, <2>8 DEF Straggling
    <3>2. CASE "refit" \in gates /\ "refit" \notin gates'
      <4>1. Closings' = Closings + 1 BY <1>6, <2>7, <2>8, <3>2
      <4>2. Cardinality(Forgotten) <= Closings BY <1>3, <3>1, <3>2
      <4> QED BY <1>3, <2>3, <2>4, <3>2, <4>1, <4>2
    <3>3. CASE "refit" \in gates'
      <4>1. Cardinality(Forgotten) <= Closings BY <1>3, <3>1
      <4> QED BY <1>3, <2>4, <2>7, <3>3, <4>1
    <3>4. CASE "refit" \notin gates /\ "refit" \notin gates'
      <4>1. Cardinality(Forgotten) + Due <= Closings BY <3>1, <3>4
      <4> QED BY <1>3, <2>3, <2>4, <2>7, <3>4, <4>1
    <3> QED BY <3>2, <3>3, <3>4
  <2> QED BY <2>5, <2>6, <2>8 DEF Straggling
<1> QED BY <1>5, <1>6, ActorServes DEF SInv

LEMMA RegisterKeepsStraggling == ASSUME SInv, RegisterWorker PROVE Straggling'
<1>1. PICK s \in Slots :
        /\ s \notin Busy /\ Busy' = Busy \cup {s} /\ inflight' = inflight \cup {s}
  BY RegisterMoves DEF SInv
<1>2. loop.pc = "spawn" /\ loop'.pc = "start"
  BY LoopTyped DEF SInv, RegisterWorker, At, GoTo, LoopType
<1>3. /\ UNCHANGED <<draining, tpc, weightVersion, initVersion, gates>>
  BY DEF RegisterWorker, outside, trainerVars, actorVars
<1>4. Closings' = Closings BY <1>3 DEF Closings
<1>5. Straggling /\ IInv /\ inflight \subseteq Busy /\ s \notin inflight
  BY <1>1 DEF SInv, Straggling
<1>6. Forgotten' = Forgotten BY <1>1, <1>5 DEF Forgotten
<1>7. /\ Cardinality(Busy') = Cardinality(Busy) + 1
      /\ Cardinality(inflight') = Cardinality(inflight) + 1
  BY <1>1, <1>5, BusyAndInflight, OneMore
<1>8. /\ Cardinality(Forgotten) \in Nat /\ Cardinality(Busy) \in Nat
      /\ Cardinality(inflight) \in Nat /\ Closings \in Int
  BY <1>5, BusyAndInflight
<1>9. Due = 1 /\ Passed = 1 /\ Passed' = 0 /\ Due' \in {0, 1} BY <1>2 DEF Due, Passed
<1>10. ~InFlight => Cardinality(Forgotten') + (IF "refit" \in gates' THEN 0 ELSE Due') <= Closings'
  <2>1. ~InFlight => Cardinality(Forgotten) + (IF "refit" \in gates THEN 0 ELSE 1) <= Closings
    BY <1>5, <1>9 DEF Straggling
  <2> QED BY <1>3, <1>4, <1>6, <1>8, <1>9, <2>1
<1>11. tpc' = "refit" /\ ~InFlight =>
         Cardinality(inflight') + Passed' <= 1 /\ Cardinality(Busy') + Passed' <= Closings'
  <2>1. tpc = "refit" /\ ~InFlight =>
          Cardinality(inflight) + 1 <= 1 /\ Cardinality(Busy) + 1 <= Closings
    BY <1>5, <1>9 DEF Straggling
  <2> QED BY <1>3, <1>4, <1>7, <1>8, <1>9, <2>1
<1>12. inflight' \subseteq Busy' BY <1>1, <1>5
<1> QED BY <1>10, <1>11, <1>12 DEF Straggling

LEMMA LoopKeepsStraggling == ASSUME SInv, CollectionLoop PROVE Straggling'
<1>1. /\ UNCHANGED <<draining, tpc, weightVersion, initVersion>>
      /\ "refit" \in gates' <=> "refit" \in gates
  BY LoopLeavesGates
<1>2. IInv /\ inflight \subseteq Busy BY DEF SInv, Straggling
<1>3. Due' \in {0, 1} /\ Passed' \in {0, 1} BY DEF Due, Passed
<1>4. CASE RegisterWorker BY <1>4, RegisterKeepsStraggling
<1>5. CASE StartWorker \/ StartFails
  <2>1. /\ Busy' \subseteq Busy /\ inflight' = inflight \cap Busy' /\ Registered' = {}
    <3>1. CASE StartWorker
      <4>1. PICK s \in Registered :
              /\ Busy' = Busy /\ UNCHANGED inflight /\ workers'[s].st = "rollout"
              /\ \A r \in Slots \ {s} : workers'[r] = workers[r]
        BY <1>2, <3>1, StartMoves
      <4>2. Registered = {s} BY DEF SInv, RInv, Launching
      <4>3. Registered' = {} BY <4>1, <4>2 DEF Registered
      <4> QED BY <1>2, <4>1, <4>3
    <3>2. CASE StartFails
      <4>1. PICK s \in Registered :
              /\ Busy' = Busy \ {s} /\ inflight' = inflight \ {s} /\ workers'[s] = Idle
              /\ \A r \in Slots \ {s} : workers'[r] = workers[r]
        BY <1>2, <3>2, FailMoves
      <4>2. Registered = {s} BY DEF SInv, RInv, Launching
      <4>3. Registered' = {} BY <4>1, <4>2 DEF Registered, Idle
      <4> QED BY <1>2, <4>1, <4>3
    <3> QED BY <1>5, <3>1, <3>2
  <2>2. loop'.pc # "spawn"
    BY <1>2, <1>5, LoopTyped DEF StartWorker, StartFails, LoopType
  <2>3. Due' = 0 /\ Passed' = 0 BY <2>1, <2>2 DEF Due, Passed
  <2>4. Due' <= Due /\ Passed' <= Passed BY <1>2, <2>3, BusyAndInflight
  <2> QED BY <1>1, <1>3, <2>1, <2>4, StragglersAlike
<1>6. CASE ~Launches
  <2>1. UNCHANGED <<workers, inflight>>
    BY <1>6 DEF CollectionLoop, FetchBatch, DataloaderExhausted, PassRefitGate, ReadVersion,
         ReadWatermark, LimitScan, LimitReached, PassLimitGate, ReserveTarget, OpenSpawning,
         SpawnGate, Launches, CloseSpawning, LoopRelease, LoopDiscard, allButLoop, counterVars,
         workerVars
  <2>2. loop'.pc = "spawn" => loop.pc = "spawn" \/ "refit" \in gates
    <3>1. CASE LoopReads BY <1>2, <3>1, LoopReadsAlone
    <3>2. loop \in LoopType /\ LoopAt("batch").pc = "batch" BY <1>2, LoopTyped DEF LoopAt
    <3>3. CASE OpenSpawning \/ CloseSpawning
      <4>1. \/ loop' = LoopAt("batch")
            \/ \E n : loop' = [loop EXCEPT !.pc = "spawnGate", !.left = n]
            \/ loop' = [loop EXCEPT !.pc = "release"]
        BY <3>3 DEF OpenSpawning, CloseSpawning, GoTo
      <4> QED BY <3>2, <4>1 DEF LoopType
    <3>4. CASE ReserveTarget
      <4>1. \/ loop' = LoopAt("batch")
            \/ \E t : loop' = [loop EXCEPT !.pc = "open", !.tgt = t, !.lw = None]
        BY <3>4 DEF ReserveTarget
      <4> QED BY <3>2, <4>1 DEF LoopType
    <3>5. CASE LoopRelease \/ LoopDiscard
      BY <1>2, <3>2, <3>5, AfterReleaseMoves DEF LoopRelease, LoopDiscard, GoTo, LoopType, LoopAt
    <3> QED BY <1>6, <3>1, <3>3, <3>4, <3>5 DEF CollectionLoop, LoopReads, Launches
  <2>3. UNCHANGED <<Busy, Registered>> BY <2>1, WorkersAlike
  <2>4. "refit" \notin gates => Due' <= Due /\ Passed' <= Passed
    BY <2>1, <2>2, <2>3 DEF Due, Passed
  <2>5. inflight' = inflight \cap Busy' BY <1>2, <2>1, <2>3
  <2> QED BY <1>1, <1>3, <2>3, <2>4, <2>5, StragglersAlike
<1> QED BY <1>4, <1>5, <1>6 DEF Launches

LEMMA WorkerKeepsStraggling == ASSUME SInv, NEW s \in Slots, Worker(s) PROVE Straggling'
<1>1. UNCHANGED <<draining, tpc, gates, loop, weightVersion, initVersion>> BY WorkerLeaves
<1>2. IInv /\ inflight \subseteq Busy BY DEF SInv, Straggling
<1>3. Due' \in {0, 1} /\ Passed' \in {0, 1} BY DEF Due, Passed
<1>4. \/ \E to \in WorkerStages \ {"idle", "registered"} :
           /\ workers[s].st \notin {"idle", "registered"}
           /\ workers' = [workers EXCEPT ![s].st = to] /\ UNCHANGED inflight
      \/ /\ workers[s].st \notin {"idle", "registered"}
         /\ workers' = [workers EXCEPT ![s] = Idle] /\ inflight' = inflight \ {s}
  BY DEF Worker, Rollout, Push, CountCompleted, WorkerRelease, WorkerDiscard, Stage, Ends,
         WorkerStages
<1>5. Busy' \subseteq Busy /\ inflight' = inflight \cap Busy' /\ Registered' = Registered
  <2>1. CASE /\ workers[s].st \notin {"idle", "registered"}
             /\ workers' = [workers EXCEPT ![s] = Idle] /\ inflight' = inflight \ {s}
    <3>1. workers'[s] = Idle BY <1>2, <2>1, WorkersTyped
    <3>2. Busy' = Busy \ {s} /\ \A r \in Slots \ {s} : workers'[r] = workers[r]
      BY <1>2, <2>1, EndMoves
    <3>3. workers'[s].st # "registered" BY <3>1 DEF Idle
    <3>4. Registered' = Registered BY <2>1, <3>2, <3>3 DEF Registered
    <3> QED BY <1>2, <2>1, <3>2, <3>4
  <2>2. ASSUME NEW to \in WorkerStages \ {"idle", "registered"},
               workers[s].st \notin {"idle", "registered"},
               workers' = [workers EXCEPT ![s].st = to], UNCHANGED inflight
        PROVE  Busy' = Busy /\ inflight' = inflight \cap Busy' /\ Registered' = Registered
    <3>1. /\ Busy' = Busy /\ workers'[s].st = to
          /\ \A r \in Slots \ {s} : workers'[r] = workers[r]
      BY <1>2, <2>2, StageMoves
    <3>2. Registered' = Registered BY <2>2, <3>1 DEF Registered
    <3> QED BY <1>2, <2>2, <3>1, <3>2
  <2> QED BY <1>4, <2>1, <2>2
<1>6. Due' <= Due /\ Passed' <= Passed
  <2>1. Passed' = Passed /\ Passed <= Passed BY <1>1 DEF Passed
  <2>2. Registered' \cap inflight' # {} => Registered \cap inflight # {} BY <1>5
  <2>3. Due' = 1 => Due = 1 BY <1>1, <2>2 DEF Due
  <2> QED BY <1>2, <1>3, <2>1, <2>3, BusyAndInflight
<1> QED BY <1>1, <1>3, <1>5, <1>6, StragglersAlike

LEMMA InitStraggling == Init => Straggling
<1> SUFFICES ASSUME Init PROVE Straggling OBVIOUS
<1>1. Busy = {} /\ inflight = {} /\ Forgotten = {} BY DEF Init, Busy, Forgotten
<1>2. /\ "refit" \in gates /\ tpc = "setup" /\ draining = FALSE /\ weightVersion = 0
      /\ initVersion = 0
  BY DEF Init, Gates
<1>3. Cardinality(Forgotten) = 0 /\ Closings = 0 BY <1>1, <1>2, FS_EmptySet DEF Closings
<1> QED BY <1>1, <1>2, <1>3 DEF Straggling

LEMMA CrashKeepsStraggling == ASSUME SInv, CrashAndRestart PROVE Straggling'
<1>1. /\ workers' = [w \in Slots |-> Idle] /\ inflight' = {} /\ gates' = Gates
      /\ tpc' = "setup" /\ draining' = FALSE /\ weightVersion' = saved.step
      /\ initVersion' = saved.step
  BY DEF CrashAndRestart
<1>2. saved.step \in Int BY DEF SInv, IInv, TypeOK, Versions
<1>3. Busy' = {} /\ Forgotten' = {} BY <1>1 DEF Busy, Forgotten
<1>4. Cardinality(Forgotten') = 0 /\ Closings' = 0 BY <1>1, <1>2, <1>3, FS_EmptySet DEF Closings
<1>5. "refit" \in gates' BY <1>1 DEF Gates
<1> QED BY <1>1, <1>3, <1>4, <1>5 DEF Straggling

LEMMA StepKeepsStraggling == ASSUME SInv, [Next]_vars PROVE Straggling'
<1>1. CASE UNCHANGED vars
  <2>1. UNCHANGED <<workers, inflight, loop, gates, draining, tpc, weightVersion, initVersion>>
    BY <1>1 DEF vars, trainerVars, actorVars, threadVars, workerVars
  <2>2. UNCHANGED <<Busy, Registered>> BY <2>1, WorkersAlike
  <2> QED BY <2>1, <2>2 DEF SInv, Straggling, Forgotten, Due, Passed, Closings
<1> QED BY <1>1, TrainerKeepsStraggling, ActorKeepsStraggling, LoopKeepsStraggling,
           WorkerKeepsStraggling, CrashKeepsStraggling DEF Next, Finished

(* Straggler: without in-flight updates, refit_policy_generation overlaps  *)
(* with at most one thread that wait_for_pending_generations knows of, the *)
(* one whose spawn had passed the gate before prepare_for_refit closed it, *)
(* and, since a drain forgets a thread that is registered and not started, *)
(* with at most as many threads as there were refits since the launch.     *)
THEOREM Straggler == Spec => []StragglersCounted
<1>1. Init => RInv /\ RefitClosed /\ Straggling BY InitRInv, InitStraggling
<1>2. IInv /\ RInv /\ RefitClosed /\ Straggling /\ [Next]_vars
        => (RInv /\ RefitClosed /\ Straggling)'
  BY StepKeepsR, StepKeepsClosed, StepKeepsStraggling DEF SInv
<1>3. IInv /\ Straggling => StragglersCounted
  <2>1. SUFFICES ASSUME IInv, Straggling, tpc = "refit", ~InFlight
                 PROVE  /\ Cardinality(inflight) <= 1
                        /\ Cardinality(Busy) <= weightVersion - initVersion + 1
    BY DEF StragglersCounted
  <2>2. Cardinality(inflight) + Passed <= 1 /\ Cardinality(Busy) + Passed <= Closings
    BY <2>1 DEF Straggling
  <2>3. Closings = weightVersion - initVersion + 1 BY <2>1 DEF Closings
  <2>4. weightVersion \in Int /\ initVersion \in Int BY <2>1 DEF IInv, TypeOK, Versions
  <2> QED BY <2>1, <2>2, <2>3, <2>4, BusyAndInflight
<1> QED BY <1>1, <1>2, <1>3, InvariantHolds, PTL DEF Spec
-----------------------------------------------------------------------------
(* No group is labelled ahead of the trainer                               *)

LEMMA SpawnedNotAhead ==
  ASSUME IInv
  PROVE  loop.gv <= weightVersion
<1>1. loop.gv <= colVersion /\ colVersion <= weightVersion BY DEF IInv, Bookkeeping
<1>2. loop.gv \in Int /\ colVersion \in Int /\ weightVersion \in Int
  BY DEF IInv, TypeOK, Versions, None
<1> QED BY <1>1, <1>2

LEMMA AheadAlike ==
  ASSUME IInv, NoneAhead, weightVersion' \in Versions, weightVersion <= weightVersion',
         buf' \subseteq buf, UNCHANGED workers, UNCHANGED saved
  PROVE  NoneAhead'
<1>1. UNCHANGED Busy BY DEF Busy
<1>2. \A e \in buf : e.ver \in Int BY DEF IInv, TypeOK, Entries, Entry, Versions
<1>3. \A s \in Busy : workers[s].ver \in Int BY WorkersTyped DEF Versions
<1>4. weightVersion \in Int /\ weightVersion' \in Int BY DEF IInv, TypeOK, Versions
<1>5. \A e \in buf' : e.ver <= weightVersion' BY <1>2, <1>4 DEF NoneAhead
<1>6. \A s \in Busy : workers[s].ver <= weightVersion' BY <1>3, <1>4 DEF NoneAhead
<1> QED BY <1>1, <1>5, <1>6 DEF NoneAhead

LEMMA InitAhead == Init => NoneAhead
BY DEF Init, NoneAhead, Busy

LEMMA StepKeepsAhead == ASSUME IInv, NoneAhead, [Next]_vars PROVE NoneAhead'
<1>1. weightVersion \in Versions /\ \A v \in Versions : v <= v BY DEF IInv, TypeOK, Versions
<1>2. CASE UNCHANGED vars
  BY <1>1, <1>2, AheadAlike DEF vars, trainerVars, bufferVars, threadVars, workerVars
<1>3. CASE Trainer /\ ~FinishCheckpoint
  <2>1. /\ buf' \subseteq buf /\ UNCHANGED <<workers, saved>>
        /\ weightVersion' = weightVersion \/ weightVersion' = weightVersion + 1
    BY <1>3 DEF Trainer, InitialRefit, BeginValidation, EndValidation, SkipValidation, BufferFilled,
         Sample, Train, Refit, BeginCheckpoint, NextStep, threadVars, workerVars, bufferVars,
         AfterEviction
  <2>2. weightVersion' \in Versions BY <1>3, TrainerKeeps DEF IInv, TypeOK
  <2>3. weightVersion <= weightVersion' BY <1>1, <2>1 DEF Versions
  <2> QED BY <2>1, <2>2, <2>3, AheadAlike
<1>4. CASE FinishCheckpoint
  <2>1. /\ UNCHANGED <<weightVersion, buf, workers>> /\ saved'.items = buf
        /\ saved'.step = step + 1 /\ tpc = "snapshot"
    BY <1>4 DEF FinishCheckpoint, threadVars, workerVars, bufferVars
  <2>2. weightVersion = step + 1 BY <2>1 DEF IInv, Bookkeeping, Refitted
  <2>3. UNCHANGED Busy BY <2>1 DEF Busy
  <2> QED BY <2>1, <2>2, <2>3 DEF NoneAhead
<1>5. CASE Actor \/ (CollectionLoop /\ ~Launches)
  <2>1. UNCHANGED <<weightVersion, buf, workers, saved>>
    BY <1>5 DEF Actor, StartCollection, SetWeightVersion, PrepareForRefit,
         WaitForPendingGenerations, OpenOrCloseGate, GetDataloaderState, CollectionLoop, FetchBatch, DataloaderExhausted,
         PassRefitGate, ReadVersion, ReadWatermark, LimitScan, LimitReached, PassLimitGate,
         ReserveTarget, OpenSpawning, SpawnGate, Launches, CloseSpawning, LoopRelease, LoopDiscard,
         allButLoop, outside, trainerVars, bufferVars, threadVars, workerVars
  <2> QED BY <1>1, <2>1, AheadAlike
<1>6. CASE Launches
  <2>1. UNCHANGED <<weightVersion, buf, saved>>
    BY <1>6 DEF Launches, RegisterWorker, StartWorker, StartFails, outside, trainerVars, bufferVars
  <2>2. \E s \in Slots :
          /\ \/ Busy' = Busy \cup {s} /\ workers'[s].ver = loop.gv
             \/ Busy' = Busy /\ s \in Busy /\ workers'[s].ver = workers[s].ver
             \/ Busy' = Busy \ {s}
          /\ \A r \in Slots \ {s} : workers'[r] = workers[r]
    BY <1>6, RegisterMoves, StartMoves, FailMoves DEF Launches, Registered
  <2>3. \A r \in Busy' : workers'[r].ver <= weightVersion'
    BY <2>1, <2>2, SpawnedNotAhead DEF NoneAhead, Busy
  <2> QED BY <2>1, <2>3 DEF NoneAhead
<1>7. ASSUME NEW s \in Slots, Worker(s) PROVE NoneAhead'
  <2>1. UNCHANGED <<weightVersion, saved>> /\ workers[s].st # "idle"
    BY <1>7 DEF Worker, Rollout, Push, CountCompleted, WorkerRelease, WorkerDiscard, outside,
         trainerVars, Stage
  <2>2. \/ UNCHANGED buf
        \/ \E n : buf' = buf \cup {[id |-> n, ver |-> workers[s].ver, tgt |-> workers[s].tgt]}
    BY <1>7 DEF Worker, Rollout, Push, CountCompleted, WorkerRelease, WorkerDiscard, outside,
         bufferVars
  <2>3. \/ \E to \in WorkerStages \ {"idle"} : workers' = [workers EXCEPT ![s].st = to]
        \/ workers' = [workers EXCEPT ![s] = Idle]
    BY <1>7 DEF Worker, Rollout, Push, CountCompleted, WorkerRelease, WorkerDiscard, Stage, Ends,
         WorkerStages
  <2>4. s \in Busy BY <2>1 DEF Busy, Idle
  <2>5. \A e \in buf' : e.ver <= weightVersion' BY <2>1, <2>2, <2>4 DEF NoneAhead
  <2>6. \A r \in Busy' : r \in Busy /\ workers'[r].ver = workers[r].ver
    BY <2>1, <2>3, StageMoves, EndMoves DEF Busy
  <2> QED BY <2>1, <2>5, <2>6 DEF NoneAhead
<1>8. CASE CrashAndRestart
  <2>1. /\ weightVersion' = saved.step /\ saved' = saved /\ workers' = [w \in Slots |-> Idle]
        /\ buf' \subseteq saved.items
    <3>1. saved.step \in Versions BY DEF IInv, TypeOK
    <3> QED BY <1>8, <3>1, ResumeCleanUp DEF CrashAndRestart
  <2>2. Busy' = {} BY <2>1 DEF Busy
  <2> QED BY <2>1, <2>2 DEF NoneAhead
<1> QED BY <1>2, <1>3, <1>4, <1>5, <1>6, <1>7, <1>8 DEF Next, Finished

-----------------------------------------------------------------------------
(* No step gets more than one batch, when nothing fails                    *)

KInv == IInv /\ RInv /\ EntriesCounted /\ NoneAhead /\ FillInv

LEMMA Counts ==
  ASSUME KInv, NEW t
  PROVE  /\ Flying(t) \in SUBSET WorkingFor(t) /\ WorkingFor(t) \in SUBSET Slots
         /\ IsFiniteSet(Flying(t)) /\ Cardinality(Flying(t)) \in Nat
         /\ Flying(t) = {} => Cardinality(Flying(t)) = 0
         /\ IsFiniteSet(Made(t)) /\ Cardinality(Made(t)) \in Nat
         /\ loop.left \in Nat
<1>1. Flying(t) \in SUBSET WorkingFor(t) /\ WorkingFor(t) \in SUBSET Slots
  BY DEF Flying, WorkingFor, Busy
<1>2. IsFiniteSet(Made(t)) BY FS_Subset DEF KInv, IInv, TypeOK, Made
<1>3. loop.left \in Nat BY DEF KInv, IInv, TypeOK
<1> QED BY <1>1, <1>2, <1>3, SlotSets, FS_CardinalityType

(* For a target still to come every group made for it is valid, so the     *)
(* collector's count is the number in the buffer.                          *)
LEMMA CountIsMade ==
  ASSUME KInv, NEW t \in TargetRange, t > last
  PROVE  CountForTarget(buf, t, A) = Cardinality(Made(t))
<1>1. weightVersion <= t
  <2>1. /\ weightVersion = IF tpc \in Refitted THEN step + 1 ELSE step
        /\ last = IF Taken THEN step ELSE step - 1
        /\ tpc \in Refitted => Taken
    BY DEF KInv, IInv, Bookkeeping, WatermarkIsProgress, Refitted, Taken
  <2>2. step \in Int /\ weightVersion \in Int /\ last \in Int /\ t \in Int
    BY DEF KInv, IInv, TypeOK, Versions, TargetRange
  <2> QED BY <2>1, <2>2
<1>2. ASSUME NEW e \in Made(t) PROVE ValidForTarget(e, A)
  <2>1. e \in buf /\ e.tgt = t BY DEF Made
  <2>2. e.ver <= weightVersion /\ t <= e.ver + A
    BY <2>1 DEF KInv, NoneAhead, IInv, WindowKept
  <2>3. e.ver \in Nat /\ t \in Nat /\ weightVersion \in Nat /\ A \in Nat
    BY <2>1, AsyncConstants DEF KInv, IInv, TypeOK, Entries, Entry, Versions, TargetRange
  <2> QED BY <1>1, <2>1, <2>2, <2>3 DEF ValidForTarget, OldestValid
<1>3. {e \in buf : e.tgt = t /\ ValidForTarget(e, A)} = Made(t) BY <1>2 DEF Made
<1> QED BY <1>3 DEF CountForTarget

(* Neither the thread nor the workers move, and groups leave the buffer    *)
(* only for steps that have passed.                                        *)
LEMMA FillAlike ==
  ASSUME KInv, UNCHANGED <<untouched, loop>>, last' \in Int, last <= last',
         \A t \in TargetRange : t > last' => Made(t)' = Made(t),
         \A t \in TargetRange :
           t >= saved'.step => Cardinality({e \in saved'.items : e.tgt = t}) <= N
  PROVE  FillInv'
<1>1. UNCHANGED Busy BY DEF Busy, untouched
<1>2. /\ UNCHANGED <<Running>>
      /\ \A t \in TargetRange : /\ Flying(t)' = Flying(t) /\ WorkingFor(t)' = WorkingFor(t)
                                /\ ToSpawn(t)' = ToSpawn(t)
  BY <1>1 DEF untouched, Running, Flying, WorkingFor, ToSpawn
<1>3. \A t \in TargetRange : t > last' => t > last
  BY DEF KInv, IInv, TypeOK, TargetRange
<1>4. \A t \in TargetRange : t > last' => Committed(t)' = Committed(t)
  BY <1>2 DEF Committed
<1>5. ASSUME NEW t \in TargetRange, t > last', OneBatch(t) PROVE OneBatch(t)'
  BY <1>2, <1>4, <1>5 DEF OneBatch, untouched
<1> QED BY <1>1, <1>2, <1>3, <1>4, <1>5 DEF KInv, FillInv, untouched

LEMMA TrainerFills == ASSUME KInv, Trainer PROVE FillInv'
<1>1. UNCHANGED <<untouched, loop>> BY TrainerSends DEF KInv
<1>2. \A t \in TargetRange :
        t >= saved.step => Cardinality({e \in saved.items : e.tgt = t}) <= N
  BY DEF KInv, FillInv
<1>3. last \in Int /\ step \in Int BY DEF KInv, IInv, TypeOK, Versions
<1>4. CASE Sample
  <2>1. /\ UNCHANGED saved /\ tpc = "sample" BY <1>4 DEF Sample
  <2>2. weightVersion = step /\ last = step - 1
    BY <2>1 DEF KInv, IInv, Bookkeeping, WatermarkIsProgress, Refitted, Taken
  <2>3. /\ buf \subseteq Entries /\ \A e \in buf : e.tgt <= e.ver + A
    BY DEF KInv, IInv, TypeOK, WindowKept
  <2>4. \A e \in buf : e.ver \in Nat /\ e.tgt \in Nat
    BY <2>3, AsyncConstants DEF Entries, Entry, Versions, TargetRange
  <2>5. \A e \in buf \ AfterEviction(buf, step, A) : e.tgt < step
    BY <1>3, <2>3, <2>4, AsyncConstants DEF AfterEviction, OldestValid
  <2>6. CASE CanSample(buf, N, weightVersion, A)
    <3>1. PICK S \in SUBSET IntendedFor(buf, step, A) : buf' = AfterEviction(buf, step, A) \ S
      BY <1>4, <2>2, <2>6 DEF Sample
    <3>2. last' = step BY <1>3, <1>4, <2>2, <2>6 DEF Sample
    <3>3. \A e \in S : e.tgt = step BY DEF IntendedFor
    <3>4. \A t \in TargetRange : t > last' => Made(t)' = Made(t)
      <4>1. SUFFICES ASSUME NEW t \in TargetRange, t > step PROVE Made(t)' = Made(t)
        BY <3>2
      <4>2. t \in Int /\ t # step /\ ~(t < step) BY <1>3, <4>1 DEF TargetRange
      <4> QED BY <2>5, <3>1, <3>3, <4>2 DEF Made, AfterEviction
    <3> QED BY <1>1, <1>2, <1>3, <2>1, <2>2, <3>2, <3>4, FillAlike
  <2>7. CASE ~CanSample(buf, N, weightVersion, A)
    <3>1. buf' = AfterEviction(buf, step, A) /\ UNCHANGED last BY <1>4, <2>2, <2>7 DEF Sample
    <3>2. \A t \in TargetRange : t > last' => Made(t)' = Made(t)
      <4>1. SUFFICES ASSUME NEW t \in TargetRange, t > last PROVE Made(t)' = Made(t)
        BY <3>1
      <4>2. t \in Int /\ ~(t < step) BY <1>3, <2>2, <4>1 DEF TargetRange
      <4> QED BY <2>5, <3>1, <4>2 DEF Made, AfterEviction
    <3> QED BY <1>1, <1>2, <1>3, <2>1, <3>1, <3>2, FillAlike
  <2> QED BY <2>6, <2>7
<1>5. CASE FinishCheckpoint
  <2>1. /\ UNCHANGED <<buf, last>> /\ tpc = "snapshot"
        /\ saved'.items = buf /\ saved'.step = step + 1
    BY <1>5 DEF FinishCheckpoint, bufferVars
  <2>2. last = step BY <2>1 DEF KInv, IInv, WatermarkIsProgress, Taken
  <2>3. ASSUME NEW t \in TargetRange, t >= saved'.step
        PROVE  Cardinality({e \in saved'.items : e.tgt = t}) <= N
    <3>1. t > last BY <1>3, <2>1, <2>2, <2>3 DEF TargetRange
    <3>2. Committed(t) <= N BY <3>1 DEF KInv, FillInv
    <3>3. Cardinality(Made(t)) <= N BY <3>2, Counts, AsyncConstants DEF Committed, ToSpawn
    <3> QED BY <2>1, <3>3 DEF Made
  <2>4. \A t \in TargetRange : Made(t)' = Made(t) BY <2>1 DEF Made
  <2> QED BY <1>1, <1>3, <2>1, <2>3, <2>4, FillAlike
<1>6. CASE ~Sample /\ ~FinishCheckpoint
  <2>1. UNCHANGED <<buf, last, saved>>
    BY <1>6 DEF Trainer, InitialRefit, BeginValidation, EndValidation, SkipValidation,
         BufferFilled, Train, Refit, BeginCheckpoint, NextStep, bufferVars
  <2>2. \A t \in TargetRange : Made(t)' = Made(t) BY <2>1 DEF Made
  <2> QED BY <1>1, <1>2, <1>3, <2>1, <2>2, FillAlike
<1> QED BY <1>4, <1>5, <1>6

LEMMA ActorFills == ASSUME KInv, Actor PROVE FillInv'
<1>1. UNCHANGED <<buf, last, saved>>
  BY DEF Actor, StartCollection, SetWeightVersion, PrepareForRefit,
         WaitForPendingGenerations, OpenOrCloseGate, GetDataloaderState, bufferVars
<1>2. UNCHANGED untouched BY ActorServes DEF KInv
<1>3. \A t \in TargetRange : Made(t)' = Made(t) BY <1>1 DEF Made
<1>4. \A t \in TargetRange :
        t >= saved.step => Cardinality({e \in saved.items : e.tgt = t}) <= N
  BY DEF KInv, FillInv
<1>5. last \in Int BY DEF KInv, IInv, TypeOK
<1>6. CASE loop' = loop BY <1>1, <1>2, <1>3, <1>4, <1>5, <1>6, FillAlike
<1>7. CASE loop' = LoopAt("batch") /\ loop.pc = "off"
  <2>1. Busy = {} /\ Busy' = {} /\ loop.left = 0 /\ loop'.pc = "batch" /\ loop'.left = 0
        /\ loop'.tgt = None
    BY <1>2, <1>7 DEF KInv, FillInv, untouched, Busy, Spawning, LoopAt
  <2>2. \A t \in TargetRange : t # None BY DEF TargetRange, None
  <2>3. \A t \in TargetRange : /\ Flying(t) = {} /\ WorkingFor(t)' = {} /\ Flying(t)' = {}
                               /\ ToSpawn(t)' = 0 /\ ToSpawn(t) = 0
    BY <2>1, <2>2 DEF Flying, WorkingFor, ToSpawn
  <2>4. \A t \in TargetRange : t > last' => Committed(t)' <= N
    BY <1>1, <1>3, <2>3 DEF KInv, FillInv, Committed
  <2>5. \A t \in TargetRange : OneBatch(t)' BY <2>1, <2>2, <2>3 DEF OneBatch
  <2> QED BY <1>1, <1>4, <2>1, <2>4, <2>5 DEF FillInv, Spawning
<1>8. loop' = loop \/ (loop' = LoopAt("batch") /\ loop.pc = "off")
  BY ActorServes, StartsServed DEF KInv, RInv, LoopHolds
<1> QED BY <1>6, <1>7, <1>8

(* The thread writes neither the buffer nor the checkpoint. *)
LEMMA LoopFills ==
  ASSUME KInv, UNCHANGED <<buf, last, saved>>,
         \A t \in TargetRange : t > last => Committed(t)' <= N,
         Running' => Running,
         Running /\ Running' => \A t \in TargetRange : t > last /\ OneBatch(t) => OneBatch(t)',
         loop'.pc \in Spawning => loop'.tgt \in spawning',
         loop'.pc \notin Spawning => loop'.left = 0,
         loop'.pc # "off"
  PROVE  FillInv'
BY DEF KInv, FillInv

LEMMA LoopOutside ==
  ASSUME CollectionLoop
  PROVE  UNCHANGED <<buf, last, saved>> /\ \A t \in TargetRange : Made(t)' = Made(t)
<1>1. UNCHANGED <<buf, last, saved>>
  BY DEF CollectionLoop, FetchBatch, DataloaderExhausted, PassRefitGate, ReadVersion, ReadWatermark,
         LimitScan, LimitReached, PassLimitGate, ReserveTarget, OpenSpawning, SpawnGate,
         RegisterWorker, StartWorker, StartFails, CloseSpawning, LoopRelease, LoopDiscard,
         allButLoop, outside, bufferVars
<1> QED BY <1>1 DEF Made

(* The workers stay where they are. *)
LEMMA FlyingAlike ==
  ASSUME UNCHANGED workers
  PROVE  \A t : Flying(t)' = Flying(t) /\ WorkingFor(t)' = WorkingFor(t)
BY DEF Flying, WorkingFor, Busy

LEMMA LoopReadsFill == ASSUME KInv, CollectionLoop, LoopReads PROVE FillInv'
<1>1. /\ UNCHANGED untouched /\ loop.pc # "off" /\ loop'.pc # "off" /\ loop.pc # "stopped"
      /\ loop.pc \in Spawning <=> loop'.pc \in Spawning
      /\ loop.pc \notin Spawning => loop.pc \notin Holding /\ loop'.pc \notin Holding
      /\ \/ loop'.tgt = loop.tgt /\ loop'.left = loop.left
         \/ loop'.tgt = None /\ loop'.left = 0 /\ loop.pc \notin Spawning
  BY LoopReadsAlone DEF KInv
<1>2. /\ loop.pc \notin Spawning => loop.tgt = None /\ loop.left = 0
      /\ loop'.pc \notin Spawning => loop'.tgt = None /\ loop'.left = 0
      /\ loop.pc \in Spawning => loop'.tgt = loop.tgt /\ loop'.left = loop.left
  BY <1>1 DEF KInv, RInv, LoopHolds, FillInv
<1>3. ASSUME NEW t \in TargetRange
      PROVE  /\ ToSpawn(t)' = ToSpawn(t) /\ Committed(t)' = Committed(t)
             /\ OneBatch(t) => OneBatch(t)'
  <2>1. t # None BY DEF TargetRange, None
  <2>2. ToSpawn(t)' = ToSpawn(t) BY <1>1, <1>2, <2>1 DEF ToSpawn
  <2>3. Flying(t)' = Flying(t) /\ WorkingFor(t)' = WorkingFor(t) /\ Made(t)' = Made(t)
    BY <1>1, LoopOutside, FlyingAlike DEF untouched
  <2>4. Committed(t)' = Committed(t) BY <2>2, <2>3 DEF Committed
  <2>5. loop.tgt = t => loop.pc \in Spawning BY <1>2, <2>1
  <2>6. loop'.tgt = t => loop.tgt = t /\ loop'.pc \in Spawning BY <1>1, <1>2, <2>1
  <2>7. \A pc \in Spawning : pc \notin {"open", "discard"} BY DEF Spawning
  <2>8. OneBatch(t) => OneBatch(t)'
    BY <1>1, <2>3, <2>4, <2>5, <2>6, <2>7 DEF OneBatch, untouched
  <2> QED BY <2>2, <2>4, <2>8
<1>4. \A t \in TargetRange : t > last => Committed(t)' <= N BY <1>3 DEF KInv, FillInv
<1>5. loop'.pc \in Spawning => loop'.tgt \in spawning' BY <1>1, <1>2 DEF KInv, FillInv, untouched
<1>6. Running BY <1>1 DEF Running
<1> QED BY <1>1, <1>2, <1>3, <1>4, <1>5, <1>6, LoopOutside, LoopFills

LEMMA ReserveFills == ASSUME KInv, CollectionLoop, ReserveTarget PROVE FillInv'
<1>1. UNCHANGED <<spawning, workers>> /\ loop.pc = "reserve"
  BY DEF ReserveTarget, counterVars, workerVars, At
<1>2. loop.tgt = None /\ loop.left = 0 /\ loop \in LoopType
  BY <1>1, LoopTyped DEF KInv, RInv, LoopHolds, FillInv, Holding, Spawning
<1>3. \A u \in TargetRange : /\ Flying(u)' = Flying(u) /\ WorkingFor(u)' = WorkingFor(u)
                             /\ Made(u)' = Made(u) /\ u # None
  BY <1>1, LoopOutside, FlyingAlike DEF TargetRange, None
<1>4. Running BY <1>1 DEF Running
<1>5. CASE loop' = LoopAt("batch") /\ UNCHANGED generating
  <2>1. loop'.pc = "batch" /\ loop'.tgt = None /\ loop'.left = 0 BY <1>5 DEF LoopAt
  <2>2. \A u \in TargetRange : Committed(u)' = Committed(u)
    BY <1>2, <1>3, <2>1 DEF Committed, ToSpawn
  <2>3. \A u \in TargetRange : OneBatch(u) => OneBatch(u)'
    BY <1>1, <1>2, <1>3, <1>5, <2>1, <2>2 DEF OneBatch
  <2>4. \A u \in TargetRange : u > last => Committed(u)' <= N BY <2>2 DEF KInv, FillInv
  <2> QED BY <1>4, <2>1, <2>3, <2>4, LoopOutside, LoopFills DEF Spawning
<1>6. CASE \E t \in TargetWeights(loop.gv) :
             /\ NeedsGeneration(t, loop.lw)
             /\ generating' = generating \cup {t}
             /\ loop' = [loop EXCEPT !.pc = "open", !.tgt = t, !.lw = None]
  <2>1. PICK t \in TargetWeights(loop.gv) :
             /\ NeedsGeneration(t, loop.lw)
             /\ generating' = generating \cup {t}
             /\ loop' = [loop EXCEPT !.pc = "open", !.tgt = t, !.lw = None]
    BY <1>6
  <2>2. loop'.pc = "open" /\ loop'.tgt = t /\ loop'.left = 0 BY <1>2, <2>1 DEF LoopType
  <2>3. \A u \in TargetRange : Committed(u)' = Committed(u)
    BY <1>2, <1>3, <2>2 DEF Committed, ToSpawn
  <2>4. ASSUME NEW u \in TargetRange, u > last, OneBatch(u) PROVE OneBatch(u)'
    <3>1. CASE u # t
      BY <1>1, <1>2, <1>3, <2>1, <2>2, <2>3, <2>4, <3>1 DEF OneBatch
    <3>2. CASE u = t
      <4>1. t \notin generating /\ TrajectoriesNeeded(buf, t, N, A) > 0
        BY <2>1 DEF NeedsGeneration
      <4>2. CountForTarget(buf, t, A) = Cardinality(Made(t)) BY <2>4, <3>2, CountIsMade
      <4>3. Cardinality(Made(t)) < N
        BY <4>1, <4>2, Counts, AsyncConstants DEF TrajectoriesNeeded
      <4>4. WorkingFor(t) = {} BY <2>4, <3>2, <4>1, <4>3 DEF OneBatch
      <4>5. WorkingFor(t)' = {} BY <1>3, <2>4, <3>2, <4>4
      <4> QED BY <2>1, <2>2, <3>2, <4>5 DEF OneBatch
    <3> QED BY <3>1, <3>2
  <2>5. \A u \in TargetRange : u > last => Committed(u)' <= N BY <2>3 DEF KInv, FillInv
  <2> QED BY <1>4, <2>2, <2>4, <2>5, LoopOutside, LoopFills DEF Spawning
<1> QED BY <1>5, <1>6 DEF ReserveTarget

LEMMA OpenFills == ASSUME KInv, CollectionLoop, OpenSpawning PROVE FillInv'
<1>1. UNCHANGED workers /\ loop.pc = "open" BY DEF OpenSpawning, workerVars, At
<1>2. /\ loop.left = 0 /\ loop \in LoopType /\ spawning = {}
      /\ \E t \in TargetRange : t = loop.tgt
  BY <1>1, LoopTyped
     DEF KInv, RInv, LoopHolds, FillInv, Holding, Spawning, LoopOK, LoopType
<1> PICK t \in TargetRange : t = loop.tgt BY <1>2
<1> PICK need : need = TrajectoriesNeeded(buf, t, N, A) OBVIOUS
<1>3. \A u \in TargetRange : /\ Flying(u)' = Flying(u) /\ WorkingFor(u)' = WorkingFor(u)
                             /\ Made(u)' = Made(u) /\ u # None
  BY <1>1, LoopOutside, FlyingAlike DEF TargetRange, None
<1>4. Running BY <1>1 DEF Running
<1>5. t > last => /\ OneBatch(t) /\ WorkingFor(t) = {} /\ t \in generating
                  /\ Cardinality(Flying(t)) = 0
                  /\ need = IF Cardinality(Made(t)) < N THEN N - Cardinality(Made(t)) ELSE 0
  BY <1>1, <1>2, <1>4, CountIsMade, Counts DEF KInv, FillInv, OneBatch, TrajectoriesNeeded
<1>6. CASE need = 0
  <2>1. /\ loop'.pc = "batch" /\ loop'.tgt = None /\ loop'.left = 0
        /\ generating' = generating \ {t}
    BY <1>6 DEF OpenSpawning, LoopAt
  <2>2. \A u \in TargetRange : Committed(u)' = Committed(u)
    BY <1>2, <1>3, <2>1 DEF Committed, ToSpawn
  <2>3. \A u \in TargetRange : u > last => Committed(u)' <= N BY <2>2 DEF KInv, FillInv
  <2>4. ASSUME NEW u \in TargetRange, u > last, OneBatch(u) PROVE OneBatch(u)'
    <3>1. CASE u = t BY <1>3, <1>5, <2>1, <2>4, <3>1 DEF OneBatch
    <3>2. CASE u # t BY <1>1, <1>3, <2>1, <2>2, <2>4, <3>2 DEF OneBatch
    <3> QED BY <3>1, <3>2
  <2> QED BY <1>4, <2>1, <2>3, <2>4, LoopOutside, LoopFills DEF Spawning
<1>7. CASE need # 0
  <2>1. /\ loop'.pc = "spawnGate" /\ loop'.tgt = t /\ loop'.left = need
        /\ UNCHANGED generating /\ spawning' = {t}
    BY <1>2, <1>7 DEF OpenSpawning, LoopType
  <2>2. \A u \in TargetRange : u # t => Committed(u)' = Committed(u)
    BY <1>3, <2>1 DEF Committed, ToSpawn
  <2>3. t > last => Committed(t)' = N
    <3>1. SUFFICES ASSUME t > last PROVE Committed(t)' = N OBVIOUS
    <3>2. Cardinality(Made(t)) + need = N
      BY <1>5, <1>7, <3>1, Counts, AsyncConstants
    <3>3. Committed(t)' = Cardinality(Made(t)) + Cardinality(Flying(t)) + need
      BY <1>2, <1>3, <2>1 DEF Committed, ToSpawn
    <3>4. Cardinality(Made(t)) \in Nat /\ need \in Int
      BY <1>5, <3>1, Counts, AsyncConstants
    <3> QED BY <1>5, <3>1, <3>2, <3>3, <3>4
  <2>4. \A u \in TargetRange : u > last => Committed(u)' <= N
    BY <2>2, <2>3, AsyncConstants DEF KInv, FillInv
  <2>5. ASSUME NEW u \in TargetRange, u > last, OneBatch(u) PROVE OneBatch(u)'
    <3>1. CASE u = t BY <1>3, <1>5, <2>1, <2>3, <2>5, <3>1 DEF OneBatch
    <3>2. CASE u # t BY <1>1, <1>3, <2>1, <2>2, <2>5, <3>2 DEF OneBatch
    <3> QED BY <3>1, <3>2
  <2> QED BY <1>4, <2>1, <2>4, <2>5, LoopOutside, LoopFills DEF Spawning
<1> QED BY <1>6, <1>7

(* A worker is registered: what is to be spawned for the target is the same *)
(* until it is started.                                                    *)
LEMMA RegisterFills == ASSUME KInv, CollectionLoop, RegisterWorker PROVE FillInv'
<1> PICK t : t = loop.tgt OBVIOUS
<1>1. /\ loop.pc = "spawn" /\ loop'.tgt = t /\ loop'.left = loop.left /\ loop'.pc = "start"
      /\ UNCHANGED <<generating, spawning>>
  BY LoopTyped DEF KInv, RegisterWorker, At, GoTo, LoopType
<1>2. PICK s \in Slots :
        /\ s \notin Busy /\ Busy' = Busy \cup {s}
        /\ workers'[s].st = "registered" /\ workers'[s].tgt = t
        /\ \A r \in Slots \ {s} : workers'[r] = workers[r]
  BY RegisterMoves DEF KInv
<1>3. t \in spawning BY <1>1 DEF KInv, FillInv, Spawning
<1>4. \A u \in TargetRange : Made(u)' = Made(u) BY LoopOutside
<1>5. Running BY <1>1 DEF Running
<1>6. ASSUME NEW u \in TargetRange
      PROVE  Flying(u)' = Flying(u) /\ ToSpawn(u)' = ToSpawn(u) /\ Committed(u)' = Committed(u)
  <2>1. Flying(u)' = Flying(u) /\ ToSpawn(u)' = ToSpawn(u)
    BY <1>1, <1>2 DEF Flying, ToSpawn, Busy
  <2> QED BY <1>4, <2>1 DEF Committed
<1>7. ASSUME NEW u \in TargetRange, u > last, OneBatch(u) PROVE OneBatch(u)'
  <2>1. \A r \in WorkingFor(u)' : workers'[r].st = "discard" =>
          r \in WorkingFor(u) /\ workers[r].st = "discard"
    BY <1>2 DEF WorkingFor, Busy
  <2>2. u # t => WorkingFor(u)' = WorkingFor(u) BY <1>2 DEF WorkingFor, Busy
  <2>3. u = t => Committed(u) = N /\ u \in generating BY <1>1, <1>7 DEF OneBatch, Spawning
  <2> QED BY <1>1, <1>4, <1>6, <1>7, <2>1, <2>2, <2>3 DEF OneBatch
<1>8. \A u \in TargetRange : u > last => Committed(u)' <= N BY <1>6 DEF KInv, FillInv
<1>9. /\ loop'.pc \in Spawning /\ loop'.tgt \in spawning'
      /\ loop'.pc # "off"
  BY <1>1, <1>3 DEF Spawning
<1> QED BY <1>5, <1>7, <1>8, <1>9, LoopOutside, LoopFills

LEMMA StartFills == ASSUME KInv, CollectionLoop, StartWorker PROVE FillInv'
<1> PICK t : t = loop.tgt OBVIOUS
<1>1. /\ loop.pc = "start" /\ loop'.tgt = t /\ loop'.left = loop.left - 1
      /\ loop'.pc = IF loop.left = 1 THEN "close" ELSE "spawnGate"
      /\ UNCHANGED <<generating, spawning>>
  BY LoopTyped DEF KInv, StartWorker, At, counterVars, LoopType
<1>2. PICK s \in Slots :
        /\ s \in Busy /\ Busy' = Busy /\ workers[s].st = "registered" /\ workers[s].tgt = t
        /\ workers'[s].st = "rollout" /\ workers'[s].tgt = t
        /\ \A r \in Slots \ {s} : workers'[r] = workers[r]
  BY StartMoves DEF KInv, RInv, Launching, Registered
<1>3. t \in TargetRange /\ loop.left \in Nat /\ loop.left > 0 /\ t \in spawning
  BY <1>1, LoopTyped DEF KInv, FillInv, LoopOK, LoopType, Holding, Spawning
<1>4. \A u \in TargetRange : Made(u)' = Made(u) BY LoopOutside
<1>5. Running BY <1>1 DEF Running
<1>6. ASSUME NEW u \in TargetRange, u # t
      PROVE  /\ Committed(u)' = Committed(u)
             /\ OneBatch(u) => OneBatch(u)'
  <2>1. Flying(u)' = Flying(u) /\ WorkingFor(u)' = WorkingFor(u) /\ ToSpawn(u)' = ToSpawn(u)
    BY <1>1, <1>2, <1>6 DEF Flying, WorkingFor, ToSpawn, Busy
  <2>2. Committed(u)' = Committed(u) BY <1>4, <2>1 DEF Committed
  <2>3. \A r \in WorkingFor(u) : workers'[r] = workers[r] BY <1>2, <1>6 DEF WorkingFor, Busy
  <2> QED BY <1>1, <1>4, <1>6, <2>1, <2>2, <2>3 DEF OneBatch
<1>7. Committed(t)' = Committed(t)
  <2>1. Flying(t)' = Flying(t) \cup {s} /\ s \notin Flying(t)
    BY <1>2 DEF Flying, Busy
  <2>2. IsFiniteSet(Flying(t)) /\ Cardinality(Flying(t)) \in Nat /\ Cardinality(Made(t)) \in Nat
    BY Counts
  <2>3. Cardinality(Flying(t)') = Cardinality(Flying(t)) + 1 BY <2>1, <2>2, FS_AddElement
  <2>4. ToSpawn(t) = loop.left /\ ToSpawn(t)' = loop.left - 1 BY <1>1 DEF ToSpawn
  <2> QED BY <1>3, <1>4, <2>2, <2>3, <2>4 DEF Committed
<1>8. ASSUME t > last, OneBatch(t) PROVE OneBatch(t)'
  <2>1. Committed(t) = N /\ t \in generating
    BY <1>1, <1>8 DEF OneBatch, Spawning
  <2>2. loop'.pc \notin {"open", "discard"} BY <1>1
  <2>3. \A r \in WorkingFor(t)' : workers'[r].st = "discard" =>
          r \in WorkingFor(t) /\ workers[r].st = "discard"
    BY <1>2 DEF WorkingFor, Busy
  <2> QED BY <1>1, <1>3, <1>4, <1>7, <1>8, <2>1, <2>2, <2>3 DEF OneBatch
<1>9. \A u \in TargetRange : u > last => Committed(u)' <= N
  BY <1>6, <1>7 DEF KInv, FillInv
<1>10. \A u \in TargetRange : u > last /\ OneBatch(u) => OneBatch(u)' BY <1>6, <1>8
<1>11. /\ loop'.pc \in Spawning => loop'.tgt \in spawning'
       /\ loop'.pc \notin Spawning => loop'.left = 0
       /\ loop'.pc # "off"
  BY <1>1, <1>3 DEF Spawning
<1> QED BY <1>5, <1>9, <1>10, <1>11, LoopOutside, LoopFills

(* The counters of a target are dropped when its batch is complete. *)
LEMMA CompleteWhenReleased ==
  ASSUME KInv, NEW t \in TargetRange, t > last, Running, Releasable(t),
         WorkingFor(t) # {} \/ (loop.tgt = t /\ loop.pc # "open")
  PROVE  Cardinality(Made(t)) = N
<1>1. Uncounted(t) = {} /\ t \notin spawning BY AllCounted DEF KInv
<1>2. Flying(t) = {} BY <1>1 DEF Flying, Uncounted
<1>3. ToSpawn(t) = 0
  BY <1>1 DEF KInv, FillInv, ToSpawn
<1>4. Committed(t) = N BY DEF KInv, FillInv, OneBatch
<1> QED BY <1>2, <1>3, <1>4, Counts DEF Committed

LEMMA EndFills ==
  ASSUME KInv, CollectionLoop, CloseSpawning \/ LoopRelease \/ LoopDiscard
  PROVE  FillInv'
<1> PICK t : t = loop.tgt OBVIOUS
<1>1. /\ UNCHANGED workers /\ loop.pc \in {"close", "release", "discard"}
      /\ generating' = generating \/ (loop.pc = "discard" /\ generating' = generating \ {t})
      /\ \/ loop'.tgt = t /\ loop'.left = loop.left /\ loop'.pc \in {"release", "close"}
         \/ /\ loop'.tgt = t /\ loop'.left = loop.left /\ loop'.pc = "discard"
            /\ Releasable(t)
         \/ loop'.tgt = None /\ loop'.left = 0 /\ loop'.pc = "batch"
  <2>1. \/ AfterRelease.pc = "close" /\ AfterRelease.tgt = t /\ AfterRelease.left = loop.left
        \/ AfterRelease.tgt = None /\ AfterRelease.left = 0 /\ AfterRelease.pc = "batch"
    BY LoopTyped DEF KInv, AfterRelease, LoopType, LoopAt
  <2>2. CASE CloseSpawning
    BY <2>2, LoopTyped DEF KInv, CloseSpawning, GoTo, At, LoopType, workerVars
  <2>3. CASE LoopRelease
    BY <2>1, <2>3, LoopTyped DEF KInv, LoopRelease, GoTo, At, LoopType, workerVars
  <2>4. CASE LoopDiscard BY <2>1, <2>4 DEF LoopDiscard, At, counterVars, workerVars
  <2> QED BY <2>2, <2>3, <2>4
<1>2. t \in TargetRange /\ loop.left = 0
  BY <1>1, LoopTyped DEF KInv, FillInv, LoopOK, LoopType, Holding, Spawning
<1>3. \A u \in TargetRange : /\ Flying(u)' = Flying(u) /\ WorkingFor(u)' = WorkingFor(u)
                             /\ Made(u)' = Made(u) /\ u # None
  BY <1>1, LoopOutside, FlyingAlike DEF TargetRange, None
<1>4. Running BY <1>1 DEF Running
<1>5. \A u \in TargetRange : Committed(u)' = Committed(u)
  BY <1>1, <1>2, <1>3 DEF Committed, ToSpawn
<1>6. \A u \in TargetRange : u > last => Committed(u)' <= N BY <1>5 DEF KInv, FillInv
<1>7. loop'.pc \notin Spawning /\ loop'.pc \notin {"off", "open"} /\ loop'.left = 0
  BY <1>1, <1>2 DEF Spawning
<1>8. ASSUME NEW u \in TargetRange, u > last, OneBatch(u) PROVE OneBatch(u)'
  <2>1. WorkingFor(u) # {} \/ loop'.tgt = u => Committed(u) = N
    BY <1>1, <1>3, <1>8 DEF OneBatch
  <2>2. WorkingFor(u) # {} /\ Cardinality(Made(u)) < N => u \in generating'
    <3>1. SUFFICES ASSUME WorkingFor(u) # {}, Cardinality(Made(u)) < N, u \notin generating'
                   PROVE  FALSE
      OBVIOUS
    <3>2. u \in generating BY <1>8, <3>1 DEF OneBatch
    <3>3. loop.pc = "discard" /\ u = t BY <1>1, <3>1, <3>2
    <3>4. Cardinality(Made(u)) = N BY <1>8, <3>3 DEF OneBatch
    <3> QED BY <3>1, <3>4, AsyncConstants
  <2>3. loop'.tgt = u /\ loop'.pc = "discard" => Cardinality(Made(u)) = N
    BY <1>1, <1>2, <1>3, <1>4, <1>8, CompleteWhenReleased
  <2>4. (\E r \in WorkingFor(u) : workers[r].st = "discard") => Cardinality(Made(u)) = N
    BY <1>8 DEF OneBatch
  <2> QED BY <1>1, <1>3, <1>5, <1>7, <1>8, <2>1, <2>2, <2>3, <2>4 DEF OneBatch
<1> QED BY <1>4, <1>6, <1>7, <1>8, LoopOutside, LoopFills
(* A worker writes neither the thread nor the checkpoint ... *)
LEMMA WorkerFills ==
  ASSUME KInv, NEW s \in Slots, Worker(s),
         \A t \in TargetRange : t > last => Committed(t)' <= N,
         Running => \A t \in TargetRange : t > last /\ OneBatch(t) => OneBatch(t)'
  PROVE  FillInv'
<1>1. UNCHANGED <<loop, last, saved, spawning>> /\ s \in Busy
  BY DEF Worker, Rollout, Push, CountCompleted, WorkerRelease, WorkerDiscard, Stage, outside,
         bufferVars, counterVars, Busy, Idle
<1>2. loop.pc # "off" BY <1>1 DEF KInv, FillInv
<1> QED BY <1>1, <1>2 DEF KInv, FillInv, Running

(* ... and only its own target notices. *)
LEMMA OthersAlike ==
  ASSUME KInv, NEW s \in Slots, UNCHANGED loop,
         \A r \in Slots \ {s} : workers'[r] = workers[r],
         workers'[s] = Idle \/ workers'[s].tgt = workers[s].tgt,
         NEW t \in TargetRange, t # workers[s].tgt, Made(t)' = Made(t),
         t \in generating' <=> t \in generating
  PROVE  Committed(t)' = Committed(t) /\ (OneBatch(t) => OneBatch(t)')
<1>1. Idle.tgt # t BY DEF Idle, TargetRange, None
<1>2. \A r \in Slots : \/ workers'[r] = workers[r]
                       \/ workers[r].tgt # t /\ workers'[r].tgt # t
  BY <1>1
<1>3. Flying(t)' = Flying(t) /\ WorkingFor(t)' = WorkingFor(t) /\ ToSpawn(t)' = ToSpawn(t)
  BY <1>2 DEF Flying, WorkingFor, ToSpawn, Busy
<1>4. Committed(t)' = Committed(t) BY <1>3 DEF Committed
<1>5. \A r \in WorkingFor(t) : workers'[r] = workers[r] BY <1>2 DEF WorkingFor, Busy
<1> QED BY <1>3, <1>4, <1>5 DEF OneBatch

LEMMA RolloutFills == ASSUME KInv, MaxFailures = 0, NEW s \in Slots, Rollout(s) PROVE FillInv'
<1>1. /\ workers[s].st = "rollout" /\ workers' = [workers EXCEPT ![s].st = "push"]
      /\ UNCHANGED <<loop, buf, generating>>
  BY DEF Rollout, Stage, KInv, IInv, TypeOK, outside, bufferVars
<1>2. /\ Busy' = Busy /\ workers'[s].st = "push" /\ workers'[s].tgt = workers[s].tgt
      /\ \A r \in Slots \ {s} : workers'[r] = workers[r]
  BY <1>1, StageMoves DEF KInv, WorkerStages
<1>3. ASSUME NEW t \in TargetRange
      PROVE  Committed(t)' = Committed(t) /\ (OneBatch(t) => OneBatch(t)')
  <2>1. Flying(t)' = Flying(t) /\ WorkingFor(t)' = WorkingFor(t) /\ ToSpawn(t)' = ToSpawn(t)
    BY <1>1, <1>2 DEF Flying, WorkingFor, ToSpawn, Busy
  <2>2. Made(t)' = Made(t) BY <1>1 DEF Made
  <2>3. Committed(t)' = Committed(t) BY <2>1, <2>2 DEF Committed
  <2>4. \A r \in WorkingFor(t) : workers'[r].st = "discard" => workers[r].st = "discard"
    BY <1>2 DEF WorkingFor, Busy
  <2> QED BY <1>1, <2>1, <2>2, <2>3, <2>4 DEF OneBatch
<1>4. \A t \in TargetRange : t > last => Committed(t)' <= N BY <1>3 DEF KInv, FillInv
<1>5. Worker(s) BY DEF Worker
<1> QED BY <1>3, <1>4, <1>5, WorkerFills

(* The group leaves the worker for the buffer, or is dropped with the loop *)
(* that has ended.                                                         *)
LEMMA PushFills == ASSUME KInv, NEW s \in Slots, Push(s) PROVE FillInv'
<1> PICK t : t = workers[s].tgt OBVIOUS
<1>1. /\ workers[s].st = "push" /\ workers' = [workers EXCEPT ![s].st = "count"]
      /\ UNCHANGED <<loop, last, generating>>
  BY DEF Push, Stage
<1>2. /\ Busy' = Busy /\ s \in Busy /\ workers'[s].st = "count" /\ workers'[s].tgt = t
      /\ \A r \in Slots \ {s} : workers'[r] = workers[r]
  BY <1>1, StageMoves DEF KInv, WorkerStages
<1>3. t \in TargetRange BY <1>2, WorkersTyped DEF KInv
<1>4. Flying(t)' = Flying(t) \ {s} /\ s \in Flying(t) /\ WorkingFor(t)' = WorkingFor(t)
  BY <1>1, <1>2 DEF Flying, WorkingFor, Busy
<1>5. Cardinality(Flying(t)') = Cardinality(Flying(t)) - 1
  <2>1. IsFiniteSet(Flying(t)) BY Counts
  <2>2. Cardinality(Flying(t) \ {s}) = Cardinality(Flying(t)) - 1
    BY <1>4, <2>1, FS_RemoveElement
  <2> QED BY <1>4, <2>2
<1>6. ToSpawn(t)' = ToSpawn(t) BY <1>1 DEF ToSpawn
<1>7. ToSpawn(t) \in Nat BY Counts DEF ToSpawn
<1>8. CASE Running
  <2>1. \E e : e.tgt = t /\ e.id = arrivals[t] /\ buf' = buf \cup {e}
    BY <1>8 DEF Push
  <2>2. PICK e : e.tgt = t /\ e.id = arrivals[t] /\ buf' = buf \cup {e} BY <2>1
  <2>3. arrivals[t] \in Nat BY <1>3 DEF KInv, IInv, TypeOK
  <2>4. \A d \in buf : d.tgt = t => d.id < arrivals[t] BY DEF KInv, EntriesCounted
  <2>5. e \notin buf BY <2>2, <2>3, <2>4
  <2>6. Made(t)' = Made(t) \cup {e} /\ e \notin Made(t) BY <2>2, <2>5 DEF Made
  <2>7. Cardinality(Made(t)') = Cardinality(Made(t)) + 1 BY <2>6, Counts, FS_AddElement
  <2>8. \A u \in TargetRange : u # t => Made(u)' = Made(u) BY <2>2 DEF Made
  <2>9. Committed(t)' = Committed(t)
    BY <1>5, <1>6, <1>7, <2>7, Counts DEF Committed
  <2>10. \A u \in TargetRange : u # t =>
           Committed(u)' = Committed(u) /\ (OneBatch(u) => OneBatch(u)')
    BY <1>1, <1>2, <2>8, OthersAlike
  <2>11. ASSUME t > last, OneBatch(t) PROVE OneBatch(t)'
    <3>1. s \in WorkingFor(t) BY <1>4, Counts
    <3>2. Committed(t) = N BY <2>11, <3>1 DEF OneBatch
    <3>3. Cardinality(Flying(t)) > 0 BY <1>4, Counts, SlotSets
    <3>4. Cardinality(Made(t)) < N BY <1>7, <3>2, <3>3, Counts, AsyncConstants DEF Committed
    <3>5. t \in generating BY <2>11, <3>1, <3>4 DEF OneBatch
    <3>6. /\ ~(loop.tgt = t /\ loop.pc = "discard")
          /\ ~\E r \in WorkingFor(t) : workers[r].st = "discard"
      BY <2>11, <3>4, AsyncConstants DEF OneBatch
    <3>7. ~\E r \in WorkingFor(t)' : workers'[r].st = "discard"
      BY <1>2, <1>4, <3>6 DEF WorkingFor, Busy
    <3>8. ~(loop.tgt = t /\ loop.pc = "open") BY <2>11, <3>1 DEF OneBatch
    <3> QED BY <1>1, <2>9, <3>2, <3>5, <3>6, <3>7, <3>8 DEF OneBatch
  <2>12. \A u \in TargetRange : u > last => Committed(u)' <= N
    BY <2>9, <2>10 DEF KInv, FillInv
  <2>13. \A u \in TargetRange : u > last /\ OneBatch(u) => OneBatch(u)'
    BY <2>10, <2>11
  <2>14. Worker(s) BY DEF Worker
  <2> QED BY <2>12, <2>13, <2>14, WorkerFills
<1>9. CASE ~Running
  <2>1. UNCHANGED buf BY <1>9 DEF Push
  <2>2. \A u \in TargetRange : Made(u)' = Made(u) BY <2>1 DEF Made
  <2>3. \A u \in TargetRange : u # t => Committed(u)' = Committed(u)
    BY <1>1, <1>2, <2>2, OthersAlike
  <2>4. t > last => Committed(t)' <= N
    BY <1>3, <1>5, <1>6, <1>7, <2>2, Counts, AsyncConstants DEF Committed, KInv, FillInv
  <2>5. \A u \in TargetRange : u > last => Committed(u)' <= N
    BY <2>3, <2>4 DEF KInv, FillInv
  <2>6. Worker(s) BY DEF Worker
  <2> QED BY <1>9, <2>5, <2>6, WorkerFills
<1> QED BY <1>8, <1>9
(* A worker that has delivered its group counts itself, releases, ends.    *)
LEMMA DeliveredFills ==
  ASSUME KInv, NEW s \in Slots, CountCompleted(s) \/ WorkerRelease(s) \/ WorkerDiscard(s)
  PROVE  FillInv'
<1> PICK t : t = workers[s].tgt OBVIOUS
<1>1. /\ UNCHANGED <<loop, last, buf>> /\ workers[s].st \in {"count", "release", "discard"}
      /\ generating' = generating \/ (workers[s].st = "discard" /\ generating' = generating \ {t})
      /\ \/ /\ workers' = [workers EXCEPT ![s].st = "release"]
            /\ workers[s].st = "count"
         \/ /\ workers' = [workers EXCEPT ![s].st = "discard"]
            /\ workers[s].st = "release" /\ Releasable(t)
         \/ workers' = [workers EXCEPT ![s] = Idle]
  BY DEF CountCompleted, WorkerRelease, WorkerDiscard, Stage, Ends, outside, bufferVars
<1>2. /\ s \in Busy /\ \A r \in Slots \ {s} : workers'[r] = workers[r]
      /\ \/ Busy' = Busy \ {s} /\ workers'[s] = Idle
         \/ /\ Busy' = Busy /\ workers'[s].tgt = t
            /\ workers'[s].st = "release" \/ (workers'[s].st = "discard" /\ Releasable(t))
  <2>1. workers' = [workers EXCEPT ![s] = Idle] => workers'[s] = Idle
    BY WorkersTyped DEF KInv
  <2> QED BY <1>1, <2>1, StageMoves, EndMoves DEF KInv, WorkerStages
<1>3. t \in TargetRange BY <1>2, WorkersTyped DEF KInv
<1>4. \A u \in TargetRange : Made(u)' = Made(u) BY <1>1 DEF Made
<1>5. \A u \in TargetRange : u # t =>
        Committed(u)' = Committed(u) /\ (OneBatch(u) => OneBatch(u)')
  BY <1>1, <1>2, <1>4, OthersAlike
<1>6. /\ Flying(t)' = Flying(t) /\ WorkingFor(t)' \in SUBSET WorkingFor(t)
      /\ ToSpawn(t)' = ToSpawn(t) /\ s \in WorkingFor(t)
  <2>1. s \notin Flying(t) /\ s \notin Flying(t)'
    BY <1>1, <1>2 DEF Flying, Busy
  <2> QED BY <1>1, <1>2, <2>1 DEF Flying, WorkingFor, ToSpawn, Busy
<1>7. Committed(t)' = Committed(t) BY <1>3, <1>4, <1>6 DEF Committed
<1>8. ASSUME t > last, OneBatch(t), Running PROVE OneBatch(t)'
  <2>1. workers[s].st = "discard" => Cardinality(Made(t)) = N BY <1>6, <1>8 DEF OneBatch
  <2>2. WorkingFor(t)' # {} /\ Cardinality(Made(t)) < N => t \in generating'
    BY <1>1, <1>6, <1>8, <2>1, AsyncConstants DEF OneBatch
  <2>3. loop.tgt = t /\ loop.pc \in {"open"} \cup Spawning => t \in generating'
    <3>1. SUFFICES ASSUME loop.tgt = t, loop.pc \in {"open"} \cup Spawning, t \notin generating'
                   PROVE  FALSE
      OBVIOUS
    <3>2. loop.pc # "open" BY <1>6, <1>8, <3>1 DEF OneBatch
    <3>3. loop.left > 0 BY <3>1, <3>2 DEF KInv, IInv, Bookkeeping, Spawning
    <3>4. t \in generating BY <1>8, <3>1 DEF OneBatch
    <3>5. Cardinality(Made(t)) = N BY <1>1, <2>1, <3>1, <3>4
    <3>6. Committed(t) = N BY <1>6, <1>8 DEF OneBatch
    <3> QED BY <3>1, <3>3, <3>5, <3>6, Counts, AsyncConstants DEF Committed, ToSpawn
  <2>4. workers'[s].st = "discard" => Cardinality(Made(t)) = N
    BY <1>2, <1>3, <1>6, <1>8, CompleteWhenReleased DEF Idle
  <2>5. \A r \in WorkingFor(t)' : workers'[r].st = "discard" =>
          r = s \/ (r \in WorkingFor(t) /\ workers[r].st = "discard")
    BY <1>2 DEF WorkingFor, Busy
  <2>6. \/ loop.tgt = t /\ loop.pc = "discard"
        \/ \E r \in WorkingFor(t)' : workers'[r].st = "discard"
        => Cardinality(Made(t)) = N
    BY <1>8, <2>4, <2>5 DEF OneBatch
  <2>7. Made(t)' = Made(t) BY <1>3, <1>4
  <2> QED BY <1>1, <1>6, <1>7, <1>8, <2>2, <2>3, <2>6, <2>7 DEF OneBatch
<1>9. \A u \in TargetRange : u > last => Committed(u)' <= N
  BY <1>5, <1>7 DEF KInv, FillInv
<1>10. Running => \A u \in TargetRange : u > last /\ OneBatch(u) => OneBatch(u)'
  BY <1>5, <1>8
<1>11. Worker(s) BY DEF Worker
<1> QED BY <1>9, <1>10, <1>11, WorkerFills

(* After a restart there is at most what the checkpoint had. *)
LEMMA CrashFills == ASSUME KInv, CrashAndRestart PROVE FillInv'
<1>1. /\ loop' = LoopAt("off") /\ workers' = [w \in Slots |-> Idle] /\ UNCHANGED saved
      /\ saved.step \in Versions
  BY DEF CrashAndRestart, KInv, IInv, TypeOK
<1>2. buf' \subseteq saved.items /\ last' = saved.step - 1
  BY <1>1, ResumeCleanUp DEF CrashAndRestart
<1>3. Busy' = {} BY <1>1 DEF Busy
<1>4. loop'.pc = "off" /\ loop'.tgt = None /\ loop'.left = 0 BY <1>1 DEF LoopAt
<1>5. ASSUME NEW t \in TargetRange, t > last' PROVE Committed(t)' <= N
  <2>1. t >= saved.step BY <1>1, <1>2, <1>5 DEF TargetRange, Versions
  <2>2. Cardinality({e \in saved.items : e.tgt = t}) <= N BY <2>1 DEF KInv, FillInv
  <2>3. IsFiniteSet(saved.items) BY DEF KInv, IInv, Bookkeeping
  <2>4. /\ IsFiniteSet({e \in saved.items : e.tgt = t})
        /\ Made(t)' \in SUBSET {e \in saved.items : e.tgt = t}
    BY <1>2, <2>3, FS_Subset DEF Made
  <2>5. Cardinality(Made(t)') <= Cardinality({e \in saved.items : e.tgt = t})
    BY <2>4, FS_Subset
  <2>6. /\ Cardinality(Made(t)') \in Nat
        /\ Cardinality({e \in saved.items : e.tgt = t}) \in Nat
    BY <2>4, FS_Subset, FS_CardinalityType
  <2>7. Cardinality(Flying(t)') = 0 /\ ToSpawn(t)' = 0
    BY <1>3, <1>4, FS_EmptySet DEF Flying, ToSpawn
  <2> QED BY <2>2, <2>5, <2>6, <2>7, AsyncConstants DEF Committed
<1>6. ~Running' /\ loop'.pc \notin Spawning BY <1>4 DEF Running, Spawning
<1> QED BY <1>1, <1>3, <1>4, <1>5, <1>6 DEF KInv, FillInv

LEMMA InitFills == Init => FillInv
<1> SUFFICES ASSUME Init PROVE FillInv OBVIOUS
<1>1. /\ buf = {} /\ saved.items = {} /\ loop.pc = "off" /\ loop.tgt = None /\ loop.left = 0
      /\ Busy = {}
  BY DEF Init, LoopAt, Busy
<1>2. \A t \in TargetRange : Made(t) = {} /\ Flying(t) = {} /\ ToSpawn(t) = 0
  BY <1>1 DEF Made, Flying, ToSpawn
<1>3. ASSUME NEW t \in TargetRange PROVE Committed(t) <= N
  <2>1. Cardinality(Made(t)) = 0 /\ Cardinality(Flying(t)) = 0 /\ ToSpawn(t) = 0
    BY <1>2, FS_EmptySet
  <2> QED BY <2>1, AsyncConstants DEF Committed
<1>4. \A t \in TargetRange : Cardinality({e \in saved.items : e.tgt = t}) <= N
  BY <1>1, FS_EmptySet, AsyncConstants
<1> QED BY <1>1, <1>3, <1>4 DEF FillInv, Running, Spawning

LEMMA StepFills == ASSUME KInv, MaxFailures = 0, [Next]_vars PROVE FillInv'
<1>1. CASE Trainer BY <1>1, TrainerFills
<1>2. CASE Actor BY <1>2, ActorFills
<1>3. CASE CollectionLoop
  <2>1. ~StartFails BY DEF StartFails, KInv, IInv, TypeOK
  <2>2. \/ LoopReads \/ ReserveTarget \/ OpenSpawning \/ RegisterWorker \/ StartWorker
        \/ CloseSpawning \/ LoopRelease \/ LoopDiscard
    BY <1>3, <2>1 DEF CollectionLoop, LoopReads
  <2> QED BY <1>3, <2>2, LoopReadsFill, ReserveFills, OpenFills, RegisterFills,
           StartFills, EndFills
<1>4. ASSUME NEW s \in Slots, Worker(s) PROVE FillInv'
  BY <1>4, RolloutFills, PushFills, DeliveredFills DEF Worker
<1>5. CASE CrashAndRestart BY <1>5, CrashFills
<1>6. CASE UNCHANGED vars
  <2>1. UNCHANGED <<untouched, loop, buf, last, saved>>
    BY <1>6 DEF vars, threadVars, workerVars, bufferVars, counterVars, untouched
  <2>2. last' \in Int /\ last <= last' BY <2>1 DEF KInv, IInv, TypeOK
  <2>3. \A t \in TargetRange : Made(t)' = Made(t) BY <2>1 DEF Made
  <2> QED BY <2>1, <2>2, <2>3, FillAlike DEF KInv, FillInv
<1> QED BY <1>1, <1>2, <1>3, <1>4, <1>5, <1>6 DEF Next, Finished

(* NeverOverfilled: when no rollout and no thread start fails, gap filling,*)
(* re-reservations and restarts never commit more than one batch of groups *)
(* to a step.  A target is reserved from the choice in                     *)
(* _get_next_target_for_generation until its batch is complete, and only a *)
(* worker that raises can let it go earlier.                               *)
THEOREM NeverOverfilled == MaxFailures = 0 /\ Spec => []NoOverfill
<1> SUFFICES ASSUME MaxFailures = 0 PROVE Spec => []NoOverfill OBVIOUS
<1>1. Init => RInv /\ NoneAhead /\ FillInv BY InitRInv, InitAhead, InitFills
<1>2. PInv /\ RInv /\ NoneAhead /\ FillInv /\ [Next]_vars => (RInv /\ NoneAhead /\ FillInv)'
  BY StepKeepsR, StepKeepsAhead, StepFills DEF KInv, PInv
<1>3. FillInv => NoOverfill
  BY DEF FillInv, NoOverfill, Committed, Made, Flying, ToSpawn
<1> QED BY <1>1, <1>2, <1>3, Counted, PTL DEF Spec
=============================================================================
