---------------------------- MODULE WeightTransfer ----------------------------
(***************************************************************************)
(* refit_policy_generation: the driver has every training worker send its  *)
(* weights and the generation engines load them, and believes the update   *)
(* when all the answers it hears are good.  Three ways lead there:         *)
(*   "ipc"         each training worker packs tensors into one of two      *)
(*                 halves of a buffer and sends the half's handle to the   *)
(*                 generation worker on its GPU, which loads through views *)
(*                 of it and acknowledges (ZMQ REQ and REP);               *)
(*   "http"        the ranks of an engine gather buckets to the first of   *)
(*                 them, which posts them to the engine;                   *)
(*   "collective"  all workers join packed broadcasts from training rank   *)
(*                 0, a few of them in flight on streams of their own.     *)
(*                                                                         *)
(* A tensor is its place in the list of parameters; what is loaded under a *)
(* name is the tensor the bytes came from.                                 *)
(***************************************************************************)
EXTENDS Integers, Sequences, FiniteSets

CONSTANTS
  Transfers,     \* [path, sizes, room, tp]: sizes of the tensors, bytes of
                 \* the buffer, ranks of an engine
  Gpus,          \* number of training workers, and of generation workers
  AlignTo,       \* calculate_aligned_size
  NumBuffers,    \* NRL_REFIT_NUM_BUFFERS
  FlushTries,    \* attempts at /flush_cache
  MaxXferFaults, \* bound: loads, posts and flushes that fail, slow answers
  Silent         \* no message

ASSUME TransferConstants ==
  /\ {Gpus, AlignTo, NumBuffers, FlushTries} \subseteq Nat \ {0}
  /\ MaxXferFaults \in Nat
  /\ \A x \in Transfers :
       /\ x.path \in {"ipc", "http", "collective"} /\ x.room \in Nat
       /\ x.sizes \in Seq(Nat \ {0})
       /\ x.tp \in 1 .. Gpus /\ Gpus % x.tp = 0

VARIABLES
  xfer,      \* the transfer under way
  refit,     \* the driver: "none", "waiting", "updated" or "raised"
  tx,        \* training worker: where it is, the next tensor, what it holds
  half,      \* ipc: the two halves of its buffer, [offset -> tensor]
  sock,      \* ipc: its request and the reply, if any
  rx,        \* generation worker: where it is, what it has loaded, its answer
  box,       \* http: the buckets each rank has given to the gather
  done,      \* collective: broadcasts that have been executed
  xfaults

xferVars == <<xfer, refit, tx, half, sock, rx, box, done, xfaults>>

Gpu == 0 .. Gpus - 1
Params == DOMAIN xfer.sizes
Count == Len(xfer.sizes)
FirstOfEngine(w) == (w \div xfer.tp) * xfer.tp
EngineOf(w) == {v \in Gpu : FirstOfEngine(v) = FirstOfEngine(w)}
Asked == {w \in Gpu : w = FirstOfEngine(w)}
By(path) == refit = "waiting" /\ xfer.path = path
Fault == xfaults < MaxXferFaults /\ xfaults' = xfaults + 1

Aligned(n) == ((n + AlignTo - 1) \div AlignTo) * AlignTo
HalfRoom == xfer.room \div 2
SumTo(a, n) ==           \* the first n of these numbers
  LET f[i \in 0 .. n] == IF i = 0 THEN 0 ELSE f[i - 1] + a[i]
  IN  f[n]
Offset(names, k) == SumTo([i \in DOMAIN names |-> Aligned(xfer.sizes[names[i]])], k - 1)

NoTransfer ==
  /\ xfer = Silent /\ refit = "none" /\ tx = Silent /\ half = Silent
  /\ sock = Silent /\ rx = Silent /\ box = Silent /\ done = 0 /\ xfaults = 0

Refit(x) ==
  /\ refit = "none" /\ xfer' = x /\ refit' = "waiting"
  /\ tx' = [w \in Gpu |-> [pc |-> "stream", at |-> 1, used |-> 0, names |-> <<>>,
                              cur |-> "a", await |-> FALSE, groups |-> <<>>]]
  /\ rx' = [w \in Gpu |-> [pc |-> "recv", names |-> <<>>, cur |-> "a", k |-> 1,
                              loaded |-> {}, good |-> FALSE, groups |-> <<>>, loads |-> 0]]
  /\ half' = [w \in Gpu |-> [a |-> <<>>, b |-> <<>>]]
  /\ sock' = [w \in Gpu |-> [req |-> Silent, rep |-> Silent]]
  /\ box' = [w \in Gpu |-> <<>>]
  /\ UNCHANGED <<done, xfaults>>

(* The parameters are gathered tensor by tensor: a worker gets the next    *)
(* one when all workers have come to it.                                   *)
NextTensor(w) == tx[w].pc = "stream" /\ tx[w].at <= Count /\ \A v \in Gpu : tx[v].at >= tx[w].at
OnlyTx(w, t) == tx' = [tx EXCEPT ![w] = t]

-----------------------------------------------------------------------------
(* stream_weights_via_ipc_zmq_impl.                                        *)

Fill(h, off, p) ==       \* what the copy overwrites is lost
  LET spoilt == {o \in DOMAIN h : o < off + xfer.sizes[p] /\ off < o + xfer.sizes[h[o]]}
  IN  [o \in (DOMAIN h \ spoilt) \cup {off} |-> IF o = off THEN p ELSE h[o]]

PackTensor(w) ==
  LET t == tx[w]
      size == Aligned(xfer.sizes[t.at])
  IN  /\ By("ipc") /\ NextTensor(w) /\ size <= HalfRoom /\ t.used + size <= HalfRoom
      /\ half' = [half EXCEPT ![w][t.cur] = Fill(@, t.used, t.at)]
      /\ OnlyTx(w, [t EXCEPT !.names = Append(@, t.at), !.used = @ + size, !.at = @ + 1])
      /\ UNCHANGED <<xfer, refit, sock, rx, box, done, xfaults>>
TooLarge(w) ==
  /\ By("ipc") /\ NextTensor(w) /\ Aligned(xfer.sizes[tx[w].at]) > HalfRoom
  /\ OnlyTx(w, [tx[w] EXCEPT !.pc = "raised"])
  /\ UNCHANGED <<xfer, refit, half, sock, rx, box, done, xfaults>>

SameHalf(c) == c
Other(c) == IF c = "a" THEN "b" ELSE "a"
GroupFull(w) ==
  IF tx[w].at > Count THEN tx[w].names # <<>>
  ELSE NextTensor(w) /\ Aligned(xfer.sizes[tx[w].at]) <= HalfRoom
         /\ tx[w].used + Aligned(xfer.sizes[tx[w].at]) > HalfRoom
Answered(w) == tx[w].await => sock[w].rep # Silent
SendGroup(w) ==      \* send_buffer_group_overlap, and on to the other half
  LET t == tx[w]
  IN  /\ By("ipc") /\ t.pc = "stream" /\ GroupFull(w) /\ Answered(w)
      /\ sock' = [sock EXCEPT ![w] =
           [req |-> [names |-> t.names, cur |-> t.cur, used |-> t.used], rep |-> Silent]]
      /\ OnlyTx(w, [t EXCEPT !.await = TRUE, !.cur = Other(@), !.used = 0, !.names = <<>>])
      /\ UNCHANGED <<xfer, refit, half, rx, box, done, xfaults>>
Complete(w) ==
  /\ By("ipc") /\ tx[w].pc = "stream" /\ tx[w].at > Count /\ tx[w].names = <<>> /\ Answered(w)
  /\ sock' = [sock EXCEPT ![w] =
       [req |-> [names |-> <<>>, cur |-> "a", used |-> 0], rep |-> Silent]]
  /\ OnlyTx(w, [tx[w] EXCEPT !.pc = "closing"])
  /\ UNCHANGED <<xfer, refit, half, rx, box, done, xfaults>>
Closed(w) ==
  /\ By("ipc") /\ tx[w].pc = "closing" /\ sock[w].rep # Silent
  /\ OnlyTx(w, [tx[w] EXCEPT !.pc = "done"])
  /\ sock' = [sock EXCEPT ![w].rep = Silent]
  /\ UNCHANGED <<xfer, refit, half, rx, box, done, xfaults>>

(* RCVTIMEO: no answer in time, because the peer has given up or is slow.  *)
SenderTimesOut(w) ==
  /\ By("ipc") /\ sock[w].rep = Silent
  /\ \/ tx[w].pc = "closing"
     \/ tx[w].pc = "stream" /\ tx[w].await /\ (GroupFull(w) \/ (tx[w].at > Count /\ tx[w].names = <<>>))
  /\ IF rx[w].pc = "failed" THEN UNCHANGED xfaults ELSE Fault
  /\ OnlyTx(w, [tx[w] EXCEPT !.pc = "raised"])
  /\ UNCHANGED <<xfer, refit, half, sock, rx, box, done>>

(* update_weights_via_ipc_zmq.                                             *)
OnlyRx(w, r) == rx' = [rx EXCEPT ![w] = r]

Receive(w) ==        \* the views of a group, or the end
  /\ By("ipc") /\ rx[w].pc = "recv" /\ sock[w].req # Silent
  /\ LET req == sock[w].req
     IN  OnlyRx(w, [rx[w] EXCEPT !.names = req.names, !.cur = req.cur, !.k = 1,
                      !.pc = IF req.names = <<>> THEN "finish"
                             ELSE IF Offset(req.names, Len(req.names) + 1) = req.used THEN "load"
                             ELSE "failed"])
  /\ sock' = [sock EXCEPT ![w].req = Silent]
  /\ UNCHANGED <<xfer, refit, tx, half, box, done, xfaults>>

View(w, k) ==
  LET h == half[w][rx[w].cur]
      off == Offset(rx[w].names, k)
  IN  IF off \in DOMAIN h THEN h[off] ELSE Silent

LoadTensor(w) ==
  LET r == rx[w]
  IN  /\ By("ipc") /\ r.pc = "load" /\ r.k <= Len(r.names)
      /\ OnlyRx(w, [r EXCEPT !.k = @ + 1, !.loaded = @ \cup {<<r.names[r.k], View(w, r.k)>>}])
      /\ UNCHANGED <<xfer, refit, tx, half, sock, box, done, xfaults>>
AckReady(w) ==
  rx[w].pc = "finish" \/ (rx[w].pc = "load" /\ rx[w].k > Len(rx[w].names))
Acknowledge(w) ==
  /\ By("ipc") /\ AckReady(w)
  /\ OnlyRx(w, [rx[w] EXCEPT !.pc = IF @ = "finish" THEN "loaded" ELSE "recv"])
  /\ sock' = [sock EXCEPT ![w].rep = "ack"]
  /\ UNCHANGED <<xfer, refit, tx, half, box, done, xfaults>>

(* An exception while loading, or while processing the loaded weights      *)
(* before or after the last acknowledgement.                               *)
LoadFails(w) ==
  /\ By("ipc") /\ rx[w].pc \in {"load", "finish", "loaded"} /\ Fault
  /\ OnlyRx(w, [rx[w] EXCEPT !.pc = "failed"])
  /\ UNCHANGED <<xfer, refit, tx, half, sock, box, done>>
ReceiverTimesOut(w) ==
  /\ By("ipc") /\ rx[w].pc = "recv" /\ sock[w].req = Silent
  /\ IF tx[w].pc = "raised" THEN UNCHANGED xfaults ELSE Fault
  /\ OnlyRx(w, [rx[w] EXCEPT !.pc = "failed"])
  /\ UNCHANGED <<xfer, refit, tx, half, sock, box, done>>
Loaded(w) ==
  /\ By("ipc") /\ rx[w].pc = "loaded"
  /\ OnlyRx(w, [rx[w] EXCEPT !.pc = "done", !.good = TRUE])
  /\ UNCHANGED <<xfer, refit, tx, half, sock, box, done, xfaults>>

-----------------------------------------------------------------------------
(* stream_weights_via_http_impl and _flush_bucket.  The gather waits for   *)
(* all ranks at the first rank of the engine only; that one posts, and     *)
(* counts its attempts to flush the cache in used when all is sent.        *)

GoesOn(w) ==       \* the next tensor still goes into the bucket
  tx[w].names = <<>> \/ tx[w].used + xfer.sizes[tx[w].at] < xfer.room
AddToBucket(w) ==
  LET t == tx[w]
  IN  /\ By("http") /\ NextTensor(w) /\ GoesOn(w)
      /\ OnlyTx(w, [t EXCEPT !.names = Append(@, t.at), !.used = @ + xfer.sizes[t.at], !.at = @ + 1])
      /\ UNCHANGED <<xfer, refit, half, sock, rx, box, done, xfaults>>
FlushBucket(w) ==
  LET t == tx[w]
  IN  /\ By("http") /\ t.pc = "stream"
      /\ IF t.at > Count THEN t.names # <<>> ELSE NextTensor(w) /\ ~GoesOn(w)
      /\ box' = [box EXCEPT ![w] = Append(@, t.names)]
      /\ OnlyTx(w, [t EXCEPT !.names = <<>>, !.used = 0,
                      !.pc = IF w = FirstOfEngine(w) THEN "gather" ELSE @])
      /\ UNCHANGED <<xfer, refit, half, sock, rx, done, xfaults>>
Post(w) ==           \* the engine loads what each rank has given
  /\ By("http") /\ tx[w].pc = "gather" /\ \A v \in EngineOf(w) : box[v] # <<>>
  /\ rx' = [v \in Gpu |->
       IF v \in EngineOf(w)
         THEN [rx[v] EXCEPT !.loaded = @ \cup {<<box[w][1][k], box[v][1][k]>> : k \in DOMAIN box[w][1]}]
         ELSE rx[v]]
  /\ box' = [v \in Gpu |-> IF v \in EngineOf(w) THEN Tail(box[v]) ELSE box[v]]
  /\ OnlyTx(w, [tx[w] EXCEPT !.pc = "stream"])
  /\ UNCHANGED <<xfer, refit, half, sock, done, xfaults>>
PostFails(w) ==      \* an HTTP error, or the engine's success is false
  /\ By("http") /\ tx[w].pc = "gather" /\ \A v \in EngineOf(w) : box[v] # <<>>
  /\ Fault /\ OnlyTx(w, [tx[w] EXCEPT !.pc = "raised"])
  /\ UNCHANGED <<xfer, refit, half, sock, rx, box, done>>

Streamed(w) == By("http") /\ tx[w].pc = "stream" /\ tx[w].at > Count /\ tx[w].names = <<>>
FlushCache(w) ==     \* the first rank of an engine asks until it is told yes
  /\ Streamed(w)
  /\ \/ /\ OnlyTx(w, [tx[w] EXCEPT !.pc = "done"])
        /\ rx' = IF w = FirstOfEngine(w) THEN [rx EXCEPT ![w].good = TRUE] ELSE rx
        /\ UNCHANGED xfaults
     \/ /\ w = FirstOfEngine(w) /\ Fault
        /\ OnlyTx(w, [tx[w] EXCEPT !.used = @ + 1,
                        !.pc = IF tx[w].used + 1 = FlushTries THEN "raised" ELSE @])
        /\ UNCHANGED rx
  /\ UNCHANGED <<xfer, refit, half, sock, box, done>>

-----------------------------------------------------------------------------
(* packed_broadcast_producer and packed_broadcast_consumer: both sides cut *)
(* the list into the same groups by themselves, and start the n-th         *)
(* broadcast on a stream whose last one, and the load after it, is over.   *)

Bytes(from, to) == SumTo(xfer.sizes, to) - SumTo(xfer.sizes, from - 1)
ProducerCloses(n) == n > xfer.room
ConsumerCloses(n) == n > xfer.room
ProducerGroup(from) ==
  CHOOSE g \in [from : {from}, to : from .. Count] :
    /\ g.to = Count \/ ProducerCloses(Bytes(from, g.to))
    /\ \A i \in from .. g.to - 1 : ~ProducerCloses(Bytes(from, i))
ConsumerGroup(from) ==
  CHOOSE g \in [from : {from}, to : from .. Count] :
    /\ g.to = Count \/ ConsumerCloses(Bytes(from, g.to))
    /\ \A i \in from .. g.to - 1 : ~ConsumerCloses(Bytes(from, i))
Upto(groups) == IF groups = <<>> THEN 0 ELSE groups[Len(groups)].to

ProducerIssues(w) ==
  LET t == tx[w]
      from == Upto(t.groups) + 1
  IN  /\ By("collective") /\ t.pc = "stream" /\ from <= Count
      /\ \A v \in Gpu : Upto(tx[v].groups) + 1 >= from
      /\ Len(t.groups) - done < NumBuffers
      /\ OnlyTx(w, [t EXCEPT !.groups = Append(@, ProducerGroup(from))])
      /\ UNCHANGED <<xfer, refit, half, sock, rx, box, done, xfaults>>
ProducerReturns(w) ==
  /\ By("collective") /\ tx[w].pc = "stream" /\ Upto(tx[w].groups) = Count
  /\ OnlyTx(w, [tx[w] EXCEPT !.pc = "done"])
  /\ UNCHANGED <<xfer, refit, half, sock, rx, box, done, xfaults>>

ConsumerIssues(w) ==     \* joins the broadcast and queues the load behind it
  LET r == rx[w]
      from == Upto(r.groups) + 1
  IN  /\ By("collective") /\ r.pc = "recv" /\ from <= Count
      /\ Len(r.groups) - r.loads < NumBuffers
      /\ \/ /\ OnlyRx(w, [r EXCEPT !.groups = Append(@, ConsumerGroup(from))])
            /\ UNCHANGED xfaults
         \/ /\ Fault      \* joins, but cannot load
            /\ OnlyRx(w, [r EXCEPT !.pc = "failed",
                            !.groups = Append(@, ConsumerGroup(from))])
      /\ UNCHANGED <<xfer, refit, tx, half, sock, box, done>>
ConsumerReturns(w) ==    \* without waiting for its streams
  /\ By("collective") /\ rx[w].pc = "recv" /\ Upto(rx[w].groups) = Count
  /\ OnlyRx(w, [rx[w] EXCEPT !.pc = "done", !.good = TRUE])
  /\ UNCHANGED <<xfer, refit, tx, half, sock, box, done, xfaults>>

Broadcast ==
  /\ By("collective")
  /\ \A w \in Gpu : Len(tx[w].groups) > done /\ Len(rx[w].groups) > done
  /\ done' = done + 1
  /\ UNCHANGED <<xfer, refit, tx, half, sock, rx, box, xfaults>>

(* The bytes of a broadcast under the names the consumer cuts them into.   *)
Unpacked(w, n) ==
  LET sent == tx[0].groups[n]
      mine == rx[w].groups[n]
      At(p) == {q \in sent.from .. sent.to : Bytes(sent.from, q - 1) = Bytes(mine.from, p - 1)
                                               /\ xfer.sizes[q] = xfer.sizes[p]}
  IN  {<<p, IF At(p) = {} THEN Silent ELSE CHOOSE q \in At(p) : TRUE>> : p \in mine.from .. mine.to}
Queued(w) ==             \* loads in flight on a stream
  {n \in rx[w].loads + 1 .. Len(rx[w].groups) : rx[w].pc # "failed" \/ n < Len(rx[w].groups)}
StreamLoads(w) ==
  LET n == rx[w].loads + 1
  IN  /\ By("collective") /\ n \in Queued(w) /\ n <= done
      /\ OnlyRx(w, [rx[w] EXCEPT !.loads = n, !.loaded = @ \cup Unpacked(w, n)])
      /\ UNCHANGED <<xfer, refit, tx, half, sock, box, done, xfaults>>

-----------------------------------------------------------------------------
(* The driver: a sender's exception is raised at once; the answer of an    *)
(* engine is that of its first worker, given when all of them have ended.  *)

SendersRaise ==
  /\ refit = "waiting" /\ \E w \in Gpu : tx[w].pc = "raised"
  /\ refit' = "raised"
  /\ UNCHANGED <<xfer, tx, half, sock, rx, box, done, xfaults>>

Believes == \A w \in Asked : rx[w].good
Updated ==
  /\ refit = "waiting" /\ \A w \in Gpu : tx[w].pc = "done"
  /\ xfer.path = "http" \/ \A w \in Gpu : rx[w].pc \in {"done", "failed"}
  /\ refit' = IF xfer.path = "http" \/ Believes THEN "updated" ELSE "raised"
  /\ UNCHANGED <<xfer, tx, half, sock, rx, box, done, xfaults>>

(* A generation worker that leaves before the last broadcast keeps all     *)
(* others waiting.                                                         *)
LeftWaiting ==
  /\ By("collective")
  /\ \E w \in Gpu : rx[w].pc = "failed" /\ Len(rx[w].groups) <= done /\ Upto(rx[w].groups) < Count
  /\ UNCHANGED xferVars

TransferStep ==
  \/ \E w \in Gpu :
       \/ PackTensor(w) \/ TooLarge(w) \/ SendGroup(w) \/ Complete(w) \/ Closed(w)
       \/ SenderTimesOut(w)
       \/ Receive(w) \/ LoadTensor(w) \/ Acknowledge(w) \/ LoadFails(w)
       \/ ReceiverTimesOut(w) \/ Loaded(w)
       \/ AddToBucket(w) \/ FlushBucket(w) \/ Post(w) \/ PostFails(w) \/ FlushCache(w)
       \/ ProducerIssues(w) \/ ProducerReturns(w) \/ ConsumerIssues(w)
       \/ ConsumerReturns(w) \/ StreamLoads(w)
  \/ Broadcast \/ SendersRaise \/ Updated \/ LeftWaiting

-----------------------------------------------------------------------------
(* Nothing is loaded under a wrong name and no bytes are loaded or still   *)
(* to be read that have been overwritten, whichever side is ahead; and     *)
(* when the driver believes the update, every generation worker has all    *)
(* tensors, those on a stream included.  Only broadcasts can fail unheard: *)
(* on a worker that is not the first of its engine, with no more of them   *)
(* left than there are buffers; otherwise the driver goes on waiting.      *)
Reaches(w) == rx[w].loaded \cup UNION {Unpacked(w, n) : n \in Queued(w)}
WeightsWhole ==
  refit # "none" =>
    /\ \A w \in Gpu :
         /\ \A pair \in rx[w].loaded : pair[1] = pair[2]
         /\ rx[w].pc = "load" =>
              \A k \in rx[w].k .. Len(rx[w].names) : View(w, k) = rx[w].names[k]
    /\ refit = "updated" =>
         \A w \in Gpu :
           \/ Reaches(w) = {<<p, p>> : p \in Params}
           \/ /\ xfer.path = "collective" /\ rx[w].pc = "failed" /\ w \notin Asked
              /\ Len(tx[0].groups) - Len(rx[w].groups) <= NumBuffers
=============================================================================
