----------------------------- MODULE PolicyCalls -----------------------------
(***************************************************************************)
(* A call of a policy or value model with a batch: the driver shards the   *)
(* rows over the data-parallel ranks (as they come, sorted by length for   *)
(* dynamic batching, or packed into bins), each worker runs its shard      *)
(* global batch by global batch and microbatch by microbatch in step with  *)
(* the others, and the driver puts the results back in the order of the    *)
(* rows.  A result is the row it was computed from.                        *)
(*                                                                         *)
(* A microbatch and an optimizer step are collectives: a worker enters one *)
(* only after every called worker has entered the one before.              *)
(***************************************************************************)
EXTENDS SequencePacking, SequencesExt

CONSTANTS
  MaxTokens,     \* dynamic_batching: max_tokens_per_microbatch
  RoundTo,       \* sequence_length_pad_multiple, sequence_length_round
  Nothing

ASSUME PolicyConstants == MaxTokens \in Nat /\ RoundTo \in Nat \ {0} /\ Nothing \notin Seq(Nat)

VARIABLES
  call,      \* [op, batching, alg, gbs, mbs, backend, axes]
  feed,      \* the lengths of the rows
  phase,     \* "idle", "packing", "sharding", "running", "answered", "failed"
  packed,    \* packing: the bins of each chunk so far
  shard,     \* [data-parallel rank -> its rows in order]
  micro,     \* [rank -> per chunk its microbatches: from, to, len], if any
  perm,      \* batch_sorted_indices
  rank,      \* [called worker -> where it is and what it has done]
  answer     \* what the call returns, row by row

policyVars == <<call, feed, phase, packed, shard, micro, perm, rank, answer>>
callVars == <<policyVars, packVars>>

-----------------------------------------------------------------------------
(* NamedSharding: workers in row-major order of the axes.                  *)
Axes == <<"pipeline_parallel", "data_parallel", "context_parallel", "tensor_parallel">>
Extent(ax) == call.axes[ax]
Stride(i) ==      \* workers from one index of axis i to the next
  LET f[k \in i .. Len(Axes)] == IF k = Len(Axes) THEN 1 ELSE Extent(Axes[k + 1]) * f[k + 1]
  IN  f[i]
Workers == 0 .. Stride(1) * Extent(Axes[1]) - 1
CoordOf(w, ax) ==
  LET i == CHOOSE k \in DOMAIN Axes : Axes[k] = ax
  IN  (w \div Stride(i)) % Extent(ax)
DP == Extent("data_parallel")
RankOf(w) == CoordOf(w, "data_parallel")

(* The public calls: whether rows are cut into global batches, which       *)
(* batching they use, the axes they are replicated on and answered from.   *)
Replicated == {"context_parallel", "tensor_parallel", "pipeline_parallel"}
RowOp == [trains |-> FALSE, balanced |-> TRUE, inputs |-> Replicated, tied |-> Replicated]
Operations ==
  [get_logprobs |-> RowOp,
   get_reference_policy_logprobs |-> RowOp,
   get_topk_logits |-> RowOp,
   get_values |-> RowOp,
   calibrate_qkv_fp8_scales |-> RowOp,
   train |-> [RowOp EXCEPT !.trains = TRUE],
   score |-> [RowOp EXCEPT !.balanced = FALSE],
   generate |-> [RowOp EXCEPT !.balanced = FALSE,
                   !.inputs = Replicated \ {"context_parallel"},
                   !.tied = Replicated \ {"context_parallel"}],
   get_full_logits_ipc |-> [RowOp EXCEPT !.tied = {"pipeline_parallel"}]]
Op == Operations[call.op]

(* run_all_workers_sharded_data: free axes are called at index 0 only, and *)
(* an axis along which results are tied answers from index 0.              *)
SomeAxes(which) == {ax \in Range(Axes) : ax \in which}
Called ==
  {w \in Workers : \A ax \in Range(Axes) \ ({"data_parallel"} \cup Op.inputs) : CoordOf(w, ax) = 0}
Answering == {w \in Called : \A ax \in SomeAxes(Op.tied) : CoordOf(w, ax) = 0}
Sorted(S, Before(_, _)) ==
  [k \in 1 .. Cardinality(S) |-> CHOOSE x \in S : Cardinality({y \in S : Before(y, x)}) = k - 1]
InOrder(ws) == Sorted(ws, <)

-----------------------------------------------------------------------------
(* shard_by_batch_size.                                                    *)

RowsFed == Len(feed)
ChunkSize == IF Op.trains THEN call.gbs ELSE RowsFed
Chunks == 1 .. RowsFed \div ChunkSize
PerShard == ChunkSize \div DP
Batching == IF Op.balanced THEN call.batching ELSE "plain"
Padded(n) == ((n + RoundTo - 1) \div RoundTo) * RoundTo
RowsIn(c) == [i \in 1 .. ChunkSize |-> (c - 1) * ChunkSize + i]
Ranks == 0 .. DP - 1
RowsOfRank(order, d) ==      \* every shard has its part of every chunk
  FlattenSeq([c \in Chunks |->
    SubSeq(order, (c - 1) * ChunkSize + d * PerShard + 1,
                  (c - 1) * ChunkSize + (d + 1) * PerShard)])

Idle1 == [gb |-> 1, mb |-> 0, step |-> 0, seen |-> <<>>, steps |-> <<>>]
Submit == rank' = [w \in Called |-> Idle1] /\ phase' = "running"

ShardPlain ==
  /\ phase = "sharding" /\ Batching = "plain"
  /\ shard' = [d \in Ranks |-> RowsOfRank([i \in DOMAIN feed |-> i], d)]
  /\ Submit
  /\ UNCHANGED <<call, feed, packed, micro, perm, answer, packVars>>

(* Dynamic batching: each chunk sorted by length and dealt to the shards.  *)
Dealt(c) ==
  LET sorted == Sorted(Range(RowsIn(c)), LAMBDA i, j : feed[i] < feed[j] \/ (feed[i] = feed[j] /\ i < j))
  IN  FlattenSeq([d \in 1 .. DP |-> [k \in 1 .. PerShard |-> sorted[(k - 1) * DP + d]]])
Width == Padded(CHOOSE n \in Range(feed) : \A m \in Range(feed) : m <= n)

(* The microbatches are the same for all shards: as many rows as fit with  *)
(* the longest row any shard has at these positions.                       *)
Grow(mbs, j, tall) ==
  LET last == mbs[Len(mbs)]
      both == IF last.len < tall THEN tall ELSE last.len
  IN  IF (last.to - last.from + 1) * both <= MaxTokens
        THEN [mbs EXCEPT ![Len(mbs)] = [from |-> last.from, to |-> last.to + 1, len |-> both]]
        ELSE Append(mbs, [from |-> j - 1, to |-> j, len |-> tall])
Tallest(rows, c, j) ==
  LET at_(d) == feed[rows[d][(c - 1) * PerShard + j]]
      longest == CHOOSE n \in {at_(d) : d \in Ranks} : \A d \in Ranks : at_(d) <= n
  IN  IF Padded(longest) < Width THEN Padded(longest) ELSE Width
MicroDynamic(rows, c) ==
  LET f[j \in 0 .. PerShard] ==
        IF j = 0 THEN <<[from |-> 0, to |-> 0, len |-> 0]>>
        ELSE Grow(f[j - 1], j, Tallest(rows, c, j))
  IN  f[PerShard]

ShardDynamic ==
  /\ phase = "sharding" /\ Batching = "dynamic"
  /\ LET order == FlattenSeq([c \in Chunks |-> Dealt(c)])
         rows == [d \in Ranks |-> RowsOfRank(order, d)]
     IN  IF \E c \in Chunks, j \in 1 .. PerShard : Tallest(rows, c, j) > MaxTokens
           THEN phase' = "failed" /\ UNCHANGED <<shard, micro, perm, rank>>
           ELSE /\ shard' = rows /\ perm' = order /\ Submit
                /\ micro' = [d \in Ranks |-> [c \in Chunks |-> MicroDynamic(rows, c)]]
  /\ UNCHANGED <<call, feed, packed, answer, packVars>>

(* Sequence packing: chunk by chunk, the bins dealt to the shards.         *)
PackChunk ==
  /\ phase = "packing" /\ stage = "idle"
  /\ StartPack(call.alg, DP,
       [i \in 1 .. ChunkSize |-> Padded(feed[RowsIn(Len(packed) + 1)[i]])])
  /\ UNCHANGED policyVars
ChunkPacked ==
  /\ phase = "packing" /\ stage = "packed"
  /\ packed' = Append(packed, [b \in DOMAIN bins |->
       [k \in DOMAIN bins[b].rows |-> RowsIn(Len(packed) + 1)[bins[b].rows[k]]]])
  /\ phase' = IF Len(packed') = Cardinality(Chunks) THEN "sharding" ELSE "packing"
  /\ ClearPacker
  /\ UNCHANGED <<call, feed, shard, micro, perm, rank, answer>>
PackerRefuses ==
  /\ phase = "packing" /\ stage = "refused" /\ phase' = "failed"
  /\ UNCHANGED <<call, feed, packed, shard, micro, perm, rank, answer, packVars>>

BinsOf(c, d) ==      \* every DP-th bin, from bin d on
  [k \in 1 .. (Len(packed[c]) + DP - 1 - d) \div DP |-> packed[c][(k - 1) * DP + d + 1]]
MicroPacked(c, d) ==
  LET own == BinsOf(c, d)
      end[b \in 0 .. Len(own)] == IF b = 0 THEN 0 ELSE end[b - 1] + Len(own[b])
      tokens(b) == LET sum[k \in 0 .. Len(own[b])] ==
                       IF k = 0 THEN 0 ELSE sum[k - 1] + Padded(feed[own[b][k]])
                 IN  sum[Len(own[b])]
  IN  [b \in DOMAIN own |-> [from |-> end[b - 1], to |-> end[b], len |-> tokens(b)]]
ShardPacked ==
  /\ phase = "sharding" /\ Batching = "packed"
  /\ LET rows == [d \in Ranks |-> FlattenSeq([c \in Chunks |-> FlattenSeq(BinsOf(c, d))])]
     IN  /\ shard' = rows
         /\ perm' = FlattenSeq([d \in 1 .. DP |-> rows[d - 1]])
  /\ micro' = [d \in Ranks |-> [c \in Chunks |-> MicroPacked(c, d)]]
  /\ Submit
  /\ UNCHANGED <<call, feed, packed, answer, packVars>>

-----------------------------------------------------------------------------
(* The workers.  get_batch cuts a shard into its global batches, the       *)
(* microbatch iterators cut those.                                         *)

GlobalBatches == IF Op.trains THEN RowsFed \div call.gbs ELSE 1
Bounded(d, g) ==      \* where global batch g begins and ends in shard d
  IF Batching = "packed"
    THEN LET before[c \in 0 .. g] ==
               IF c = 0 THEN 0 ELSE before[c - 1] + micro[d][c][Len(micro[d][c])].to
         IN  [from |-> before[g - 1], to |-> before[g]]
    ELSE [from |-> (g - 1) * PerShard, to |-> g * PerShard]
BatchOf(d, g) == SubSeq(shard[d], Bounded(d, g).from + 1, Bounded(d, g).to)

Cut(rows, ranges) ==
  [k \in DOMAIN ranges |-> SubSeq(rows, ranges[k].from + 1, ranges[k].to)]
Even(size, by) == [k \in 1 .. size \div by |-> [from |-> (k - 1) * by, to |-> k * by]]
MicroBatches(d, g) ==
  IF call.op = "generate" THEN <<BatchOf(d, g)>>
  ELSE IF Batching = "plain" THEN Cut(BatchOf(d, g), Even(Len(BatchOf(d, g)), call.mbs))
  ELSE Cut(BatchOf(d, g), micro[d][g])

(* How many microbatches a rank runs: where packing is on, the DTensor     *)
(* workers agree on the largest number and make up for a rank with fewer   *)
(* by microbatches that count for nothing; the Megatron ones do not.       *)
Own(d, g) == Len(MicroBatches(d, g))
Agreed(g) == CHOOSE n \in {Own(d, g) : d \in Ranks} : \A d \in Ranks : Own(d, g) <= n
DTensorCount(d, g) == IF call.batching = "packed" THEN Agreed(g) ELSE Own(d, g)
AutomodelCount(d, g) == IF call.batching = "packed" THEN Agreed(g) ELSE Own(d, g)
MegatronCount(d, g) == Own(d, g)
MicroCount(d, g) ==
  CASE call.backend = "dtensor" -> DTensorCount(d, g)
    [] call.backend \in {"automodel", "automodel_value"} -> AutomodelCount(d, g)
    [] call.backend \in {"megatron", "megatron_value"} -> MegatronCount(d, g)

(* A worker set up for balanced batches finds no microbatches in a shard   *)
(* that was cut plainly; Megatron generates only when called as rank 0.    *)
Unprepared ==
  \/ call.op = "score" /\ call.batching # "plain"
  \/ call.op = "generate" /\ Called # {0}
NoMicroBatches ==
  /\ phase = "running" /\ Unprepared /\ phase' = "failed"
  /\ UNCHANGED <<call, feed, packed, shard, micro, perm, rank, answer, packVars>>

OnlyRank(w, r) ==
  /\ rank' = [rank EXCEPT ![w] = r]
  /\ UNCHANGED <<call, feed, phase, packed, shard, micro, perm, answer, packVars>>

Microbatch(w) ==
  LET r == rank[w]
      mine == MicroBatches(RankOf(w), r.gb)
  IN  /\ r.mb < MicroCount(RankOf(w), r.gb)
      /\ OnlyRank(w, [r EXCEPT !.mb = @ + 1, !.step = @ + 1,
           !.seen = IF r.mb < Len(mine) THEN @ \o mine[r.mb + 1] ELSE @])
EndOfBatch(w) ==      \* the optimizer's step, or the results of all rows
  LET r == rank[w]
  IN  /\ r.mb = MicroCount(RankOf(w), r.gb)
      /\ OnlyRank(w, [r EXCEPT !.gb = @ + 1, !.mb = 0, !.step = @ + 1,
                        !.seen = <<>>, !.steps = Append(@, r.seen)])
Infer(w) == Microbatch(w) \/ EndOfBatch(w)

Serves(w, backend, ops) ==
  /\ phase = "running" /\ call.backend = backend /\ call.op \in ops /\ ~Unprepared
  /\ w \in Called /\ rank[w].gb <= GlobalBatches
  /\ \A v \in Called : rank[v].step >= rank[w].step

DTensorTrain(w) == Serves(w, "dtensor", {"train"}) /\ Microbatch(w)
DTensorUpdate(w) == Serves(w, "dtensor", {"train"}) /\ EndOfBatch(w)
DTensorLogprobs(w) ==
  Serves(w, "dtensor", {"get_logprobs", "get_reference_policy_logprobs"}) /\ Infer(w)
DTensorTopk(w) == Serves(w, "dtensor", {"get_topk_logits"}) /\ Infer(w)
DTensorScore(w) == Serves(w, "dtensor", {"score"}) /\ Infer(w)

AutomodelTrain(w) == Serves(w, "automodel", {"train"}) /\ Microbatch(w)
AutomodelUpdate(w) == Serves(w, "automodel", {"train"}) /\ EndOfBatch(w)
AutomodelLogprobs(w) ==
  Serves(w, "automodel", {"get_logprobs", "get_reference_policy_logprobs"}) /\ Infer(w)
AutomodelTopk(w) == Serves(w, "automodel", {"get_topk_logits"}) /\ Infer(w)
AutomodelScore(w) == Serves(w, "automodel", {"score"}) /\ Infer(w)
AutomodelFullLogits(w) == Serves(w, "automodel", {"get_full_logits_ipc"}) /\ Infer(w)

MegatronTrain(w) == Serves(w, "megatron", {"train"}) /\ Microbatch(w)
MegatronUpdate(w) == Serves(w, "megatron", {"train"}) /\ EndOfBatch(w)
MegatronLogprobs(w) ==
  Serves(w, "megatron", {"get_logprobs", "get_reference_policy_logprobs"}) /\ Infer(w)
MegatronTopk(w) == Serves(w, "megatron", {"get_topk_logits"}) /\ Infer(w)
MegatronCalibrate(w) == Serves(w, "megatron", {"calibrate_qkv_fp8_scales"}) /\ Infer(w)
MegatronGenerate(w) == Serves(w, "megatron", {"generate"}) /\ Infer(w)

AutomodelValueTrain(w) == Serves(w, "automodel_value", {"train"}) /\ Infer(w)
AutomodelValues(w) == Serves(w, "automodel_value", {"get_values"}) /\ Infer(w)
MegatronValueTrain(w) == Serves(w, "megatron_value", {"train"}) /\ Infer(w)
MegatronValues(w) == Serves(w, "megatron_value", {"get_values"}) /\ Infer(w)

WorkerStep(w) ==
  \/ DTensorTrain(w) \/ DTensorUpdate(w) \/ DTensorLogprobs(w) \/ DTensorTopk(w)
  \/ DTensorScore(w)
  \/ AutomodelTrain(w) \/ AutomodelUpdate(w) \/ AutomodelLogprobs(w)
  \/ AutomodelTopk(w) \/ AutomodelScore(w) \/ AutomodelFullLogits(w)
  \/ MegatronTrain(w) \/ MegatronUpdate(w) \/ MegatronLogprobs(w)
  \/ MegatronTopk(w) \/ MegatronCalibrate(w) \/ MegatronGenerate(w)
  \/ AutomodelValueTrain(w) \/ AutomodelValues(w)
  \/ MegatronValueTrain(w) \/ MegatronValues(w)

-----------------------------------------------------------------------------
(* get_all_worker_results, from_batches and reorder_data; the handles of   *)
(* full logits are put together rank by rank, the metrics of a training    *)
(* step and the scales of a calibration are taken from the first.          *)

Results(w) == rank[w].steps[1]
Joined == FlattenSeq([i \in DOMAIN InOrder(Answering) |-> Results(InOrder(Answering)[i])])
ReorderedByPosition == [i \in DOMAIN perm |-> Joined[perm[i]]]
Reordered == [i \in DOMAIN perm |-> Joined[CHOOSE k \in DOMAIN perm : perm[k] = i]]
PerSampleHandles ==
  LET of(d) == InOrder({w \in Answering : RankOf(w) = d})
      shards(d) == [k \in DOMAIN Results(of(d)[1]) |->
                      [i \in DOMAIN of(d) |-> <<Results(of(d)[i])[k], of(d)[i]>>]]
  IN  FlattenSeq([d \in 1 .. DP |-> shards(d - 1)])

Gather ==
  /\ phase = "running"
  /\ \A w \in Called : rank[w].gb > GlobalBatches
  /\ phase' = "answered"
  /\ answer' = IF call.op \in {"train", "calibrate_qkv_fp8_scales"} THEN Nothing
               ELSE IF call.op = "get_full_logits_ipc" THEN PerSampleHandles
               ELSE IF perm # Nothing THEN Reordered ELSE Joined
  /\ UNCHANGED <<call, feed, packed, shard, micro, perm, rank, packVars>>

-----------------------------------------------------------------------------
PolicyIdle ==
  /\ phase = "idle" /\ call = Nothing /\ feed = <<>> /\ packed = <<>>
  /\ shard = Nothing /\ micro = Nothing /\ perm = Nothing /\ rank = Nothing
  /\ answer = Nothing /\ PackIdle

(* Chunks of whole shards of whole microbatches, or an assertion fails.    *)
Accepts(c, n) ==
  LET chunk == IF Operations[c.op].trains THEN c.gbs ELSE n
      part == chunk \div c.axes["data_parallel"]
  IN  /\ n > 0 /\ n % chunk = 0 /\ chunk % c.axes["data_parallel"] = 0
      /\ c.batching = "plain" /\ c.op # "generate" => part % c.mbs = 0

(* A batch comes in.  get_full_logits_ipc turns balanced batching down.    *)
Call(c, lengths) ==
  /\ phase = "idle" /\ call' = c /\ feed' = lengths /\ Accepts(c, Len(lengths))
  /\ phase' = IF c.batching = "packed" /\ Operations[c.op].balanced THEN "packing" ELSE "sharding"
  /\ c.op = "get_full_logits_ipc" => c.batching = "plain"
  /\ UNCHANGED <<packed, shard, micro, perm, rank, answer, packVars>>

PolicyStep ==
  \/ ShardPlain \/ ShardDynamic
  \/ PackChunk \/ (PackStep /\ UNCHANGED policyVars) \/ ChunkPacked \/ PackerRefuses
  \/ ShardPacked \/ NoMicroBatches
  \/ phase = "running" /\ \E w \in Called : WorkerStep(w)
  \/ Gather

-----------------------------------------------------------------------------
(* However a batch was sorted, packed, dealt to the ranks and answered:    *)
(* the result at a position is that of the row at this position, full      *)
(* logits once from every worker that holds a part of them, and by the     *)
(* k-th optimizer step the ranks have trained exactly the rows of the k-th *)
(* global batch, each once in every replica.                               *)
ResultsInPlace ==
  phase = "answered" /\ answer # Nothing =>
    /\ Len(answer) = RowsFed
    /\ \A i \in DOMAIN answer :
         IF call.op = "get_full_logits_ipc"
           THEN LET parts == Range(answer[i])
                IN  /\ {p[1] : p \in parts} = {i} /\ Len(answer[i]) = Cardinality(parts)
                    /\ Cardinality(parts) * DP * Extent("pipeline_parallel") = Cardinality(Workers)
           ELSE answer[i] = i
BatchesTrained ==
  phase \in {"running", "answered"} /\ Op.trains =>
    \A w \in Called : \A g \in DOMAIN rank[w].steps :
      LET peers == {v \in Called : CoordOf(v, "tensor_parallel") = CoordOf(w, "tensor_parallel")
                        /\ CoordOf(v, "context_parallel") = CoordOf(w, "context_parallel")
                        /\ CoordOf(v, "pipeline_parallel") = CoordOf(w, "pipeline_parallel")}
          trained == FlattenSeq([i \in 1 .. DP |->
                       LET v == CHOOSE v \in peers : RankOf(v) = i - 1
                       IN  IF g \in DOMAIN rank[v].steps THEN rank[v].steps[g] ELSE rank[v].seen])
      IN  /\ IsInjective(trained) /\ Range(trained) = Range(RowsIn(g))
RowsServed == ResultsInPlace /\ BatchesTrained

(* No worker is left in a collective the others do not enter: workers that *)
(* have entered as many are at the same microbatch of the same global      *)
(* batch.  No microbatch is over its budget or cuts a row short, and a     *)
(* call only fails for a row that is too long, or empty where the packer   *)
(* asks for more, or for a worker that expects other batches.              *)
RanksInStep ==
  /\ phase \in {"running", "answered"} =>
       \A v, w \in Called : rank[v].step = rank[w].step =>
         rank[v].gb = rank[w].gb /\ rank[v].mb = rank[w].mb
  /\ phase = "running" /\ micro # Nothing =>
       \A d \in Ranks, g \in Chunks : \A k \in DOMAIN micro[d][g] :
         LET m == micro[d][g][k]
             rows == MicroBatches(d, g)[k]
         IN  IF Batching = "packed" THEN m.len <= Capacity
             ELSE /\ m.len * Len(rows) <= MaxTokens
                  /\ \A r \in Range(rows) : feed[r] <= m.len
  /\ phase = "failed" =>
       \/ Batching = "packed" /\ \E r \in DOMAIN feed : feed[r] = 0
       \/ \E r \in DOMAIN feed : Padded(feed[r]) > IF Batching = "packed" THEN Capacity ELSE MaxTokens
       \/ Unprepared
=============================================================================
