----------------------------- MODULE MCDataPath -----------------------------
EXTENDS DataPath

(* Interleaved tasks for the grouping of rewards, several generations of a *)
(* prompt for the copies of its log.                                       *)
Mixed == <<"math", "game", "math">>
MCJobs ==
  {[loop |-> "batch", tasks |-> Mixed, gens |-> 1],
   [loop |-> "batch", tasks |-> <<"game">>, gens |-> 2],
   [loop |-> "sample", tasks |-> <<"math", "game">>, gens |-> 1],
   [loop |-> "group", tasks |-> <<"game">>, gens |-> 2]}

MCAnswers ==
  {[obs |-> 1, term |-> FALSE, next |-> TRUE],
   [obs |-> 2, term |-> FALSE, next |-> FALSE],
   [obs |-> 0, term |-> TRUE, next |-> FALSE]}

World(pp, dp, cp, tp) ==
  [pipeline_parallel |-> pp, data_parallel |-> dp,
   context_parallel |-> cp, tensor_parallel |-> tp]
Calls(ops, batchings, algs, gbs, mbs, backends, axes) ==
  [op : ops, batching : batchings, alg : algs, gbs : {gbs}, mbs : {mbs},
   backend : backends, axes : {axes}]
FFD == "first_fit_decreasing"
NoLimit == -1

MCRolloutCalls ==
  UNION {Calls({"get_logprobs"}, {"packed", "dynamic"}, {FFD}, 2, 1, {"megatron"}, World(1, dp, 1, 1)) : dp \in {2, 3}}

(* Any four rows with every packer.  Two global batches of six rows, with *)
(* lengths that need every phase and a further bin; every worker's calls;  *)
(* replicas, pipeline stages and axes that are not called; a row that is   *)
(* too long.                                                               *)
Twelve == {<<9, 4, 4, 7, 2, 2, 7, 7, 7, 7, 9, 2>>, <<2, 2, 2, 2, 2, 2, 9, 9, 9, 4, 7, 2>>}
Eight == {<<9, 2, 2, 7, 7, 4, 4, 2>>}
Pairs == World(1, 2, 1, 1)
Balanced == {"packed", "dynamic"}
MCFourRowCalls ==
  Calls({"get_logprobs"}, {"packed"}, Algorithms, 4, 1, {"megatron"}, Pairs)
    \cup Calls({"get_logprobs"}, {"dynamic"}, {FFD}, 4, 1, {"dtensor"}, Pairs)
MCDatasetCalls ==
  (Calls({"train"}, {"packed"}, Algorithms \ {"first_fit_shuffle"}, 6, 1, {"megatron", "dtensor"}, Pairs)
    \cup Calls({"train"}, {"plain", "dynamic"}, {FFD}, 6, 1, {"dtensor"}, Pairs)) \X Twelve
  \cup (Calls({"train"}, Balanced, {FFD}, 4, 1, {"automodel", "automodel_value", "megatron_value"}, Pairs)
    \cup Calls({"get_logprobs", "get_topk_logits"}, Balanced, {FFD}, 4, 2, {"dtensor", "automodel"}, Pairs)
    \cup Calls({"get_reference_policy_logprobs", "get_topk_logits", "calibrate_qkv_fp8_scales"}, Balanced, {FFD}, 4, 2, {"megatron"}, Pairs)
    \cup Calls({"get_values"}, Balanced, {FFD}, 4, 2, {"automodel_value", "megatron_value"}, Pairs)
    \cup Calls({"score"}, Balanced \cup {"plain"}, {FFD}, 4, 2, {"dtensor", "automodel"}, Pairs)) \X Eight
  \cup (Calls({"get_full_logits_ipc"}, {"plain"}, {FFD}, 2, 1, {"automodel"}, World(1, 2, 2, 1))
    \cup UNION {Calls({"generate"}, {"plain"}, {FFD}, 2, 1, {"megatron"}, World(1, dp, 2, 1)) : dp \in {1, 2}}
    \cup Calls({"train", "get_logprobs"}, {"packed"}, {FFD}, 2, 1, {"megatron"}, World(2, 2, 1, 1))
    \cup Calls({"train"}, {"packed"}, {FFD}, 2, 1, {"dtensor"}, World(1, 2, 1, 2))) \X {<<9, 4>>}
  \cup Calls({"train"}, Balanced, Algorithms, 2, 1, {"dtensor"}, Pairs) \X {<<4, 20>>}

(* Rows of one token and of the whole width, odd lengths, a row padded by  *)
(* the pack's alignment and the pack by its pipeline stages (whole or not  *)
(* of the alignment), chunks that do not divide the columns, one, two and  *)
(* three shares.                                                           *)
Lens == {<<3, 1, 4>>, <<2, 5>>}
Scoring(layouts, ops, width, cp, tp, aligns, divisors, packTos, chunks, filters) ==
  [layout : layouts, op : ops, lens : Lens, width : {width}, cp : {cp}, tp : {tp}, sp : {tp > 1 /\ "packed" \in layouts},
   align : aligns, divisor : divisors, packTo : packTos, chunk : chunks, filtered : filters]
MCScorings ==
  UNION {Scoring({"rows"}, {"logprobs", "loss"}, 6, 1, tp, {1}, {1}, {0}, {0, 4, 5}, BOOLEAN) : tp \in {1, 2}}
  \cup UNION {Scoring({"rows"}, {"topk", "distill"}, 6, 1, tp, {1}, {1}, {0}, {0, 4}, {FALSE}) : tp \in {1, 2}}
  \cup {s \in UNION {Scoring({"packed"}, {"logprobs", "loss", "fused_loss"}, RoundUp(5, a), cp, tp, {a}, {1, 2}, {0, 24}, {0, 3}, BOOLEAN) : a \in {1, 4, 12}, cp \in 1 .. 3, tp \in {1, 2}}
         : s.packTo = 0 \/ s.packTo >= s.align * Len(s.lens)}
  \cup {s \in UNION {Scoring({"packed"}, {"topk", "distill"}, RoundUp(5, 4), cp, tp, {4}, {1, 2}, {0, 24}, {0, 3}, {FALSE}) : cp \in {1, 2}, tp \in {1, 2}}
         : s.packTo = 0 \/ s.packTo >= s.align * Len(s.lens)}
  \cup Scoring({"vlm"}, {"logprobs", "loss", "topk"}, 8, 2, 1, {4}, {1}, {0, 16, 14, 8}, {0}, {FALSE})
  \cup UNION {Scoring({"flat"}, {"logprobs", "loss", "topk"}, 8, 1, tp, {1}, {1}, {10}, {0, 3}, {FALSE}) : tp \in {1, 2}}
  \cup UNION {Scoring({"dtensor"}, {"logprobs", "loss", "topk", "distill", "full"}, 12, cp, tp, {1}, {1}, {0}, {0}, {FALSE}) : cp \in 1 .. 3, tp \in {1, 2}}

(* Shards of two, one and no prompts; a prompt that fills the context and  *)
(* one that leaves room for one token; fewer slots than prompts.           *)
MCFleets ==
  [kind : {"vllm", "vllm_async"}, engines : {2, 3}, slots : {1}, relay : {FALSE}, prompts : {<<1, 2, 1, 4>>, <<3, 1, 2>>}]
  \cup [kind : {"sglang"}, engines : {2}, slots : {1}, relay : BOOLEAN, prompts : {<<1, 3, 2, 4>>}]
  \cup [kind : {"sglang_async"}, engines : {2}, slots : {1}, relay : {FALSE}, prompts : {<<1, 3>>}]
  \cup [kind : {"megatron", "megatron_async"}, engines : {2}, slots : {1}, relay : {FALSE}, prompts : {<<1, 2, 4>>}]

(* Three groups of tensors, so that a half or a stream is used again, and  *)
(* a tensor too large; engines of one rank and of two.                     *)
Tensors == {<<3, 2, 4, 1, 3>>}
MCTransfers ==
  [path : {"ipc"}, sizes : Tensors \cup {<<9, 1>>}, room : {16}, tp : {1}]
  \cup [path : {"http"}, sizes : Tensors, room : {6}, tp : {1, 2}]
  \cup [path : {"collective"}, sizes : Tensors, room : {3}, tp : {1, 2}]

(* One host to six, in no NVLink domain known or in domains whose ranks    *)
(* follow another order than the node ids; engines within a host, across   *)
(* hosts and in more pieces than a host has; hosts that do not divide into *)
(* segments, GPUs the reward model wants too, teachers on what is left.    *)
Host(d, r) == [domain |-> d, topo |-> r]
Plain(n) == [i \in 1 .. n |-> Host(Unpinned, -1)]
Racks == <<Host("b", 3), Host("a", 1), Host("b", 2), Host("a", 0)>>
MoreRacks == Racks \o <<Host("c", 5), Host("c", 4)>>
Colocated(algo, hosts, nodes, gpus) ==
  [algo |-> algo, hosts |-> hosts, nodes |-> nodes, gpus |-> gpus, colocated |-> TRUE, backend |-> "vllm",
   mp |-> 1, infNodes |-> 1, infGpus |-> gpus, segment |-> 0, rm |-> 0, teachers |-> <<>>, gym |-> FALSE]
Separate(algo, hosts, nodes, gpus) == [Colocated(algo, hosts, nodes, gpus) EXCEPT !.colocated = FALSE, !.infNodes = 2]
MCDeployments ==
  {Colocated("pairs", Racks, 4, 1), [Colocated("pairs", Racks, 2, 1) EXCEPT !.segment = 2],
   [Colocated("pairs", Plain(3), 2, 2) EXCEPT !.segment = 2],
   [Colocated("xtoken", Plain(2), 2, 1) EXCEPT !.teachers = <<1, 1>>], Colocated("ppo", Plain(2), 2, 2),
   [Colocated("ppo", Plain(3), 3, 2) EXCEPT !.mp = 3],
   [Colocated("grpo", Plain(2), 2, 2) EXCEPT !.mp = 2, !.backend = "megatron", !.gym = TRUE],
   [Separate("grpo", Plain(3), 3, 2) EXCEPT !.mp = 4], [Separate("distillation", Plain(2), 3, 1) EXCEPT !.backend = "megatron"]}
  \cup {[Colocated("ppo", Plain(2), 2, 2) EXCEPT !.mp = 4, !.backend = b] : b \in {"vllm", "sglang"}}
  \cup {[Colocated("grpo", Plain(2), 2, 2) EXCEPT !.mp = m, !.backend = b, !.gym = g] :
          m \in {2, 4}, b \in {"vllm", "sglang"}, g \in BOOLEAN}
  \cup {[Colocated("distillation", Plain(2), 2, 2) EXCEPT !.mp = m, !.gym = g] : m \in {2, 4}, g \in BOOLEAN}
  \cup {[Separate("grpo", Plain(1), 1, 3) EXCEPT !.backend = b, !.infGpus = 1, !.rm = r, !.gym = g] :
          b \in Backends, r \in {0, 1}, g \in BOOLEAN}
  \cup {[Separate("grpo", Plain(4), 4, 1) EXCEPT !.mp = 2, !.backend = b, !.rm = r] : b \in {"vllm", "megatron"}, r \in {0, 1}}
  \cup {[Separate("distillation", Plain(3), 3, 1) EXCEPT !.mp = 2, !.gym = g] : g \in BOOLEAN}
  \cup {[Colocated("grpo", Racks, 4, 1) EXCEPT !.mp = 2, !.segment = 2, !.teachers = t, !.backend = b] :
          t \in {<<>>, <<2>>, <<1, 1>>}, b \in {"vllm", "sglang"}}
  \cup {[Separate("grpo", Racks, 4, 1) EXCEPT !.mp = m, !.segment = 2, !.rm = r] : m \in {1, 2}, r \in {0, 1}}
  \cup {[Separate("grpo", MoreRacks, 6, 1) EXCEPT !.mp = m, !.segment = 2, !.teachers = <<2>>] : m \in {1, 2}}

(* Every small reward for two groups, a pair and three of which the last   *)
(* is left out of the loss, under every estimator; answers that repeat     *)
(* themselves, are long or cut off.                                        *)
Token(m, v) ==
  [mask |-> m, ratio |-> <<4, 2, 7>>[v], is |-> <<4, 9, 1>>[v], lp |-> <<-1, -2, 0>>[v], kl |-> v - 1,
   value |-> v - 1, ret |-> 2, old |-> 1, gap |-> v - 2]
Masked(ms) == [t \in DOMAIN ms |-> Token(ms[t], 1 + (t % 3))]
Row(prompt, reward, ok, toks) ==
  [prompt |-> prompt, reward |-> reward, parts |-> <<reward, 1 - reward>>, answers |-> <<<<1, 2>>>>,
   truncated |-> FALSE, ok |-> ok, ratio |-> 7, is |-> 5, geoIs |-> 4, score |-> reward, toks |-> toks]
Unshaped == [enabled |-> FALSE, grams |-> 0, threshold |-> 0, weight |-> 0, buffer |-> 0, maxLen |-> 0,
             penalty |-> 0, stop |-> 0]
Estimator(name) ==
  [name |-> name, leaveOneOut |-> FALSE, normalize |-> FALSE, klInReward |-> FALSE,
   minusBaseline |-> FALSE, alpha |-> 0, lambda |-> <<1, 2>>]
Objective(name) ==
  [name |-> name, ratio |-> "token", cispo |-> FALSE, dual |-> 0, level |-> "token", correct |-> FALSE,
   trunc |-> "none", lo |-> 2, hi |-> 6, clipMin |-> 1, clipMax |-> 2, kl |-> 0, nll |-> 0, sft |-> 0, clip |-> 0]
Lesson(rows, shape, est, obj, backend, dp, cp, wrap, draft, batches) ==
  [rows |-> rows, shape |-> shape, est |-> est, obj |-> obj, backend |-> backend, dp |-> dp, cp |-> cp,
   wrap |-> wrap, draft |-> draft, batches |-> batches]
EstimatedOnly(rows, shape, est) == Lesson(rows, shape, est, Objective("pg"), "megatron", 1, 1, "rows", 0, <<>>)

Estimators ==
  {[Estimator("grpo") EXCEPT !.leaveOneOut = l, !.normalize = n] : l, n \in BOOLEAN}
  \cup {[Estimator("gdpo") EXCEPT !.leaveOneOut = l, !.normalize = TRUE] : l \in BOOLEAN}
  \cup {[Estimator("reinforce_plus_plus") EXCEPT !.klInReward = k, !.minusBaseline = ~k] : k \in BOOLEAN}
  \cup {[Estimator("raw_reward") EXCEPT !.normalize = n] : n \in BOOLEAN}
  \cup {[Estimator("gae") EXCEPT !.normalize = n, !.klInReward = k, !.alpha = a] : n, k \in BOOLEAN, a \in {0, 1}}
  \cup {Estimator("opd")}
WithRewards(w) ==
  <<Row(1, w[1], TRUE, Masked(<<0, 1, 1, 0, 1>>)), Row(2, w[2], TRUE, Masked(<<0, 0, 1>>)),
    Row(1, w[3], TRUE, Masked(<<0, 1>>)), Row(2, w[4], TRUE, Masked(<<0, 1, 1>>)),
    Row(2, w[5], FALSE, Masked(<<0, 0, 0, 1>>))>>
Long == [Unshaped EXCEPT !.enabled = TRUE, !.buffer = 2, !.maxLen = 4, !.penalty = 1]
Repeating == [Unshaped EXCEPT !.enabled = TRUE, !.grams = 2, !.threshold = 1, !.weight = 1]
CutOff == [Long EXCEPT !.grams = 1, !.threshold = 1, !.weight = 1, !.stop = 1]
Said(w, a, cut) == [Row(1, w, TRUE, Masked(<<0, 1>>)) EXCEPT !.answers = <<a, <<1, 1, 1>>>>, !.truncated = cut]
Shapings ==
  {EstimatedOnly(<<Said(1, a, cut), Said(0, <<1, 2, 3>>, ~cut)>>, s, [Estimator("grpo") EXCEPT !.leaveOneOut = TRUE])
     : a \in UNION {[1 .. n -> 1 .. 2] : n \in 1 .. 5}, cut \in BOOLEAN, s \in {Long, Repeating, CutOff}}
Estimations == {EstimatedOnly(WithRewards(w), Unshaped, e) : w \in [1 .. 5 -> {0, 1}] \cup {<<0, 2, 1, 1, 0>>, <<2, 1, 0, 0, 2>>}, e \in Estimators}

(* Four rows, one of them without weight and one without response, dealt   *)
(* to one and two ranks in every way, as one global batch and as two.      *)
Learners(obj) ==
  LET rows == <<Row(1, 1, TRUE, Masked(<<0, 1, 1>>)), Row(1, -1, TRUE, Masked(<<0, 0, 1>>)),
                Row(2, -1, FALSE, Masked(<<0, 1, 1>>)), Row(2, 1, TRUE, Masked(<<0, 1, 0, 1, 1>>))>>
      pairs == [rows EXCEPT ![1].ok = FALSE, ![2].ok = FALSE, ![3].ok = TRUE, ![4].score = -2]
  IN  IF obj.name \in {"preference", "dpo"} THEN pairs ELSE rows
Taught(obj, backend, dp, cp, wrap, draft, batches) ==
  Lesson(Learners(obj), Unshaped, Estimator("raw_reward"), obj, backend, dp, cp, wrap, draft, batches)
PG == Objective("pg")
Corrected == [PG EXCEPT !.correct = TRUE]
PolicyGradients ==
  {[PG EXCEPT !.kl = 1], [PG EXCEPT !.level = "sequence"], [PG EXCEPT !.dual = 5, !.clipMin = 3],
   [PG EXCEPT !.cispo = TRUE], [PG EXCEPT !.ratio = "none"], [PG EXCEPT !.ratio = "forced"],
   [PG EXCEPT !.ratio = "sequence", !.level = "sequence"]}
  \cup {[Corrected EXCEPT !.trunc = t] : t \in {"none", "tis", "icepop", "seq-mask-tis"}}
Supervised ==
  {Objective("nll"), Objective("distillation"), Objective("mse"), [Objective("mse") EXCEPT !.clip = 1]}
InPairs == {Objective("preference"), [Objective("dpo") EXCEPT !.sft = 1]}
One == <<<<1, 2, 3, 4>>>>
Two == <<<<1, 2>>, <<4, 3>>>>
MCLessons ==
  Shapings \cup Estimations
  \cup {Taught(o, "megatron", 2, 2, "packed", 0, One) : o \in PolicyGradients \cup Supervised}
  \cup {Taught(o, b, 2, 2, "rows", 0, One) : o \in PolicyGradients \cup Supervised \cup InPairs, b \in {"automodel"}}
  \cup {Taught(o, "dtensor", 2, 1, "packed", 0, One) : o \in {PG, Objective("nll")}}
  \cup {Taught(o, b, 1, 2, "rows", 0, Two) : o \in PolicyGradients \cup Supervised, b \in {"dtensor", "megatron"}}
  \cup {Taught([PG EXCEPT !.nll = 1], "automodel", 1, 1, "rows", 0, One),
         Taught(Objective("nll"), "megatron", 2, 1, "rows", 1, Two), Taught(PG, "megatron", 2, 1, "fused", 0, One)}

(* A character of two bytes and a broken one, marked and cut in every way; *)
(* a text that repeats a trigram's letters, one whose halves change places *)
(* and ones that end or differ before the other.  Letters are no bytes.    *)
SplitAt(c, places) ==
  LET f[i \in 0 .. Len(c)] ==
        IF i = 0 THEN <<>> ELSE IF i = 1 \/ i \in places THEN Append(f[i - 1], <<c[i]>>)
        ELSE Append(Front(f[i - 1]), Append(Last(f[i - 1]), c[i]))
  IN  f[Len(c)]
EveryCut(c, d, sPad, tPad) ==
  {[s |-> SplitAt(c, a), t |-> SplitAt(d, b), sPad |-> sPad, tPad |-> tPad] : a \in SUBSET (2 .. Len(c)), b \in SUBSET (2 .. Len(d))}
MCTexts ==
  EveryCut(<<1, 101, 7, 8>>, <<2, 101, 7, 8>>, 1, 0)
    \cup EveryCut(<<101, 7, 8, 1, 3>>, <<101, 7, 8, 3>>, 0, 0)
    \cup EveryCut(<<101, 4, 5, 102>>, <<101, 4, 5, 102>>, 0, 1)
    \cup EveryCut(<<101, 102, 103, 104>>, <<101, 103, 102, 105>>, 0, 0)
    \cup EveryCut(<<101, 102, 101, 103>>, <<101, 102>>, 0, 1)
    \cup {x \in EveryCut(<<101, 102, 101, 102, 103, 104>>, <<101, 102, 101, 102, 103, 104>>, 0, 0) : Len(x.s) = 6 /\ Len(x.t) > 3}
    \cup {x \in EveryCut(<<101, 102, 103, 104, 105, 106>>, <<104, 105, 106, 101, 102, 103>>, 0, 0) : Len(x.s) = 6 /\ Len(x.t) = 6}

(* Four rows, of which one does not count, with chunks that are not equal, *)
(* that one side lacks, and that padding follows; teachers and student on  *)
(* grids that share nothing; all losses, alone and with a second teacher   *)
(* of the student's tokenizer; a training batch and then a smaller one for *)
(* validation; two nodes with as many GPUs as a replica needs or not.      *)
MCLogit(i, r, p, v) == (5 * i + 3 * r + 7 * p + 4 * v + r * p * (v + 1)) % 11
TwoTexts(on, mask, s, t, right) ==
  [on |-> on, mask |-> mask, s |-> <<s, <<>>>>, t |-> <<t, <<>>>>, right |-> <<right, <<>>>>,
   tMask |-> <<[x \in DOMAIN t |-> IF t[x] = -1 THEN 0 ELSE 1], <<>>>>]
FourTexts ==
  <<TwoTexts(TRUE, <<1, 1, 1, 1>>, <<0, 0, 1, 2>>, <<0, 1, 1, 2>>, <<TRUE, FALSE, TRUE>>),
    TwoTexts(TRUE, <<1, 1, 1, 0>>, <<0, 1, 2, -1>>, <<0, 1, 1, -1>>, <<TRUE, TRUE, FALSE>>),
    TwoTexts(FALSE, <<1, 1, 1, 1>>, <<0, 1, 1, 1>>, <<0, 0, 1, 1>>, <<TRUE, TRUE>>),
    TwoTexts(TRUE, <<1, 1, 0, 0>>, <<0, 1, -1, -1>>, <<0, 0, 0, 1>>, <<TRUE, TRUE>>)>>
TrainOn(n) == [eval |-> FALSE, rows |-> SubSeq(FourTexts, 1, n)]
ValidateOn(n) == [eval |-> TRUE, rows |-> <<FourTexts[4]>> \o SubSeq(FourTexts, 1, n - 1)]
Grid(dp, cp, tp, mbs) == [dp |-> dp, cp |-> cp, tp |-> tp, mbs |-> mbs, gbs |-> 4]
To(a, b, wa, wb) == [to |-> <<a, b>>, w |-> <<wa, wb>>]
Projection(xtoken) ==
  IF xtoken THEN <<To(1, 0, 6, 4), To(0, 1, 2, 8), To(0, -1, 10, 0), To(2, -1, 10, 0)>>
  ELSE <<To(0, -1, 10, 0), To(0, -1, 10, 0), To(1, 0, 6, 4), To(1, 0, 3, 7)>>
TeacherOn(g, same, gold, xtoken) ==
  [dp |-> g.dp, cp |-> g.cp, tp |-> g.tp, mbs |-> g.mbs, gbs |-> g.gbs, same |-> same, gold |-> gold, xtoken |-> xtoken,
   cols |-> 2, projection |-> IF same THEN <<>> ELSE Projection(xtoken)]
Foreign(g, gold, xtoken) == TeacherOn(g, FALSE, gold, xtoken)
Alike(g) == TeacherOn(g, TRUE, FALSE, FALSE)
FromTeachers(s, ts, mode, metric, rounds) ==
  [gbs |-> s.gbs, student |-> s, teachers |-> ts, mode |-> mode, metric |-> metric, exactOnly |-> mode = "sum" /\ metric = "none",
   topk |-> 1, nodes |-> 1, perNode |-> 8, rounds |-> rounds]
StudentGrids == {Grid(2, 2, 1, 1), Grid(1, 2, 2, 2), Grid(2, 1, 2, 2), Grid(4, 1, 1, 1), Grid(1, 1, 1, 4)}
TeacherGrids == {Grid(1, 1, 2, 4), Grid(2, 2, 1, 1), Grid(4, 1, 1, 1), Grid(1, 1, 1, 2)}
Weighted == {<<"select", "none">>, <<"sum", "ce">>, <<"averaged", "none">>}
ThreeRanks(cp) == [Grid(3, cp, 3 - cp, 1) EXCEPT !.gbs = 3]
MCDistillations ==
  {FromTeachers(s, <<Foreign(t, l[1], l[2]), Alike(Grid(1, 2, 2, 2))>>, "sum", "none", <<TrainOn(4), ValidateOn(3)>>) :
     s \in StudentGrids, t \in TeacherGrids, l \in {<<FALSE, FALSE>>, <<TRUE, FALSE>>, <<TRUE, TRUE>>}}
  \cup {FromTeachers(s, <<Foreign(t, TRUE, FALSE), Alike(Grid(2, 1, 1, 1))>>, m[1], m[2], <<TrainOn(4), ValidateOn(3)>>) :
          s \in StudentGrids, t \in {Grid(1, 1, 2, 4), Grid(2, 2, 1, 1)}, m \in Weighted}
  \cup {FromTeachers(s, <<Alike(Grid(2, 2, 1, 1)), Alike(Grid(1, 1, 2, 2))>>, m[1], m[2], <<TrainOn(4), ValidateOn(2)>>) :
          s \in StudentGrids, m \in Weighted}
  \cup {[FromTeachers(s, <<Foreign(t, FALSE, FALSE)>>, "sum", "none", <<TrainOn(4)>>) EXCEPT !.nodes = 2, !.perNode = n] :
          s \in {Grid(2, 2, 1, 1), Grid(1, 2, 2, 1), Grid(2, 1, 2, 1), Grid(4, 1, 1, 1)},
          t \in {Grid(2, 2, 1, 1), Grid(2, 1, 2, 1), Grid(4, 1, 1, 1)}, n \in {2, 3}}
  \cup {[FromTeachers(ThreeRanks(2), <<Alike(ThreeRanks(1))>>, "sum", "none", <<TrainOn(3)>>) EXCEPT !.nodes = 2, !.perNode = 3]}
=============================================================================
