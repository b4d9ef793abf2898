------------------------------ MODULE Learning ------------------------------
(***************************************************************************)
(* From rewards to a gradient.  The driver shapes the rewards of a batch,  *)
(* estimates advantages and sends the rows to the workers, which go        *)
(* through each global batch in microbatches that nothing in a loss may    *)
(* depend on: every mean is over the tokens or the sequences of the global *)
(* batch, every back end undoes the averaging it would otherwise do, and   *)
(* the driver adds up what each microbatch reports.                        *)
(*                                                                         *)
(* Numbers are exact: ratios and importance weights are in quarters, a     *)
(* quotient is an integer times Scale.  A gradient is what each row        *)
(* contributes to it.  Logarithms, their exponentials and the standard     *)
(* deviation are given by values or by a function with their monotony.     *)
(***************************************************************************)
EXTENDS Integers, Sequences, FiniteSets, SequencesExt

CONSTANTS Lessons     \* the batches, estimators and losses, see Lesson

VARIABLES
  lesson,
  learnAt,      \* "none", "rewarded", "shaped", "estimated", "dealt", "learnt"
  shaped,       \* [row -> its reward after shaping]
  advantage,    \* [row -> [token -> advantage]]
  dealt,        \* [rank -> the microbatches of this global batch]
  microbatch,   \* microbatches done of it
  accumulated,  \* [rank -> [row -> its part of the gradient so far]]
  applied,      \* the gradients of the optimizer's steps
  reports       \* what the microbatches reported, per global batch

learnVars == <<lesson, learnAt, shaped, advantage, dealt, microbatch, accumulated, applied, reports>>

LessonRows == DOMAIN lesson.rows
Obj == lesson.obj
Tok(r) == lesson.rows[r].toks
Scale == 10080        \* of quotients
Quarters == 4         \* ratio and weight of one
Infinite == 9999

AddUp(S, f(_)) == MapThenSumSet(f, S)
Clamped(x, lo, hi) == IF x < lo THEN lo ELSE IF x > hi THEN hi ELSE x

-----------------------------------------------------------------------------
(* Rewards.  The first answer of a conversation is penalized for being     *)
(* repetitive or long, in units of 1/Scale.                                *)

Grams(ids, n) == [i \in 1 .. Len(ids) - n + 1 |-> SubSeq(ids, i, i + n - 1)]
Repetition(ids, n, threshold) ==
  LET g == Grams(ids, n)
      Count(x) == Cardinality({i \in DOMAIN g : g[i] = x})
      over == {x \in ToSet(g) : Count(x) > threshold}
  IN  IF Len(ids) < n \/ over = {} THEN 0
      ELSE Max({(Cardinality(over) * Scale) \div Len(g),
                     (Max({Count(x) : x \in over}) * n * Scale) \div Len(ids)})
Overlong(length, s) ==
  Min({0, (-(length - (s.maxLen - s.buffer)) * s.penalty * Scale) \div s.buffer})
ShapedReward(r) ==
  LET s == lesson.shape
      x == lesson.rows[r]
  IN  x.reward * Scale
        - (IF s.grams > 0 THEN s.weight * Repetition(x.answers[1], s.grams, s.threshold) ELSE 0)
        + (IF s.buffer > 0 THEN Overlong(Len(x.answers[1]), s) ELSE 0)
        - (IF x.truncated THEN s.stop * Scale ELSE 0)

ShapeRewards ==
  /\ learnAt = "rewarded" /\ learnAt' = "shaped"
  /\ shaped' = [r \in LessonRows |-> IF lesson.shape.enabled THEN ShapedReward(r) ELSE lesson.rows[r].reward * Scale]
  /\ UNCHANGED <<lesson, advantage, dealt, microbatch, accumulated, applied, reports>>

-----------------------------------------------------------------------------
(* Advantages.                                                             *)

GroupOf(r) == {q \in LessonRows : lesson.rows[q].prompt = lesson.rows[r].prompt}
PeersInBatch(r, leaveOneOut) == IF leaveOneOut THEN LessonRows \ {r} ELSE LessonRows
Peers(r, leaveOneOut) == IF leaveOneOut THEN GroupOf(r) \ {r} ELSE GroupOf(r)
Baseline(val, r, leaveOneOut) ==
  LET peers == Peers(r, leaveOneOut)
  IN  IF Cardinality(GroupOf(r)) <= 1 THEN val[r]
      ELSE AddUp(peers, LAMBDA q : val[q]) \div Cardinality(peers)
(* n^2 times the variance the standard deviation is the root of.           *)
Spread(val, r, leaveOneOut) ==
  LET peers == Peers(r, leaveOneOut)
      n == Cardinality(peers)
      v(q) == val[q] \div Scale
  IN  IF Cardinality(GroupOf(r)) <= 1 \/ n <= 1 THEN 0
      ELSE n * AddUp(peers, LAMBDA q : v(q) * v(q)) - AddUp(peers, v) * AddUp(peers, v)
InverseStd(spread) == 1 + spread      \* only told apart: other spreads, other factors
Sharpened(x, spread) == IF spread > 0 THEN x * InverseStd(spread) ELSE x

Response(r) == {t \in DOMAIN Tok(r) : Tok(r)[t].mask = 1}
MaskedOf(r) == IF lesson.rows[r].ok THEN Response(r) ELSE {}
AllTokens(x) == [r \in LessonRows |-> [t \in DOMAIN Tok(r) |-> x[r]]]

GRPOAdvantage ==
  LET e == lesson.est
      Adv(r) == shaped[r] - Baseline(shaped, r, e.leaveOneOut)
  IN  AllTokens([r \in LessonRows |-> IF e.normalize THEN Sharpened(Adv(r), Spread(shaped, r, e.leaveOneOut)) ELSE Adv(r)])

(* Each reward by itself, then their sum around its mean over the rows.    *)
GDPOAdvantage ==
  LET e == lesson.est
      part(k) == [r \in LessonRows |-> lesson.rows[r].parts[k] * Scale]
      Adv(k, r) == LET x == part(k)[r] - Baseline(part(k), r, e.leaveOneOut)
                   IN  IF e.normalize THEN Sharpened(x, Spread(part(k), r, e.leaveOneOut)) ELSE x
      total == [r \in LessonRows |-> Adv(1, r) + Adv(2, r)]
      sum == AddUp(LessonRows, LAMBDA r : total[r])
  IN  AllTokens([r \in LessonRows |-> Cardinality(LessonRows) * total[r] - sum])

(* Around the mean of the tokens that count, times their number.           *)
Whitened(adv) ==
  LET count == AddUp(LessonRows, LAMBDA r : Cardinality(MaskedOf(r)))
      Of(r) == AddUp(MaskedOf(r), LAMBDA t : adv[r][t])
      sum == AddUp(LessonRows, Of)
  IN  [r \in LessonRows |-> [t \in DOMAIN Tok(r) |-> count * adv[r][t] - sum]]

PlusPlusAdvantage ==
  LET e == lesson.est
      Penalty(r, t) == IF e.klInReward THEN Tok(r)[t].kl * Scale ELSE 0
      Adv(r) == shaped[r] - (IF e.minusBaseline THEN Baseline(shaped, r, FALSE) ELSE 0)
  IN  Whitened([r \in LessonRows |-> [t \in DOMAIN Tok(r) |-> Adv(r) - Penalty(r, t)]])

RawAdvantage == IF lesson.est.normalize THEN Whitened(AllTokens(shaped)) ELSE AllTokens(shaped)

(* GAE, from the last token to the first; a token that is no response      *)
(* leaves what is carried as it is.  gamma is 1/2, lambda num/den.         *)
TokenRewards(r) ==
  LET e == lesson.est
      last == IF MaskedOf(r) = {} THEN 0 ELSE Max(MaskedOf(r))
  IN  [t \in DOMAIN Tok(r) |->
         IF t \notin MaskedOf(r) THEN 0
         ELSE (IF t = last THEN shaped[r] ELSE 0) - (IF e.klInReward THEN Tok(r)[t].kl * Scale ELSE 0)]
LambdaPolicy(r) ==
  LET n == lesson.est.alpha * Cardinality(MaskedOf(r))
  IN  IF lesson.est.alpha > 0 THEN (IF n <= 1 THEN <<0, 1>> ELSE <<n - 1, n>>) ELSE lesson.est.lambda
ComputeGAE(r, lambda) ==
  LET n == Len(Tok(r))
      rewards == TokenRewards(r)
      value(t) == Tok(r)[t].value * Scale
      f[t \in 1 .. n + 1] ==
        IF t = n + 1 THEN [next |-> 0, lastLam |-> 0]
        ELSE LET delta == rewards[t] + f[t + 1].next \div 2 - value(t)
             IN  IF t \in MaskedOf(r)
                   THEN [next |-> value(t),
                         lastLam |-> delta + (f[t + 1].lastLam * lambda[1]) \div (2 * lambda[2])]
                 ELSE f[t + 1]
  IN  [t \in 1 .. n |-> f[t].lastLam]
GAEAdvantage ==
  LET adv == [r \in LessonRows |-> ComputeGAE(r, LambdaPolicy(r))]
      out == IF lesson.est.normalize THEN Whitened(adv) ELSE adv
  IN  [r \in LessonRows |-> [t \in DOMAIN Tok(r) |-> IF t \in MaskedOf(r) THEN out[r][t] ELSE 0]]

(* What the teacher finds likelier than the student.                       *)
DistilledAdvantage ==
  [r \in LessonRows |-> [t \in DOMAIN Tok(r) |-> IF t \in MaskedOf(r) THEN Tok(r)[t].gap * Scale ELSE 0]]

EstimateAdvantages ==
  /\ learnAt = "shaped" /\ learnAt' = "estimated"
  /\ advantage' = CASE lesson.est.name = "grpo" -> GRPOAdvantage
                    [] lesson.est.name = "gdpo" -> GDPOAdvantage
                    [] lesson.est.name = "reinforce_plus_plus" -> PlusPlusAdvantage
                    [] lesson.est.name = "raw_reward" -> RawAdvantage
                    [] lesson.est.name = "gae" -> GAEAdvantage
                    [] lesson.est.name = "opd" -> DistilledAdvantage
  /\ UNCHANGED <<lesson, shaped, dealt, microbatch, accumulated, applied, reports>>

-----------------------------------------------------------------------------
(* The losses.  Each gives the part of a row in the loss of a microbatch,  *)
(* given how many sequences and tokens the global batch has.               *)

Scored(r) == {t \in 2 .. Len(Tok(r)) : Tok(r)[t].mask = 1}      \* token_mask[:, 1:]
Counted(r) == IF lesson.rows[r].ok THEN Scored(r) ELSE {}
GlobalSeqs(batch) == Cardinality({r \in batch : lesson.rows[r].ok})
GlobalToks(batch) == AddUp(batch, LAMBDA r : Cardinality(Counted(r)))
Over1(x, n) == IF n = 0 THEN 0 ELSE (x * Scale) \div n
AdvOf(r, t) == advantage[r][t] \div (Scale \div 12)

(* A ratio per token or, for GSPO, one per sequence; the log-probability   *)
(* itself without ratio; one, but for its gradient, on policy.             *)
RatioOf(r, t) ==
  CASE Obj.ratio = "token" -> Tok(r)[t].ratio
    [] Obj.ratio = "sequence" -> lesson.rows[r].ratio
    [] Obj.ratio = "none" -> Tok(r)[t].lp * Quarters
    [] Obj.ratio = "forced" -> Quarters
ClipsRatio == Obj.ratio \in {"token", "sequence"}
ClampedRatio(r, t) ==
  IF ClipsRatio THEN Clamped(RatioOf(r, t), Quarters - Obj.clipMin, Quarters + Obj.clipMax) ELSE RatioOf(r, t)
ClipLoss(r, t) ==
  LET a == AdvOf(r, t)
      loss1 == -a * RatioOf(r, t)
      loss2 == -a * ClampedRatio(r, t)
      clipped == IF Obj.cispo THEN -a * ClampedRatio(r, t) * Tok(r)[t].lp ELSE Max({loss1, loss2})
  IN  IF Obj.dual > 0 /\ a < 0 THEN Min({clipped, -a * Obj.dual}) ELSE clipped

(* Importance weights of the trainer against the sampler, and the tokens   *)
(* (or, for seq-mask-tis, the sequences) that are out of bounds.           *)
RawWeight(r, t) == IF Obj.ratio = "sequence" THEN lesson.rows[r].is ELSE Tok(r)[t].is
Outside(x) == x < Obj.lo \/ x > Obj.hi
OutOfBounds(r, t) ==
  CASE Obj.trunc = "none" -> FALSE
    [] Obj.trunc \in {"tis", "icepop"} -> Outside(RawWeight(r, t))
    [] Obj.trunc = "seq-mask-tis" -> Outside(lesson.rows[r].geoIs)
WeightOf(r, t) ==
  CASE Obj.trunc = "tis" -> Clamped(RawWeight(r, t), Obj.lo, Obj.hi)
    [] Obj.trunc \in {"icepop", "seq-mask-tis"} -> IF OutOfBounds(r, t) THEN 0 ELSE RawWeight(r, t)
    [] Obj.trunc = "none" -> RawWeight(r, t)

TokenTerm(r, t) ==
  (IF Obj.correct THEN WeightOf(r, t) ELSE Quarters) * ClipLoss(r, t) + Obj.kl * Tok(r)[t].kl
MeanOverRows(r, term(_), seqs, toks) ==
  IF Obj.level = "token" THEN Over1(AddUp(Counted(r), term), toks)
  ELSE IF lesson.rows[r].ok THEN Over1(AddUp(Scored(r), term), seqs) \div Max({1, Cardinality(Scored(r))}) ELSE 0

(* VAPO's loss on right answers divides by their tokens in the microbatch. *)
RightToks(mb) == GlobalToks({r \in ToSet(mb) : lesson.rows[r].reward > 0})
PolicyGradientLoss(mb, seqs, toks) ==
  [r \in ToSet(mb) |->
     MeanOverRows(r, LAMBDA t : TokenTerm(r, t), seqs, toks)
       + (IF lesson.rows[r].reward > 0
            THEN Obj.nll * Over1(AddUp(Counted(r), LAMBDA t : -Tok(r)[t].lp), RightToks(mb)) ELSE 0)]

NLLLoss(mb, seqs, toks) ==
  [r \in ToSet(mb) |-> -Over1(AddUp(Counted(r), LAMBDA t : Tok(r)[t].lp), toks)]

(* Chosen and rejected rows alternate; a pair counts as half its rows.     *)
MinusLogSigmoid(x) == IF x < 0 THEN 2 - 2 * x ELSE IF x = 0 THEN 2 ELSE 1
RewardOf(r) ==
  IF Obj.name = "preference" THEN lesson.rows[r].score
  ELSE AddUp(Scored(r), LAMBDA t : Tok(r)[t].gap)
IsChosen(mb, i) == i % 2 = 1
PairLoss(mb, i, seqs) ==
  LET r == mb[i]
      sft == IF Obj.sft = 0 THEN 0 ELSE AddUp(Counted(r), LAMBDA t : -Tok(r)[t].lp)
  IN  IF IsChosen(mb, i) /\ lesson.rows[r].ok
        THEN Over1(2 * (MinusLogSigmoid(RewardOf(r) - RewardOf(mb[i + 1])) + sft), seqs) ELSE 0
PreferenceLoss(mb, seqs, toks) ==
  [r \in ToSet(mb) |-> PairLoss(mb, CHOOSE i \in DOMAIN mb : mb[i] = r, seqs)]

DistillationLoss(mb, seqs, toks) ==
  [r \in ToSet(mb) |-> Over1(AddUp(Counted(r), LAMBDA t : Tok(r)[t].kl), toks)]

(* The value loss is over the mask as it is, not shifted by a token.       *)
Squared(x) == x * x
ValueError(r, t) ==
  LET x == Tok(r)[t]
      near == Clamped(x.value, x.old - Obj.clip, x.old + Obj.clip)
  IN  IF Obj.clip = 0 THEN Squared(x.value - x.ret)
      ELSE Max({Squared(x.value - x.ret), Squared(near - x.ret)})
MseValueLoss(mb, seqs, toks) ==
  [r \in ToSet(mb) |-> Over1(AddUp(MaskedOf(r), LAMBDA t : ValueError(r, t)), toks) \div 2]

LossOf(mb, seqs, toks) ==
  CASE Obj.name = "pg" -> PolicyGradientLoss(mb, seqs, toks)
    [] Obj.name = "nll" -> NLLLoss(mb, seqs, toks)
    [] Obj.name \in {"preference", "dpo"} -> PreferenceLoss(mb, seqs, toks)
    [] Obj.name = "distillation" -> DistillationLoss(mb, seqs, toks)
    [] Obj.name = "mse" -> MseValueLoss(mb, seqs, toks)

-----------------------------------------------------------------------------
(* What a microbatch reports: a mean over tokens, the mean weight, the     *)
(* share out of bounds, the least and the greatest, and how many samples.  *)

TokenMean(mb, toks, f(_, _)) == Over1(AddUp(ToSet(mb), LAMBDA r : AddUp(Counted(r), LAMBDA t : f(r, t))), toks)
SamplesOf(mb) ==
  CASE Obj.name \in {"pg", "nll"} -> GlobalSeqs(ToSet(mb)) * Scale
    [] Obj.name \in {"preference", "dpo"} -> (GlobalSeqs(ToSet(mb)) * Scale) \div 2
    [] Obj.name \in {"distillation", "mse"} -> Len(mb) * Scale
Extremes(mb) ==
  CASE Obj.name = "pg" -> UNION {{RatioOf(r, t) : t \in Counted(r)} : r \in ToSet(mb)}
    [] Obj.name = "mse" -> UNION {{Tok(r)[t].value : t \in MaskedOf(r)} : r \in ToSet(mb)}
    [] OTHER -> {}
(* Weights of sequences are multiplied with the mask of every sample.      *)
MeanWeight(mb, seqs, toks) ==
  IF Obj.ratio = "sequence"
    THEN Over1(AddUp(ToSet(mb), LAMBDA r : lesson.rows[r].is) * GlobalSeqs(ToSet(mb)), seqs)
  ELSE TokenMean(mb, toks, WeightOf)
OutShare(mb, seqs, toks) ==
  IF Obj.trunc = "seq-mask-tis"
    THEN Over1(Cardinality({r \in ToSet(mb) : lesson.rows[r].ok /\ OutOfBounds(r, 1)}), seqs)
  ELSE TokenMean(mb, toks, LAMBDA r, t : IF OutOfBounds(r, t) THEN 1 ELSE 0)
Accuracy(mb, seqs) ==
  Over1(2 * Cardinality({i \in DOMAIN mb : /\ IsChosen(mb, i) /\ lesson.rows[mb[i]].ok
                                           /\ RewardOf(mb[i]) > RewardOf(mb[i + 1])}), seqs)
Report(mb, seqs, toks) ==
  LET loss == LossOf(mb, seqs, toks)
      ext == Extremes(mb)
      none == IF Obj.name = "mse" THEN <<0, 0>> ELSE <<Infinite, -Infinite>>
  IN  [loss |-> AddUp(ToSet(mb), LAMBDA r : loss[r]),
       mean |-> CASE Obj.name = "pg" -> TokenMean(mb, toks, RatioOf)
                  [] Obj.name \in {"preference", "dpo"} -> Accuracy(mb, seqs)
                  [] OTHER -> 0,
       weight |-> IF Obj.name = "pg" THEN MeanWeight(mb, seqs, toks) ELSE 0,
       out |-> IF Obj.name = "pg" THEN OutShare(mb, seqs, toks) ELSE 0,
       least |-> IF ext = {} THEN none[1] ELSE Min(ext),
       greatest |-> IF ext = {} THEN none[2] ELSE Max(ext),
       samples |-> SamplesOf(mb)]

(* SequencePackingLossWrapper: sequence by sequence; only the extremes of  *)
(* ratios are not added up.                                                *)
BySequence(mb) == [i \in DOMAIN mb |-> <<mb[i]>>]
Merged(a, b) ==
  LET ratios == Obj.name = "pg"
  IN  [k \in DOMAIN a |->
         CASE k = "least" /\ ratios -> Min({a.least, b.least})
           [] k = "greatest" /\ ratios -> Max({a.greatest, b.greatest})
           [] OTHER -> IF k \in {"least", "greatest"} /\ Infinite \in {a.least, b.least} THEN a[k] ELSE a[k] + b[k]]
PackedLoss(mb, seqs, toks) == [r \in ToSet(mb) |-> LossOf(<<r>>, seqs, toks)[r]]
PackedReport(mb, seqs, toks) ==
  LET each == [i \in DOMAIN mb |-> Report(BySequence(mb)[i], seqs, toks)]
  IN  FoldLeft(Merged, each[1], Tail(each))

(* DraftLossWrapper: the draft model's cross entropy, on top.              *)
DraftLoss(r, toks) == lesson.draft * Over1(AddUp(Counted(r), LAMBDA t : Tok(r)[t].gap * Tok(r)[t].gap), toks)

MicrobatchLoss(mb, seqs, toks) ==
  LET loss == IF lesson.wrap = "packed" THEN PackedLoss(mb, seqs, toks) ELSE LossOf(mb, seqs, toks)
  IN  [r \in ToSet(mb) |-> loss[r] + (IF lesson.wrap = "rows" THEN DraftLoss(r, toks) ELSE 0)]
MicrobatchReport(mb, seqs, toks) ==
  IF lesson.wrap = "packed" THEN PackedReport(mb, seqs, toks) ELSE Report(mb, seqs, toks)

-----------------------------------------------------------------------------
(* The workers.                                                            *)

Shares == 0 .. lesson.dp - 1
Batches == lesson.batches
BatchNow == Len(applied) + 1
Unit == IF Obj.name \in {"preference", "dpo"} THEN 2 ELSE 1
Packs == lesson.wrap \in {"packed", "fused"}

(* Any deal of the rows, in order, whole pairs, a microbatch at least for  *)
(* each rank, and as many for all unless these make up for it.             *)
Pieces(s) ==
  {LET ends == SetToSortSeq(cut \cup {0, Len(s)}, LAMBDA a, b : a < b)
   IN  [k \in 1 .. Len(ends) - 1 |-> FlattenSeq(SubSeq(s, ends[k] + 1, ends[k + 1]))]
     : cut \in SUBSET (1 .. Len(s) - 1)}
Deals(batch) ==
  LET units == [k \in 1 .. Len(batch) \div Unit |-> SubSeq(batch, (k - 1) * Unit + 1, k * Unit)]
      Share(f, d) == [k \in 1 .. Cardinality({u \in DOMAIN units : f[u] = d}) |->
                        units[CHOOSE u \in DOMAIN units : f[u] = d /\ Cardinality({v \in 1 .. u : f[v] = d}) = k]]
      dealings == {f \in [DOMAIN units -> Shares] : \A d \in Shares : \E u \in DOMAIN units : f[u] = d}
  IN  UNION {{g \in [Shares -> UNION {Pieces(Share(f, d)) : d \in Shares}] :
                /\ \A d \in Shares : g[d] \in Pieces(Share(f, d))
                /\ lesson.backend = "megatron" \/ ~Packs => \A d, e \in Shares : Len(g[d]) = Len(g[e])}
             : f \in dealings}
MakesUp(d) == Max({Len(dealt[e]) : e \in Shares}) - Len(dealt[d])

Deal ==
  /\ learnAt = "estimated" /\ Len(applied) < Len(Batches)
  /\ learnAt' = "dealt" /\ dealt' \in Deals(Batches[BatchNow])
  /\ microbatch' = 0 /\ accumulated' = [d \in Shares |-> [r \in LessonRows |-> 0]]
  /\ reports' = Append(reports, [d \in Shares |-> <<>>])
  /\ UNCHANGED <<lesson, shaped, advantage, applied>>

(* process_global_batch: the counts are summed over the ranks.             *)
SeqsNow == AddUp(Shares, LAMBDA d : GlobalSeqs(ToSet(FlattenSeq(dealt[d]))))
ToksOfRank == GlobalToks(ToSet(FlattenSeq(dealt[0])))
ToksNow == AddUp(Shares, LAMBDA d : GlobalToks(ToSet(FlattenSeq(dealt[d]))))

(* What a back end makes of the loss of one of n microbatches.  Megatron's *)
(* schedule multiplies it by cp / n; its context-parallel ranks each have  *)
(* the whole gradient.                                                     *)
DTensorLoss(x) == x * lesson.dp * lesson.cp
MegatronLoss(x, n) == ((x \div lesson.cp) * n) \div lesson.cp
Schedule(x, n) == (x * lesson.cp) \div n
Backward(x, n) ==
  IF lesson.backend = "megatron" THEN Schedule(MegatronLoss(x, n), n) * lesson.cp ELSE DTensorLoss(x)

Entry(report) ==
  [k \in DOMAIN report |->
     IF k \in {"least", "greatest"} THEN report[k] ELSE report[k] \div Len(Batches)]

(* The next microbatch of every rank; one that makes up counts for nothing *)
(* but, in the first DTensor worker, is reported when the last one was.    *)
ForwardBackward ==
  /\ learnAt = "dealt" /\ \E d \in Shares : microbatch < Len(dealt[d])
  /\ microbatch' = microbatch + 1
  /\ LET seqs == SeqsNow
         toks == ToksNow
         Mine(d) == microbatch < Len(dealt[d])
         Micro(d) == dealt[d][microbatch + 1]
         Again(d) == dealt[d][((microbatch - Len(dealt[d])) % Len(dealt[d])) + 1]
         Loss(d) == MicrobatchLoss(Micro(d), seqs, toks)
         Reported(d) ==
           IF Mine(d)
             THEN IF lesson.backend # "megatron" /\ SamplesOf(Micro(d)) = 0 THEN <<>>
                  ELSE <<Entry(MicrobatchReport(Micro(d), seqs, toks))>>
           ELSE IF lesson.backend = "dtensor" /\ SamplesOf(dealt[d][Len(dealt[d])]) > 0
             THEN <<MicrobatchReport(Again(d), seqs, toks)>> ELSE <<>>
     IN  /\ accumulated' = [d \in Shares |->
              IF ~Mine(d) THEN accumulated[d]
              ELSE LET loss == Loss(d)
                   IN  [r \in LessonRows |-> accumulated[d][r]
                          + (IF r \in DOMAIN loss THEN Backward(loss[r], Len(dealt[d])) ELSE 0)]]
         /\ reports' = [reports EXCEPT ![BatchNow] = [d \in Shares |-> @[d] \o Reported(d)]]
  /\ UNCHANGED <<lesson, learnAt, shaped, advantage, dealt, applied>>

(* FSDP averages over all data and context ranks, Megatron's buffers are   *)
(* summed over them.                                                       *)
ReducedGrad(sum) == IF lesson.backend = "megatron" THEN sum ELSE sum \div (lesson.dp * lesson.cp)
OptimizerStep ==
  /\ learnAt = "dealt" /\ \A d \in Shares : microbatch >= Len(dealt[d])
  /\ applied' = Append(applied, [r \in LessonRows |-> ReducedGrad(AddUp(Shares, LAMBDA d : accumulated[d][r]))])
  /\ learnAt' = IF Len(applied') = Len(Batches) THEN "learnt" ELSE "estimated"
  /\ UNCHANGED <<lesson, shaped, advantage, dealt, microbatch, accumulated, reports>>

-----------------------------------------------------------------------------
NoLesson ==
  /\ lesson = {} /\ learnAt = "none" /\ shaped = <<>> /\ advantage = <<>> /\ dealt = <<>>
  /\ microbatch = 0 /\ accumulated = <<>> /\ applied = <<>> /\ reports = <<>>

Learn(l) ==
  /\ learnAt = "none" /\ lesson' = l /\ learnAt' = "rewarded"
  /\ UNCHANGED <<shaped, advantage, dealt, microbatch, accumulated, applied, reports>>

LearnStep == ShapeRewards \/ EstimateAdvantages \/ Deal \/ ForwardBackward \/ OptimizerStep
LearnOver == learnAt = "learnt" \/ (learnAt = "estimated" /\ Batches = <<>>)

(* What the driver logs: extremes of extremes, sums of everything else.    *)
Logged ==
  LET all == FlattenSeq([g \in DOMAIN reports |-> FlattenSeq([d \in 1 .. lesson.dp |-> reports[g][d - 1]])])
      Total(k) == AddUp(DOMAIN all, LAMBDA i : all[i][k])
  IN  [loss |-> Total("loss"), mean |-> Total("mean"), weight |-> Total("weight"),
       out |-> Total("out"), samples |-> Total("samples"),
       least |-> Min({all[i].least : i \in DOMAIN all} \cup {Infinite}),
       greatest |-> Max({all[i].greatest : i \in DOMAIN all} \cup {-Infinite})]

-----------------------------------------------------------------------------
(* A shaped reward is never better than the reward, and a row that neither *)
(* repeats itself nor is cut off nor too long keeps its own.               *)
ShapingOnlyPenalizes ==
  learnAt = "shaped" =>
    \A r \in LessonRows :
      /\ shaped[r] <= lesson.rows[r].reward * Scale
      /\ LET x == lesson.rows[r]
             s == lesson.shape
             length == Len(x.answers[1])
             Harmless == /\ ~x.truncated
                         /\ s.buffer > 0 => length <= s.maxLen - s.buffer
                         /\ Cardinality(ToSet(x.answers[1])) = length
         IN  ~s.enabled \/ Harmless => shaped[r] = x.reward * Scale

(* Advantages against their definitions.  Those with a baseline weigh a    *)
(* row against the rows of its prompt only; whitened ones are around zero  *)
(* over the tokens that are trained; GAE is the discounted sum of the      *)
(* temporal differences of the response, whatever lies between its tokens. *)
BaselineOfPrompt ==
  lesson.est.name = "grpo" /\ ~lesson.est.normalize =>
    \A r \in LessonRows :
      LET n == Cardinality(GroupOf(r))
          m == IF lesson.est.leaveOneOut THEN n - 1 ELSE n
          gain == AddUp(GroupOf(r), LAMBDA q : shaped[r] - shaped[q])
      IN  \A t \in DOMAIN Tok(r) : advantage[r][t] = IF n = 1 THEN 0 ELSE gain \div m
SameScaleInGroup ==
  lesson.est.name = "grpo" /\ ~lesson.est.leaveOneOut =>
    \A r, q \in LessonRows :
      GroupOf(r) = GroupOf(q) /\ shaped[r] > shaped[q] => advantage[r][1] > advantage[q][1]
AroundZero ==
  /\ lesson.est.name = "reinforce_plus_plus" \/ (lesson.est.name \in {"raw_reward", "gae"} /\ lesson.est.normalize)
       => AddUp(LessonRows, LAMBDA r : AddUp(MaskedOf(r), LAMBDA t : advantage[r][t])) = 0
  /\ lesson.est.name = "gdpo" => AddUp(LessonRows, LAMBDA r : advantage[r][1]) = 0
DiscountedDifferences ==
  lesson.est.name = "gae" /\ ~lesson.est.normalize =>
    \A r \in LessonRows :
      LET at == SetToSortSeq(MaskedOf(r), LAMBDA a, b : a < b)
          n == Len(at)
          V(k) == IF k > n THEN 0 ELSE Tok(r)[at[k]].value * Scale
          lambda == LambdaPolicy(r)
          Delta(k) == TokenRewards(r)[at[k]] + V(k + 1) \div 2 - V(k)
          Power(x, k) == IF k = 0 THEN 1 ELSE IF k = 1 THEN x ELSE x * x
          A(k) == AddUp(k .. n, LAMBDA l :
                    (Delta(l) * Power(lambda[1], l - k)) \div Power(2 * lambda[2], l - k))
      IN  \A k \in 1 .. n : advantage[r][at[k]] = A(k)
AdvantagesSound ==
  /\ ShapingOnlyPenalizes
  /\ learnAt = "estimated" =>
       BaselineOfPrompt /\ SameScaleInGroup /\ AroundZero /\ DiscountedDifferences

(* The surrogate is the pessimistic one: a ratio that has moved the way    *)
(* its advantage wants is worth no more than the clip, one that has moved  *)
(* the other way is worth all of it, up to the dual clip.                  *)
Pessimistic ==
  learnAt = "dealt" /\ Obj.name = "pg" /\ ClipsRatio /\ ~Obj.cispo =>
    \A r \in LessonRows : \A t \in Scored(r) :
      LET a == AdvOf(r, t)
          rho == RatioOf(r, t)
          hi == Quarters + Obj.clipMax
          lo == Quarters - Obj.clipMin
          up == -a * (IF rho > hi THEN hi ELSE rho)
          down == -a * (IF rho < lo THEN lo ELSE rho)
      IN  ClipLoss(r, t) = IF a >= 0 THEN up
                           ELSE IF Obj.dual > 0 THEN Min({down, -a * Obj.dual}) ELSE down

(* Each optimizer step applies the gradient of its global batch as if this *)
(* were one microbatch on one rank, however it was dealt; what is logged   *)
(* is what such steps would report.  Not so VAPO's extra loss, the weights *)
(* of sequences, the extremes of values, and reports of microbatches that  *)
(* make up (README, section 5).                                            *)
GradientOfBatch ==
  \A g \in DOMAIN applied :
    LET batch == ToSet(Batches[g])
        whole == LossOf(Batches[g], GlobalSeqs(batch), GlobalToks(batch))
        draft(r) == IF lesson.wrap = "rows" THEN DraftLoss(r, GlobalToks(batch)) ELSE 0
    IN  Obj.nll = 0 => applied[g] = [r \in LessonRows |-> IF r \in batch THEN whole[r] + draft(r) ELSE 0]
LoggedOfBatches ==
  learnAt = "learnt" /\ Obj.nll = 0 =>
    LET whole == [g \in DOMAIN Batches |->
                    LET batch == ToSet(Batches[g])
                    IN  Report(Batches[g], GlobalSeqs(batch), GlobalToks(batch))]
        Of(k) == AddUp(DOMAIN Batches, LAMBDA g : whole[g][k] \div Len(Batches))
        madeUp == lesson.backend = "dtensor" /\ \E d \in Shares : MakesUp(d) > 0
    IN  ~madeUp =>
          /\ Logged.loss = Of("loss") /\ Logged.mean = Of("mean")
          /\ Logged.out = Of("out") /\ Logged.samples = Of("samples")
          /\ Obj.ratio # "sequence" => Logged.weight = Of("weight")
          /\ Obj.name = "pg" =>
               /\ Logged.least = Min({whole[g].least : g \in DOMAIN whole} \cup {Infinite})
               /\ Logged.greatest = Max({whole[g].greatest : g \in DOMAIN whole} \cup {-Infinite})
BatchLearnt == Pessimistic /\ GradientOfBatch /\ LoggedOfBatches
=============================================================================
