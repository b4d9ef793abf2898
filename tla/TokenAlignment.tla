--------------------------- MODULE TokenAlignment ---------------------------
(***************************************************************************)
(* Two tokenizations of a text, matched chunk by chunk.  A student may be  *)
(* distilled from a teacher with another tokenizer: what they predict can  *)
(* only be compared over spans of tokens that spell the same.  The aligner *)
(* makes the spellings comparable, pins rare trigrams, aligns what lies    *)
(* between them by dynamic programming, and then joins or redoes what does *)
(* not match.                                                              *)
(*                                                                         *)
(* A token is its sequence of characters.  Spans of tokens are half open   *)
(* and count from 0, as in the code.                                       *)
(***************************************************************************)
EXTENDS Integers, Sequences, FiniteSets, SequencesExt

CONSTANT Texts      \* [s, t: the two tokenizations, sPad, tPad: their padding]

VARIABLES
  text,
  alignAt,    \* "none", "given", "canonical", "matched", "joined", "redone", "numbered"
  canon,      \* [side -> comparable tokens with the place they come from]
  aligned,    \* pairs [s, t: tokens, sAt, tAt: spans]
  chunked     \* [side -> [place -> its pair]], and the places that match one to one

alignVars == <<text, alignAt, canon, aligned, chunked>>

Sides == {"s", "t"}
AlignPad == <<0>>                 \* "<pad>"
Space == 1                        \* the mark of either tokenizer
OtherSpace == 2
Comma == 3
Broken == <<<<4>>, <<5>>>>        \* a mojibake of two tokens, and what it stands for
Mended == <<6>>
ByteParts == <<7, 8>>             \* the UTF-8 bytes of a character, and the character
Fused == 9
ByteChars == {3, 7, 8} \cup 10 .. 99  \* ASCII characters are bytes as well
NoSpan == <<-1, -1>>
MaxCombination == 4
MaxChunk == 10

Spelled(toks) == FlattenSeq(toks)
PaddedTokens(side) == text[side] \o [i \in 1 .. text[IF side = "s" THEN "sPad" ELSE "tPad"] |-> AlignPad]

-----------------------------------------------------------------------------
(* Comparable spellings, with the original tokens [from, to) of each.      *)

CanonicalToken(tok) ==
  LET x == IF tok # <<>> /\ Head(tok) = OtherSpace THEN <<Space>> \o Tail(tok) ELSE tok
  IN  IF x = AlignPad THEN <<>> ELSE IF x = <<Space, Comma>> THEN <<Comma>> ELSE x
Stripped(tok) == IF tok # <<>> /\ Head(tok) = Space THEN Tail(tok) ELSE tok

MergeEncodingArtifacts(toks) ==
  LET n == Len(toks)
      f[i \in 1 .. n + 2] ==
        IF i > n THEN <<>>
        ELSE IF i < n /\ SubSeq(toks, i, i + 1) = Broken
          THEN <<[tok |-> Mended, from |-> i - 1, to |-> i + 1]>> \o f[i + 2]
          ELSE <<[tok |-> toks[i], from |-> i - 1, to |-> i]>> \o f[i + 1]
  IN  f[1]

AllBytes(tok) == Stripped(tok) # <<>> /\ ToSet(Stripped(tok)) \subseteq ByteChars
TryMergeByteBuffer(run) ==
  IF Spelled([k \in DOMAIN run |-> Stripped(run[k].tok)]) # ByteParts THEN run
  ELSE <<[tok |-> (IF Head(run[1].tok) = Space THEN <<Space>> ELSE <<>>) \o <<Fused>>,
          from |-> run[1].from, to |-> run[Len(run)].to]>>
MergeConsecutiveBytes(q) ==
  LET n == Len(q)
      RunEnd(i) == CHOOSE e \in i .. n : (\A k \in i .. e : AllBytes(q[k].tok)) /\ (e = n \/ ~AllBytes(q[e + 1].tok))
      f[i \in 1 .. n + 1] ==
        IF i > n THEN <<>>
        ELSE IF ~AllBytes(q[i].tok) THEN <<q[i]>> \o f[i + 1]
        ELSE TryMergeByteBuffer(SubSeq(q, i, RunEnd(i))) \o f[RunEnd(i) + 1]
  IN  f[1]

CanonicalizeSequence(toks) ==
  LET merged == MergeEncodingArtifacts(toks)
  IN  MergeConsecutiveBytes([i \in DOMAIN merged |-> [merged[i] EXCEPT !.tok = CanonicalToken(@)]])

-----------------------------------------------------------------------------
(* The dynamic program.  Scores are doubled: a match is worth 6, one token *)
(* for k of the other side 3k, a token alone -3.  The first of the best    *)
(* moves wins.                                                             *)

PairOf(S, T, i, j, m) ==    \* the last m[1] of i tokens against the last m[2] of j
  [s |-> SubSeq(S, i - m[1] + 1, i), t |-> SubSeq(T, j - m[2] + 1, j),
   sAt |-> IF m[1] = 0 THEN NoSpan ELSE <<i - m[1], i>>, tAt |-> IF m[2] = 0 THEN NoSpan ELSE <<j - m[2], j>>]
Combinations(n) == IF n > MaxCombination THEN 2 .. MaxCombination ELSE 2 .. n
Moves(S, T, i, j) ==
  IF i = 0 THEN <<<<0, 1>>>> ELSE IF j = 0 THEN <<<<1, 0>>>>
  ELSE <<<<1, 1>>, <<1, 0>>, <<0, 1>>>>
         \o SetToSortSeq({<<1, k>> : k \in {k \in Combinations(j) : S[i] = Spelled(SubSeq(T, j - k + 1, j))}}, LAMBDA a, b : a[2] < b[2])
         \o SetToSortSeq({<<k, 1>> : k \in {k \in Combinations(i) : T[j] = Spelled(SubSeq(S, i - k + 1, i))}}, LAMBDA a, b : a[1] < b[1])
ScoreOf(S, T, i, j, m) ==
  CASE m = <<1, 1>> -> IF S[i] = T[j] THEN 6 ELSE -6
    [] 0 \in ToSet(m) -> -3
    [] OTHER -> 3 * Max(ToSet(m))

BestMove(scored) ==    \* [score, move] of the first of the best
  LET best == Max({scored[k].score : k \in DOMAIN scored})
  IN  scored[Min({k \in DOMAIN scored : scored[k].score = best})]
ScoredMoves(S, T, i, j, before) ==
  LET moves == Moves(S, T, i, j)
  IN  [k \in DOMAIN moves |->
        [score |-> before[(i - moves[k][1]) * (Len(T) + 1) + j - moves[k][2] + 1].score + ScoreOf(S, T, i, j, moves[k]),
         move |-> moves[k]]]
Table(S, T) ==         \* row by row
  LET w == Len(T) + 1
      f[k \in 0 .. (Len(S) + 1) * w - 1] ==
        IF k = 0 THEN <<[score |-> 0, move |-> <<0, 0>>]>>
        ELSE LET before == f[k - 1] IN Append(before, BestMove(ScoredMoves(S, T, k \div w, k % w, before)))
  IN  f[(Len(S) + 1) * w - 1]
Traced(S, T, cells) ==
  LET f[i \in 0 .. Len(S), j \in 0 .. Len(T)] ==
        IF i = 0 /\ j = 0 THEN <<>>
        ELSE LET m == cells[i * (Len(T) + 1) + j + 1].move
             IN  Append(f[i - m[1], j - m[2]], PairOf(S, T, i, j, m))
  IN  f[Len(S), Len(T)]
AlignDP(S, T) == Traced(S, T, Table(S, T))

Moved(at, by) == IF at = NoSpan THEN NoSpan ELSE <<at[1] + by, at[2] + by>>
ShiftPairs(ps, ds, dt) == [k \in DOMAIN ps |-> [ps[k] EXCEPT !.sAt = Moved(@, ds), !.tAt = Moved(@, dt)]]

-----------------------------------------------------------------------------
(* Trigrams that either side has once are matched as they are, if they do  *)
(* not overlap and come in the same order.                                 *)

Gram(q, i) == SubSeq(q, i, i + 2)
Places(q) == 1 .. Len(q) - 2
OnceIn(q, g) == Cardinality({i \in Places(q) : Gram(q, i) = g}) = 1
AnchorsInAnyOrder(S, T) ==
  {a \in Places(S) \X Places(T) : Gram(S, a[1]) = Gram(T, a[2]) /\ OnceIn(S, Gram(S, a[1])) /\ OnceIn(T, Gram(S, a[1]))}
Anchors(S, T) ==
  LET found == {a \in Places(S) \X Places(T) : Gram(S, a[1]) = Gram(T, a[2]) /\ OnceIn(S, Gram(S, a[1])) /\ OnceIn(T, Gram(S, a[1]))}
      Apart(i, j) == i - j >= 3 \/ j - i >= 3
      selected[i \in 0 .. Len(S)] ==
        IF i = 0 THEN {}
        ELSE selected[i - 1] \cup {a \in found : a[1] = i /\ \A b \in selected[i - 1] : Apart(a[1], b[1]) /\ Apart(a[2], b[2])}
      validated[i \in 0 .. Len(S)] ==
        IF i = 0 THEN {}
        ELSE validated[i - 1] \cup {a \in selected[Len(S)] : a[1] = i /\ \A b \in validated[i - 1] : a[2] > b[2] + 2}
  IN  validated[Len(S)]

Segment(S, T, i, ii, j, jj) == ShiftPairs(AlignDP(SubSeq(S, i, ii - 1), SubSeq(T, j, jj - 1)), i - 1, j - 1)
AlignWithAnchors(S, T) ==
  LET anchors == Anchors(S, T)
      f[i \in 1 .. Len(S) + 1, j \in 1 .. Len(T) + 1] ==
        LET next == {a \in anchors : a[1] >= i}
        IN  IF next = {} THEN Segment(S, T, i, Len(S) + 1, j, Len(T) + 1)
            ELSE LET a == CHOOSE a \in next : \A b \in next : a[1] <= b[1]
                 IN  Segment(S, T, i, a[1], j, a[2])
                       \o [k \in 1 .. 3 |-> PairOf(S, T, a[1] + k - 1, a[2] + k - 1, <<1, 1>>)] \o f[a[1] + 3, a[2] + 3]
  IN  f[1, 1]

-----------------------------------------------------------------------------
(* What does not match: runs of bad pairs become one, but not near the     *)
(* end; then a bad pair and its next neighbours are aligned anew, as soon  *)
(* as together they spell the same.                                        *)

Good(p) == Spelled(p.s) = Spelled(p.t)
BothSpelled(ps) == [s |-> Spelled([k \in DOMAIN ps |-> ps[k].s]), t |-> Spelled([k \in DOMAIN ps |-> ps[k].t])]
Hull(ats) == LET real == ats \ {NoSpan}
             IN  IF real = {} THEN NoSpan ELSE <<Min({a[1] : a \in real}), Max({a[2] : a \in real})>>
Combined(ps) ==
  [s |-> BothSpelled(ps).s, t |-> BothSpelled(ps).t,
   sAt |-> Hull({ps[k].sAt : k \in DOMAIN ps}), tAt |-> Hull({ps[k].tAt : k \in DOMAIN ps})]

CombineConsecutiveMisaligned(ps) ==
  LET n == Len(ps)
      boundary == (4 * n) \div 5
      RunOf(i) == {e \in i + 1 .. boundary : \A k \in i .. e : ~Good(ps[k])}
      f[i \in 1 .. n + 1] ==
        IF i > n THEN <<>>
        ELSE IF RunOf(i) = {} THEN <<ps[i]>> \o f[i + 1]
        ELSE <<Combined(SubSeq(ps, i, Max(RunOf(i))))>> \o f[Max(RunOf(i)) + 1]
  IN  f[1]

TokenByToken(p) ==
  [k \in DOMAIN p.s |-> [s |-> <<p.s[k]>>, t |-> <<p.t[k]>>,
                         sAt |-> <<p.sAt[1] + k - 1, p.sAt[1] + k>>, tAt |-> <<p.tAt[1] + k - 1, p.tAt[1] + k>>]]
Redone(ps) ==
  LET all == Combined(ps)
      sub == AlignDP(all.s, all.t)
  IN  IF \A k \in DOMAIN sub : Good(sub[k]) THEN ShiftPairs(sub, all.sAt[1], all.tAt[1]) ELSE <<all>>
RealignBadSpans(ps) ==
  LET n == Len(ps)
      Sizes(b) == {c \in 2 .. MaxChunk : b + c - 1 <= n /\ Good(BothSpelled(SubSeq(ps, b, b + c - 1)))}
      f[i \in 1 .. n + 1] ==
        IF i > n THEN <<>>
        ELSE IF Len(ps[i].s) > 1 /\ ps[i].s = ps[i].t THEN TokenByToken(ps[i]) \o f[i + 1]
        ELSE LET bad == {b \in i .. n : ~Good(ps[b])}
             IN  IF bad = {} THEN SubSeq(ps, i, n)
                 ELSE LET b == Min(bad)
                      IN  SubSeq(ps, i, b - 1)
                            \o (IF Sizes(b) = {} THEN <<ps[b]>> \o f[b + 1]
                                ELSE Redone(SubSeq(ps, b, b + Min(Sizes(b)) - 1)) \o f[b + Min(Sizes(b))])
  IN  f[1]

RemapToOriginal(ps, c) ==
  LET Back(at, q) == IF at = NoSpan THEN NoSpan ELSE <<q[at[1] + 1].from, q[at[2]].to>>
  IN  [k \in DOMAIN ps |-> [ps[k] EXCEPT !.sAt = Back(@, c.s), !.tAt = Back(@, c.t)]]

-----------------------------------------------------------------------------
(* The tensors: every token's chunk, and the tokens that match one to one, *)
(* but for padding.                                                        *)

Span(p, side) == IF side = "s" THEN p.sAt ELSE p.tAt
Real(side) == 0 .. Len(text[side]) - 1
PairsToBatch(ps) ==
  LET ChunkOf(side, x) == {k \in DOMAIN ps : Span(ps[k], side)[1] <= x /\ x < Span(ps[k], side)[2]}
      Single(p) == Good(p) /\ \A side \in Sides : Span(p, side) # NoSpan /\ Span(p, side)[2] - Span(p, side)[1] = 1
      All(side) == 0 .. Len(PaddedTokens(side)) - 1
  IN  [id |-> [side \in Sides |-> [x \in All(side) |->
                IF x \in Real(side) /\ ChunkOf(side, x) # {} THEN Max(ChunkOf(side, x)) ELSE -1]],
       exact |-> [side \in Sides |-> {x \in Real(side) : \E k \in DOMAIN ps : Single(ps[k]) /\ Span(ps[k], side)[1] = x}]]

-----------------------------------------------------------------------------

NoAlignment ==
  /\ text = [s |-> <<>>, t |-> <<>>, sPad |-> 0, tPad |-> 0] /\ alignAt = "none" /\ canon = <<>> /\ aligned = <<>> /\ chunked = <<>>

Align(x) == alignAt = "none" /\ text' = x /\ alignAt' = "given" /\ UNCHANGED <<canon, aligned, chunked>>

Canonicalize ==
  /\ alignAt = "given" /\ alignAt' = "canonical"
  /\ canon' = [side \in Sides |-> CanonicalizeSequence(PaddedTokens(side))]
  /\ UNCHANGED <<text, aligned, chunked>>

Toks(q) == [i \in DOMAIN q |-> q[i].tok]
AlignSingle ==
  /\ alignAt = "canonical" /\ alignAt' = "matched"
  /\ aligned' = AlignWithAnchors(Toks(canon.s), Toks(canon.t))
  /\ UNCHANGED <<text, canon, chunked>>

PostProcess ==
  \/ alignAt = "matched" /\ alignAt' = "joined" /\ aligned' = CombineConsecutiveMisaligned(aligned) /\ UNCHANGED <<text, canon, chunked>>
  \/ alignAt = "joined" /\ alignAt' = "redone" /\ aligned' = RealignBadSpans(aligned) /\ UNCHANGED <<text, canon, chunked>>

NumberChunks ==
  /\ alignAt = "redone" /\ alignAt' = "numbered"
  /\ aligned' = RemapToOriginal(aligned, canon)
  /\ chunked' = PairsToBatch(aligned')
  /\ UNCHANGED <<text, canon>>

AlignmentStep == Canonicalize \/ AlignSingle \/ PostProcess \/ NumberChunks
AlignmentOver == alignAt = "numbered"

-----------------------------------------------------------------------------
(* The pairs go through both texts in order, leaving nothing out.          *)
CoverBoth ==
  \A side \in Sides :
    LET spans == SelectSeq([k \in DOMAIN aligned |-> Span(aligned[k], side)], LAMBDA a : a # NoSpan)
        end == IF alignAt = "numbered" THEN Len(PaddedTokens(side)) ELSE Len(canon[side])
    IN  IF spans = <<>> THEN end = 0
        ELSE /\ spans[1][1] = 0 /\ spans[Len(spans)][2] = end
             /\ \A k \in DOMAIN spans : spans[k][1] < spans[k][2] /\ (k > 1 => spans[k][1] = spans[k - 1][2])

(* What a text says, however it is tokenized.                              *)
Says(toks) ==
  LET c == Spelled([i \in DOMAIN toks |-> CanonicalToken(toks[i])])
      n == Len(c)
      Two(i) == IF i < n THEN SubSeq(c, i, i + 1) ELSE <<>>
      f[i \in 1 .. n + 2] ==
        IF i > n THEN <<>> ELSE IF Two(i) = Spelled(Broken) THEN Mended \o f[i + 2]
        ELSE IF Two(i) = ByteParts THEN <<Fused>> \o f[i + 2] ELSE <<c[i]>> \o f[i + 1]
  IN  f[1]
Original(p, side) == LET at == Span(p, side) IN IF at = NoSpan THEN <<>> ELSE SubSeq(PaddedTokens(side), at[1] + 1, at[2])

(* The chunks partition both texts in order; a chunk is called correct     *)
(* only if its tokens say the same on both sides, and if both texts are    *)
(* spelled the same all of them are (but for ones longer than MaxChunk);   *)
(* every token but padding has its chunk, and tokens that count as equal   *)
(* are in the same one.                                                    *)
TextsAligned ==
  /\ alignAt \in {"matched", "joined", "redone", "numbered"} => CoverBoth
  /\ alignAt = "numbered" =>
       /\ \A k \in DOMAIN aligned : Good(aligned[k]) => Says(Original(aligned[k], "s")) = Says(Original(aligned[k], "t"))
       /\ Spelled(Toks(canon.s)) = Spelled(Toks(canon.t)) /\ Len(aligned) <= MaxChunk => \A k \in DOMAIN aligned : Good(aligned[k])
       /\ \A side \in Sides : \A x \in DOMAIN chunked.id[side] :
            /\ (chunked.id[side][x] = -1) = (x \notin Real(side))
            /\ x \in chunked.exact[side] =>
                 \E y \in Real(IF side = "s" THEN "t" ELSE "s") :
                   /\ {z \in Real("s") : chunked.id["s"][z] = chunked.id[side][x]} = {IF side = "s" THEN x ELSE y}
                   /\ Says(<<PaddedTokens(side)[x + 1]>>) = Says(<<PaddedTokens(IF side = "s" THEN "t" ELSE "s")[y + 1]>>)
=============================================================================
