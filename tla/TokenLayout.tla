---------------------------- MODULE TokenLayout ----------------------------
(***************************************************************************)
(* Where the tokens of a microbatch lie while it is scored.  A worker pads *)
(* or packs the rows, keeps its context-parallel share of each sequence    *)
(* (two chunks of it, one from either end), runs the model, and asks of    *)
(* the logits after each token for the next one: chunk by chunk along the  *)
(* sequence, together with the tensor-parallel ranks that hold the other   *)
(* parts of the vocabulary.  The context-parallel ranks then put their     *)
(* shares together, and every sequence goes back to its row.               *)
(*                                                                         *)
(* A token is <<row, position>>; an entry <<after, of>> is what the logits *)
(* after one token say of another.                                         *)
(***************************************************************************)
EXTENDS Integers, Sequences, FiniteSets

CONSTANT
  Scorings   \* [layout, op, lens, width, cp, tp, sp, align, divisor, packTo, chunk, filtered]

VARIABLES
  pass,      \* "none", "laid", "running", "answered", "graded", "raised"
  scoring,
  local,     \* [context-parallel rank -> the rows of tokens it feeds the model]
  routes,    \* [context-parallel rank -> the experts of these tokens]
  segment,   \* the sequence of the pack that is scored, if one by one
  chunkNo,   \* chunks of it that are done
  entries,   \* [context-parallel rank -> [cell -> entry]]
  table,     \* [row -> its entries]
  grads      \* [context-parallel rank -> weight of each token in the gradient]

layoutVars == <<pass, scoring, local, routes, segment, chunkNo, entries, table, grads>>

Pad == <<0, 0>>
Nil == <<Pad, Pad>>
Is(layouts) == scoring.layout \in layouts
For(ops) == scoring.op \in ops
Seqs == DOMAIN scoring.lens
LastSeq == Len(scoring.lens)
CPs == 0 .. scoring.cp - 1
TPs == 0 .. scoring.tp - 1
RoundUp(n, by) == ((n + by - 1) \div by) * by
Smaller(a, b) == IF a <= b THEN a ELSE b
Total(f, n) == LET s[i \in 0 .. n] == IF i = 0 THEN 0 ELSE s[i - 1] + f[i] IN s[n]
Concat(f, n) == LET s[i \in 0 .. n] == IF i = 0 THEN <<>> ELSE s[i - 1] \o f[i] IN s[n]

RowTokens(r, n) == [i \in 1 .. n |-> IF i <= scoring.lens[r] THEN <<r, i>> ELSE Pad]
PadTo(q, n) == IF n <= Len(q) THEN q ELSE q \o [i \in 1 .. n - Len(q) |-> Pad]
Rolled(q) == [i \in DOMAIN q |-> q[(i % Len(q)) + 1]]

(* A rank's chunks, and the chunks of all ranks back in order.             *)
Zigzag(q, c) ==
  LET n == Len(q) \div (2 * scoring.cp)
      Chunk(k) == SubSeq(q, k * n + 1, (k + 1) * n)
  IN  IF scoring.cp = 1 THEN q ELSE Chunk(c) \o Chunk(2 * scoring.cp - c - 1)
ByRank(shares) == Concat([c \in 1 .. scoring.cp |-> shares[c - 1]], scoring.cp)
UnzigzagForth(shares) ==
  LET n == (Len(shares[0]) + 1) \div 2
      Half(c, h) == SubSeq(shares[c], h * n + 1, Smaller((h + 1) * n, Len(shares[c])))
      chunk == [k \in 1 .. 2 * scoring.cp |->
                 IF k <= scoring.cp THEN Half(k - 1, 0) ELSE Half(k - scoring.cp - 1, 1)]
  IN  IF scoring.cp = 1 THEN shares[0] ELSE Concat(chunk, 2 * scoring.cp)
Unzigzag(shares) ==
  LET n == (Len(shares[0]) + 1) \div 2
      Half(c, h) == SubSeq(shares[c], h * n + 1, Smaller((h + 1) * n, Len(shares[c])))
      chunk == [k \in 1 .. 2 * scoring.cp |->
                 IF k <= scoring.cp THEN Half(k - 1, 0) ELSE Half(2 * scoring.cp - k, 1)]
  IN  IF scoring.cp = 1 THEN shares[0] ELSE Concat(chunk, 2 * scoring.cp)

-----------------------------------------------------------------------------
(* The sequences of a pack, by cu_seqlens_padded and as they are padded.   *)

Ways == (IF scoring.cp > 1 THEN 2 * scoring.cp ELSE 1) * (IF scoring.sp THEN scoring.tp ELSE 1)
PackAlign == IF scoring.divisor > 1 THEN scoring.divisor * Ways ELSE 1
PackTo == RoundUp(scoring.packTo, PackAlign)     \* 0: no pipeline stages
OwnLen == [r \in Seqs |-> IF Is({"flat"}) THEN scoring.lens[r] ELSE RoundUp(scoring.lens[r], scoring.align)]
Boundary(r) ==      \* where sequence r ends
  LET sum == Total(OwnLen, r)
  IN  IF r < LastSeq \/ Is({"flat"}) THEN sum
      ELSE IF PackTo > 0 THEN PackTo
      ELSE IF Is({"packed"}) THEN RoundUp(sum, PackAlign) ELSE sum
Length(r) == Boundary(r) - Boundary(r - 1)
PieceLen(r) ==      \* the last sequence takes what is missing
  LET run == Total(OwnLen, r - 1)
  IN  IF r < LastSeq THEN OwnLen[r]
      ELSE IF PackTo > 0 THEN PackTo - run
      ELSE RoundUp(run + OwnLen[r], PackAlign) - run

BadPadding ==
  \/ Is({"packed", "vlm"}) /\ scoring.align % Ways # 0
  \/ LET left == PackTo - Total(OwnLen, LastSeq)
     IN  Is({"vlm"}) /\ PackTo > 0 /\ (left < 0 \/ left % scoring.align # 0)

WholePack == Concat([r \in Seqs |-> RowTokens(r, PieceLen(r))], LastSeq)
PackedShare(c) == <<Concat([r \in Seqs |-> Zigzag(RowTokens(r, PieceLen(r)), c)], LastSeq)>>
VlmShare(c) == <<Concat([r \in Seqs |-> Zigzag(RowTokens(r, Length(r)), c)], LastSeq)>>
FlatShare == <<PadTo(Concat([r \in Seqs |-> RowTokens(r, OwnLen[r])], LastSeq), scoring.packTo)>>
DTensorShare(c) == [r \in Seqs |-> Zigzag(RowTokens(r, scoring.width), c)]
Share(c) ==
  CASE Is({"rows"}) -> [r \in Seqs |-> RowTokens(r, scoring.width)]
    [] Is({"packed"}) -> PackedShare(c)
    [] Is({"vlm"}) -> VlmShare(c)
    [] Is({"flat"}) -> FlatShare
    [] Is({"dtensor"}) -> DTensorShare(c)

(* The routed experts of the tokens; padding has a default route.          *)
Routes(c) ==
  CASE Is({"rows"}) -> [r \in Seqs |-> RowTokens(r, scoring.width)]
    [] Is({"packed"}) -> <<Concat([r \in Seqs |-> Zigzag(RowTokens(r, Length(r)), c)], LastSeq)>>
    [] OTHER -> <<>>

NoScoring ==
  /\ pass = "none" /\ scoring = Nil /\ segment = 0 /\ chunkNo = 0
  /\ local = <<>> /\ routes = <<>> /\ entries = <<>> /\ table = <<>> /\ grads = <<>>

Score(s) ==
  /\ pass = "none" /\ pass' = "laid" /\ scoring' = s
  /\ UNCHANGED <<local, routes, segment, chunkNo, entries, table, grads>>

NothingFound == [c \in CPs |-> <<>>]
ProcessMicrobatch ==
  /\ pass = "laid"
  /\ IF BadPadding
       THEN pass' = "raised" /\ UNCHANGED <<local, routes, segment, entries, table>>
       ELSE /\ local' = [c \in CPs |-> Share(c)] /\ routes' = [c \in CPs |-> Routes(c)]
            /\ segment' = 1 /\ entries' = NothingFound /\ table' = [r \in Seqs |-> <<>>]
            /\ pass' = "running"
  /\ UNCHANGED <<scoring, chunkNo, grads>>

-----------------------------------------------------------------------------
(* What is asked of the logits: the next token, or the tokens the teacher  *)
(* names for the same place.                                               *)

OneByOne == For({"loss", "distill"}) /\ Is({"packed", "vlm", "flat"})
OfSequence(q, r) ==      \* a rank's part of sequence r
  SubSeq(q, (Boundary(r - 1) \div scoring.cp) + 1, Boundary(r) \div scoring.cp)
Feed(c) == IF OneByOne THEN <<OfSequence(local[c][1], segment)>> ELSE local[c]
Columns == Len(Feed(0)[1])
Ask(q) == IF For({"distill"}) THEN q ELSE Rolled(q)

(* The data of a row, padded to the columns of all ranks.                  *)
DataRow(b) ==
  IF OneByOne THEN RowTokens(segment, Smaller(scoring.width, Length(segment)))
  ELSE RowTokens(b, scoring.width)
AskRows(c) == [b \in DOMAIN Feed(c) |-> Zigzag(PadTo(Ask(DataRow(b)), Columns * scoring.cp), c)]

(* Each sequence of the pack by its boundaries, or packed again from its   *)
(* row for the fused loss, which needs a row as long as the sequence.      *)
AskPack(c) ==
  <<Concat([r \in Seqs |-> Zigzag(Ask(SubSeq(WholePack, Boundary(r - 1) + 1, Boundary(r))), c)], LastSeq)>>
RowTooShort == For({"fused_loss"}) /\ \E r \in Seqs : Length(r) > scoring.width
AskPackedAgain(c) == <<Concat([r \in Seqs |-> Zigzag(Ask(RowTokens(r, Length(r))), c)], LastSeq)>>

(* Back in order by seq_index, shifted, and to the ranks as before.        *)
SeqIndex == ByRank([c \in CPs |-> Zigzag([i \in 1 .. scoring.width |-> i], c)])
Restored(q) == [i \in DOMAIN q |-> q[CHOOSE k \in DOMAIN q : SeqIndex[k] = i]]
AskDTensor(c) ==
  [b \in Seqs |->
     LET all == Ask(Restored(ByRank([d \in CPs |-> local[d][b]])))
         shifted == [k \in DOMAIN all |-> all[SeqIndex[k]]]
     IN  SubSeq(shifted, c * Columns + 1, (c + 1) * Columns)]

AskedOf(c) ==
  CASE For({"topk", "full"}) -> Feed(c)
    [] OneByOne \/ Is({"rows"}) \/ For({"distill"}) -> AskRows(c)
    [] For({"fused_loss"}) -> AskPackedAgain(c)
    [] Is({"packed", "vlm"}) -> AskPack(c)
    [] Is({"flat"}) -> <<Ask(Feed(c)[1])>>
    [] Is({"dtensor"}) -> AskDTensor(c)

-----------------------------------------------------------------------------
(* A chunk of the columns at a time.                                       *)

NumRows == Len(Feed(0))
Chunk ==
  LET never == For({"distill", "full"}) \/ (For({"topk"}) /\ ~Is({"rows", "packed", "vlm"}))
                 \/ (For({"loss", "fused_loss"}) /\ (scoring.filtered \/ ~Is({"rows", "packed", "vlm"})))
  IN  IF never \/ scoring.chunk = 0 THEN Columns ELSE scoring.chunk
Uneven ==
  scoring.filtered /\ ((NumRows * Columns) % scoring.tp # 0
                         \/ (Chunk # Columns /\ (Chunk * NumRows) % scoring.tp # 0))
NoChunkLeft == chunkNo * Chunk >= Columns

(* Each rank of the vocabulary answers for its tokens, the others with     *)
(* zero; the sum is the answer.                                            *)
Holds(t, token) == (token[1] + token[2]) % scoring.tp = t
Summed(part) ==
  LET found == {t \in TPs : part[t] # Nil}
  IN  IF Cardinality(found) = 1 THEN part[CHOOSE t \in found : TRUE] ELSE Nil
Reduced(after, of) == Summed([t \in TPs |-> IF Holds(t, of) THEN <<after, of>> ELSE Nil])
VocabParallel ==
  LET fed == [c \in CPs |-> Feed(c)]
      asked == [c \in CPs |-> AskedOf(c)]
      new == (1 .. NumRows) \X (chunkNo * Chunk + 1 .. Smaller(Columns, (chunkNo + 1) * Chunk))
  IN  entries' = [c \in CPs |-> [x \in DOMAIN entries[c] \cup new |->
        IF x \in new THEN Reduced(fed[c][x[1]][x[2]], asked[c][x[1]][x[2]]) ELSE entries[c][x]]]

(* With top-k or top-p every rank takes a part of the cells, row after     *)
(* row, and the whole vocabulary for it (all_to_all_vp2sq).                *)
Cell(n) == <<(n \div Columns) + 1, (n % Columns) + 1>>
SequenceParallel ==
  LET fed == [c \in CPs |-> Feed(c)]
      asked == [c \in CPs |-> AskedOf(c)]
      from == chunkNo * Chunk * NumRows
      to == Smaller(NumRows * Columns, (chunkNo + 1) * Chunk * NumRows)
      part == (to - from) \div scoring.tp
      Exchanged(t, j) == Cell(from + t * part + j)
      Named(t, j) == Cell(from + (t * part + j))
      gathered == [n \in 0 .. to - from - 1 |-> <<n \div part, n % part>>]
      new == {Cell(n) : n \in from .. to - 1}
      Found(c, x) ==
        LET tj == gathered[(x[1] - 1) * Columns + x[2] - 1 - from]
            a == Exchanged(tj[1], tj[2])
            b == Named(tj[1], tj[2])
        IN  <<fed[c][a[1]][a[2]], asked[c][b[1]][b[2]]>>
  IN  entries' = [c \in CPs |-> [x \in DOMAIN entries[c] \cup new |->
        IF x \in new THEN Found(c, x) ELSE entries[c][x]]]

ScoreChunk ==
  /\ pass = "running" /\ ~RowTooShort /\ ~Uneven /\ ~NoChunkLeft
  /\ chunkNo' = chunkNo + 1
  /\ IF scoring.filtered THEN SequenceParallel ELSE VocabParallel
  /\ UNCHANGED <<pass, scoring, local, routes, segment, table, grads>>
ScoringRefused ==
  /\ pass = "running" /\ (RowTooShort \/ Uneven) /\ pass' = "raised"
  /\ UNCHANGED <<scoring, local, routes, segment, chunkNo, entries, table, grads>>

-----------------------------------------------------------------------------
(* The entries back in their rows.                                         *)

Of(c, b) == [p \in 1 .. Columns |-> entries[c][<<b, p>>]]
FirstOf(q, n) == SubSeq(q, 1, n)
Zero(q) == IF For({"logprobs"}) THEN <<Nil>> \o q ELSE q

OfRow(b) == Zero(FirstOf(Unzigzag([c \in CPs |-> Of(c, b)]), Len(DataRow(b)) - 1))
OfPacked(r) == Unzigzag([c \in CPs |-> OfSequence(Of(c, 1), r)])
FromPack(r) ==
  LET q == OfPacked(r)
      kept == FirstOf(q, Smaller(Len(q) - 1, scoring.width - 1))
  IN  Zero(kept \o [i \in 1 .. scoring.width - 1 - Len(kept) |-> Nil])
FromFlat(r) == <<Nil>> \o SubSeq(Zero(Of(0, 1)), Boundary(r - 1) + 2, Boundary(r))
FromDTensor(b) ==
  LET q == Restored(ByRank([c \in CPs |-> Of(c, b)]))
      all == Zero(FirstOf(q, Len(q) - 1))
  IN  [i \in DOMAIN all |-> IF For({"logprobs"}) /\ i > scoring.lens[b] THEN Nil ELSE all[i]]
TopkFromPack(r) ==
  LET pack == Concat([s \in Seqs |-> OfPacked(s)], LastSeq)
  IN  SubSeq(pack, Boundary(r - 1) + 1, Boundary(r - 1) + scoring.lens[r])
TopkFromRow(b) == Unzigzag([c \in CPs |-> Of(c, b)])
Contiguous(c, b) ==      \* the slice a rank exports
  LET all == Unzigzag([d \in CPs |-> Of(d, b)])
  IN  SubSeq(all, c * Columns + 1, (c + 1) * Columns)

Answer(r) ==
  CASE For({"full"}) -> ByRank([c \in CPs |-> Contiguous(c, r)])
    [] For({"topk"}) /\ Is({"packed", "vlm", "flat"}) -> TopkFromPack(r)
    [] For({"topk"}) -> TopkFromRow(r)
    [] Is({"rows"}) \/ For({"distill"}) -> OfRow(r)
    [] Is({"packed", "vlm"}) -> FromPack(r)
    [] Is({"flat"}) -> FromFlat(r)
    [] Is({"dtensor"}) -> FromDTensor(r)

SequenceScored ==
  /\ pass = "running" /\ OneByOne /\ NoChunkLeft
  /\ table' = [table EXCEPT ![segment] = OfRow(1)]
  /\ IF segment < LastSeq
       THEN segment' = segment + 1 /\ entries' = NothingFound /\ chunkNo' = 0 /\ UNCHANGED pass
       ELSE pass' = "answered" /\ UNCHANGED <<segment, entries, chunkNo>>
  /\ UNCHANGED <<scoring, local, routes, grads>>
AllScored ==
  /\ pass = "running" /\ ~OneByOne /\ NoChunkLeft
  /\ table' = [r \in Seqs |-> Answer(r)] /\ pass' = "answered"
  /\ UNCHANGED <<scoring, local, routes, segment, chunkNo, entries, grads>>

(* Backward: every context-parallel rank has the gradient of the loss over *)
(* its number of ranks, here 1 for a token that counts; they are summed    *)
(* and a rank keeps its chunks.                                            *)
Weights(r, n) == [i \in 1 .. n |-> IF i < scoring.lens[r] THEN 1 ELSE 0]
AllReduced(q) == [i \in DOMAIN q |-> scoring.cp * q[i]]
BackPropagate ==
  /\ pass = "answered" /\ For({"loss", "fused_loss"}) /\ Is({"packed", "vlm"})
  /\ grads' = [c \in CPs |->
       Concat([r \in Seqs |-> Zigzag(AllReduced(Weights(r, Length(r))), c)], LastSeq)]
  /\ pass' = "graded"
  /\ UNCHANGED <<scoring, local, routes, segment, chunkNo, entries, table>>

ScoringStep ==
  \/ ProcessMicrobatch \/ ScoreChunk \/ ScoringRefused \/ SequenceScored \/ AllScored \/ BackPropagate

-----------------------------------------------------------------------------
EntryOf(r, t) == IF For({"logprobs"}) THEN table[r][t + 1] ELSE table[r][t]
Due(r, t) == <<<<r, t>>, IF For({"logprobs", "loss", "fused_loss"}) THEN <<r, t + 1>> ELSE <<r, t>> >>

(* Whatever the layout and the ranks, what is found for a token is what    *)
(* the logits after it say of the token that is due there; the experts     *)
(* replayed for a token are its own; and in the gradient every token that  *)
(* counts weighs as much as without context parallelism.                   *)
TokensAligned ==
  /\ pass \in {"answered", "graded"} =>
       \A r \in Seqs : \A t \in 1 .. scoring.lens[r] - (IF For({"topk", "full"}) THEN 0 ELSE 1) :
         EntryOf(r, t) = Due(r, t)
  /\ pass = "running" /\ Is({"rows", "packed"}) => routes = local
  /\ pass = "graded" =>
       \A c \in CPs : \A p \in DOMAIN grads[c] :
         LET token == local[c][1][p]
         IN  grads[c][p] = IF token # Pad /\ token[2] < scoring.lens[token[1]] THEN scoring.cp ELSE 0
=============================================================================
