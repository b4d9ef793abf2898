------------------------- MODULE CrossTokenizerLoss -------------------------
(***************************************************************************)
(* Distillation from teachers of other tokenizers.  One after the other    *)
(* each teacher runs over the batch and leaves its logits where it is, in  *)
(* a buffer that the student's processes map; teacher and student may be   *)
(* sharded differently, in rows, in positions and in vocabulary.  Every    *)
(* rank of the student fetches what its microbatch needs, sums it chunk by *)
(* chunk with the ranks that have the other positions, and weighs chunks   *)
(* by their number on all ranks.                                           *)
(*                                                                         *)
(* A logit is the cell it comes from, <<round, row, position, column>>.    *)
(* Rows, positions, columns, chunks and ranks count from 0.                *)
(***************************************************************************)
EXTENDS Integers, Sequences, FiniteSets, SequencesExt

CONSTANTS
  Distillations,      \* the grids, the teachers and the batches, see Distill
  Logit(_, _, _, _)   \* of a teacher for a row, a position and a column

VARIABLES
  distil,
  distilAt,    \* "none", "checking", "refused", "exporting", "packed", "rebuilt", "scored", "taught", "over", "raised"
  round,       \* batches done
  storage,     \* [teacher -> [rank -> its buffer]], <<>> if there is none
  handles,     \* per teacher so far: [row -> its shards]
  mbsDone,     \* microbatches of this batch that are done
  mapped,      \* <<student's, teacher's>> world ranks: whose buffer was opened
  heard,       \* [rank -> [teacher -> [<<row of the microbatch, position, column>> -> cell]]]
  scores,      \* [rank -> [teacher -> sum and count]]
  terms,       \* [rank -> [teacher -> what the loss is made of]]
  joinedIn     \* [rank -> the collectives it has taken part in]

distilVars == <<distil, distilAt, round, storage, handles, mbsDone, mapped, heard, scores, terms, joinedIn>>

Student == distil.student
Teachers == DOMAIN distil.teachers
Teacher(i) == distil.teachers[i]
GridRanks(g) == (0 .. g.dp - 1) \X (0 .. g.cp - 1) \X (0 .. g.tp - 1)
WorldRank(g, r) == (r[1] * g.cp + r[2]) * g.tp + r[3]
StudentRanks == GridRanks(Student)
Empty == <<>>

-----------------------------------------------------------------------------
(* The grids must fit the batch, and each other if there are many nodes:   *)
(* a buffer can only be opened on the node of its owner.                   *)

BatchGridFits(t) ==
  /\ Student.gbs = distil.gbs /\ t.gbs = distil.gbs
  /\ \A g \in {Student, t} : distil.gbs % g.dp = 0 /\ (distil.gbs \div g.dp) % g.mbs = 0
IpcNodeLocal(t) ==
  distil.nodes > 1 =>
    LET group == Student.tp * Student.cp
    IN  t.dp = Student.dp /\ t.tp * t.cp = group /\ group <= distil.perNode /\ distil.perNode % group = 0

(* A validation batch is filled with copies of its last row.               *)
PadQuantum == CHOOSE q \in 1 .. distil.gbs :
                /\ \A g \in {Student} \cup ToSet(distil.teachers) : q % (g.dp * g.mbs) = 0
                /\ \A p \in 1 .. q - 1 : \E g \in {Student} \cup ToSet(distil.teachers) : p % (g.dp * g.mbs) # 0
BatchNo == round + 1
Evaluates(n) == n <= Len(distil.rounds) /\ distil.rounds[n].eval
BatchRows ==
  LET rows == distil.rounds[BatchNo].rows
      over == Len(rows) % PadQuantum
  IN  IF ~Evaluates(BatchNo) \/ over = 0 THEN rows
      ELSE rows \o [k \in 1 .. PadQuantum - over |-> [Last(rows) EXCEPT !.on = FALSE]]
BatchRow(n) == BatchRows[n + 1]
RowsPerRank(g) == Len(BatchRows) \div g.dp
RowAt(g, r, m, j) == r[1] * RowsPerRank(g) + m * g.mbs + j

-----------------------------------------------------------------------------
(* Positions.  A rank computes the c-th and the c-th last of 2 cp pieces;  *)
(* the loss has the c-th of cp windows, and looks one position ahead.      *)

LoadBalanced(q, cp, c) ==
  LET n == Len(q) \div (2 * cp)
      Piece(k) == SubSeq(q, k * n + 1, (k + 1) * n)
  IN  Piece(c) \o Piece(2 * cp - 1 - c)
AllGathered(shares, cp) ==
  LET n == Len(shares[0]) \div 2
  IN  FlattenSeq([k \in 1 .. 2 * cp |-> IF k <= cp THEN SubSeq(shares[k - 1], 1, n)
                                        ELSE SubSeq(shares[2 * cp - k], n + 1, 2 * n)])
WindowOf(q, cp, c) == LET n == Len(q) \div cp IN SubSeq(q, c * n + 1, (c + 1) * n)
Relaid(q, cp, c) ==
  IF cp = 1 THEN q ELSE WindowOf(AllGathered([d \in 0 .. cp - 1 |-> LoadBalanced(q, cp, d)], cp), cp, c)
ShiftNextAlone(windows, cp, c, fill) == Tail(windows[c]) \o <<fill>>
ShiftNext(windows, cp, c, fill) ==
  Tail(windows[c]) \o <<IF c < cp - 1 THEN Head(windows[c + 1]) ELSE fill>>

SeqLen(i) == IF Teacher(i).same THEN Len(BatchRow(0).mask) ELSE Len(BatchRow(0).t[i])
StudentIds(i, n, c) == ShiftNext([d \in 0 .. Student.cp - 1 |-> Relaid(BatchRow(n).s[i], Student.cp, d)], Student.cp, c, -1)
TeacherIds(i, n, c) == ShiftNext([d \in 0 .. Student.cp - 1 |-> WindowOf(BatchRow(n).t[i], Student.cp, d)], Student.cp, c, -1)
NextMask(n, c) == ShiftNext([d \in 0 .. Student.cp - 1 |-> Relaid(BatchRow(n).mask, Student.cp, d)], Student.cp, c, 0)

-----------------------------------------------------------------------------
(* The teachers' side.                                                     *)

Within4(shape) == (0 .. shape[1] - 1) \X (0 .. shape[2] - 1) \X (0 .. shape[3] - 1) \X (0 .. shape[4] - 1)
EnsureBuffer(old, shape) ==
  IF old # Empty /\ \A k \in 1 .. 4 : old.shape[k] >= shape[k] THEN old
  ELSE [shape |-> shape, cell |-> [a \in Within4(shape) |-> Empty]]
ExportShape(g, i) == <<RowsPerRank(g) \div g.mbs, g.mbs, SeqLen(i) \div g.cp, g.cols \div g.tp>>
Exported(g, i, r) ==       \* microbatch by microbatch, padding and all
  LET shape == ExportShape(g, i)
      buf == EnsureBuffer(storage[i][r], shape)
      places == Relaid([p \in 1 .. SeqLen(i) |-> p - 1], g.cp, r[2])
  IN  [buf EXCEPT !.cell = [a \in DOMAIN @ |->
        IF a \in Within4(shape)
          THEN <<round, RowAt(g, r, a[1], a[2]), places[a[3] + 1], r[3] * shape[4] + a[4]>> ELSE @[a]]]
ShardsOfRow(g, i, n) ==    \* AggregatePerSampleHandles: by data-parallel rank
  LET shape == ExportShape(g, i)
      at == n % RowsPerRank(g)
  IN  {[rank |-> r, buf |-> at \div g.mbs, at |-> at % g.mbs, vocab |-> r[3] * shape[4], cols |-> shape[4],
        from |-> r[2] * shape[3], len |-> shape[3]] : r \in {r \in GridRanks(g) : r[1] = n \div RowsPerRank(g)}}

NoDistillation ==
  /\ distil = Empty /\ distilAt = "none" /\ round = 0 /\ storage = Empty /\ handles = Empty /\ mbsDone = 0
  /\ mapped = {} /\ heard = Empty /\ scores = Empty /\ terms = Empty /\ joinedIn = Empty

Released == [i \in Teachers |-> [r \in GridRanks(Teacher(i)) |-> Empty]]
Distill(x) ==
  /\ distilAt = "none" /\ distil' = x /\ distilAt' = "checking"
  /\ UNCHANGED <<round, storage, handles, mbsDone, mapped, heard, scores, terms, joinedIn>>

CheckGrids ==
  /\ distilAt = "checking"
  /\ IF \A i \in Teachers : BatchGridFits(Teacher(i)) /\ IpcNodeLocal(Teacher(i))
       THEN /\ distilAt' = "exporting"
            /\ storage' = Released
            /\ joinedIn' = [r \in StudentRanks |-> <<>>]
       ELSE distilAt' = "refused" /\ UNCHANGED <<storage, joinedIn>>
  /\ UNCHANGED <<distil, round, handles, mbsDone, mapped, heard, scores, terms>>

ExportTeacherLogits ==
  LET i == Len(handles) + 1
      g == Teacher(i)
  IN  /\ distilAt = "exporting"
      /\ storage' = [storage EXCEPT ![i] = [r \in DOMAIN @ |-> Exported(g, i, r)]]
      /\ handles' = Append(handles, [n \in 0 .. Len(BatchRows) - 1 |-> ShardsOfRow(g, i, n)])
      /\ distilAt' = IF i = Len(distil.teachers) THEN "packed" ELSE "exporting"
      /\ UNCHANGED <<distil, round, mbsDone, mapped, heard, scores, terms, joinedIn>>

(* The student's batch must be whole global batches.                       *)
TrainRefuses ==
  /\ distilAt = "packed" /\ mbsDone = 0 /\ Len(BatchRows) % Student.gbs # 0
  /\ distilAt' = "raised" /\ storage' = Released
  /\ UNCHANGED <<distil, round, handles, mbsDone, mapped, heard, scores, terms, joinedIn>>

-----------------------------------------------------------------------------
(* A microbatch of the student: what its ranks fetch.                      *)

ShardsFor(i, r, j) == handles[i][RowAt(Student, r, mbsDone, j)]
WindowFrom(i, r) == (r[2] * SeqLen(i)) \div Student.cp
WindowTo(i, r) == ((r[2] + 1) * SeqLen(i)) \div Student.cp
CellOf(i, h, a, p, v) == storage[i][h.rank].cell[<<h.buf, a, p, v>>]

Covering(i, r, j) ==
  {h \in ShardsFor(i, r, j) : h.vocab = 0 /\ h.cols = Teacher(i).cols /\ h.from <= WindowFrom(i, r) /\ h.from + h.len >= WindowTo(i, r)}
TheOne(S) == CHOOSE x \in S : TRUE
OneSlab(i, r) ==           \* _try_zero_copy_teacher_logits
  \A j \in 0 .. Student.mbs - 1 :
    /\ Cardinality(Covering(i, r, j)) = 1
    /\ LET h == TheOne(Covering(i, r, j)) first == TheOne(Covering(i, r, 0))
       IN  h.rank = first.rank /\ h.buf = first.buf /\ h.at = j /\ h.from = first.from
Overlapping(i, r, j) == {h \in ShardsFor(i, r, j) : h.from < WindowTo(i, r) /\ WindowFrom(i, r) < h.from + h.len}
Rebuilt(i, r) ==
  [a \in (0 .. Student.mbs - 1) \X (0 .. WindowTo(i, r) - WindowFrom(i, r) - 1) \X (0 .. Teacher(i).cols - 1) |->
     IF OneSlab(i, r)
       THEN LET h == TheOne(Covering(i, r, 0)) IN CellOf(i, h, a[1], WindowFrom(i, r) - h.from + a[2], a[3])
       ELSE LET at == WindowFrom(i, r) + a[2]
                h == TheOne({h \in Overlapping(i, r, a[1]) :
                              at \in h.from .. h.from + h.len - 1 /\ a[3] \in h.vocab .. h.vocab + h.cols - 1})
            IN  CellOf(i, h, h.at, at - h.from, a[3] - h.vocab)]
Opened(i, r) ==
  IF OneSlab(i, r) THEN {TheOne(Covering(i, r, 0)).rank}
  ELSE {h.rank : h \in UNION {Overlapping(i, r, j) : j \in 0 .. Student.mbs - 1}}

RebuildTeacherLogits ==
  /\ distilAt = "packed" /\ Len(BatchRows) % Student.gbs = 0
  /\ distilAt' = "rebuilt"
  /\ heard' = [r \in StudentRanks |-> [i \in Teachers |-> Rebuilt(i, r)]]
  /\ mapped' = mapped \cup
                 UNION {{<<i, WorldRank(Student, r), WorldRank(Teacher(i), o)>> : o \in Opened(i, r)}
                          : r \in StudentRanks, i \in Teachers}
  /\ UNCHANGED <<distil, round, storage, handles, mbsDone, scores, terms, joinedIn>>

-----------------------------------------------------------------------------
(* Which teachers count, and how much: by their loss on the microbatches   *)
(* of all ranks.  A teacher's own tokens are not cut into windows.         *)

Scores == distil.mode = "select" \/ distil.metric # "none"
MisfitScore == \E i \in Teachers : ~Teacher(i).same /\ Student.cp > 1
MyRow(r, j) == RowAt(Student, r, mbsDone, j)
ScoredAt(i, r) ==
  LET mask(n) == IF Teacher(i).same THEN Relaid(BatchRow(n).mask, Student.cp, r[2]) ELSE BatchRow(n).tMask[i]
      last == WindowTo(i, r) - WindowFrom(i, r) - 1
  IN  {a \in (0 .. Student.mbs - 1) \X (0 .. last - 1) : BatchRow(MyRow(r, a[1])).on /\ mask(MyRow(r, a[1]))[a[2] + 2] = 1}
Surprise(i, r, a) ==
  LET best == Max({Logit(i, c[2], c[3], c[4]) : c \in {heard[r][i][<<a[1], a[2], v>>] : v \in 0 .. Teacher(i).cols - 1}})
  IN  LET c == heard[r][i][<<a[1], a[2], 0>>] IN best - Logit(i, c[2], c[3], c[4])
TotalOver(S, f(_)) == MapThenSumSet(f, S)
GlobalScore(i) ==
  [sum |-> TotalOver(StudentRanks, LAMBDA r : TotalOver(ScoredAt(i, r), LAMBDA a : Surprise(i, r, a))),
   count |-> LET n == TotalOver(StudentRanks, LAMBDA r : Cardinality(ScoredAt(i, r))) IN IF n = 0 THEN 1 ELSE n]

ScoreTeachers ==
  /\ distilAt = "rebuilt" /\ Scores
  /\ IF MisfitScore THEN distilAt' = "raised" /\ storage' = Released /\ UNCHANGED <<scores, joinedIn>>
     ELSE /\ distilAt' = "scored" /\ UNCHANGED storage
          /\ scores' = [r \in StudentRanks |-> [i \in Teachers |-> GlobalScore(i)]]
          /\ joinedIn' = [r \in StudentRanks |-> joinedIn[r] \o [k \in 1 .. 2 * Len(distil.teachers) |-> <<"score", (k + 1) \div 2>>]]
  /\ UNCHANGED <<distil, round, handles, mbsDone, mapped, heard, terms>>
Better(r, i, k) == scores[r][i].sum * scores[r][k].count < scores[r][k].sum * scores[r][i].count
Chosen(r) ==
  IF distil.mode # "select" THEN Teachers
  ELSE {CHOOSE i \in Teachers : \A k \in Teachers : ~Better(r, k, i) /\ (k < i => Better(r, i, k))}

-----------------------------------------------------------------------------
(* The gold loss compares tokens that map onto one another exactly, in     *)
(* tenths, and the rest by rank only.  A projection has two entries for    *)
(* every token of the student, -1 where there is none.                     *)

TopEntry(e) == IF e.w[1] >= e.w[2] THEN 1 ELSE 2
ExactMap(i) ==             \* <<student's token, teacher's>>
  LET proj == Teacher(i).projection
      Of(s) == proj[s + 1].to[TopEntry(proj[s + 1])]
      Weight(s) == proj[s + 1].w[TopEntry(proj[s + 1])]
      candidates == {s \in 0 .. Len(proj) - 1 :
                       /\ IF Teacher(i).xtoken THEN Weight(s) >= 6 ELSE Weight(s) = 10 /\ proj[s + 1].to[2] = -1
                       /\ Of(s) \in 0 .. Teacher(i).cols - 1}
      Rivals(s) == {q \in candidates : Of(q) = Of(s)}
      Eligible(s) == ~Teacher(i).xtoken \/ \A q \in Rivals(s) : Weight(s) >= Weight(q)
  IN  {<<s, Of(s)>> : s \in {s \in candidates : Eligible(s) /\ \A q \in Rivals(s) : Eligible(q) => s <= q}}

-----------------------------------------------------------------------------
(* What the loss is made of.                                               *)

CpPeers(r) == {q \in StudentRanks : q[1] = r[1] /\ q[3] = r[3]}
TpPeers(r) == {q \in StudentRanks : q[1] = r[1] /\ q[2] = r[2]}
Importance(i, r, v) ==     \* the largest logit of a column, on all ranks with other positions
  Max({Logit(i, c[2], c[3], c[4]) : c \in UNION {{heard[q][i][a] : a \in {a \in DOMAIN heard[q][i] : a[3] = v}} : q \in CpPeers(r)}})
TopColumns(i, r) ==
  LET cols == 0 .. Teacher(i).cols - 1
      Ahead(v) == {u \in cols : Importance(i, r, u) > Importance(i, r, v) \/ (Importance(i, r, u) = Importance(i, r, v) /\ u < v)}
  IN  {v \in cols : Cardinality(Ahead(v)) < distil.topk}
LossColumns(i, r) == IF Teacher(i).gold THEN 0 .. Teacher(i).cols - 1 ELSE TopColumns(i, r)

Offsets(i, r) == 1 .. WindowTo(i, r) - WindowFrom(i, r)
StudentOffsets(r) == 1 .. Len(BatchRow(0).mask) \div Student.cp
StudentPlace(r, x) == Relaid([p \in 1 .. Len(BatchRow(0).mask) |-> p - 1], Student.cp, r[2])[x]
StudentHits(i, r, j, k) == {x \in StudentOffsets(r) : StudentIds(i, MyRow(r, j), r[2])[x] = k}
TeacherHits(i, r, j, k) == {x \in Offsets(i, r) : TeacherIds(i, MyRow(r, j), r[2])[x] = k}
ChunkSums(i, r, j, k) ==
  [s |-> UNION {{<<MyRow(q, j), StudentPlace(q, x), u[3]>> : x \in StudentHits(i, q, j, k), u \in TpPeers(q)} : q \in CpPeers(r)},
   t |-> UNION {{heard[q][i][<<j, x - 1, v>>] : x \in TeacherHits(i, q, j, k), v \in LossColumns(i, r)} : q \in CpPeers(r)},
   sSize |-> TotalOver(CpPeers(r), LAMBDA q : Cardinality(StudentHits(i, q, j, k))),
   tSize |-> TotalOver(CpPeers(r), LAMBDA q : Cardinality(TeacherHits(i, q, j, k)))]

PairCounts(i, n, k) ==
  /\ BatchRow(n).on /\ k < Len(BatchRow(n).right[i])
  /\ distil.exactOnly /\ ~Teacher(i).gold => BatchRow(n).right[i][k + 1]
MaxPairs(i) == Max({Len(BatchRow(n).right[i]) : n \in 0 .. Len(BatchRows) - 1})
LocalSums(i, r) ==
  [a \in (0 .. Student.mbs - 1) \X (0 .. MaxPairs(i) - 1) |-> ChunkSums(i, r, a[1], a[2])]
ValidChunks(i, r, sums) ==
  {a \in DOMAIN sums : sums[a].sSize > 0 /\ sums[a].tSize > 0 /\ PairCounts(i, MyRow(r, a[1]), a[2])}

AveragesLogits ==
  /\ distil.mode = "averaged"
  /\ \A i, k \in Teachers : Teacher(i).same /\ SeqLen(i) = SeqLen(k) /\ Teacher(i).cols = Teacher(k).cols
DirectPlaces(i, r) ==      \* the rows and positions whose next token counts
  UNION {{<<MyRow(r, j), StudentPlace(r, x), heard[r][i][<<j, x - 1, 0>>]>> :
            x \in {x \in StudentOffsets(r) : NextMask(MyRow(r, j), r[2])[x] = 1}}
           : j \in {j \in 0 .. Student.mbs - 1 : BatchRow(MyRow(r, j)).on}}
DirectTerm(i, r) == [direct |-> TRUE, at |-> DirectPlaces(i, r), columns |-> IF AveragesLogits THEN {} ELSE TopColumns(i, r)]
ChunkTerm(i, r, sums, count) ==
  [direct |-> FALSE, columns |-> LossColumns(i, r), count |-> count,
   at |-> IF count = 0 THEN Empty ELSE [a \in ValidChunks(i, r, sums[i][r]) |-> sums[i][r][a]],
   exact |-> IF Teacher(i).gold THEN ExactMap(i) ELSE {}]

Collectives(r, count) ==
  LET Of(i) == IF AveragesLogits THEN <<<<"mask", i>>>>
               ELSE IF Teacher(i).same THEN <<<<"top", i>>, <<"gather", i>>, <<"mask", i>>>>
               ELSE (IF Teacher(i).gold THEN <<<<"gather", i>>>> ELSE <<<<"project", i>>, <<"top", i>>>>)
                      \o <<<<"student chunks", i>>, <<"teacher chunks", i>>, <<"count", i>>>>
      used == SetToSortSeq(Chosen(r), LAMBDA i, k : i < k)
  IN  FlattenSeq([k \in DOMAIN used |-> Of(used[k])]) \o <<<<"accuracy", 0>>>>

TeachStudent ==
  /\ distilAt \in {"rebuilt", "scored"} /\ (Scores => distilAt = "scored")
  /\ distilAt' = "taught"
  /\ \E sums \in {[i \in {i \in Teachers : ~Teacher(i).same} |-> [r \in StudentRanks |-> LocalSums(i, r)]]} :
     \E count \in {[i \in DOMAIN sums |-> TotalOver(StudentRanks, LAMBDA r : Cardinality(ValidChunks(i, r, sums[i][r])))]} :
       /\ terms' = [r \in StudentRanks |-> [i \in Chosen(r) |->
                     IF Teacher(i).same THEN DirectTerm(i, r) ELSE ChunkTerm(i, r, sums, count[i])]]
       /\ joinedIn' = [r \in StudentRanks |-> joinedIn[r] \o Collectives(r, count)]
  /\ UNCHANGED <<distil, round, storage, handles, mbsDone, mapped, heard, scores>>

LastMicrobatch == (mbsDone + 1) * Student.mbs = RowsPerRank(Student)
NextMicrobatch ==
  /\ distilAt = "taught" /\ ~LastMicrobatch
  /\ distilAt' = "packed" /\ mbsDone' = mbsDone + 1
  /\ UNCHANGED <<distil, round, storage, handles, mapped, heard, scores, terms, joinedIn>>

NextBatch ==               \* buffers are freed after validation and after training
  /\ distilAt = "taught" /\ LastMicrobatch
  /\ round' = BatchNo /\ mbsDone' = 0 /\ handles' = Empty
  /\ distilAt' = IF BatchNo = Len(distil.rounds) THEN "over" ELSE "exporting"
  /\ storage' = IF BatchNo = Len(distil.rounds) \/ (Evaluates(BatchNo) /\ ~Evaluates(BatchNo + 1)) THEN Released ELSE storage
  /\ UNCHANGED <<distil, mapped, heard, scores, terms, joinedIn>>

DistillationStep ==
  CheckGrids \/ ExportTeacherLogits \/ TrainRefuses \/ RebuildTeacherLogits \/ ScoreTeachers
    \/ TeachStudent \/ NextMicrobatch \/ NextBatch
DistillationOver == distilAt \in {"refused", "raised", "over"}

-----------------------------------------------------------------------------
(* A rank hears of its own rows and of its own window, in this batch.      *)
HeardInPlace ==
  \A r \in DOMAIN heard : \A i \in Teachers : \A a \in DOMAIN heard[r][i] :
    heard[r][i][a] = <<round, MyRow(r, a[1]), r[2] * (SeqLen(i) \div Student.cp) + a[2], a[3]>>
(* Every position that predicts a token of the chunk is in its sums, once. *)
Predicting(ids, k) == {p \in 0 .. Len(ids) - 2 : ids[p + 2] = k}
ChunkWhole(i, r, a, x) ==
  LET n == MyRow(r, a[1])
      s == Predicting(BatchRow(n).s[i], a[2])
      t == Predicting(BatchRow(n).t[i], a[2])
  IN  /\ x.s = {<<n, p, u>> : p \in s, u \in 0 .. Student.tp - 1} /\ x.sSize = Cardinality(s)
      /\ x.t = {<<round, n, p, v>> : p \in t, v \in terms[r][i].columns} /\ x.tSize = Cardinality(t)
Compared(r, i) == {<<a[1], a[2]>> : a \in terms[r][i].at}
Counts(n) == n < Len(distil.rounds[BatchNo].rows) /\ BatchRow(n).on
Bijective(map) == \A a, b \in map : (a[1] = b[1]) = (a[2] = b[2])

(* Whatever the grids of teachers and student, as long as setup takes      *)
(* them: a process only opens buffers of its own node, hears what each     *)
(* teacher says of its rows, of this batch and of its window, and ranks    *)
(* take part in the same collectives and agree on teachers and columns.    *)
(* A chunk has all positions that predict it on either side, every chunk   *)
(* that both sides predict counts, in rows that count, and their weights   *)
(* add up to one over all ranks.  What is compared directly is compared    *)
(* with itself, once.                                                      *)
DistilledInPlace ==
  /\ \A m \in mapped : distil.nodes > 1 => m[2] \div distil.perNode = m[3] \div distil.perNode
  /\ distilAt \in {"rebuilt", "scored", "taught"} => HeardInPlace
  /\ \A r, q \in DOMAIN joinedIn : joinedIn[r] = joinedIn[q]
  /\ distilAt = "taught" => \A r \in StudentRanks :
       /\ DOMAIN terms[r] = DOMAIN terms[<<0, 0, 0>>]
       /\ \A i \in DOMAIN terms[r] :
            LET x == terms[r][i]
            IN  /\ \A q \in CpPeers(r) \cup TpPeers(r) : x.columns = terms[q][i].columns
                /\ x.direct =>
                     /\ \A a \in x.at : a[3][2] = a[1] /\ a[3][3] = a[2]
                     /\ UNION {Compared(q, i) : q \in CpPeers(r)} =
                          {a \in {MyRow(r, j) : j \in 0 .. Student.mbs - 1} \X (0 .. Len(BatchRow(0).mask) - 2) :
                             Counts(a[1]) /\ BatchRow(a[1]).mask[a[2] + 2] = 1}
                     /\ \A q \in CpPeers(r) \ {r} : Compared(q, i) \cap Compared(r, i) = {}
                /\ ~x.direct =>
                     /\ \A a \in DOMAIN x.at : ChunkWhole(i, r, a, x.at[a])
                     /\ DOMAIN x.at = {a \in (0 .. Student.mbs - 1) \X (0 .. MaxPairs(i) - 1) :
                          LET n == MyRow(r, a[1])
                          IN  Counts(n) /\ PairCounts(i, n, a[2]) /\ Predicting(BatchRow(n).s[i], a[2]) # {} /\ Predicting(BatchRow(n).t[i], a[2]) # {}}
                     /\ x.count = TotalOver(StudentRanks, LAMBDA q : Cardinality(DOMAIN terms[q][i].at))
                     /\ Bijective(x.exact)
=============================================================================
