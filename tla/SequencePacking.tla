-------------------------- MODULE SequencePacking --------------------------
(***************************************************************************)
(* SequencePacker.pack: rows of a chunk are put into bins of Capacity      *)
(* tokens by one of four algorithms, then rows are moved to further bins   *)
(* until every data-parallel shard can have as many bins as any other.     *)
(*                                                                         *)
(* A step of the model places one row, or moves to the next bin of a pass  *)
(* over the bins.  A bin is its rows in order and the sum of their         *)
(* lengths, as the packers keep it.                                        *)
(***************************************************************************)
EXTENDS Integers, Sequences, FiniteSets

CONSTANTS Capacity,       \* bin_capacity: max_tokens_per_microbatch
          MaxPerBin       \* ConcatenativePacker.max_sequences_per_bin, or -1

Algorithms ==
  {"concatenative", "first_fit_decreasing", "first_fit_shuffle",
   "modified_first_fit_decreasing"}

ASSUME PackingConstants ==
  /\ Capacity \in Nat \ {0}
  /\ MaxPerBin \in {-1} \cup (Nat \ {0})

VARIABLES
  alg,      \* the algorithm of get_packer
  multiple, \* min_bin_count and bin_count_multiple: the number of shards
  lens,     \* the length of each row of the chunk
  stage,    \* where pack is
  todo,     \* rows not in a bin yet
  bins,     \* the bins in order: [rows, load]
  spill,    \* MFFD: the bins of its last phase, lightest first
  at,       \* the bin a pass over the bins has come to
  had       \* the rows each bin had before the number of bins is adjusted

packVars == <<alg, multiple, lens, stage, todo, bins, spill, at, had>>
Given == <<alg, multiple, lens>>

Longest(i, j) == lens[i] > lens[j] \/ (lens[i] = lens[j] /\ i > j)
Ahead(i, j) == lens[i] > lens[j] \/ (lens[i] = lens[j] /\ i < j)
FirstBy(before(_, _), rows, r) ==
  r \in rows /\ \A i \in rows \ {r} : before(r, i)

EmptyBin == [rows |-> <<>>, load |-> 0]
With(b, r) == [rows |-> Append(b.rows, r), load |-> b.load + lens[r]]
Fits(b, r) == b.load + lens[r] <= Capacity

PutInto(b, r) == bins' = [bins EXCEPT ![b] = With(@, r)] /\ todo' = todo \ {r}
OpenBin(r) == bins' = Append(bins, With(EmptyBin, r)) /\ todo' = todo \ {r}

-----------------------------------------------------------------------------
FirstStage(a) ==
  CASE a = "concatenative" -> "concat"
    [] a = "modified_first_fit_decreasing" -> "large"
    [] OTHER -> "fit"

PackIdle ==
  /\ alg = "concatenative" /\ multiple = 1 /\ lens = <<>> /\ stage = "idle"
  /\ todo = {} /\ bins = <<>> /\ spill = <<>> /\ at = 0 /\ had = <<>>
ClearPacker ==
  /\ stage \in {"packed", "refused"}
  /\ alg' = "concatenative" /\ multiple' = 1 /\ lens' = <<>> /\ stage' = "idle"
  /\ todo' = {} /\ bins' = <<>> /\ spill' = <<>> /\ at' = 0 /\ had' = <<>>

(* The concatenating and the modified packer look at all lengths before    *)
(* they start, the others at each row in its turn; only the modified one   *)
(* asks for rows of at least one token.                                    *)
StartPack(a, m, l) ==
  /\ stage = "idle"
  /\ alg' = a /\ multiple' = m /\ lens' = l
  /\ stage' = IF \/ /\ a \in {"concatenative", "modified_first_fit_decreasing"}
                    /\ \E i \in DOMAIN l : l[i] > Capacity
                 \/ a = "modified_first_fit_decreasing" /\ \E i \in DOMAIN l : l[i] = 0
                THEN "refused" ELSE FirstStage(a)
  /\ todo' = DOMAIN l /\ bins' = <<>> /\ spill' = <<>> /\ at' = 0 /\ had' = <<>>

GoTo(s, from) == stage' = s /\ at' = from

(* ConcatenativePacker: rows as they come, into the last bin.              *)
ConcatRow ==
  /\ stage = "concat"
  /\ \E r \in todo :
       /\ \A i \in todo : r <= i
       /\ LET n == Len(bins)
          IN  IF n > 0 /\ Fits(bins[n], r) /\ (MaxPerBin = -1 \/ Len(bins[n].rows) < MaxPerBin)
                THEN PutInto(n, r) ELSE OpenBin(r)
  /\ UNCHANGED <<Given, had, stage, spill, at>>

(* FirstFitPacker: by decreasing length or in any order, each row into the *)
(* first bin with room for it.                                             *)
FitOrder(r) ==
  r \in todo /\ (alg = "first_fit_decreasing" => FirstBy(Longest, todo, r))

FitRow ==
  /\ stage = "fit"
  /\ \E r \in todo :
       /\ FitOrder(r) /\ lens[r] <= Capacity
       /\ LET room == {b \in DOMAIN bins : Fits(bins[b], r)}
          IN  \/ room = {} /\ OpenBin(r)
              \/ \E b \in room : (\A c \in room : b <= c) /\ PutInto(b, r)
  /\ UNCHANGED <<Given, had, stage, spill, at>>

TooLong ==
  /\ stage = "fit"
  /\ \E r \in todo : FitOrder(r) /\ lens[r] > Capacity
  /\ stage' = "refused"
  /\ UNCHANGED <<Given, had, todo, bins, spill, at>>

-----------------------------------------------------------------------------
(* ModifiedFirstFitDecreasingPacker.                                       *)

Large(r) == 2 * lens[r] > Capacity
Medium(r) == ~Large(r) /\ 3 * lens[r] > Capacity
Small(r) == ~Large(r) /\ ~Medium(r) /\ 6 * lens[r] > Capacity
RowsOf(class(_)) == {r \in todo : class(r)}

StartLarge ==      \* phase 1
  /\ stage = "large"
  /\ \E r \in RowsOf(Large) : FirstBy(Ahead, RowsOf(Large), r) /\ OpenBin(r)
  /\ UNCHANGED <<Given, had, stage, spill, at>>
LargeDone ==
  /\ stage = "large" /\ RowsOf(Large) = {}
  /\ GoTo("medium", 1)
  /\ UNCHANGED <<Given, had, todo, bins, spill>>

Pass(s) == stage = s /\ at \in DOMAIN bins

AddMedium ==       \* phase 2, forward: one medium row for a bin
  /\ Pass("medium")
  /\ LET fit == {r \in RowsOf(Medium) : Fits(bins[at], r)}
     IN  \/ fit = {} /\ UNCHANGED <<bins, todo>>
         \/ \E r \in fit : FirstBy(Ahead, fit, r) /\ PutInto(at, r)
  /\ at' = at + 1
  /\ UNCHANGED <<Given, had, stage, spill>>
MediumDone ==
  /\ stage = "medium" /\ at > Len(bins)
  /\ GoTo("pairs", Len(bins))
  /\ UNCHANGED <<Given, had, todo, bins, spill>>

(* Phase 3, backward: the smallest of the small rows and the largest that  *)
(* fits beside it, for bins without a medium row, when the two smallest fit.*)
Lightest(r, i) == lens[r] < lens[i] \/ (lens[r] = lens[i] /\ r < i)
Pair(p) ==
  LET small == RowsOf(Small)
      beside == {r \in small \ {p[1]} : bins[at].load + lens[p[1]] + lens[r] <= Capacity}
  IN  /\ FirstBy(Lightest, small, p[1]) /\ p[2] \in beside
      /\ \A r \in beside \ {p[2]} : Lightest(r, p[2])
PutPairKeeping(p) ==
  /\ bins' = [bins EXCEPT ![at] = With(With(@, p[1]), p[2])]
  /\ todo' = todo \ {p[1]}
PutPair(p) ==
  /\ bins' = [bins EXCEPT ![at] = With(With(@, p[1]), p[2])]
  /\ todo' = todo \ {p[1], p[2]}
NoMedium(b) == \A k \in DOMAIN b.rows : ~Medium(b.rows[k])

AddPair ==
  /\ Pass("pairs")
  /\ \/ \E p \in todo \X todo : NoMedium(bins[at]) /\ Pair(p) /\ PutPair(p)
     \/ /\ NoMedium(bins[at]) => \A p \in todo \X todo : ~Pair(p)
        /\ UNCHANGED <<bins, todo>>
  /\ at' = at - 1
  /\ UNCHANGED <<Given, had, stage, spill>>
PairsDone ==
  /\ stage = "pairs" /\ at = 0
  /\ GoTo("greedy", 1)
  /\ UNCHANGED <<Given, had, todo, bins, spill>>

AddLargest ==      \* phase 4, forward: while any row fits, the largest that does
  /\ Pass("greedy")
  /\ LET fit == {r \in todo : Fits(bins[at], r)}
     IN  \/ /\ fit = {} /\ at' = at + 1
            /\ UNCHANGED <<bins, todo>>
         \/ /\ \E r \in fit : FirstBy(Ahead, fit, r) /\ PutInto(at, r)
            /\ UNCHANGED at
  /\ UNCHANGED <<Given, had, stage, spill>>
GreedyDone ==
  /\ stage = "greedy" /\ at > Len(bins)
  /\ GoTo("spill", 0) /\ spill' = <<EmptyBin>>
  /\ UNCHANGED <<Given, had, todo, bins>>

(* Phase 5: the rest by decreasing length, each into the lightest bin or a *)
(* new one, which is then put back where its load belongs (bisect).        *)
Belongs(b, seq, n) ==
  /\ \A i \in 1 .. n : seq[i].load <= b.load
  /\ n < Len(seq) => seq[n + 1].load > b.load
PutBack(b, seq) ==
  \E n \in 0 .. Len(seq) :
    Belongs(b, seq, n)
      /\ spill' = SubSeq(seq, 1, n) \o <<b>> \o SubSeq(seq, n + 1, Len(seq))
AddSpilled ==
  /\ stage = "spill"
  /\ \E r \in todo :
       /\ FirstBy(Ahead, todo, r) /\ todo' = todo \ {r}
       /\ IF Fits(spill[1], r) THEN PutBack(With(spill[1], r), Tail(spill))
                               ELSE PutBack(With(EmptyBin, r), spill)
  /\ UNCHANGED <<Given, had, stage, bins, at>>
SpillDone ==      \* the first bin is only empty if there was no row for it
  /\ stage = "spill" /\ todo = {}
  /\ bins' = IF spill[1].rows = <<>> THEN bins ELSE bins \o spill
  /\ stage' = "counted" /\ spill' = <<>>
  /\ UNCHANGED <<Given, had, todo, at>>

RowsDone ==
  /\ stage \in {"concat", "fit"} /\ todo = {}
  /\ stage' = "counted"
  /\ UNCHANGED <<Given, had, todo, bins, spill, at>>

-----------------------------------------------------------------------------
(* _adjust_bin_count: the least multiple that is enough; rows are taken    *)
(* from the end of the bins that had most rows, while they have another.   *)

TargetExact(n) == IF n < multiple THEN multiple ELSE n
Target(n) ==
  LET least == IF n < multiple THEN multiple ELSE n
      rest == least % multiple
  IN  IF rest = 0 THEN least ELSE least + (multiple - rest)

CountBins ==
  /\ stage = "counted"
  /\ stage' = IF Target(Len(bins)) = Len(bins) THEN "packed"
              ELSE IF Len(lens) < Target(Len(bins)) THEN "refused" ELSE "adjust"
  /\ had' = [b \in DOMAIN bins |-> Len(bins[b].rows)]
  /\ UNCHANGED <<Given, todo, bins, spill, at>>

Source(b) ==
  LET open == {c \in DOMAIN had : Len(bins[c].rows) > 1}
  IN  /\ b \in open
      /\ \A c \in open \ {b} : had[b] > had[c] \/ (had[b] = had[c] /\ b > c)
MoveLast(b) ==
  LET rows == bins[b].rows
      r == rows[Len(rows)]
  IN  bins' = Append([bins EXCEPT ![b] = [rows |-> SubSeq(rows, 1, Len(rows) - 1),
                                          load |-> @.load - lens[r]]],
                     With(EmptyBin, r))
SplitBin ==
  /\ stage = "adjust" /\ Target(Len(bins)) > Len(bins)
  /\ \E b \in DOMAIN had : Source(b) /\ MoveLast(b)
  /\ UNCHANGED <<Given, had, stage, todo, spill, at>>
AdjustDone ==
  /\ stage = "adjust" /\ Target(Len(bins)) = Len(bins)
  /\ stage' = "packed"
  /\ UNCHANGED <<Given, had, todo, bins, spill, at>>

PackStep ==
  \/ ConcatRow \/ FitRow \/ TooLong \/ RowsDone
  \/ StartLarge \/ LargeDone \/ AddMedium \/ MediumDone \/ AddPair \/ PairsDone
  \/ AddLargest \/ GreedyDone \/ AddSpilled \/ SpillDone
  \/ CountBins \/ SplitBin \/ AdjustDone

PackNext ==
  \/ \E a \in Algorithms, m \in Nat \ {0}, l \in Seq(Nat) : StartPack(a, m, l)
  \/ PackStep \/ ClearPacker

PackSpec == PackIdle /\ [][PackNext]_packVars

-----------------------------------------------------------------------------
(* Whatever the algorithm, its passes over the bins and the bins that are  *)
(* split for the shards: a row is either still to be placed or in exactly  *)
(* one place of one bin, no bin is over its capacity, and when the packing *)
(* is done every row is in a bin, no bin is empty, and the bins can be     *)
(* dealt evenly to the shards, at least one to each.                       *)
In(bs, r) == \E b \in DOMAIN bs : \E k \in DOMAIN bs[b].rows : bs[b].rows[k] = r
Once(bs) ==
  \A b, c \in DOMAIN bs : \A j \in DOMAIN bs[b].rows, k \in DOMAIN bs[c].rows :
    bs[b].rows[j] = bs[c].rows[k] => b = c /\ j = k
Within(bs) == \A b \in DOMAIN bs : bs[b].load <= Capacity

EachOnce ==
  /\ Once(bins) /\ Once(spill)
  /\ \A r \in DOMAIN lens :
       /\ r \in todo \/ In(bins, r) \/ In(spill, r)
       /\ ~(r \in todo /\ (In(bins, r) \/ In(spill, r))) /\ ~(In(bins, r) /\ In(spill, r))
ReadyToDeal ==
  stage = "packed" =>
    /\ todo = {} /\ spill = <<>> /\ \A b \in DOMAIN bins : bins[b].rows # <<>>
    /\ Len(bins) % multiple = 0 /\ Len(bins) >= multiple
PackedWhole == EachOnce /\ Within(bins) /\ Within(spill) /\ ReadyToDeal
=============================================================================
