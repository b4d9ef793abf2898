-------------------------- MODULE WorkerCallProofs --------------------------
(***************************************************************************)
(* Proofs about what the driver exchanges with its workers, call by call.  *)
(* Packing loses, repeats and overfills nothing, for every algorithm, any  *)
(* rows of any lengths, any capacity and number of shards.  A call of the  *)
(* policy or value workers is answered row for row however its batch is    *)
(* sharded, packed, cut into microbatches and joined again, with the       *)
(* workers in step.  And each way to transfer weights, over ZMQ, over HTTP *)
(* or by broadcasts, loads the tensors that the training workers sent.     *)
(*                                                                         *)
(* The first part is what the others and those of DataPathProofs need of   *)
(* recursive functions over numbers, of lists cut and joined, of sorting   *)
(* and of sums.                                                            *)
(***************************************************************************)
EXTENDS PolicyCalls, WeightTransfer, FiniteSetTheorems, SequenceTheorems, WellFoundedInduction, TLAPS

-----------------------------------------------------------------------------
(* Recursion over numbers.                                                 *)

(* Induction, for a set instead of a predicate: what is in the set may     *)
(* then be said of the turns of a loop of the code one after the other.    *)
LEMMA Induct ==
  ASSUME NEW S, 0 \in S, \A n \in Nat : n \in S => n + 1 \in S
  PROVE  Nat \subseteq S
<1> DEFINE Bad == {n \in Nat : n \notin S}
<1> SUFFICES ASSUME Bad # {} PROVE FALSE OBVIOUS
<1>1. IsWellFoundedOn(OpToRel(<, Nat), Nat) BY NatLessThanWellFounded, Zenon
<1>2. Bad \subseteq Nat OBVIOUS
<1>3. \E x \in Bad : \A y \in Bad : ~(<<y, x>> \in OpToRel(<, Nat))
  <2> HIDE DEF Bad
  <2> QED BY <1>1, <1>2, WFMin, Zenon
<1>4. PICK m \in Bad : \A y \in Bad : ~(<<y, m>> \in OpToRel(<, Nat)) BY <1>3, Zenon
<1>5. \A y \in Bad : ~(y < m) BY <1>2, <1>4, Zenon DEF OpToRel
<1>6. m \in Nat /\ m # 0 /\ m \notin S BY <1>2
<1>7. m - 1 \in Nat BY <1>6
<1>8. m - 1 \in S BY <1>5, <1>6, <1>7
<1>9. m \in S BY <1>7, <1>8, <1>6
<1> QED BY <1>6, <1>9

(* A loop that starts with e and goes from k - 1 to k by op.               *)
Steps(n, V) == [(1 .. n) \X V -> V]
Follows(f, n, V, e, op) ==
  f \in [0 .. n -> V] /\ f[0] = e /\ \A k \in 1 .. n : f[k] = op[<<k, f[k - 1]>>]

(* There is such a function: the model's loops over messages, rows and     *)
(* tasks are of this kind.                                                 *)
LEMMA RecursionExists ==
  ASSUME NEW n \in Nat, NEW V, NEW e \in V, NEW op \in Steps(n, V)
  PROVE  \E f : Follows(f, n, V, e, op)
<1> USE DEF Steps
<1> DEFINE OK(m) == \E f \in [0 .. m -> V] : f[0] = e /\ \A k \in 1 .. m : f[k] = op[<<k, f[k - 1]>>]
           S == {m \in Nat : m <= n => OK(m)}
<1>1. 0 \in S
  <2> DEFINE f == [k \in 0 .. 0 |-> e]
  <2>1. f \in [0 .. 0 -> V] /\ f[0] = e OBVIOUS
  <2>2. \A k \in 1 .. 0 : FALSE OBVIOUS
  <2> HIDE DEF f
  <2>3. OK(0) BY <2>1, <2>2
  <2> QED BY <2>3
<1>2. ASSUME NEW m \in Nat, m \in S, m + 1 <= n PROVE OK(m + 1)
  <2>1. OK(m) BY <1>2
  <2>2. PICK f \in [0 .. m -> V] : f[0] = e /\ \A k \in 1 .. m : f[k] = op[<<k, f[k - 1]>>]
    BY <2>1
  <2> DEFINE v == op[<<m + 1, f[m]>>]
             g == [k \in 0 .. m + 1 |-> IF k = m + 1 THEN v ELSE f[k]]
  <2>3. v \in V
    <3>1. <<m + 1, f[m]>> \in (1 .. n) \X V BY <1>2, <2>2
    <3> QED BY <3>1
  <2>4. g \in [0 .. m + 1 -> V]
    <3> HIDE DEF v
    <3> QED BY <2>2, <2>3
  <2>5. g[0] = e BY <2>2
  <2>6. \A k \in 1 .. m + 1 : g[k] = op[<<k, g[k - 1]>>]
    <3>1. g[m + 1] = v /\ g[m] = f[m] BY <1>2
    <3>2. \A k \in 1 .. m : g[k] = f[k] /\ g[k - 1] = f[k - 1] OBVIOUS
    <3> HIDE DEF g
    <3>3. ASSUME NEW k \in 1 .. m PROVE g[k] = op[<<k, g[k - 1]>>]
      <4>1. f[k] = op[<<k, f[k - 1]>>] BY <2>2
      <4>2. g[k] = f[k] /\ g[k - 1] = f[k - 1] BY <3>2
      <4> QED BY <4>1, <4>2
    <3>4. g[m + 1] = op[<<m + 1, g[m + 1 - 1]>>]
      <4>1. m + 1 - 1 = m OBVIOUS
      <4> QED BY <3>1, <4>1
    <3>5. \A k \in 1 .. m + 1 : k \in 1 .. m \/ k = m + 1 OBVIOUS
    <3> QED BY <3>3, <3>4, <3>5
  <2> HIDE DEF g
  <2> QED BY <2>4, <2>5, <2>6, Zenon
<1>3. \A m \in Nat : m \in S => m + 1 \in S BY <1>2
<1> HIDE DEF S
<1>4. n \in S BY <1>1, <1>3, Induct
<1> USE DEF S
<1> HIDE DEF OK
<1>5. OK(n) BY <1>4
<1> QED BY <1>5 DEF OK, Follows

(* Whatever else starts and goes on like it computes the same.             *)
LEMMA SameLoop ==
  ASSUME NEW n \in Nat, NEW V, NEW e, NEW op, NEW f, Follows(f, n, V, e, op),
         NEW h, h[0] = e, \A k \in 1 .. n : h[k - 1] \in V => h[k] = op[<<k, h[k - 1]>>]
  PROVE  \A k \in 0 .. n : h[k] = f[k]
<1> DEFINE S == {k \in Nat : k <= n => h[k] = f[k]}
<1>1. 0 \in S BY DEF Follows
<1>2. \A k \in Nat : k \in S => k + 1 \in S
  <2> SUFFICES ASSUME NEW k \in Nat, k \in S, k + 1 <= n PROVE h[k + 1] = f[k + 1] OBVIOUS
  <2>1. k + 1 \in 1 .. n /\ k + 1 - 1 = k /\ k \in 0 .. n OBVIOUS
  <2>2. h[k] = f[k] OBVIOUS
  <2>3. h[k] \in V BY <2>1, <2>2 DEF Follows
  <2>4. f[k + 1] = op[<<k + 1, f[k]>>] BY <2>1 DEF Follows
  <2>5. h[k + 1] = op[<<k + 1, h[k]>>]
    <3>1. h[k + 1 - 1] \in V => h[k + 1] = op[<<k + 1, h[k + 1 - 1]>>] BY <2>1
    <3> QED BY <2>1, <2>3, <3>1
  <2> QED BY <2>2, <2>4, <2>5
<1> HIDE DEF S
<1>3. Nat \subseteq S BY <1>1, <1>2, Induct
<1> QED BY <1>3 DEF S

-----------------------------------------------------------------------------
(* Parts put one after the other: the code cuts lists into chunks, shards, *)
(* bins and microbatches, and joins what comes of them.                    *)

(* A list of members of a set is one of members of a larger set.           *)
LEMMA ListWithin ==
  ASSUME NEW V, NEW U, V \subseteq U, NEW w \in Seq(V)
  PROVE  w \in Seq(U) /\ Len(w) \in Nat /\ DOMAIN w = 1 .. Len(w) /\ \A k \in 1 .. Len(w) : w[k] \in U
<1>1. Len(w) \in Nat /\ DOMAIN w = 1 .. Len(w) /\ \A k \in 1 .. Len(w) : w[k] \in V OBVIOUS
<1>2. w \in [1 .. Len(w) -> U] BY <1>1
<1>3. \A n \in Nat : \A f \in [1 .. n -> U] : f \in Seq(U) OBVIOUS
<1> QED BY <1>1, <1>2, <1>3

(* Lists of parts, and where each part ends in the whole.                  *)
Parts(V) == Seq(Seq(V))
Parted(ss, e) ==
  e \in [0 .. Len(ss) -> Nat] /\ e[0] = 0 /\ \A i \in 1 .. Len(ss) : e[i] = e[i - 1] + Len(ss[i])

(* A part is a list of its own.                                            *)
LEMMA PartsAre ==
  ASSUME NEW V, NEW ss \in Parts(V)
  PROVE  /\ Len(ss) \in Nat /\ DOMAIN ss = 1 .. Len(ss)
         /\ \A i \in 1 .. Len(ss) : ss[i] \in Seq(V) /\ Len(ss[i]) \in Nat /\ DOMAIN ss[i] = 1 .. Len(ss[i])
<1>1. ss \in Seq(Seq(V)) BY DEF Parts
<1>2. Len(ss) \in Nat /\ DOMAIN ss = 1 .. Len(ss) BY <1>1
<1>3. ASSUME NEW i \in 1 .. Len(ss) PROVE ss[i] \in Seq(V) BY <1>1, ElementOfSeq
<1>4. \A s \in Seq(V) : Len(s) \in Nat /\ DOMAIN s = 1 .. Len(s) OBVIOUS
<1> QED BY <1>2, <1>3, <1>4

(* Its end comes its length after the end of the part before it.           *)
LEMMA EndsAre ==
  ASSUME NEW ss, NEW e, Parted(ss, e), Len(ss) \in Nat
  PROVE  /\ e[0] = 0 /\ \A i \in 0 .. Len(ss) : e[i] \in Nat
         /\ \A i \in 1 .. Len(ss) : e[i - 1] \in Nat /\ e[i] = e[i - 1] + Len(ss[i])
<1>1. \A i \in 1 .. Len(ss) : i - 1 \in 0 .. Len(ss) OBVIOUS
<1> QED BY <1>1, Zenon DEF Parted

(* The ends exist: they are the running sums of the lengths.               *)
LEMMA EndsExist ==
  ASSUME NEW V, NEW ss \in Parts(V) PROVE \E e : Parted(ss, e)
<1> DEFINE op == [x \in (1 .. Len(ss)) \X Nat |-> x[2] + Len(ss[x[1]])]
<1>1. Len(ss) \in Nat /\ \A i \in 1 .. Len(ss) : Len(ss[i]) \in Nat BY PartsAre
<1>2. op \in Steps(Len(ss), Nat) BY <1>1 DEF Steps
<1>3. \A i \in 1 .. Len(ss), n \in Nat : op[<<i, n>>] = n + Len(ss[i]) OBVIOUS
<1> HIDE DEF op
<1>4. PICK e : Follows(e, Len(ss), Nat, 0, op)
  <2>1. 0 \in Nat OBVIOUS
  <2> QED BY <1>1, <1>2, <2>1, RecursionExists, Zenon
<1>5. ASSUME NEW i \in 1 .. Len(ss) PROVE e[i] = e[i - 1] + Len(ss[i])
  <2>1. i - 1 \in 0 .. Len(ss) BY <1>1
  <2>2. e[i] = op[<<i, e[i - 1]>>] BY <1>4 DEF Follows
  <2>3. e[i - 1] \in Nat BY <1>4, <2>1 DEF Follows
  <2> QED BY <1>3, <2>2, <2>3
<1> QED BY <1>4, <1>5 DEF Parted, Follows

(* They grow from part to part.                                            *)
LEMMA EndsGrow ==
  ASSUME NEW V, NEW ss \in Parts(V), NEW e, Parted(ss, e)
  PROVE  \A j \in 0 .. Len(ss) : \A i \in 0 .. j : e[i] <= e[j]
<1>0. Len(ss) \in Nat /\ \A i \in 1 .. Len(ss) : Len(ss[i]) \in Nat BY PartsAre
<1>e. /\ \A i \in 0 .. Len(ss) : e[i] \in Nat
      /\ \A i \in 1 .. Len(ss) : e[i] = e[i - 1] + Len(ss[i])
  BY <1>0, EndsAre
<1> DEFINE S == {j \in Nat : j <= Len(ss) => \A i \in 0 .. j : e[i] <= e[j]}
<1>1. 0 \in S BY <1>0, <1>e
<1>2. ASSUME NEW j \in Nat, j \in S, j + 1 <= Len(ss), NEW i \in 0 .. j + 1 PROVE e[i] <= e[j + 1]
  <2>1. j + 1 \in 1 .. Len(ss) /\ j \in 0 .. Len(ss) /\ i \in 0 .. Len(ss) /\ j + 1 - 1 = j BY <1>0, <1>2
  <2>2. e[j + 1] = e[j] + Len(ss[j + 1]) /\ e[j] \in Nat /\ e[i] \in Nat /\ Len(ss[j + 1]) \in Nat
    BY <1>0, <1>e, <2>1
  <2>3. CASE i = j + 1 BY <2>2, <2>3
  <2>4. CASE i \in 0 .. j
    <3>1. e[i] <= e[j] BY <1>0, <1>2, <2>1, <2>4
    <3> QED BY <3>1, <2>2
  <2> QED BY <2>3, <2>4
<1>3. \A j \in Nat : j \in S => j + 1 \in S BY <1>2
<1> HIDE DEF S
<1>4. Nat \subseteq S BY <1>1, <1>3, Induct
<1> QED BY <1>0, <1>4 DEF S

(* Every place of the whole is a place of a part.                          *)
LEMMA PartOfPlace ==
  ASSUME NEW V, NEW ss \in Parts(V), NEW e, Parted(ss, e), NEW p \in 1 .. e[Len(ss)]
  PROVE  \E i \in 1 .. Len(ss) : \E k \in 1 .. Len(ss[i]) : p = e[i - 1] + k
<1>0. Len(ss) \in Nat /\ \A i \in 1 .. Len(ss) : Len(ss[i]) \in Nat BY PartsAre
<1>e. /\ e[0] = 0 /\ \A i \in 0 .. Len(ss) : e[i] \in Nat
      /\ \A i \in 1 .. Len(ss) : e[i] = e[i - 1] + Len(ss[i])
  BY <1>0, EndsAre
<1>p. p \in Nat /\ p > 0 /\ p <= e[Len(ss)] BY <1>0, <1>e
<1> DEFINE Found(n) == \E i \in 1 .. n : \E k \in 1 .. Len(ss[i]) : p = e[i - 1] + k
           S == {n \in Nat : n <= Len(ss) /\ p <= e[n] => Found(n)}
<1>1. 0 \in S
  <2>1. ~(p <= e[0]) BY <1>e, <1>p
  <2> QED BY <2>1
<1>2. ASSUME NEW n \in Nat, n \in S, n + 1 <= Len(ss), p <= e[n + 1] PROVE Found(n + 1)
  <2>1. n + 1 \in 1 .. Len(ss) /\ n \in 0 .. Len(ss) /\ n + 1 - 1 = n /\ n <= Len(ss) BY <1>0, <1>2
  <2>2. e[n + 1] = e[n] + Len(ss[n + 1]) /\ e[n] \in Nat /\ Len(ss[n + 1]) \in Nat BY <1>0, <1>e, <2>1
  <2>3. CASE p <= e[n]
    <3>1. Found(n) BY <1>2, <2>1, <2>3
    <3>2. \A i \in 1 .. n : i \in 1 .. n + 1 OBVIOUS
    <3> QED BY <3>1, <3>2
  <2>4. CASE p > e[n]
    <3>1. p - e[n] \in 1 .. Len(ss[n + 1]) BY <1>2, <1>p, <2>2, <2>4
    <3>2. p = e[(n + 1) - 1] + (p - e[n]) BY <1>p, <2>1, <2>2
    <3>3. n + 1 \in 1 .. n + 1 OBVIOUS
    <3> QED BY <3>1, <3>2, <3>3
  <2> QED BY <1>p, <2>2, <2>3, <2>4
<1> HIDE DEF Found
<1>3. \A n \in Nat : n \in S => n + 1 \in S BY <1>2
<1> HIDE DEF S
<1>4. Nat \subseteq S BY <1>1, <1>3, Induct
<1>5. Found(Len(ss)) BY <1>0, <1>p, <1>4 DEF S
<1> QED BY <1>5 DEF Found

(* Joining, as the library defines it, is a loop over the parts.           *)
LEMMA JoinLoop ==
  ASSUME NEW V, NEW ss \in Parts(V), Len(ss) > 0
  PROVE  \E f : /\ FlattenSeq(ss) = f[Len(ss)]
                /\ \A i \in 1 .. Len(ss) : f[i] = IF i = 1 THEN ss[i] ELSE f[i - 1] \o ss[i]
<1> DEFINE op == [x \in (1 .. Len(ss)) \X Seq(V) |-> IF x[1] = 1 THEN ss[1] ELSE x[2] \o ss[x[1]]]
           Loop(f) == f = [i \in 1 .. Len(ss) |-> IF i = 1 THEN ss[i] ELSE f[i - 1] \o ss[i]]
<1>0. Len(ss) \in Nat /\ \A i \in 1 .. Len(ss) : ss[i] \in Seq(V) BY PartsAre
<1>1. op \in Steps(Len(ss), Seq(V)) BY <1>0 DEF Steps
<1>2. \A i \in 1 .. Len(ss), s \in Seq(V) : op[<<i, s>>] = IF i = 1 THEN ss[1] ELSE s \o ss[i] OBVIOUS
<1> HIDE DEF op
<1>3. <<>> \in Seq(V) OBVIOUS
<1>4. PICK g : Follows(g, Len(ss), Seq(V), <<>>, op) BY <1>0, <1>1, <1>3, RecursionExists, Zenon
<1> DEFINE h == [i \in 1 .. Len(ss) |-> g[i]]
<1>5. ASSUME NEW i \in 1 .. Len(ss) PROVE g[i] = IF i = 1 THEN ss[i] ELSE g[i - 1] \o ss[i]
  <2>1. i - 1 \in 0 .. Len(ss) BY <1>0
  <2>2. g[i] = op[<<i, g[i - 1]>>] BY <1>4 DEF Follows
  <2>3. g[i - 1] \in Seq(V) BY <1>4, <2>1, Zenon DEF Follows
  <2> QED BY <1>2, <2>2, <2>3
<1>6. Loop(h)
  <2>1. \A i \in 1 .. Len(ss) : i # 1 => i - 1 \in 1 .. Len(ss) BY <1>0
  <2>2. \A i \in 1 .. Len(ss) : h[i] = g[i] OBVIOUS
  <2>3. \A i \in 1 .. Len(ss) : g[i] = IF i = 1 THEN ss[i] ELSE h[i - 1] \o ss[i] BY <1>5, <2>1, <2>2
  <2> QED BY <2>3, Zenon
<1>7. \E f : Loop(f) BY <1>6, Zenon
<1> DEFINE c == CHOOSE f : Loop(f)
<1>8. Loop(c) BY <1>7, Zenon
<1>9. FlattenSeq(ss) = c[Len(ss)]
  <2>1. Len(ss) # 0 BY <1>0
  <2> QED BY <2>1 DEF FlattenSeq
<1> HIDE DEF c
<1>10. \A i \in 1 .. Len(ss) : c[i] = IF i = 1 THEN ss[i] ELSE c[i - 1] \o ss[i] BY <1>8, Zenon
<1> QED BY <1>9, <1>10

(* What is at a place of the whole is what the part has there.             *)
Lies(ss, e, V, n, w) ==
  /\ w \in Seq(V) /\ Len(w) = e[n]
  /\ \A i \in 1 .. n : \A k \in 1 .. Len(ss[i]) : e[i - 1] + k \in 1 .. e[n] /\ w[e[i - 1] + k] = ss[i][k]

(* A part more, and its entries are where the whole goes on.               *)
LEMMA OneMorePart ==
  ASSUME NEW V, NEW ss, NEW e, NEW n \in Nat, NEW w, NEW t \in Seq(V),
         e[n] \in Nat, e[n + 1] = e[n] + Len(t), ss[n + 1] = t,
         \A i \in 1 .. n : e[i - 1] \in Nat, Lies(ss, e, V, n, w)
  PROVE  Lies(ss, e, V, n + 1, w \o t)
<1>1. w \in Seq(V) /\ Len(w) = e[n] /\ Len(t) \in Nat BY DEF Lies
<1>2. w \o t \in Seq(V) /\ Len(w \o t) = e[n + 1] BY <1>1
<1>3. ASSUME NEW i \in 1 .. n, NEW k \in 1 .. Len(ss[i])
      PROVE  e[i - 1] + k \in 1 .. e[n + 1] /\ (w \o t)[e[i - 1] + k] = ss[i][k]
  <2>1. e[i - 1] + k \in 1 .. e[n] /\ w[e[i - 1] + k] = ss[i][k] BY Zenon DEF Lies
  <2>2. (w \o t)[e[i - 1] + k] = w[e[i - 1] + k] BY <1>1, <2>1
  <2> QED BY <1>1, <2>1, <2>2
<1>4. ASSUME NEW k \in 1 .. Len(ss[n + 1])
      PROVE  e[(n + 1) - 1] + k \in 1 .. e[n + 1] /\ (w \o t)[e[(n + 1) - 1] + k] = ss[n + 1][k]
  <2>1. e[(n + 1) - 1] = e[n] /\ k \in 1 .. Len(t) OBVIOUS
  <2>2. (w \o t)[e[n] + k] = t[k] BY <1>1, <2>1
  <2> QED BY <1>1, <2>1, <2>2
<1>5. \A i \in 1 .. n + 1 : i \in 1 .. n \/ i = n + 1 OBVIOUS
<1> DEFINE Here(i) == \A k \in 1 .. Len(ss[i]) :
             e[i - 1] + k \in 1 .. e[n + 1] /\ (w \o t)[e[i - 1] + k] = ss[i][k]
<1>6. Here(n + 1) BY <1>4, Zenon
<1>7. \A i \in 1 .. n : Here(i) BY <1>3, Zenon
<1> HIDE DEF Here
<1>8. \A i \in 1 .. n + 1 : Here(i) BY <1>5, <1>6, <1>7
<1> QED BY <1>2, <1>8, Zenon DEF Lies, Here

(* Joined, the parts lie one after the other in the whole, each entry at   *)
(* the end of the parts before it and its own place.                       *)
LEMMA PartsJoined ==
  ASSUME NEW V, NEW ss \in Parts(V), NEW e, Parted(ss, e)
  PROVE  Lies(ss, e, V, Len(ss), FlattenSeq(ss))
<1>0. Len(ss) \in Nat /\ \A i \in 1 .. Len(ss) : ss[i] \in Seq(V) /\ Len(ss[i]) \in Nat BY PartsAre
<1>e. /\ e[0] = 0 /\ \A i \in 0 .. Len(ss) : e[i] \in Nat
      /\ \A i \in 1 .. Len(ss) : e[i - 1] \in Nat /\ e[i] = e[i - 1] + Len(ss[i])
  BY <1>0, EndsAre
<1>1. CASE Len(ss) = 0
  <2>1. ss = <<>> BY <1>1 DEF Parts
  <2>2. FlattenSeq(ss) = <<>> BY <1>1, <2>1 DEF FlattenSeq
  <2>3. \A i \in 1 .. 0 : FALSE OBVIOUS
  <2> QED BY <1>1, <1>e, <2>2, <2>3 DEF Lies
<1>2. CASE Len(ss) > 0
  <2>1. PICK f : /\ FlattenSeq(ss) = f[Len(ss)]
                 /\ \A i \in 1 .. Len(ss) : f[i] = IF i = 1 THEN ss[i] ELSE f[i - 1] \o ss[i]
    BY <1>2, JoinLoop
  <2> DEFINE S == {n \in Nat : 0 < n /\ n <= Len(ss) => Lies(ss, e, V, n, f[n])}
  <2>2. 0 \in S OBVIOUS
  <2>3. ASSUME NEW n \in Nat, n \in S, n + 1 <= Len(ss) PROVE Lies(ss, e, V, n + 1, f[n + 1])
    <3>1. n + 1 \in 1 .. Len(ss) /\ n + 1 - 1 = n /\ n \in 0 .. Len(ss) BY <1>0, <2>3
    <3>2. ss[n + 1] \in Seq(V) /\ e[n + 1] = e[n] + Len(ss[n + 1]) /\ e[n] \in Nat BY <1>0, <1>e, <3>1
    <3>3. \A i \in 1 .. n : e[i - 1] \in Nat BY <1>0, <1>e, <3>1
    <3>4. CASE n = 0
      <4>1. Lies(ss, e, V, 0, <<>>)
        <5>1. \A i \in 1 .. 0 : FALSE OBVIOUS
        <5> QED BY <1>e, <5>1 DEF Lies
      <4>2. Lies(ss, e, V, n + 1, <<>> \o ss[n + 1]) BY <3>2, <3>3, <3>4, <4>1, OneMorePart, Zenon
      <4>3. <<>> \o ss[n + 1] = ss[n + 1] BY <3>2
      <4>4. f[n + 1] = ss[n + 1] BY <2>1, <3>1, <3>4
      <4> QED BY <4>2, <4>3, <4>4
    <3>5. CASE n > 0
      <4>0. f[n + 1] = IF n + 1 = 1 THEN ss[n + 1] ELSE f[n + 1 - 1] \o ss[n + 1] BY <2>1, <3>1
      <4>1. f[n + 1] = f[n] \o ss[n + 1]
        <5>1. n + 1 # 1 BY <3>5
        <5> QED BY <3>1, <4>0, <5>1, Zenon
      <4>2. Lies(ss, e, V, n, f[n]) BY <1>0, <2>3, <3>1, <3>5
      <4>3. Lies(ss, e, V, n + 1, f[n] \o ss[n + 1]) BY <3>2, <3>3, <4>2, OneMorePart, Zenon
      <4> QED BY <4>1, <4>3
    <3> QED BY <3>4, <3>5
  <2>4. \A n \in Nat : n \in S => n + 1 \in S BY <2>3
  <2> HIDE DEF S
  <2>5. Nat \subseteq S BY <2>2, <2>4, Induct
  <2>6. Lies(ss, e, V, Len(ss), f[Len(ss)]) BY <1>0, <1>2, <2>5 DEF S
  <2> QED BY <2>1, <2>6
<1> QED BY <1>0, <1>1, <1>2

(* Cut where it was joined, the whole gives back its parts.                *)
LEMMA PartsCut ==
  ASSUME NEW V, NEW ss \in Parts(V), NEW e, Parted(ss, e), NEW i \in 1 .. Len(ss)
  PROVE  SubSeq(FlattenSeq(ss), e[i - 1] + 1, e[i]) = ss[i]
<1> DEFINE w == FlattenSeq(ss)
           t == ss[i]
           a == e[i - 1]
<1>1. Len(ss) \in Nat /\ t \in Seq(V) /\ Len(t) \in Nat BY PartsAre
<1>2. e[i] = a + Len(t) /\ a \in Nat /\ e[i] \in Nat /\ e[Len(ss)] \in Nat BY <1>1, EndsAre
<1>3. e[i] <= e[Len(ss)]
  <2>1. Len(ss) \in 0 .. Len(ss) /\ i \in 0 .. Len(ss) BY <1>1
  <2> QED BY <2>1, EndsGrow
<1>4. w \in Seq(V) /\ Len(w) = e[Len(ss)] BY PartsJoined DEF Lies
<1>5. \A k \in 1 .. Len(t) : w[a + k] = t[k] BY PartsJoined DEF Lies
<1> HIDE DEF w, t, a
<1>6. SubSeq(w, a + 1, e[i]) \in Seq(V) /\ Len(SubSeq(w, a + 1, e[i])) = Len(t)
  BY <1>1, <1>2, <1>3, <1>4
<1>7. \A k \in 1 .. Len(t) : SubSeq(w, a + 1, e[i])[k] = w[a + k] BY <1>1, <1>2, <1>3, <1>4
<1>8. SubSeq(w, a + 1, e[i]) = t BY <1>1, <1>5, <1>6, <1>7, SeqEqual, Zenon
<1> QED BY <1>8 DEF w, t, a

(* Parts of one length end at its multiples.                               *)
LEMMA EvenParts ==
  ASSUME NEW V, NEW ss \in Parts(V), NEW m \in Nat, \A i \in 1 .. Len(ss) : Len(ss[i]) = m
  PROVE  Parted(ss, [i \in 0 .. Len(ss) |-> i * m])
<1>0. Len(ss) \in Nat BY PartsAre
<1>1. \A i \in 0 .. Len(ss) : i * m \in Nat BY <1>0
<1>2. \A i \in 1 .. Len(ss) : i * m = (i - 1) * m + m BY <1>0
<1>3. 0 * m = 0 OBVIOUS
<1>4. \A i \in 1 .. Len(ss) : i - 1 \in 0 .. Len(ss) /\ i \in 0 .. Len(ss) BY <1>0
<1> QED BY <1>0, <1>1, <1>2, <1>3, <1>4 DEF Parted

(* Parts of which each member of a set is in one place make a whole in     *)
(* which it is in one place.                                               *)
DealtOnce(ss, R) ==
  /\ ss \in Parts(R)
  /\ \A r \in R : \E i \in 1 .. Len(ss) : \E k \in 1 .. Len(ss[i]) : ss[i][k] = r
  /\ \A i, j \in 1 .. Len(ss) : \A k \in 1 .. Len(ss[i]) : \A l \in 1 .. Len(ss[j]) :
       ss[i][k] = ss[j][l] => i = j /\ k = l

(* Joined, what was dealt once is in the whole once: no row is lost and    *)
(* none twice, whoever had it.                                             *)
LEMMA JoinedOnce ==
  ASSUME NEW R, NEW ss, DealtOnce(ss, R)
  PROVE  FlattenSeq(ss) \in Seq(R) /\ IsInjective(FlattenSeq(ss)) /\ Range(FlattenSeq(ss)) = R
<1>0. ss \in Parts(R) BY DEF DealtOnce
<1>1. PICK e : Parted(ss, e) BY <1>0, EndsExist
<1> DEFINE w == FlattenSeq(ss)
<1>2. w \in Seq(R) /\ Len(w) = e[Len(ss)] BY <1>0, <1>1, PartsJoined DEF Lies
<1>3. \A i \in 1 .. Len(ss) : \A k \in 1 .. Len(ss[i]) : e[i - 1] + k \in 1 .. Len(w) /\ w[e[i - 1] + k] = ss[i][k]
  BY <1>0, <1>1, <1>2, PartsJoined DEF Lies
<1>4. ASSUME NEW p \in 1 .. Len(w) PROVE \E i \in 1 .. Len(ss) : \E k \in 1 .. Len(ss[i]) : p = e[i - 1] + k
  <2>1. p \in 1 .. e[Len(ss)] BY <1>2
  <2> QED BY <1>0, <1>1, <2>1, PartOfPlace
<1> HIDE DEF w
<1>d. DOMAIN w = 1 .. Len(w) BY <1>2
<1>5. ASSUME NEW p \in 1 .. Len(w), NEW q \in 1 .. Len(w), w[p] = w[q] PROVE p = q
  <2>1. PICK i \in 1 .. Len(ss) : \E k \in 1 .. Len(ss[i]) : p = e[i - 1] + k BY <1>4, Zenon
  <2>2. PICK k \in 1 .. Len(ss[i]) : p = e[i - 1] + k BY <2>1
  <2>3. PICK j \in 1 .. Len(ss) : \E l \in 1 .. Len(ss[j]) : q = e[j - 1] + l BY <1>4, Zenon
  <2>4. PICK l \in 1 .. Len(ss[j]) : q = e[j - 1] + l BY <2>3
  <2>5. w[p] = ss[i][k] /\ w[q] = ss[j][l] BY <1>3, <2>2, <2>4, Zenon
  <2>6. ss[i][k] = ss[j][l] BY <1>5, <2>5, Zenon
  <2>7. \A i0, j0 \in 1 .. Len(ss) : \A k0 \in 1 .. Len(ss[i0]) : \A l0 \in 1 .. Len(ss[j0]) :
          ss[i0][k0] = ss[j0][l0] => i0 = j0 /\ k0 = l0
    BY Zenon DEF DealtOnce
  <2>8. i = j /\ k = l BY <2>2, <2>4, <2>6, <2>7
  <2> QED BY <2>2, <2>4, <2>8
<1>6. ASSUME NEW r \in R PROVE r \in Range(w)
  <2>1. PICK i \in 1 .. Len(ss) : \E k \in 1 .. Len(ss[i]) : ss[i][k] = r BY Zenon DEF DealtOnce
  <2>2. PICK k \in 1 .. Len(ss[i]) : ss[i][k] = r BY <2>1
  <2>3. e[i - 1] + k \in DOMAIN w /\ w[e[i - 1] + k] = r BY <1>3, <1>d, <2>2
  <2> QED BY <2>3 DEF Range
<1>7. Range(w) \subseteq R
  <2>1. \A p \in 1 .. Len(w) : w[p] \in R BY <1>2
  <2> QED BY <1>d, <2>1 DEF Range
<1>8. IsInjective(w) BY <1>5, <1>d DEF IsInjective
<1> QED BY <1>2, <1>6, <1>7, <1>8, Zenon DEF w

-----------------------------------------------------------------------------
(* Sorting: where a member comes is how many members come before it.       *)

Strict(S, R) ==
  /\ \A x \in S : <<x, x>> \notin R
  /\ \A x, y \in S : x = y \/ <<x, y>> \in R \/ <<y, x>> \in R
  /\ \A x, y, z \in S : <<x, y>> \in R /\ <<y, z>> \in R => <<x, z>> \in R
Below(S, R, x) == {y \in S : <<y, x>> \in R}

(* A member that comes later has more members before it.                   *)
LEMMA LaterRank ==
  ASSUME NEW S, IsFiniteSet(S), NEW R, Strict(S, R), NEW x \in S, NEW z \in S, <<x, z>> \in R
  PROVE  Cardinality(Below(S, R, x)) < Cardinality(Below(S, R, z))
<1> DEFINE A == Below(S, R, x)
           B == Below(S, R, z)
<1>1. A \in SUBSET B BY DEF Below, Strict
<1>2. B \in SUBSET S BY DEF Below
<1>3. x \in B /\ x \notin A BY DEF Below, Strict
<1> HIDE DEF A, B
<1>4. IsFiniteSet(B) BY <1>2, FS_Subset
<1>5. IsFiniteSet(A) /\ Cardinality(A) <= Cardinality(B) /\ (Cardinality(B) = Cardinality(A) => B = A)
  BY <1>1, <1>4, FS_Subset
<1>6. Cardinality(A) \in Nat /\ Cardinality(B) \in Nat BY <1>4, <1>5, FS_CardinalityType
<1> QED BY <1>3, <1>5, <1>6 DEF A, B

(* No two members have as many, and for every number below the size of the *)
(* set there is one that has as many.                                      *)
LEMMA EveryRank ==
  ASSUME NEW S, IsFiniteSet(S), NEW R, Strict(S, R)
  PROVE  /\ \A x, z \in S : Cardinality(Below(S, R, x)) = Cardinality(Below(S, R, z)) => x = z
         /\ \A x \in S : Cardinality(Below(S, R, x)) \in 0 .. Cardinality(S) - 1
         /\ \A k \in 0 .. Cardinality(S) - 1 : \E x \in S : Cardinality(Below(S, R, x)) = k
<1> DEFINE n == Cardinality(S)
           f == [x \in S |-> Cardinality(Below(S, R, x))]
<1>0. n \in Nat BY FS_CardinalityType
<1>1. ASSUME NEW x \in S PROVE f[x] \in 0 .. n - 1
  <2>1. Below(S, R, x) \in SUBSET S /\ x \notin Below(S, R, x) BY DEF Below, Strict
  <2>2. /\ IsFiniteSet(Below(S, R, x)) /\ Cardinality(Below(S, R, x)) <= n
        /\ (n = Cardinality(Below(S, R, x)) => S = Below(S, R, x))
    BY <2>1, FS_Subset
  <2>3. Cardinality(Below(S, R, x)) \in Nat BY <2>2, FS_CardinalityType
  <2> QED BY <1>0, <2>1, <2>2, <2>3
<1>2. ASSUME NEW x \in S, NEW z \in S, f[x] = f[z] PROVE x = z
  <2>1. f[x] \in 0 .. n - 1 /\ f[z] \in 0 .. n - 1 BY <1>1
  <2>2. CASE <<x, z>> \in R
    <3>1. f[x] < f[z] BY <2>2, LaterRank
    <3> QED BY <1>0, <1>2, <2>1, <3>1
  <2>3. CASE <<z, x>> \in R
    <3>1. f[z] < f[x] BY <2>3, LaterRank
    <3> QED BY <1>0, <1>2, <2>1, <3>1
  <2> QED BY <2>2, <2>3 DEF Strict
<1>3. f \in Injection(S, 0 .. n - 1)
  <2>1. f \in [S -> 0 .. n - 1] BY <1>1
  <2>2. DOMAIN f = S OBVIOUS
  <2> HIDE DEF f
  <2>3. IsInjective(f) BY <1>2, <2>2 DEF IsInjective
  <2> QED BY <2>1, <2>3 DEF Injection
<1>4. IsFiniteSet(0 .. n - 1) /\ Cardinality(0 .. n - 1) = n
  <2>1. 0 \in Int /\ n - 1 \in Int BY <1>0
  <2>2. IsFiniteSet(0 .. n - 1) /\ Cardinality(0 .. n - 1) = IF 0 > n - 1 THEN 0 ELSE n - 1 - 0 + 1
    BY <2>1, FS_Interval
  <2> QED BY <1>0, <2>2
<1>5. f \in Surjection(S, 0 .. n - 1)
  <2> HIDE DEF f, n
  <2>1. Cardinality(S) = Cardinality(0 .. n - 1) <=> f \in Surjection(S, 0 .. n - 1) BY <1>3, <1>4, FS_Injection
  <2>2. Cardinality(S) = Cardinality(0 .. n - 1) BY <1>4 DEF n
  <2> QED BY <2>1, <2>2
<1>6. ASSUME NEW k \in 0 .. n - 1 PROVE \E x \in S : f[x] = k
  <2> HIDE DEF f
  <2> QED BY <1>5 DEF Surjection
<1>7. \A x \in S : f[x] = Cardinality(Below(S, R, x)) OBVIOUS
<1> HIDE DEF f
<1>8. \A x, z \in S : Cardinality(Below(S, R, x)) = Cardinality(Below(S, R, z)) => x = z BY <1>2, <1>7
<1>9. \A x \in S : Cardinality(Below(S, R, x)) \in 0 .. n - 1 BY <1>1, <1>7
<1>10. \A k \in 0 .. n - 1 : \E x \in S : Cardinality(Below(S, R, x)) = k BY <1>6, <1>7
<1> QED BY <1>8, <1>9, <1>10

(* Numbers at even distances, workers among them, in their order.          *)
EvenlyFrom(a, d, n) == {a + j * d : j \in 0 .. n - 1}

(* There are as many of them as were counted.                              *)
LEMMA EvenlyMany ==
  ASSUME NEW a \in Nat, NEW d \in Nat \ {0}, NEW n \in Nat
  PROVE  IsFiniteSet(EvenlyFrom(a, d, n)) /\ Cardinality(EvenlyFrom(a, d, n)) = n
<1> DEFINE f == [j \in 0 .. n - 1 |-> a + j * d]
           T == EvenlyFrom(a, d, n)
<1>1. f \in [0 .. n - 1 -> T] BY DEF EvenlyFrom
<1>2. ASSUME NEW i \in 0 .. n - 1, NEW j \in 0 .. n - 1, f[i] = f[j] PROVE i = j
  <2>1. i * d = j * d /\ i * d \in Nat /\ j * d \in Nat BY <1>2
  <2>2. ASSUME NEW p \in Nat, NEW q \in Nat, p < q PROVE p * d < q * d
    <3>1. p + 1 <= q BY <2>2
    <3>2. (p + 1) * d <= q * d
      <4>1. PICK r \in Nat : q = (p + 1) + r
        <5>1. q - (p + 1) \in Nat /\ q = (p + 1) + (q - (p + 1)) BY <3>1
        <5> QED BY <5>1
      <4>2. q * d = (p + 1) * d + r * d BY <4>1
      <4>3. r * d \in Nat /\ (p + 1) * d \in Nat BY <4>1
      <4> QED BY <4>2, <4>3
    <3>3. (p + 1) * d = p * d + d /\ p * d \in Nat OBVIOUS
    <3>4. q * d \in Nat OBVIOUS
    <3> QED BY <3>2, <3>3, <3>4
  <2>3. ~(i < j) BY <2>1, <2>2
  <2>4. ~(j < i) BY <2>1, <2>2
  <2> QED BY <2>3, <2>4
<1>3. \A t \in T : \E j \in 0 .. n - 1 : f[j] = t BY Zenon DEF EvenlyFrom
<1>4. f \in Bijection(0 .. n - 1, T)
  <2>1. DOMAIN f = 0 .. n - 1 OBVIOUS
  <2> HIDE DEF f
  <2> QED BY <1>1, <1>2, <1>3, <2>1 DEF Bijection, Injection, Surjection, IsInjective
<1>5. IsFiniteSet(0 .. n - 1) /\ Cardinality(0 .. n - 1) = n
  <2>1. IsFiniteSet(0 .. n - 1) /\ Cardinality(0 .. n - 1) = IF 0 > n - 1 THEN 0 ELSE n - 1 - 0 + 1
    BY FS_Interval
  <2> QED BY <2>1
<1> HIDE DEF f, T
<1>6. ExistsBijection(0 .. n - 1, T) BY <1>4 DEF ExistsBijection
<1>7. IsFiniteSet(T) /\ Cardinality(T) = n BY <1>5, <1>6, FS_Bijection
<1> QED BY <1>7 DEF T

(* And sorted they are counted through.                                    *)
LEMMA EvenlyInOrder ==
  ASSUME NEW a \in Nat, NEW d \in Nat \ {0}, NEW n \in Nat
  PROVE  InOrder(EvenlyFrom(a, d, n)) = [i \in 1 .. n |-> a + (i - 1) * d]
<1> DEFINE T == EvenlyFrom(a, d, n)
           before(x) == {y \in T : y < x}
<1>1. ASSUME NEW j \in 0 .. n - 1 PROVE Cardinality(before(a + j * d)) = j
  <2>1. before(a + j * d) = EvenlyFrom(a, d, j)
    <3>1. ASSUME NEW i \in 0 .. n - 1 PROVE a + i * d < a + j * d <=> i < j
      <4>1. i * d \in Nat /\ j * d \in Nat OBVIOUS
      <4>2. ASSUME NEW p \in Nat, NEW q \in Nat, p <= q PROVE p * d <= q * d
        <5>1. q - p \in Nat /\ q * d = p * d + (q - p) * d BY <4>2
        <5>2. (q - p) * d \in Nat /\ p * d \in Nat /\ q * d \in Nat BY <5>1
        <5> QED BY <5>1, <5>2
      <4>3. CASE i < j
        <5>1. (i + 1) * d <= j * d BY <4>2, <4>3
        <5>2. (i + 1) * d = i * d + d OBVIOUS
        <5> QED BY <4>1, <4>3, <5>1, <5>2
      <4>4. CASE j <= i
        <5>1. j * d <= i * d BY <4>2, <4>4
        <5> QED BY <4>1, <4>4, <5>1
      <4> QED BY <4>3, <4>4
    <3>2. ASSUME NEW x \in before(a + j * d) PROVE x \in EvenlyFrom(a, d, j)
      <4>1. PICK i \in 0 .. n - 1 : x = a + i * d BY Zenon DEF EvenlyFrom
      <4>2. i < j BY <3>1, <4>1
      <4>3. i \in 0 .. j - 1 BY <4>2
      <4> QED BY <4>1, <4>3 DEF EvenlyFrom
    <3>3. ASSUME NEW x \in EvenlyFrom(a, d, j) PROVE x \in before(a + j * d)
      <4>1. PICK i \in 0 .. j - 1 : x = a + i * d BY DEF EvenlyFrom
      <4>2. i \in 0 .. n - 1 /\ i < j OBVIOUS
      <4>3. x < a + j * d BY <3>1, <4>1, <4>2
      <4> QED BY <4>1, <4>2, <4>3 DEF EvenlyFrom
    <3> QED BY <3>2, <3>3
  <2> HIDE DEF before
  <2> QED BY <2>1, EvenlyMany
<1>2. Cardinality(T) = n BY EvenlyMany
<1>3. ASSUME NEW k \in 1 .. n
      PROVE  (CHOOSE x \in T : Cardinality(before(x)) = k - 1) = a + (k - 1) * d
  <2>1. k - 1 \in 0 .. n - 1 OBVIOUS
  <2>2. a + (k - 1) * d \in T /\ Cardinality(before(a + (k - 1) * d)) = k - 1 BY <1>1, <2>1, Zenon DEF EvenlyFrom
  <2>3. ASSUME NEW x \in T, Cardinality(before(x)) = k - 1 PROVE x = a + (k - 1) * d
    <3>1. PICK j \in 0 .. n - 1 : x = a + j * d BY DEF EvenlyFrom
    <3>2. Cardinality(before(x)) = j BY <1>1, <3>1
    <3> QED BY <2>3, <3>1, <3>2
  <2> HIDE DEF T, before
  <2> QED BY <2>2, <2>3
<1>4. InOrder(T) = [k \in 1 .. Cardinality(T) |-> CHOOSE x \in T : Cardinality(before(x)) = k - 1]
  BY DEF InOrder, Sorted
<1> HIDE DEF T, before
<1>5. InOrder(T) = [k \in 1 .. n |-> a + (k - 1) * d] BY <1>2, <1>3, <1>4
<1> QED BY <1>5 DEF T

(* A quotient and a remainder are told by the product they belong to.      *)
LEMMA QuotientIs ==
  ASSUME NEW q \in Nat, NEW m \in Nat \ {0}, NEW r \in 0 .. m - 1
  PROVE  (q * m + r) \div m = q /\ (q * m + r) % m = r
<1> DEFINE a == q * m + r
           d == a \div m
           s == a % m
<1>1. q * m \in Nat /\ a \in Nat OBVIOUS
<1>2. d \in Nat /\ s \in 0 .. m - 1 /\ a = d * m + s
  <2> HIDE DEF a
  <2> QED BY <1>1
<1>3. a = q * m + r OBVIOUS
<1> HIDE DEF a, d, s
<1>4. d * m \in Nat BY <1>2
<1>5. \A x, y \in Nat : x < y => x * m + m <= y * m
  <2> SUFFICES ASSUME NEW x \in Nat, NEW y \in Nat, x < y PROVE x * m + m <= y * m OBVIOUS
  <2>1. y - x - 1 \in Nat /\ y = x + 1 + (y - x - 1) OBVIOUS
  <2> DEFINE z == y - x - 1
  <2>2. z \in Nat /\ y = x + 1 + z BY <2>1
  <2> HIDE DEF z
  <2>3. y * m = x * m + m + z * m /\ z * m \in Nat /\ x * m \in Nat BY <2>2
  <2> QED BY <2>3
<1>6. ~(d < q)
  <2> SUFFICES ASSUME d < q PROVE FALSE OBVIOUS
  <2>1. d * m + m <= q * m BY <1>2, <1>5
  <2> QED BY <1>1, <1>2, <1>3, <1>4, <2>1
<1>7. ~(q < d)
  <2> SUFFICES ASSUME q < d PROVE FALSE OBVIOUS
  <2>1. q * m + m <= d * m BY <1>2, <1>5
  <2> QED BY <1>1, <1>2, <1>3, <1>4, <2>1
<1>8. d = q BY <1>2, <1>6, <1>7
<1>9. s = r BY <1>1, <1>2, <1>3, <1>8
<1> QED BY <1>8, <1>9 DEF d, s, a

(* Rows and columns of a table, counted through.                           *)
LEMMA OnePlace ==
  ASSUME NEW m \in Nat \ {0}, NEW q \in Nat, NEW p \in Nat, NEW r \in 0 .. m - 1, NEW s \in 0 .. m - 1,
         q * m + r = p * m + s
  PROVE  q = p /\ r = s
<1>1. (q * m + r) \div m = q /\ (q * m + r) % m = r BY QuotientIs
<1>2. (p * m + s) \div m = p /\ (p * m + s) % m = s BY QuotientIs
<1> QED BY <1>1, <1>2

(* A row and a column that the table has are a place of it,                *)
LEMMA PlacesFit ==
  ASSUME NEW m \in Nat \ {0}, NEW n \in Nat, NEW q \in 0 .. n - 1, NEW r \in 0 .. m - 1
  PROVE  q * m + r \in 0 .. n * m - 1
<1>1. q * m \in Nat /\ n - 1 - q \in Nat /\ (n - 1 - q) * m \in Nat OBVIOUS
<1>2. n * m = q * m + m + (n - 1 - q) * m OBVIOUS
<1> QED BY <1>1, <1>2

(* and every place has its row and its column.                             *)
LEMMA PlaceOf ==
  ASSUME NEW m \in Nat \ {0}, NEW n \in Nat, NEW x \in 0 .. n * m - 1
  PROVE  x \div m \in 0 .. n - 1 /\ x % m \in 0 .. m - 1 /\ x = (x \div m) * m + (x % m)
<1>0. n * m \in Nat /\ x \in Nat OBVIOUS
<1>1. x \div m \in Nat /\ x % m \in 0 .. m - 1 /\ x = (x \div m) * m + (x % m) BY <1>0
<1> DEFINE q == x \div m
<1>2. q \in Nat /\ q * m \in Nat /\ q * m <= x BY <1>0, <1>1
<1> HIDE DEF q
<1>3. q < n
  <2> SUFFICES ASSUME n <= q PROVE FALSE BY <1>2
  <2>1. q - n \in Nat /\ q * m = n * m + (q - n) * m /\ (q - n) * m \in Nat BY <1>2
  <2> QED BY <1>0, <1>2, <2>1
<1>4. q \in 0 .. n - 1 BY <1>2, <1>3
<1> QED BY <1>1, <1>4 DEF q

-----------------------------------------------------------------------------
(* Sums over the rows of a list.                                           *)
Adds(s, rows, f) ==
  s \in [0 .. Len(rows) -> Nat] /\ s[0] = 0 /\ \A k \in 1 .. Len(rows) : s[k] = s[k - 1] + f[rows[k]]

(* There is one sum,                                                       *)
LEMMA SumExists ==
  ASSUME NEW R, NEW f \in [R -> Nat], NEW rows \in Seq(R)
  PROVE  \E s : Adds(s, rows, f)
<1> DEFINE op == [x \in (1 .. Len(rows)) \X Nat |-> x[2] + f[rows[x[1]]]]
<1>1. Len(rows) \in Nat /\ \A k \in 1 .. Len(rows) : f[rows[k]] \in Nat OBVIOUS
<1>2. op \in Steps(Len(rows), Nat) BY <1>1 DEF Steps
<1>3. \A k \in 1 .. Len(rows), n \in Nat : op[<<k, n>>] = n + f[rows[k]] OBVIOUS
<1> HIDE DEF op
<1>4. PICK s : Follows(s, Len(rows), Nat, 0, op)
  <2>1. 0 \in Nat OBVIOUS
  <2> QED BY <1>1, <1>2, <2>1, RecursionExists, Zenon
<1>5. ASSUME NEW k \in 1 .. Len(rows) PROVE s[k] = s[k - 1] + f[rows[k]]
  <2>1. k - 1 \in 0 .. Len(rows) BY <1>1
  <2>2. s[k] = op[<<k, s[k - 1]>>] BY <1>4 DEF Follows
  <2>3. s[k - 1] \in Nat BY <1>4, <2>1, Zenon DEF Follows
  <2> QED BY <1>3, <2>2, <2>3
<1> QED BY <1>4, <1>5, Zenon DEF Adds, Follows

(* and no other, for lists that are the same to it.                        *)
LEMMA SumsAgree ==
  ASSUME NEW rows, NEW f, NEW s, Adds(s, rows, f), Len(rows) \in Nat,
         NEW other, NEW g, NEW t, Adds(t, other, g), Len(other) = Len(rows),
         \A k \in 1 .. Len(rows) : f[rows[k]] = g[other[k]]
  PROVE  \A k \in 0 .. Len(rows) : s[k] = t[k]
<1> DEFINE S == {k \in Nat : k <= Len(rows) => s[k] = t[k]}
<1>1. 0 \in S BY DEF Adds
<1>2. ASSUME NEW k \in Nat, k \in S, k + 1 <= Len(rows) PROVE s[k + 1] = t[k + 1]
  <2>1. k + 1 \in 1 .. Len(rows) /\ (k + 1) - 1 = k /\ k <= Len(rows) BY <1>2
  <2>2. s[k + 1] = s[k] + f[rows[k + 1]] BY <2>1 DEF Adds
  <2>3. t[k + 1] = t[k] + g[other[k + 1]] BY <2>1 DEF Adds
  <2>4. f[rows[k + 1]] = g[other[k + 1]] BY <2>1
  <2>5. s[k] = t[k] BY <1>2, <2>1
  <2> QED BY <2>2, <2>3, <2>4, <2>5
<1>3. \A k \in Nat : k \in S => k + 1 \in S BY <1>2
<1> HIDE DEF S
<1>4. Nat \subseteq S BY <1>1, <1>3, Induct
<1> QED BY <1>4 DEF S

(* A row more, a row less.                                                 *)
SumGoesOn(s, rows, f, r) ==
  \E t : Adds(t, Append(rows, r), f) /\ t[Len(rows) + 1] = s[Len(rows)] + f[r]
(* The sum of a row more.                                                  *)
LEMMA SumMore ==
  ASSUME NEW R, NEW f \in [R -> Nat], NEW rows \in Seq(R), NEW s, Adds(s, rows, f), NEW r \in R
  PROVE  SumGoesOn(s, rows, f, r)
<1> DEFINE n == Len(rows)
           more == Append(rows, r)
           t == [k \in 0 .. n + 1 |-> IF k = n + 1 THEN s[n] + f[r] ELSE s[k]]
<1>1. n \in Nat /\ Len(more) = n + 1 /\ more[n + 1] = r /\ \A k \in 1 .. n : more[k] = rows[k] OBVIOUS
<1> HIDE DEF more
<1>2. s \in [0 .. n -> Nat] /\ s[0] = 0 /\ \A k \in 1 .. n : s[k] = s[k - 1] + f[rows[k]] BY DEF Adds
<1>3. s[n] + f[r] \in Nat
  <2>1. n \in 0 .. n BY <1>1
  <2>2. s[n] \in Nat BY <1>2, <2>1, Zenon
  <2>3. f[r] \in Nat OBVIOUS
  <2> QED BY <2>2, <2>3
<1> HIDE DEF n
<1>4. t \in [0 .. n + 1 -> Nat] /\ t[0] = 0 BY <1>1, <1>2, <1>3
<1>5. ASSUME NEW k \in 1 .. n + 1 PROVE t[k] = t[k - 1] + f[more[k]]
  <2>1. CASE k = n + 1
    <3>1. t[k] = s[n] + f[r] BY <1>1, <2>1
    <3>2. t[k - 1] = s[n] BY <1>1, <2>1
    <3> QED BY <1>1, <2>1, <3>1, <3>2
  <2>2. CASE k \in 1 .. n
    <3>1. t[k] = s[k] /\ t[k - 1] = s[k - 1] BY <1>1, <2>2
    <3> QED BY <1>1, <1>2, <2>2, <3>1, Zenon
  <2> QED BY <1>1, <2>1, <2>2
<1>6. t[n + 1] = s[n] + f[r] BY <1>1
<1> HIDE DEF t
<1>7. Adds(t, more, f) BY <1>1, <1>4, <1>5 DEF Adds
<1> QED BY <1>6, <1>7 DEF SumGoesOn, n, more
(* The sum of a row less.                                                  *)
LEMMA SumLess ==
  ASSUME NEW R, NEW f \in [R -> Nat], NEW rows \in Seq(R), NEW s, Adds(s, rows, f), rows # <<>>
  PROVE  \E t : /\ Adds(t, SubSeq(rows, 1, Len(rows) - 1), f)
                /\ t[Len(rows) - 1] = s[Len(rows)] - f[rows[Len(rows)]]
<1> DEFINE n == Len(rows)
           less == SubSeq(rows, 1, n - 1)
           t == [k \in 0 .. n - 1 |-> s[k]]
<1>0. n \in Nat \ {0} OBVIOUS
<1>1. Len(less) = n - 1 /\ \A k \in 1 .. n - 1 : less[k] = rows[k]
  <2>1. \A m \in 0 .. n : /\ Len(SubSeq(rows, 1, m)) = m
                          /\ \A k \in 1 .. m : SubSeq(rows, 1, m)[k] = rows[k]
    <3> SUFFICES ASSUME NEW m \in 0 .. n
                 PROVE  /\ Len(SubSeq(rows, 1, m)) = m
                        /\ \A k \in 1 .. m : SubSeq(rows, 1, m)[k] = rows[k]
      OBVIOUS
    <3> QED BY <1>0
  <2>2. n - 1 \in 0 .. n BY <1>0
  <2> QED BY <2>1, <2>2, Zenon
<1>2. s \in [0 .. n -> Nat] /\ s[0] = 0 /\ \A k \in 1 .. n : s[k] = s[k - 1] + f[rows[k]] BY DEF Adds
<1>3. f[rows[n]] \in Nat BY <1>0, <1>1
<1> HIDE DEF n, less
<1>4. t \in [0 .. n - 1 -> Nat] /\ t[0] = 0 BY <1>0, <1>1, <1>2
<1>5. ASSUME NEW k \in 1 .. n - 1 PROVE t[k] = t[k - 1] + f[less[k]]
  <2>1. t[k] = s[k] /\ t[k - 1] = s[k - 1] /\ k \in 1 .. n BY <1>0, <1>1
  <2> QED BY <1>1, <1>2, <2>1, Zenon
<1>6. t[n - 1] = s[n] - f[rows[n]]
  <2>1. t[n - 1] = s[n - 1] /\ s[n - 1] \in Nat /\ n \in 1 .. n BY <1>0, <1>1, <1>2
  <2>2. s[n] = s[n - 1] + f[rows[n]] BY <1>2, <2>1, Zenon
  <2> QED BY <1>3, <2>1, <2>2
<1> HIDE DEF t
<1>7. Adds(t, less, f) BY <1>1, <1>4, <1>5 DEF Adds
<1> QED BY <1>6, <1>7 DEF n, less

-----------------------------------------------------------------------------
(* Packing.                                                               *)

PackStages ==
  {"idle", "concat", "fit", "large", "medium", "pairs", "greedy", "spill", "counted",
   "adjust", "packed", "refused"}

(* The rows that fit into a bin of their own, and the bins made of them:   *)
(* the load of a bin is what its rows weigh.                               *)
Packable == {r \in DOMAIN lens : lens[r] <= Capacity}
RowsAndLoad == [rows : Seq(Packable), load : Int]
Weighed(b) == \E s : Adds(s, b.rows, lens) /\ s[Len(b.rows)] = b.load
Bin == {b \in RowsAndLoad : Weighed(b)}

Filled(bs) == \A b \in DOMAIN bs : bs[b].rows # <<>>
Whole(bs) == bs \in Seq(Bin) /\ Once(bs) /\ Within(bs)

(* Rows that were checked before the packer started are Packable; the      *)
(* first-fit packers check each in its turn.  The last phase of the        *)
(* modified packer starts with one empty bin, its only bin while empty.    *)
PackInv ==
  /\ multiple \in Nat \ {0} /\ lens \in Seq(Nat) /\ todo \subseteq DOMAIN lens
  /\ stage \in PackStages
  /\ Whole(bins) /\ Filled(bins) /\ Whole(spill) /\ EachOnce
  /\ stage \in {"concat", "large", "medium", "pairs", "greedy", "spill"}
       => todo \subseteq Packable
  /\ IF stage = "spill" THEN spill = <<EmptyBin>> \/ (spill # <<>> /\ Filled(spill))
                        ELSE spill = <<>>
  /\ stage \in {"counted", "adjust", "packed"} => todo = {}
  /\ stage = "adjust" => DOMAIN had \subseteq DOMAIN bins
  /\ ReadyToDeal
-----------------------------------------------------------------------------
(* Bins and sequences of bins                                              *)

HasRow(b, r) == \E k \in DOMAIN b.rows : b.rows[k] = r
Simple(b) == \A j, k \in DOMAIN b.rows : b.rows[j] = b.rows[k] => j = k

(* A row is in a list of bins if one of the bins has it.                   *)
LEMMA InSome ==
  ASSUME NEW bs, NEW r
  PROVE  In(bs, r) <=> \E b \in DOMAIN bs : HasRow(bs[b], r)
BY DEF In, HasRow

(* No row is in a list of bins twice just when no bin has one twice and no *)
(* two bins share one.                                                     *)
LEMMA OnceApart ==
  ASSUME NEW bs
  PROVE  Once(bs) <=> /\ \A b \in DOMAIN bs : Simple(bs[b])
                      /\ \A b, c \in DOMAIN bs : \A r :
                           HasRow(bs[b], r) /\ HasRow(bs[c], r) => b = c
BY DEF Once, HasRow, Simple

(* What the provers need to know of a sequence.                            *)
LEMMA SeqShape ==
  ASSUME NEW S, NEW q \in Seq(S)
  PROVE  DOMAIN q = 1 .. Len(q) /\ Len(q) \in Nat /\ (Len(q) > 0 => q # <<>>)
OBVIOUS

(* A bin with one row more is a bin, has this row and the ones it had, and *)
(* weighs as much more as the row is long.                                 *)
LEMMA BinWith ==
  ASSUME NEW b \in Bin, NEW r \in Packable, lens \in Seq(Nat)
  PROVE  /\ With(b, r) \in Bin /\ With(b, r).rows # <<>>
         /\ With(b, r).load = b.load + lens[r]
         /\ \A q : HasRow(With(b, r), q) <=> HasRow(b, q) \/ q = r
         /\ Simple(b) /\ ~HasRow(b, r) => Simple(With(b, r))
<1> PICK s : s = b.rows OBVIOUS
<1>1. s \in Seq(Packable) /\ b.load \in Int BY DEF Bin, RowsAndLoad
<1>2. lens[r] \in Nat /\ r \in Packable BY DEF Packable
<1>3. /\ Append(s, r) \in Seq(Packable) /\ Len(Append(s, r)) = Len(s) + 1
      /\ Append(s, r)[Len(s) + 1] = r
      /\ \A k \in 1 .. Len(s) : Append(s, r)[k] = s[k]
  BY <1>1, <1>2
<1>4. With(b, r).rows = Append(s, r) /\ With(b, r).load = b.load + lens[r] BY DEF With
<1>5. /\ DOMAIN s = 1 .. Len(s) /\ DOMAIN Append(s, r) = 1 .. (Len(s) + 1) /\ Len(s) \in Nat
  BY <1>1, <1>3
<1>6. With(b, r) \in Bin
  <2>1. With(b, r) \in RowsAndLoad BY <1>1, <1>2, <1>3, <1>4 DEF RowsAndLoad, With
  <2>2. PICK t : Adds(t, s, lens) /\ t[Len(s)] = b.load BY DEF Bin, Weighed
  <2>3. PICK R : lens \in [R -> Nat] /\ s \in Seq(R) /\ r \in R
    <3>1. lens \in [DOMAIN lens -> Nat] /\ s \in Seq(DOMAIN lens) /\ r \in DOMAIN lens
      BY <1>1, <1>2 DEF Packable
    <3> QED BY <3>1, Zenon
  <2>4. SumGoesOn(t, s, lens, r) BY <2>2, <2>3, SumMore, Zenon
  <2>5. Weighed(With(b, r)) BY <1>3, <1>4, <2>2, <2>4 DEF Weighed, SumGoesOn
  <2> QED BY <2>1, <2>5 DEF Bin
<1>7. With(b, r).rows # <<>>
  <2>1. Len(Append(s, r)) > 0 BY <1>3, <1>5
  <2> QED BY <1>3, <1>4, <2>1, SeqShape, Zenon
<1>8. \A k \in 1 .. (Len(s) + 1) : k \in 1 .. Len(s) \/ k = Len(s) + 1 BY <1>5
<1>9. ASSUME NEW q PROVE HasRow(With(b, r), q) <=> HasRow(b, q) \/ q = r
  BY <1>3, <1>4, <1>5, <1>8 DEF HasRow
<1>10. ASSUME Simple(b), ~HasRow(b, r) PROVE Simple(With(b, r))
  BY <1>3, <1>4, <1>5, <1>8, <1>10 DEF Simple, HasRow
<1> QED BY <1>4, <1>6, <1>7, <1>9, <1>10

(* The empty bin is one, without rows.                                     *)
LEMMA BinEmpty ==
  /\ EmptyBin \in Bin /\ EmptyBin.load = 0 /\ EmptyBin.rows = <<>>
  /\ Simple(EmptyBin) /\ \A q : ~HasRow(EmptyBin, q)
<1>1. EmptyBin \in RowsAndLoad /\ EmptyBin.load = 0 /\ EmptyBin.rows = <<>> BY DEF EmptyBin, RowsAndLoad
<1>2. Weighed(EmptyBin)
  <2>1. Adds([k \in 0 .. 0 |-> 0], <<>>, lens) BY DEF Adds
  <2> QED BY <1>1, <2>1 DEF Weighed
<1> QED BY <1>1, <1>2 DEF Bin, Simple, HasRow

(* One bin becomes another, of rows it had or no bin has. *)
LEMMA Replaced ==
  ASSUME NEW bs, Whole(bs), NEW n \in DOMAIN bs,
         NEW c \in Bin, Simple(c), c.load <= Capacity,
         \A q : HasRow(c, q) => HasRow(bs[n], q) \/ ~In(bs, q)
  PROVE  LET ds == [bs EXCEPT ![n] = c]
         IN  /\ Whole(ds)
             /\ \A q : In(ds, q) <=> (In(bs, q) /\ ~HasRow(bs[n], q)) \/ HasRow(c, q)
             /\ Filled(bs) /\ c.rows # <<>> => Filled(ds)
<1> PICK ds : ds = [bs EXCEPT ![n] = c] BY Zenon
<1>1. bs \in Seq(Bin) /\ Once(bs) /\ Within(bs) BY DEF Whole
<1>2. /\ ds \in Seq(Bin) /\ DOMAIN ds = DOMAIN bs /\ ds[n] = c
      /\ \A b \in DOMAIN bs \ {n} : ds[b] = bs[b]
  BY <1>1
<1>3. Within(ds) BY <1>1, <1>2 DEF Within
<1>4. \A b \in DOMAIN bs : Simple(ds[b]) BY <1>1, <1>2, OnceApart
<1>5. \A b \in DOMAIN bs \ {n} : \A q : HasRow(bs[b], q) => ~HasRow(c, q) /\ ~HasRow(bs[n], q)
  BY <1>1, OnceApart, InSome
<1>6. \A b, d \in DOMAIN bs : \A q : HasRow(ds[b], q) /\ HasRow(ds[d], q) => b = d
  BY <1>1, <1>2, <1>5, OnceApart
<1>7. Once(ds) BY <1>2, <1>4, <1>6, OnceApart, Zenon
<1>8. \A q : In(ds, q) <=> (In(bs, q) /\ ~HasRow(bs[n], q)) \/ HasRow(c, q)
  BY <1>2, <1>5, InSome, Zenon
<1>9. Filled(bs) /\ c.rows # <<>> => Filled(ds) BY <1>2 DEF Filled
<1> QED BY <1>2, <1>3, <1>7, <1>8, <1>9, Zenon DEF Whole

(* A bin of other rows comes in after the first n. *)
LEMMA Inserted ==
  ASSUME NEW bs, Whole(bs), NEW n \in 0 .. Len(bs), NEW c \in Bin, Simple(c), c.load <= Capacity,
         \A q : HasRow(c, q) => ~In(bs, q),
         NEW ds \in Seq(Bin), Len(ds) = Len(bs) + 1, ds[n + 1] = c,
         \A i \in 1 .. n : ds[i] = bs[i], \A i \in n + 2 .. Len(bs) + 1 : ds[i] = bs[i - 1]
  PROVE  /\ Whole(ds) /\ \A q : In(ds, q) <=> In(bs, q) \/ HasRow(c, q)
         /\ Filled(bs) /\ c.rows # <<>> => Filled(ds)
<1>1. /\ bs \in Seq(Bin) /\ Once(bs) /\ Within(bs) /\ DOMAIN bs = 1 .. Len(bs)
      /\ DOMAIN ds = 1 .. (Len(bs) + 1) /\ Len(bs) \in Nat /\ n \in Nat
  BY DEF Whole
<1> DEFINE from(i) == IF i <= n THEN i ELSE i - 1
<1>2. \A i \in DOMAIN ds : i # n + 1 => from(i) \in DOMAIN bs /\ ds[i] = bs[from(i)]
  BY <1>1
<1>3. \A i, j \in DOMAIN ds : i # n + 1 /\ j # n + 1 /\ from(i) = from(j) => i = j
  BY <1>1
<1>4. \A b \in DOMAIN bs : \E i \in DOMAIN ds : i # n + 1 /\ from(i) = b
  <2>1. SUFFICES ASSUME NEW b \in DOMAIN bs
                 PROVE  \E i \in DOMAIN ds : i # n + 1 /\ from(i) = b
    OBVIOUS
  <2>2. CASE b <= n BY <1>1, <2>2
  <2>3. CASE b > n
    <3>1. b \in Nat /\ b + 1 \in DOMAIN ds /\ ~(b + 1 <= n) /\ b + 1 # n + 1
      BY <1>1, <2>3
    <3>2. from(b + 1) = b BY <3>1
    <3> QED BY <3>1, <3>2
  <2> QED BY <1>1, <2>2, <2>3
<1> HIDE DEF from
<1>5. n + 1 \in DOMAIN ds BY <1>1
<1>6. Within(ds) BY <1>1, <1>2 DEF Within
<1>7. \A i \in DOMAIN ds : Simple(ds[i]) BY <1>1, <1>2, OnceApart
<1>8. \A i, j \in DOMAIN ds : \A q : HasRow(ds[i], q) /\ HasRow(ds[j], q) => i = j
  <2>1. SUFFICES ASSUME NEW i \in DOMAIN ds, NEW j \in DOMAIN ds, NEW q,
                        HasRow(ds[i], q), HasRow(ds[j], q)
                 PROVE  i = j
    OBVIOUS
  <2>2. i # n + 1 => In(bs, q) BY <1>2, <2>1, InSome
  <2>3. j # n + 1 => In(bs, q) BY <1>2, <2>1, InSome
  <2>4. i # n + 1 /\ j # n + 1 => from(i) = from(j) BY <1>1, <1>2, <2>1, OnceApart, Zenon
  <2> QED BY <1>3, <2>1, <2>2, <2>3, <2>4
<1>9. Once(ds) BY <1>7, <1>8, OnceApart, Zenon
<1>10. \A q : In(ds, q) <=> In(bs, q) \/ HasRow(c, q)
  BY <1>2, <1>4, <1>5, InSome, Zenon
<1>11. Filled(bs) /\ c.rows # <<>> => Filled(ds) BY <1>2 DEF Filled
<1> QED BY <1>1, <1>6, <1>9, <1>10, <1>11 DEF Whole

(* A new bin at the end, of rows that no bin has.                          *)
LEMMA Appended ==
  ASSUME NEW bs, Whole(bs), NEW c \in Bin, Simple(c), c.load <= Capacity,
         \A q : HasRow(c, q) => ~In(bs, q)
  PROVE  /\ Whole(Append(bs, c)) /\ \A q : In(Append(bs, c), q) <=> In(bs, q) \/ HasRow(c, q)
         /\ Filled(bs) /\ c.rows # <<>> => Filled(Append(bs, c))
<1>0. PICK ds, n : ds = Append(bs, c) /\ n = Len(bs) BY Zenon
<1>1. bs \in Seq(Bin) /\ n = Len(bs) /\ n \in 0 .. Len(bs) BY <1>0 DEF Whole
<1>2. /\ ds \in Seq(Bin) /\ Len(ds) = Len(bs) + 1 /\ ds[n + 1] = c
      /\ \A i \in 1 .. n : ds[i] = bs[i]
  BY <1>0, <1>1
<1>3. \A i \in n + 2 .. Len(bs) + 1 : ds[i] = bs[i - 1] BY <1>1
<1>4. /\ Whole(ds) /\ \A q : In(ds, q) <=> In(bs, q) \/ HasRow(c, q)
      /\ Filled(bs) /\ c.rows # <<>> => Filled(ds)
  BY <1>1, <1>2, <1>3, Inserted
<1> QED BY <1>0, <1>4

(* Two lists of bins without a common row, one after the other.            *)
LEMMA BinsJoined ==
  ASSUME NEW bs, Whole(bs), NEW es, Whole(es), \A q : ~(In(bs, q) /\ In(es, q))
  PROVE  /\ Whole(bs \o es) /\ \A q : In(bs \o es, q) <=> In(bs, q) \/ In(es, q)
         /\ Filled(bs) /\ Filled(es) => Filled(bs \o es)
<1>0. PICK ds, n : ds = bs \o es /\ n = Len(bs) BY Zenon
<1>1. /\ bs \in Seq(Bin) /\ es \in Seq(Bin) /\ Once(bs) /\ Once(es) /\ Within(bs) /\ Within(es)
  BY DEF Whole
<1>2. /\ ds \in Seq(Bin) /\ n \in Nat /\ Len(es) \in Nat /\ DOMAIN ds = 1 .. (n + Len(es))
      /\ DOMAIN bs = 1 .. n /\ DOMAIN es = 1 .. Len(es)
      /\ \A i \in DOMAIN bs : i \in DOMAIN ds /\ ds[i] = bs[i]
      /\ \A i \in DOMAIN es : n + i \in DOMAIN ds /\ ds[n + i] = es[i]
  BY <1>0, <1>1
<1>3. \A i \in DOMAIN ds : i \in DOMAIN bs \/ \E j \in DOMAIN es : i = n + j
  <2>1. SUFFICES ASSUME NEW i \in DOMAIN ds, i \notin DOMAIN bs
                 PROVE  \E j \in DOMAIN es : i = n + j
    OBVIOUS
  <2>2. i - n \in DOMAIN es /\ i = n + (i - n) BY <1>2, <2>1
  <2> QED BY <2>2
<1>4. Within(ds) BY <1>1, <1>2, <1>3 DEF Within
<1>5. \A i \in DOMAIN ds : Simple(ds[i]) BY <1>1, <1>2, <1>3, OnceApart, Zenon
<1>6. \A q : In(ds, q) <=> In(bs, q) \/ In(es, q)
  <2>1. \A q : In(bs, q) \/ In(es, q) => In(ds, q) BY <1>2, InSome, Zenon
  <2>2. \A q : In(ds, q) => In(bs, q) \/ In(es, q) BY <1>2, <1>3, InSome
  <2> QED BY <2>1, <2>2
<1>7. \A i, j \in DOMAIN ds : \A q : HasRow(ds[i], q) /\ HasRow(ds[j], q) => i = j
  <2>1. SUFFICES ASSUME NEW i \in DOMAIN ds, NEW j \in DOMAIN ds, NEW q,
                        HasRow(ds[i], q), HasRow(ds[j], q)
                 PROVE  i = j
    OBVIOUS
  <2>2. CASE i \in DOMAIN bs /\ j \in DOMAIN bs BY <1>1, <1>2, <2>1, <2>2, OnceApart, Zenon
  <2>3. CASE i \notin DOMAIN bs /\ j \notin DOMAIN bs
    <3>1. PICK k, l \in DOMAIN es : i = n + k /\ j = n + l BY <1>3, <2>1, <2>3
    <3>2. HasRow(es[k], q) /\ HasRow(es[l], q) BY <1>2, <2>1, <3>1
    <3> QED BY <1>1, <3>1, <3>2, OnceApart
  <2>4. i \in DOMAIN bs => In(bs, q) BY <1>2, <2>1, InSome
  <2>5. i \notin DOMAIN bs => In(es, q) BY <1>2, <1>3, <2>1, InSome
  <2>6. j \in DOMAIN bs => In(bs, q) BY <1>2, <2>1, InSome
  <2>7. j \notin DOMAIN bs => In(es, q) BY <1>2, <1>3, <2>1, InSome
  <2> QED BY <2>2, <2>3, <2>4, <2>5, <2>6, <2>7
<1>8. Once(ds) BY <1>5, <1>7, OnceApart
<1>9. Filled(bs) /\ Filled(es) => Filled(ds) BY <1>2, <1>3 DEF Filled
<1> QED BY <1>0, <1>2, <1>4, <1>6, <1>8, <1>9 DEF Whole

(* All bins but the first, and what the first has.                         *)
LEMMA Rest ==
  ASSUME NEW bs, Whole(bs), bs # <<>>
  PROVE  /\ Whole(Tail(bs)) /\ bs[1] \in Bin /\ Simple(bs[1]) /\ bs[1].load <= Capacity
         /\ \A q : In(bs, q) <=> HasRow(bs[1], q) \/ In(Tail(bs), q)
         /\ \A q : ~(HasRow(bs[1], q) /\ In(Tail(bs), q))
         /\ Filled(bs) => Filled(Tail(bs))
<1> PICK ds : ds = Tail(bs) BY Zenon
<1>1. bs \in Seq(Bin) /\ Once(bs) /\ Within(bs) BY DEF Whole
<1>2. /\ ds \in Seq(Bin) /\ Len(bs) \in Nat \ {0} /\ 1 \in DOMAIN bs /\ bs[1] \in Bin
      /\ DOMAIN bs = 1 .. Len(bs) /\ DOMAIN ds = 1 .. (Len(bs) - 1)
      /\ \A i \in DOMAIN ds : i + 1 \in DOMAIN bs /\ i + 1 # 1 /\ ds[i] = bs[i + 1]
  BY <1>1
<1>3. \A i \in DOMAIN bs : i = 1 \/ \E j \in DOMAIN ds : i = j + 1
  <2>1. SUFFICES ASSUME NEW i \in DOMAIN bs, i # 1 PROVE \E j \in DOMAIN ds : i = j + 1
    OBVIOUS
  <2>2. i - 1 \in DOMAIN ds /\ i = (i - 1) + 1 BY <1>2, <2>1
  <2> QED BY <2>2
<1>4. Within(ds) BY <1>1, <1>2 DEF Within
<1>5. bs[1].load <= Capacity BY <1>1, <1>2 DEF Within
<1>6. Simple(bs[1]) /\ \A i \in DOMAIN ds : Simple(ds[i]) BY <1>1, <1>2, OnceApart
<1>7. \A i, j \in DOMAIN ds : i + 1 = j + 1 => i = j BY <1>2
<1>8. \A i, j \in DOMAIN ds : \A q : HasRow(ds[i], q) /\ HasRow(ds[j], q) => i = j
  BY <1>1, <1>2, <1>7, OnceApart
<1>9. Once(ds) BY <1>6, <1>8, OnceApart, Zenon
<1>10. \A q : In(bs, q) <=> HasRow(bs[1], q) \/ In(ds, q) BY <1>2, <1>3, InSome, Zenon
<1>11. \A q : ~(HasRow(bs[1], q) /\ In(ds, q)) BY <1>1, <1>2, OnceApart, InSome, Zenon
<1>12. Filled(bs) => Filled(ds) BY <1>2 DEF Filled
<1> QED BY <1>2, <1>4, <1>5, <1>6, <1>9, <1>10, <1>11, <1>12 DEF Whole

(* A bin that gives up its last row keeps the others. *)
LEMMA LastDropped ==
  ASSUME NEW S, NEW q \in Seq(S), Len(q) > 1
  PROVE  LET d == SubSeq(q, 1, Len(q) - 1)
         IN  /\ d \in Seq(S) /\ d # <<>> /\ DOMAIN d = 1 .. (Len(q) - 1) /\ Len(d) = Len(q) - 1
             /\ \A k \in 1 .. (Len(q) - 1) : d[k] = q[k]
<1> PICK d : d = SubSeq(q, 1, Len(q) - 1) BY Zenon
<1>1. Len(q) \in Nat /\ DOMAIN q = 1 .. Len(q) OBVIOUS
<1>2. Len(d) = Len(q) - 1 /\ \A k \in 1 .. (Len(q) - 1) : d[k] = q[k] BY <1>1
<1>3. d \in Seq(S) BY <1>1
<1>4. DOMAIN d = 1 .. Len(d) /\ (Len(d) > 0 => d # <<>>) BY <1>3, SeqShape, Zenon
<1>5. Len(d) > 0 BY <1>1, <1>2
<1> QED BY <1>2, <1>3, <1>4, <1>5

(* A bin without its last row, as _adjust_bin_count takes it away.         *)
LEMMA Shortened ==
  ASSUME NEW b \in Bin, Len(b.rows) > 1, Simple(b), b.load <= Capacity, lens \in Seq(Nat)
  PROVE  LET r == b.rows[Len(b.rows)]
             c == [rows |-> SubSeq(b.rows, 1, Len(b.rows) - 1), load |-> b.load - lens[r]]
         IN  /\ r \in Packable /\ HasRow(b, r) /\ c \in Bin /\ c.rows # <<>> /\ Simple(c)
             /\ c.load <= Capacity /\ \A q : HasRow(c, q) <=> HasRow(b, q) /\ q # r
<1>0. PICK s, d, r, l, c :
        /\ s = b.rows /\ d = SubSeq(s, 1, Len(s) - 1) /\ r = s[Len(s)]
        /\ l = b.load - lens[r] /\ c = [rows |-> d, load |-> l]
  BY Zenon
<1>1. s \in Seq(Packable) /\ b.load \in Int /\ Len(s) \in Nat /\ Len(s) > 1 /\ DOMAIN s = 1 .. Len(s)
  BY <1>0 DEF Bin, RowsAndLoad
<1>2. Len(s) \in DOMAIN s /\ r = s[Len(s)] /\ r \in Packable BY <1>0, <1>1
<1>3. lens[r] \in Nat BY <1>2 DEF Packable
<1>4. /\ d \in Seq(Packable) /\ d # <<>> /\ DOMAIN d = 1 .. (Len(s) - 1)
      /\ \A k \in 1 .. (Len(s) - 1) : d[k] = s[k]
  BY <1>0, <1>1, LastDropped, Zenon
<1>5. l \in Int /\ l <= Capacity
  <2>1. l = b.load - lens[r] BY <1>0
  <2> QED BY <1>1, <1>3, <2>1, PackingConstants
<1>6. c.rows = d /\ c.load = l /\ c \in Bin
  <2>1. c.rows = d /\ c.load = l /\ c \in RowsAndLoad BY <1>0, <1>4, <1>5 DEF RowsAndLoad
  <2>2. PICK t : Adds(t, s, lens) /\ t[Len(s)] = b.load BY <1>0 DEF Bin, Weighed
  <2>3. PICK R : lens \in [R -> Nat] /\ s \in Seq(R) /\ s # <<>> BY <1>1 DEF Packable
  <2>4. PICK u : Adds(u, d, lens) /\ u[Len(s) - 1] = t[Len(s)] - lens[r] BY <1>0, <2>2, <2>3, SumLess, Zenon
  <2>5. Len(d) = Len(s) - 1 BY <1>0, <1>1, LastDropped
  <2>6. Weighed(c) BY <1>0, <2>1, <2>2, <2>4, <2>5 DEF Weighed
  <2> QED BY <2>1, <2>6 DEF Bin
<1>7. PICK n : n \in Nat /\ n = Len(s) /\ DOMAIN s = 1 .. n BY <1>1
<1>8. \A k \in DOMAIN s : k = Len(s) \/ k \in 1 .. (Len(s) - 1) BY <1>7
<1>9. \A k \in 1 .. (Len(s) - 1) : k \in DOMAIN s /\ k # Len(s) BY <1>7
<1>10. \A j, k \in DOMAIN s : s[j] = s[k] => j = k BY <1>0 DEF Simple
<1>11. Simple(c)
  <2>1. \A j, k \in DOMAIN d : d[j] = d[k] => j = k BY <1>4, <1>9, <1>10, Zenon
  <2> QED BY <1>6, <2>1 DEF Simple
<1>12. \A q : HasRow(c, q) <=> HasRow(b, q) /\ q # r
  <2>1. \A q : (\E k \in DOMAIN d : d[k] = q) <=> (\E k \in DOMAIN s : s[k] = q) /\ q # r
    <3>1. ASSUME NEW q, NEW k \in DOMAIN d, d[k] = q
          PROVE  (\E j \in DOMAIN s : s[j] = q) /\ q # r
      <4>1. k \in 1 .. (Len(s) - 1) /\ s[k] = q BY <1>4, <3>1
      <4>2. k \in DOMAIN s /\ k # Len(s) BY <1>9, <4>1
      <4> QED BY <1>2, <1>10, <4>1, <4>2
    <3>2. ASSUME NEW q, NEW k \in DOMAIN s, s[k] = q, q # r
          PROVE  \E j \in DOMAIN d : d[j] = q
      <4>1. k \in 1 .. (Len(s) - 1) BY <1>2, <1>8, <3>2
      <4> QED BY <1>4, <3>2, <4>1
    <3> QED BY <3>1, <3>2
  <2>2. \A q : HasRow(c, q) <=> \E k \in DOMAIN d : d[k] = q BY <1>6 DEF HasRow
  <2>3. \A q : HasRow(b, q) <=> \E k \in DOMAIN s : s[k] = q BY <1>0 DEF HasRow
  <2> QED BY <2>1, <2>2, <2>3, Zenon
<1>13. HasRow(b, r) BY <1>0, <1>2 DEF HasRow
<1> QED BY <1>0, <1>2, <1>4, <1>5, <1>6, <1>11, <1>12, <1>13, Zenon
-----------------------------------------------------------------------------
(* The steps of the packers                                                *)

Placing == {"concat", "fit", "large", "medium", "pairs", "greedy"}

(* As long as the rows stay, so do what can be packed and what is a bin.   *)
LEMMA SameRows ==
  ASSUME UNCHANGED Given
  PROVE  Packable' = Packable /\ Bin' = Bin /\ UNCHANGED <<multiple, lens>>
BY DEF Given, Packable, RowsAndLoad, Weighed, Bin

(* A row still to be placed is in no bin, and every bin is within the      *)
(* capacity.                                                               *)
LEMMA Unplaced ==
  ASSUME PackInv
  PROVE  /\ \A r \in todo : ~In(bins, r) /\ ~In(spill, r) /\ r \in DOMAIN lens
         /\ \A b \in DOMAIN bins : bins[b] \in Bin /\ Simple(bins[b]) /\ bins[b].load <= Capacity
BY OnceApart DEF PackInv, EachOnce, Whole, Within

(* Rows leave todo for the bins. *)
LEMMA RowsPlaced ==
  ASSUME PackInv, UNCHANGED <<Given, stage, spill>>, stage \in Placing,
         NEW R \in SUBSET todo, todo' = todo \ R, Whole(bins'), Filled(bins'),
         \A q : In(bins', q) <=> In(bins, q) \/ q \in R
  PROVE  PackInv'
<1>1. /\ Packable' = Packable /\ Bin' = Bin /\ UNCHANGED <<multiple, lens, stage, spill>>
      /\ stage \notin {"spill", "counted", "adjust", "packed"}
  BY SameRows DEF Placing
<1>2. Whole(bins)' /\ Filled(bins)' /\ Whole(spill)'
  BY <1>1 DEF PackInv, Whole, Filled, Once, Within
<1>3. \A r : In(spill, r)' <=> In(spill, r) BY <1>1 DEF In
<1>4. \A r : In(bins, r)' <=> In(bins, r) \/ r \in R BY DEF In
<1>5. EachOnce'
  <2>1. ASSUME NEW r \in DOMAIN lens
        PROVE  /\ r \in todo' \/ In(bins, r)' \/ In(spill, r)'
               /\ ~(r \in todo' /\ (In(bins, r)' \/ In(spill, r)'))
               /\ ~(In(bins, r)' /\ In(spill, r)')
    <3>1. /\ r \in todo \/ In(bins, r) \/ In(spill, r)
          /\ ~(r \in todo /\ (In(bins, r) \/ In(spill, r))) /\ ~(In(bins, r) /\ In(spill, r))
      BY DEF PackInv, EachOnce
    <3> QED BY <1>3, <1>4, <3>1
  <2> QED BY <1>1, <1>2, <2>1 DEF EachOnce, Whole
<1>6. todo' \subseteq todo OBVIOUS
<1> QED BY <1>1, <1>2, <1>5, <1>6 DEF PackInv, ReadyToDeal

(* A row goes into a bin it fits into.                                     *)
LEMMA PutIntoKeeps ==
  ASSUME PackInv, UNCHANGED <<Given, stage, spill>>, stage \in Placing,
         NEW r \in todo, lens[r] <= Capacity, NEW n \in DOMAIN bins, Fits(bins[n], r), PutInto(n, r)
  PROVE  PackInv'
<1> PICK c : c = With(bins[n], r) OBVIOUS
<1>1. r \in Packable /\ ~In(bins, r) /\ bins[n] \in Bin /\ Simple(bins[n])
  BY Unplaced DEF Packable
<1>2. ~HasRow(bins[n], r) BY <1>1, InSome
<1>3. /\ c \in Bin /\ c.rows # <<>> /\ c.load <= Capacity /\ Simple(c)
      /\ \A q : HasRow(c, q) <=> HasRow(bins[n], q) \/ q = r
  BY <1>1, <1>2, BinWith DEF PackInv, Fits
<1>4. bins' = [bins EXCEPT ![n] = c] /\ todo' = todo \ {r} BY DEF PutInto
<1>5. /\ Whole(bins') /\ Filled(bins')
      /\ \A q : In(bins', q) <=> (In(bins, q) /\ ~HasRow(bins[n], q)) \/ HasRow(c, q)
  BY <1>1, <1>3, <1>4, Replaced, Zenon DEF PackInv
<1>6. \A q : In(bins', q) <=> In(bins, q) \/ q \in {r} BY <1>3, <1>5, InSome
<1> QED BY <1>4, <1>5, <1>6, RowsPlaced, Zenon

(* A row gets a bin of its own.                                            *)
LEMMA OpenBinKeeps ==
  ASSUME PackInv, UNCHANGED <<Given, stage, spill>>, stage \in Placing,
         NEW r \in todo, lens[r] <= Capacity, OpenBin(r)
  PROVE  PackInv'
<1> PICK c : c = With(EmptyBin, r) OBVIOUS
<1>1. r \in Packable /\ ~In(bins, r) BY Unplaced DEF Packable
<1>2. lens[r] \in Nat BY <1>1 DEF Packable, PackInv
<1>3. /\ c \in Bin /\ c.rows # <<>> /\ Simple(c) /\ c.load = 0 + lens[r]
      /\ \A q : HasRow(c, q) <=> q = r
  BY <1>1, BinWith, BinEmpty DEF PackInv
<1>4. bins' = Append(bins, c) /\ todo' = todo \ {r} BY DEF OpenBin
<1>5. c.load <= Capacity BY <1>2, <1>3
<1>6. Whole(bins') /\ Filled(bins') /\ \A q : In(bins', q) <=> In(bins, q) \/ HasRow(c, q)
  BY <1>1, <1>3, <1>4, <1>5, Appended DEF PackInv
<1>7. \A q : In(bins', q) <=> In(bins, q) \/ q \in {r} BY <1>3, <1>6
<1> QED BY <1>4, <1>6, <1>7, RowsPlaced, Zenon

(* Two small rows go together into a bin of the modified packer that has   *)
(* room for both.                                                          *)
LEMMA PutPairKeeps ==
  ASSUME PackInv, UNCHANGED <<Given, stage, spill>>, stage = "pairs", at \in DOMAIN bins,
         NEW p \in todo \X todo, Pair(p), PutPair(p)
  PROVE  PackInv'
<1> PICK x, y, b, c : /\ x = p[1] /\ y = p[2] /\ b = With(bins[at], x) /\ c = With(b, y)
  OBVIOUS
<1>1. x \in todo /\ y \in todo /\ x # y /\ bins[at].load + lens[x] + lens[y] <= Capacity
  BY DEF Pair, FirstBy
<1>2. x \in Packable /\ y \in Packable BY <1>1 DEF PackInv
<1>3. bins[at] \in Bin /\ Simple(bins[at]) /\ ~In(bins, x) /\ ~In(bins, y) BY <1>1, Unplaced
<1>4. ~HasRow(bins[at], x) /\ ~HasRow(bins[at], y) BY <1>3, InSome
<1>5. /\ b \in Bin /\ b.load = bins[at].load + lens[x] /\ Simple(b)
      /\ \A q : HasRow(b, q) <=> HasRow(bins[at], q) \/ q = x
  BY <1>2, <1>3, <1>4, BinWith DEF PackInv
<1>6. ~HasRow(b, y) BY <1>1, <1>4, <1>5
<1>7. /\ c \in Bin /\ c.load = b.load + lens[y] /\ Simple(c) /\ c.rows # <<>>
      /\ \A q : HasRow(c, q) <=> HasRow(b, q) \/ q = y
  BY <1>2, <1>5, <1>6, BinWith DEF PackInv
<1>8. c.load <= Capacity BY <1>1, <1>5, <1>7
<1>9. bins' = [bins EXCEPT ![at] = c] /\ todo' = todo \ {x, y} BY DEF PutPair
<1>10. /\ Whole(bins') /\ Filled(bins')
       /\ \A q : In(bins', q) <=> (In(bins, q) /\ ~HasRow(bins[at], q)) \/ HasRow(c, q)
  <2>1. \A q : HasRow(c, q) => HasRow(bins[at], q) \/ ~In(bins, q) BY <1>3, <1>5, <1>7
  <2>2. Whole(bins) /\ Filled(bins) BY DEF PackInv
  <2> QED BY <1>7, <1>8, <1>9, <2>1, <2>2, Replaced, Zenon
<1>11. \A q : In(bins', q) <=> In(bins, q) \/ q \in {x, y} BY <1>5, <1>7, <1>10, InSome
<1>12. {x, y} \in SUBSET todo /\ stage \in Placing BY <1>1 DEF Placing
<1> QED BY <1>9, <1>10, <1>11, <1>12, RowsPlaced, Zenon

(* Whichever packer places a row, and in whichever of its passes.          *)
LEMMA RowStepKeeps ==
  ASSUME PackInv, ConcatRow \/ FitRow \/ StartLarge \/ AddMedium \/ AddPair \/ AddLargest
  PROVE  PackInv'
<1>1. UNCHANGED <<Given, stage, spill, had>> /\ stage \in Placing
  BY DEF ConcatRow, FitRow, StartLarge, AddMedium, AddPair, AddLargest, Pass, Placing
<1>2. stage \in Placing \ {"fit"} => \A r \in todo : lens[r] <= Capacity
  BY DEF PackInv, Placing, Packable
<1>3. UNCHANGED <<bins, todo>> => PackInv'
  BY <1>1, RowsPlaced, SameRows DEF PackInv, Whole, Filled, Once, Within, EachOnce, In, ReadyToDeal
<1>4. \/ UNCHANGED <<bins, todo>>
      \/ \E r \in todo : lens[r] <= Capacity /\ OpenBin(r)
      \/ \E r \in todo, n \in DOMAIN bins :
           lens[r] <= Capacity /\ Fits(bins[n], r) /\ PutInto(n, r)
      \/ stage = "pairs" /\ at \in DOMAIN bins /\ \E p \in todo \X todo : Pair(p) /\ PutPair(p)
  <2>1. CASE ConcatRow
    <3>1. Len(bins) > 0 => Len(bins) \in DOMAIN bins BY SeqShape DEF PackInv, Whole
    <3> QED BY <1>2, <2>1, <3>1 DEF ConcatRow, Placing
  <2>2. CASE FitRow BY <2>2 DEF FitRow
  <2>3. CASE StartLarge BY <1>2, <2>3 DEF StartLarge, FirstBy, RowsOf, Placing
  <2>4. CASE AddMedium BY <1>2, <2>4 DEF AddMedium, Pass, FirstBy, RowsOf, Placing
  <2>5. CASE AddPair BY <2>5 DEF AddPair, Pass
  <2>6. CASE AddLargest BY <1>2, <2>6 DEF AddLargest, Pass, FirstBy, Placing
  <2> QED BY <2>1, <2>2, <2>3, <2>4, <2>5, <2>6
<1> QED BY <1>1, <1>3, <1>4, OpenBinKeeps, PutIntoKeeps, PutPairKeeps

(* What depends on the bins and on the rows still to be placed alone *)
LEMMA Alike ==
  ASSUME PackInv, UNCHANGED <<Given, todo, bins, spill>>
  PROVE  /\ UNCHANGED <<multiple, lens>> /\ Packable' = Packable /\ Whole(bins)' /\ Filled(bins)'
         /\ Whole(spill)' /\ EachOnce' /\ UNCHANGED Len(bins)
BY SameRows DEF PackInv, Whole, Filled, Once, Within, EachOnce, In

(* A packer goes from one pass to the next, ends or refuses.               *)
LEMMA PhaseKeeps ==
  ASSUME PackInv, LargeDone \/ MediumDone \/ PairsDone \/ TooLong \/ RowsDone
  PROVE  PackInv'
<1>1. /\ UNCHANGED <<Given, todo, bins, spill>> /\ stage \in Placing
      /\ \/ stage # "fit" /\ stage' \in {"medium", "pairs", "greedy"} /\ stage # "concat"
         \/ stage' = "refused"
         \/ stage' = "counted" /\ todo = {}
  BY DEF LargeDone, MediumDone, PairsDone, TooLong, RowsDone, GoTo, Placing
<1>2. stage # "spill" /\ stage' # "spill" BY <1>1 DEF Placing
<1> QED BY <1>1, <1>2, Alike DEF PackInv, Placing, ReadyToDeal, PackStages

(* The last pass of the modified packer starts with an empty bin.          *)
LEMMA GreedyDoneKeeps == ASSUME PackInv, GreedyDone PROVE PackInv'
<1>1. /\ UNCHANGED <<Given, todo, bins>> /\ stage = "greedy" /\ stage' = "spill"
      /\ spill' = <<EmptyBin>>
  BY DEF GreedyDone, GoTo
<1>2. /\ UNCHANGED <<multiple, lens>> /\ Packable' = Packable /\ Bin' = Bin
      /\ Whole(bins)' /\ Filled(bins)'
  BY <1>1, SameRows DEF PackInv, Whole, Filled, Once, Within
<1>3. \A r : ~In(spill, r) /\ ~In(spill', r) BY <1>1, BinEmpty DEF PackInv, In
<1>4. Whole(spill)'
  <2>1. spill' \in Seq(Bin) /\ Within(spill') /\ Once(spill')
    BY <1>1, BinEmpty, PackingConstants DEF Within, Once
  <2> QED BY <1>2, <2>1 DEF Whole, Within, Once
<1>5. \A r : (In(bins, r)' <=> In(bins, r)) /\ ~In(spill, r) /\ ~In(spill, r)'
  BY <1>1, <1>3 DEF In
<1>6. EachOnce' BY <1>1, <1>2, <1>4, <1>5 DEF PackInv, EachOnce, Whole
<1> QED BY <1>1, <1>2, <1>4, <1>6 DEF PackInv, ReadyToDeal, PackStages
(* Named so that the facts about it can be cited without expanding it *)
Cat(v, w) == v \o w
Splice(q, n, c) == SubSeq(q, 1, n) \o <<c>> \o SubSeq(q, n + 1, Len(q))

(* The elements of two sequences, one after the other.                     *)
LEMMA Concatenated ==
  ASSUME NEW S, NEW v \in Seq(S), NEW w \in Seq(S)
  PROVE  /\ Cat(v, w) \in Seq(S) /\ Len(Cat(v, w)) = Len(v) + Len(w)
         /\ \A i \in 1 .. Len(v) : Cat(v, w)[i] = v[i]
         /\ \A i \in 1 .. Len(w) : Cat(v, w)[Len(v) + i] = w[i]
<1>1. Cat(v, w) \in Seq(S) /\ Len(Cat(v, w)) = Len(v) + Len(w) BY DEF Cat
<1>2. \A i \in 1 .. Len(v) : Cat(v, w)[i] = v[i] BY DEF Cat
<1>3. \A i \in 1 .. Len(w) : Cat(v, w)[Len(v) + i] = w[i] BY DEF Cat
<1> QED BY <1>1, <1>2, <1>3

(* The elements of a sequence with another in between.                     *)
LEMMA Spliced ==
  ASSUME NEW S, NEW q \in Seq(S), NEW n \in 0 .. Len(q), NEW c \in S
  PROVE  /\ Splice(q, n, c) \in Seq(S) /\ Len(Splice(q, n, c)) = Len(q) + 1
         /\ Splice(q, n, c)[n + 1] = c
         /\ \A i \in 1 .. n : Splice(q, n, c)[i] = q[i]
         /\ \A k \in n + 2 .. Len(q) + 1 : Splice(q, n, c)[k] = q[k - 1]
<1>0. PICK x, y, e, w, d, l :
        /\ x = SubSeq(q, 1, n) /\ y = SubSeq(q, n + 1, Len(q)) /\ e = <<c>>
        /\ w = Cat(x, e) /\ d = Splice(q, n, c) /\ l = Len(q)
  BY Zenon
<1>1. Len(q) \in Nat /\ n \in Nat /\ n <= Len(q) OBVIOUS
<1>2. x \in Seq(S) /\ Len(x) = n /\ \A i \in 1 .. n : x[i] = q[i] BY <1>0, <1>1
<1>3. y \in Seq(S) /\ Len(y) = Len(q) - n /\ \A i \in 1 .. (Len(q) - n) : y[i] = q[i + n]
  BY <1>0, <1>1
<1>4. e \in Seq(S) /\ Len(e) = 1 /\ e[1] = c BY <1>0
<1>5. /\ w \in Seq(S) /\ Len(w) = Len(x) + Len(e)
      /\ \A i \in 1 .. Len(x) : w[i] = x[i]
      /\ \A i \in 1 .. Len(e) : w[Len(x) + i] = e[i]
  <2>1. w = Cat(x, e) BY <1>0
  <2>2. x \in Seq(S) /\ e \in Seq(S) BY <1>2, <1>4
  <2>3. Cat(x, e) \in Seq(S) /\ Len(Cat(x, e)) = Len(x) + Len(e)
    BY <2>2, Concatenated
  <2>4. \A i \in 1 .. Len(x) : Cat(x, e)[i] = x[i] BY <2>2, Concatenated
  <2>5. \A i \in 1 .. Len(e) : Cat(x, e)[Len(x) + i] = e[i] BY <2>2, Concatenated
  <2> QED BY <2>1, <2>3, <2>4, <2>5
<1>7. /\ d \in Seq(S) /\ Len(d) = Len(w) + Len(y)
      /\ \A i \in 1 .. Len(w) : d[i] = w[i]
      /\ \A i \in 1 .. Len(y) : d[Len(w) + i] = y[i]
  <2>1. d = Cat(w, y) BY <1>0 DEF Splice, Cat
  <2>2. w \in Seq(S) /\ y \in Seq(S) BY <1>3, <1>5
  <2>3. Cat(w, y) \in Seq(S) /\ Len(Cat(w, y)) = Len(w) + Len(y)
    BY <2>2, Concatenated
  <2>4. \A i \in 1 .. Len(w) : Cat(w, y)[i] = w[i] BY <2>2, Concatenated
  <2>5. \A i \in 1 .. Len(y) : Cat(w, y)[Len(w) + i] = y[i] BY <2>2, Concatenated
  <2> QED BY <2>1, <2>3, <2>4, <2>5
<1>8. /\ l = Len(q) /\ l \in Nat /\ n \in Nat /\ n <= l /\ Len(w) = n + 1 /\ Len(y) = l - n
      /\ Len(x) = n /\ Len(e) = 1 /\ Len(d) = l + 1 /\ d = Splice(q, n, c)
  BY <1>0, <1>1, <1>2, <1>3, <1>4, <1>5, <1>7
<1>9. d[n + 1] = c
  <2>1. 1 \in 1 .. Len(e) /\ n + 1 \in 1 .. Len(w) BY <1>8
  <2>2. w[n + 1] = c BY <1>4, <1>5, <1>8, <2>1
  <2> QED BY <1>7, <2>1, <2>2
<1>10. ASSUME NEW i \in 1 .. n PROVE d[i] = q[i]
  <2>1. i \in 1 .. Len(x) /\ i \in 1 .. Len(w) BY <1>8
  <2>2. w[i] = q[i] BY <1>2, <1>5, <2>1
  <2> QED BY <1>7, <2>1, <2>2
<1>11. ASSUME NEW k \in n + 2 .. l + 1 PROVE d[k] = q[k - 1]
  <2>0. PICK j : j = k - (n + 1) OBVIOUS
  <2>1. j \in 1 .. Len(y) /\ j \in 1 .. (l - n) /\ j + n = k - 1 /\ Len(w) + j = k
    BY <1>8, <2>0
  <2>2. y[j] = q[k - 1] BY <1>3, <1>8, <2>1, Zenon
  <2>3. d[k] = y[j] BY <1>7, <2>1, Zenon
  <2> QED BY <2>2, <2>3
<1> QED BY <1>7, <1>8, <1>9, <1>10, <1>11

(* A bin goes back among the others by its load, wherever that is.         *)
LEMMA BackIn ==
  ASSUME NEW bs, Whole(bs), Filled(bs), NEW c \in Bin, Simple(c), c.load <= Capacity,
         c.rows # <<>>, \A q : HasRow(c, q) => ~In(bs, q), PutBack(c, bs)
  PROVE  /\ Whole(spill') /\ Filled(spill') /\ spill' # <<>>
         /\ \A q : In(spill', q) <=> In(bs, q) \/ HasRow(c, q)
<1>0. PICK n \in 0 .. Len(bs) : spill' = Splice(bs, n, c) BY Zenon DEF PutBack, Splice
<1>1. bs \in Seq(Bin) /\ Len(bs) \in Nat BY DEF Whole
<1>2. PICK ds : ds = Splice(bs, n, c) OBVIOUS
<1>3. /\ ds \in Seq(Bin) /\ Len(ds) = Len(bs) + 1 /\ ds[n + 1] = c
      /\ \A i \in 1 .. n : ds[i] = bs[i]
      /\ \A i \in n + 2 .. Len(bs) + 1 : ds[i] = bs[i - 1]
  <2>1. bs \in Seq(Bin) /\ n \in 0 .. Len(bs) /\ c \in Bin BY <1>1
  <2>2. ds \in Seq(Bin) /\ Len(ds) = Len(bs) + 1 BY <1>2, <2>1, Spliced
  <2>3. ds[n + 1] = c BY <1>2, <2>1, Spliced
  <2>4. \A i \in 1 .. n : ds[i] = bs[i] BY <1>2, <2>1, Spliced
  <2>5. \A i \in n + 2 .. Len(bs) + 1 : ds[i] = bs[i - 1] BY <1>2, <2>1, Spliced
  <2> QED BY <2>2, <2>3, <2>4, <2>5
<1>4. /\ Whole(ds) /\ \A q : In(ds, q) <=> In(bs, q) \/ HasRow(c, q)
      /\ Filled(bs) /\ c.rows # <<>> => Filled(ds)
  BY <1>3, Inserted
<1>5. Len(ds) > 0 BY <1>1, <1>3
<1>6. ds # <<>> BY <1>3, <1>5, SeqShape
<1> QED BY <1>0, <1>2, <1>4, <1>6

(* The last pass of the modified packer puts a row into the emptiest bin,  *)
(* or opens another.                                                       *)
LEMMA AddSpilledKeeps == ASSUME PackInv, AddSpilled PROVE PackInv'
<1>1. UNCHANGED <<Given, bins, stage>> /\ stage = "spill" /\ spill # <<>> /\ Whole(spill)
  BY DEF AddSpilled, PackInv
<1>2. PICK r \in todo :
        /\ todo' = todo \ {r}
        /\ IF Fits(spill[1], r) THEN PutBack(With(spill[1], r), Tail(spill))
                                ELSE PutBack(With(EmptyBin, r), spill)
  BY DEF AddSpilled, FirstBy
<1>3. r \in Packable /\ lens[r] \in Nat /\ lens[r] <= Capacity /\ ~In(bins, r) /\ ~In(spill, r)
  BY <1>1, Unplaced DEF PackInv, Packable
<1>4. /\ Whole(spill') /\ Filled(spill') /\ spill' # <<>>
      /\ \A q : In(spill', q) <=> In(spill, q) \/ q = r
  <2>1. CASE Fits(spill[1], r)
    <3> PICK c, t : c = With(spill[1], r) /\ t = Tail(spill) BY Zenon
    <3>1. /\ Whole(t) /\ spill[1] \in Bin /\ Simple(spill[1])
          /\ \A q : In(spill, q) <=> HasRow(spill[1], q) \/ In(t, q)
          /\ \A q : ~(HasRow(spill[1], q) /\ In(t, q))
          /\ Filled(spill) => Filled(t)
      BY <1>1, Rest
    <3>2. Filled(t)
      <4>1. CASE spill = <<EmptyBin>>
        <5>1. t = <<>> BY <4>1
        <5> QED BY <5>1 DEF Filled
      <4> QED BY <1>1, <3>1, <4>1 DEF PackInv
    <3>3. ~HasRow(spill[1], r) BY <1>3, <3>1
    <3>4. /\ c \in Bin /\ c.rows # <<>> /\ c.load <= Capacity /\ Simple(c)
          /\ \A q : HasRow(c, q) <=> HasRow(spill[1], q) \/ q = r
      BY <1>3, <2>1, <3>1, <3>3, BinWith DEF PackInv, Fits
    <3>5. \A q : HasRow(c, q) => ~In(t, q) BY <1>3, <3>1, <3>4
    <3>6. PutBack(c, t) BY <1>2, <2>1
    <3>7. /\ Whole(spill') /\ Filled(spill') /\ spill' # <<>>
          /\ \A q : In(spill', q) <=> In(t, q) \/ HasRow(c, q)
      BY <3>1, <3>2, <3>4, <3>5, <3>6, BackIn
    <3> QED BY <3>1, <3>4, <3>7
  <2>2. CASE ~Fits(spill[1], r)
    <3> PICK c : c = With(EmptyBin, r) OBVIOUS
    <3>1. /\ c \in Bin /\ c.rows # <<>> /\ Simple(c) /\ c.load = 0 + lens[r]
          /\ \A q : HasRow(c, q) <=> q = r
      BY <1>3, BinWith, BinEmpty DEF PackInv
    <3>2. c.load <= Capacity BY <1>3, <3>1
    <3>3. Filled(spill)
      <4>1. spill # <<EmptyBin>> BY <1>3, <2>2, BinEmpty, PackingConstants DEF Fits
      <4> QED BY <1>1, <4>1 DEF PackInv
    <3>4. PutBack(c, spill) BY <1>2, <2>2
    <3>5. /\ Whole(spill') /\ Filled(spill') /\ spill' # <<>>
          /\ \A q : In(spill', q) <=> In(spill, q) \/ HasRow(c, q)
      BY <1>1, <1>3, <3>1, <3>2, <3>3, <3>4, BackIn
    <3> QED BY <3>1, <3>5
  <2> QED BY <2>1, <2>2
<1>5. /\ UNCHANGED <<multiple, lens>> /\ Packable' = Packable /\ Bin' = Bin
      /\ Whole(bins)' /\ Filled(bins)' /\ Whole(spill)' /\ Filled(spill)'
  BY <1>1, <1>4, SameRows DEF PackInv, Whole, Filled, Once, Within
<1>6. \A q : (In(bins, q)' <=> In(bins, q)) /\ (In(spill, q)' <=> In(spill, q) \/ q = r)
  BY <1>1, <1>4, Zenon DEF In
<1>7. EachOnce' BY <1>2, <1>3, <1>5, <1>6, Zenon DEF PackInv, EachOnce, Whole
<1> QED BY <1>1, <1>2, <1>4, <1>5, <1>7 DEF PackInv, ReadyToDeal, PackStages

(* The bins of the last pass are added to the others, if there are any     *)
(* rows in them.                                                           *)
LEMMA SpillDoneKeeps == ASSUME PackInv, SpillDone PROVE PackInv'
<1>1. /\ UNCHANGED <<Given, todo>> /\ stage = "spill" /\ todo = {}
      /\ stage' = "counted" /\ spill' = <<>>
      /\ bins' = IF spill[1].rows = <<>> THEN bins ELSE bins \o spill
  BY DEF SpillDone
<1>2. UNCHANGED <<multiple, lens>> /\ Packable' = Packable /\ Bin' = Bin BY <1>1, SameRows
<1>3. \A q : q \in DOMAIN lens => ~(In(bins, q) /\ In(spill, q)) /\ (In(bins, q) \/ In(spill, q))
  BY <1>1 DEF PackInv, EachOnce
<1>4. Whole(bins') /\ Filled(bins') /\ \A q : In(bins', q) <=> In(bins, q) \/ In(spill, q)
  <2>1. CASE spill = <<EmptyBin>>
    <3>1. bins' = bins BY <1>1, <2>1, BinEmpty
    <3>2. \A q : ~In(spill, q) BY <2>1, BinEmpty DEF In
    <3> QED BY <3>1, <3>2 DEF PackInv
  <2>2. CASE spill # <<>> /\ Filled(spill)
    <3>1. 1 \in DOMAIN spill BY <2>2 DEF PackInv, Whole
    <3>2. bins' = bins \o spill BY <1>1, <2>2, <3>1 DEF Filled
    <3>3. Whole(bins) /\ Whole(spill) /\ Filled(bins) BY DEF PackInv
    <3>4. \A q : ~(In(bins, q) /\ In(spill, q))
      <4>1. \A q : In(bins, q) => q \in DOMAIN lens
        <5>1. \A b \in DOMAIN bins : bins[b].rows \in Seq(Packable)
          <6>1. bins \in Seq(Bin) BY <3>3 DEF Whole
          <6>2. \A b \in DOMAIN bins : bins[b] \in Bin BY <6>1
          <6> QED BY <6>2 DEF Bin, RowsAndLoad
        <5>2. \A b \in DOMAIN bins : \A k \in DOMAIN bins[b].rows : bins[b].rows[k] \in Packable
          BY <5>1
        <5> QED BY <5>2 DEF In, Packable
      <4> QED BY <1>3, <4>1
    <3> QED BY <2>2, <3>2, <3>3, <3>4, BinsJoined
  <2> QED BY <1>1, <2>1, <2>2 DEF PackInv
<1>5. Whole(bins)' /\ Filled(bins)' /\ Whole(spill)'
  BY <1>1, <1>2, <1>4 DEF Whole, Filled, Once, Within
<1>6. \A q : (In(bins, q)' <=> In(bins, q) \/ In(spill, q)) /\ ~In(spill, q)'
  BY <1>1, <1>4 DEF In
<1>7. EachOnce' BY <1>1, <1>2, <1>3, <1>5, <1>6 DEF EachOnce, Whole
<1> QED BY <1>1, <1>2, <1>5, <1>7 DEF PackInv, ReadyToDeal, PackStages
-----------------------------------------------------------------------------
(* The number of bins                                                      *)

(* A number of bins that need not change is a multiple of the shards, and  *)
(* enough for all of them.                                                 *)
LEMMA TargetMet ==
  ASSUME NEW n \in Nat, multiple \in Nat \ {0}, Target(n) = n
  PROVE  n % multiple = 0 /\ n >= multiple
<1>0. PICK least, rest : /\ least = (IF n < multiple THEN multiple ELSE n)
                         /\ rest = least % multiple
  OBVIOUS
<1>1. least \in Nat /\ least >= n /\ least >= multiple BY <1>0
<1>2. rest \in Nat /\ rest < multiple BY <1>0, <1>1
<1>3. n = IF rest = 0 THEN least ELSE least + (multiple - rest) BY <1>0 DEF Target
<1>4. rest = 0 /\ least = n BY <1>1, <1>2, <1>3
<1> QED BY <1>0, <1>1, <1>4

(* The number of bins is found right, found short or found impossible.     *)
LEMMA CountKeeps == ASSUME PackInv, CountBins \/ AdjustDone PROVE PackInv'
<1>1. UNCHANGED <<Given, todo, bins, spill>> /\ stage \in {"counted", "adjust"} /\ todo = {}
  BY DEF CountBins, AdjustDone, PackInv
<1>2. /\ stage' \in {"packed", "refused", "adjust"}
      /\ stage' = "packed" => Target(Len(bins)) = Len(bins)
      /\ stage' = "adjust" => DOMAIN had' = DOMAIN bins
  BY DEF CountBins, AdjustDone
<1>3. Len(bins) \in Nat /\ multiple \in Nat \ {0} BY SeqShape DEF PackInv, Whole
<1>4. stage' = "packed" => Len(bins) % multiple = 0 /\ Len(bins) >= multiple
  BY <1>2, <1>3, TargetMet
<1>5. /\ UNCHANGED <<multiple, lens>> /\ Packable' = Packable /\ Whole(bins)' /\ Filled(bins)'
      /\ Whole(spill)' /\ EachOnce' /\ UNCHANGED Len(bins)
  BY <1>1, Alike
<1>6. spill' = <<>> /\ stage \notin {"spill", "packed"} BY <1>1 DEF PackInv
<1>7. ReadyToDeal' BY <1>1, <1>4, <1>5, <1>6 DEF ReadyToDeal, Filled
<1> QED BY <1>1, <1>2, <1>5, <1>6, <1>7 DEF PackInv, PackStages

(* _adjust_bin_count moves the last row of a bin to a bin of its own.      *)
LEMMA SplitKeeps == ASSUME PackInv, SplitBin PROVE PackInv'
<1>1. UNCHANGED <<Given, had, stage, todo, spill>> /\ stage = "adjust" /\ todo = {} /\ spill = <<>>
  BY DEF SplitBin, PackInv
<1>2. PICK b \in DOMAIN bins : Len(bins[b].rows) > 1 /\ MoveLast(b)
  BY <1>1 DEF SplitBin, Source, PackInv
<1>3. PICK r, c, e, mid :
        /\ r = bins[b].rows[Len(bins[b].rows)] /\ e = With(EmptyBin, r)
        /\ c = [rows |-> SubSeq(bins[b].rows, 1, Len(bins[b].rows) - 1),
                load |-> bins[b].load - lens[r]]
        /\ mid = [bins EXCEPT ![b] = c]
  BY Zenon
<1>4. bins' = Append(mid, e) BY <1>2, <1>3 DEF MoveLast
<1>5. Whole(bins) /\ Filled(bins) /\ lens \in Seq(Nat) BY DEF PackInv
<1>6. bins[b] \in Bin /\ Simple(bins[b]) /\ bins[b].load <= Capacity BY Unplaced
<1>7. /\ r \in Packable /\ HasRow(bins[b], r) /\ c \in Bin /\ c.rows # <<>> /\ Simple(c)
      /\ c.load <= Capacity /\ \A q : HasRow(c, q) <=> HasRow(bins[b], q) /\ q # r
  BY <1>2, <1>3, <1>5, <1>6, Shortened, Zenon
<1>8. /\ Whole(mid) /\ Filled(mid)
      /\ \A q : In(mid, q) <=> (In(bins, q) /\ ~HasRow(bins[b], q)) \/ HasRow(c, q)
  <2>1. \A q : HasRow(c, q) => HasRow(bins[b], q) \/ ~In(bins, q) BY <1>7
  <2>2. mid = [bins EXCEPT ![b] = c] BY <1>3
  <2>3. b \in DOMAIN bins BY <1>2
  <2> QED BY <1>5, <1>7, <2>1, <2>2, <2>3, Replaced, Zenon
<1>9. /\ e \in Bin /\ e.rows # <<>> /\ Simple(e) /\ e.load = 0 + lens[r]
      /\ \A q : HasRow(e, q) <=> q = r
  <2>1. e = With(EmptyBin, r) BY <1>3
  <2>2. /\ With(EmptyBin, r) \in Bin /\ With(EmptyBin, r).rows # <<>>
        /\ With(EmptyBin, r).load = EmptyBin.load + lens[r]
        /\ \A q : HasRow(With(EmptyBin, r), q) <=> HasRow(EmptyBin, q) \/ q = r
        /\ Simple(EmptyBin) /\ ~HasRow(EmptyBin, r) => Simple(With(EmptyBin, r))
    BY <1>5, <1>7, BinWith, BinEmpty
  <2> QED BY <2>1, <2>2, BinEmpty
<1>10. e.load <= Capacity
  <2>1. lens[r] \in Nat /\ lens[r] <= Capacity BY <1>5, <1>7 DEF Packable
  <2> QED BY <1>9, <2>1
<1>11. Whole(bins') /\ Filled(bins') /\ \A q : In(bins', q) <=> In(mid, q) \/ HasRow(e, q)
  <2>1. \A q : HasRow(e, q) => ~In(mid, q) BY <1>7, <1>8, <1>9
  <2> QED BY <1>4, <1>8, <1>9, <1>10, <2>1, Appended
<1>12. \A q : In(bins', q) <=> In(bins, q)
  <2>1. \A q : HasRow(bins[b], q) => In(bins, q) BY <1>2, InSome
  <2> QED BY <1>7, <1>8, <1>9, <1>11, <2>1
<1>13. /\ UNCHANGED <<multiple, lens>> /\ Packable' = Packable /\ Bin' = Bin
       /\ Whole(bins)' /\ Filled(bins)' /\ Whole(spill)'
  BY <1>1, <1>11, SameRows DEF PackInv, Whole, Filled, Once, Within
<1>14. \A q : (In(bins, q)' <=> In(bins, q)) /\ (In(spill, q)' <=> In(spill, q))
  BY <1>1, <1>12 DEF In
<1>15. EachOnce' BY <1>1, <1>13, <1>14 DEF PackInv, EachOnce, Whole
<1>16. DOMAIN bins \subseteq DOMAIN bins'
  <2>1. mid \in Seq(Bin) /\ Len(mid) = Len(bins) /\ bins \in Seq(Bin)
    BY <1>2, <1>3, <1>5, <1>7 DEF Whole
  <2>2. DOMAIN bins = 1 .. Len(bins) /\ Len(bins) \in Nat BY <2>1, SeqShape
  <2>3. bins' \in Seq(Bin) /\ Len(bins') = Len(bins) + 1 BY <1>4, <1>9, <2>1
  <2>4. DOMAIN bins' = 1 .. Len(bins') BY <2>3, SeqShape
  <2> QED BY <2>2, <2>3, <2>4
<1> QED BY <1>1, <1>13, <1>15, <1>16 DEF PackInv, ReadyToDeal

-----------------------------------------------------------------------------
(* Nothing placed yet                                                      *)

(* No bins, no rows.                                                       *)
LEMMA NoBins == \A S : <<>> \in Seq(S) /\ Once(<<>>) /\ Within(<<>>) /\ Filled(<<>>)
BY DEF Once, Within, Filled

(* A packer starts with nothing placed, and with rows that all fit in if   *)
(* it checks them first.                                                   *)
LEMMA StartKeeps ==
  ASSUME ClearPacker \/ \E a \in Algorithms, m \in Nat \ {0}, l \in Seq(Nat) : StartPack(a, m, l)
  PROVE  PackInv'
<1>1. /\ multiple' \in Nat \ {0} /\ lens' \in Seq(Nat) /\ todo' = DOMAIN lens'
      /\ bins' = <<>> /\ spill' = <<>>
      /\ stage' \in {"idle", "refused", "concat", "fit", "large"}
      /\ stage' \in {"concat", "large"} => \A i \in DOMAIN lens' : lens'[i] <= Capacity
  <2>1. CASE ClearPacker BY <2>1 DEF ClearPacker
  <2>2. ASSUME NEW a \in Algorithms, NEW m \in Nat \ {0}, NEW l \in Seq(Nat), StartPack(a, m, l)
        PROVE  <1>1!:
    <3>1. /\ multiple' = m /\ lens' = l /\ todo' = DOMAIN l /\ bins' = <<>> /\ spill' = <<>>
          /\ \/ stage' = "refused"
             \/ /\ stage' = FirstStage(a)
                /\ a \notin {"concatenative", "modified_first_fit_decreasing"} \/ \A i \in DOMAIN l : ~(l[i] > Capacity)
      BY <2>2 DEF StartPack
    <3>2. \A i \in DOMAIN l : l[i] \in Nat OBVIOUS
    <3>3. (\A i \in DOMAIN l : ~(l[i] > Capacity)) => \A i \in DOMAIN l : l[i] <= Capacity
      BY <3>2, PackingConstants
    <3>4. /\ FirstStage(a) \in {"concat", "fit", "large"}
          /\ FirstStage(a) \in {"concat", "large"}
               => a \in {"concatenative", "modified_first_fit_decreasing"}
      BY DEF FirstStage, Algorithms
    <3> QED BY <3>1, <3>3, <3>4
  <2> QED BY <2>1, <2>2
<1>2. Whole(bins)' /\ Filled(bins)' /\ Whole(spill)'
  BY <1>1, NoBins DEF Whole, Filled, Once, Within
<1>3. EachOnce' BY <1>1, <1>2 DEF EachOnce, In, Whole
<1>4. stage' \in {"concat", "large"} => todo' \subseteq Packable'
  BY <1>1 DEF Packable
<1> QED BY <1>1, <1>2, <1>3, <1>4, Zenon DEF PackInv, ReadyToDeal, PackStages
(* A step of the packer keeps all that, and the rows it was given.         *)
LEMMA PackStepKeeps ==
  ASSUME PackInv, PackStep PROVE PackInv' /\ UNCHANGED Given /\ stage # "idle"
<1>1. CASE ConcatRow \/ FitRow \/ StartLarge \/ AddMedium \/ AddPair \/ AddLargest
  BY <1>1, RowStepKeeps, Zenon DEF ConcatRow, FitRow, StartLarge, AddMedium, AddPair, AddLargest, Pass
<1>2. CASE LargeDone \/ MediumDone \/ PairsDone \/ TooLong \/ RowsDone
  BY <1>2, PhaseKeeps DEF LargeDone, MediumDone, PairsDone, TooLong, RowsDone
<1>3. CASE GreedyDone BY <1>3, GreedyDoneKeeps DEF GreedyDone
<1>4. CASE AddSpilled BY <1>4, AddSpilledKeeps DEF AddSpilled
<1>5. CASE SpillDone BY <1>5, SpillDoneKeeps DEF SpillDone
<1>6. CASE CountBins \/ AdjustDone BY <1>6, CountKeeps DEF CountBins, AdjustDone
<1>7. CASE SplitBin BY <1>7, SplitKeeps DEF SplitBin
<1> QED BY <1>1, <1>2, <1>3, <1>4, <1>5, <1>6, <1>7 DEF PackStep

(* As long as the packer does nothing, nothing changes.                    *)
LEMMA PackStays == ASSUME PackInv, UNCHANGED packVars PROVE PackInv'
<1>1. UNCHANGED <<Given, todo, bins, spill, stage, had, multiple, lens>> BY DEF packVars, Given
<1> QED BY <1>1, Alike DEF PackInv, ReadyToDeal

(* The idle packer has packed nothing.                                     *)
LEMMA IdlePacks == PackIdle => PackInv
BY NoBins DEF PackIdle, PackInv, Whole, EachOnce, In, ReadyToDeal, PackStages

(* SequencePacker.pack loses no row of a chunk and packs none twice, lets  *)
(* no bin exceed its capacity, and hands over bins without an empty one    *)
(* in a number the data-parallel shards can share evenly: whichever packer *)
(* get_packer chose, and after _adjust_bin_count has split bins.           *)
THEOREM Packed == PackSpec => []PackedWhole
<1>1. PackIdle => PackInv BY IdlePacks
<1>2. PackInv /\ [PackNext]_packVars => PackInv'
  BY StartKeeps, PackStepKeeps, PackStays DEF PackNext
<1>3. PackInv => PackedWhole BY DEF PackInv, PackedWhole, Whole
<1> QED BY <1>1, <1>2, <1>3, PTL DEF PackSpec

-----------------------------------------------------------------------------
(* What the packer may refuse                                              *)

(* No bin is empty and none shares a row with another: there are not more  *)
(* bins than rows.                                                         *)
LEMMA BinsAreFew ==
  ASSUME NEW bs, Whole(bs), Filled(bs), lens \in Seq(Nat)
  PROVE  Len(bs) <= Len(lens)
<1> DEFINE f == [b \in 1 .. Len(bs) |-> bs[b].rows[1]]
<1>1. bs \in Seq(Bin) /\ Len(bs) \in Nat /\ DOMAIN bs = 1 .. Len(bs) BY SeqShape DEF Whole
<1>2. Len(lens) \in Nat /\ DOMAIN lens = 1 .. Len(lens) OBVIOUS
<1>3. ASSUME NEW b \in 1 .. Len(bs)
      PROVE  1 \in DOMAIN bs[b].rows /\ bs[b].rows[1] \in 1 .. Len(lens)
  <2>1. bs[b] \in Bin BY <1>1
  <2>2. bs[b].rows \in Seq(Packable) BY <2>1 DEF Bin, RowsAndLoad
  <2>3. bs[b].rows # <<>> BY <1>1 DEF Filled
  <2>4. 1 \in DOMAIN bs[b].rows BY <2>2, <2>3
  <2>5. bs[b].rows[1] \in Packable BY <2>2, <2>4
  <2> QED BY <1>2, <2>4, <2>5 DEF Packable
<1>4. \A b, c \in 1 .. Len(bs) : f[b] = f[c] => b = c BY <1>1, <1>3, Zenon DEF Whole, Once
<1>5. f \in [1 .. Len(bs) -> 1 .. Len(lens)] BY <1>3
<1> HIDE DEF f
<1>6. f \in Injection(1 .. Len(bs), 1 .. Len(lens)) BY <1>4, <1>5 DEF Injection, IsInjective
<1>7. \A n \in Nat : IsFiniteSet(1 .. n) /\ Cardinality(1 .. n) = n BY FS_Interval
<1> QED BY <1>1, <1>2, <1>6, <1>7, FS_Injection

(* Rows that the shards can share evenly are enough for the bins that the  *)
(* shards can share evenly.                                                *)
LEMMA TargetInReach ==
  ASSUME NEW n \in Nat, NEW size \in Nat, multiple \in Nat \ {0},
         n <= size, multiple <= size, size % multiple = 0
  PROVE  Target(n) \in Nat /\ Target(n) <= size
<1> PICK m : m = multiple OBVIOUS
<1> DEFINE least == IF n < m THEN m ELSE n
           q == least \div m
           p == size \div m
<1>1. m \in Nat \ {0} /\ least \in Nat /\ least <= size OBVIOUS
<1> HIDE DEF least
<1>2. q \in Nat /\ least % m \in 0 .. m - 1 /\ least = q * m + (least % m) BY <1>1
<1>3. p \in Nat /\ size = p * m
  <2>1. size % m = 0 OBVIOUS
  <2>2. size = p * m + (size % m) /\ p \in Nat BY <1>1
  <2>3. p * m \in Nat BY <1>1, <2>2
  <2> QED BY <2>1, <2>2, <2>3
<1>4. Target(n) = IF least % m = 0 THEN least ELSE least + (m - (least % m)) BY DEF Target, least
<1> HIDE DEF q, p
<1>5. CASE least % m = 0 BY <1>1, <1>4, <1>5
<1>6. CASE least % m # 0
  <2>1. q * m \in Nat /\ p * m \in Nat /\ (q + 1) * m = q * m + m BY <1>1, <1>2, <1>3
  <2>2. Target(n) = (q + 1) * m BY <1>1, <1>2, <1>4, <1>6, <2>1
  <2>3. q < p
    <3> SUFFICES ASSUME p <= q PROVE FALSE BY <1>2, <1>3
    <3>1. q - p \in Nat /\ (q - p) * m \in Nat /\ q * m = p * m + (q - p) * m BY <1>1, <1>2, <1>3
    <3> QED BY <1>1, <1>2, <1>3, <1>6, <2>1, <3>1
  <2>4. p - (q + 1) \in Nat /\ p * m = (q + 1) * m + (p - (q + 1)) * m /\ (p - (q + 1)) * m \in Nat
    BY <1>1, <1>2, <1>3, <2>3
  <2> QED BY <1>3, <2>1, <2>2, <2>4
<1> QED BY <1>5, <1>6

(* The packer refuses for a row that is too long or empty, or for rows     *)
(* that cannot be shared evenly in the first place.                        *)
RefusedRightly ==
  stage = "refused" =>
    \/ \E i \in DOMAIN lens : lens[i] > Capacity \/ lens[i] = 0
    \/ ~(multiple <= Len(lens) /\ Len(lens) % multiple = 0)

(* It refuses when it starts, when it comes to a row, or when it has no    *)
(* row left for the bins that are missing.                                 *)
LEMMA RefusesRightly ==
  ASSUME PackInv, RefusedRightly,
         PackStep \/ ClearPacker \/ \E a \in Algorithms, m \in Nat \ {0}, l \in Seq(Nat) : StartPack(a, m, l)
  PROVE  RefusedRightly'
<1>1. CASE ClearPacker BY <1>1 DEF ClearPacker, RefusedRightly
<1>2. ASSUME NEW a \in Algorithms, NEW m \in Nat \ {0}, NEW l \in Seq(Nat), StartPack(a, m, l)
      PROVE  RefusedRightly'
  <2>1. FirstStage(a) # "refused" BY DEF FirstStage, Algorithms
  <2> QED BY <1>2, <2>1 DEF StartPack, RefusedRightly
<1>3. CASE TooLong
  <2>1. todo \subseteq DOMAIN lens /\ UNCHANGED Given BY <1>3 DEF PackInv, TooLong
  <2> QED BY <1>3, <2>1 DEF TooLong, RefusedRightly, FitOrder, Given
<1>4. CASE CountBins
  <2>1. UNCHANGED Given /\ (stage' = "refused" => Len(lens) < Target(Len(bins))) BY <1>4 DEF CountBins
  <2>2. /\ Whole(bins) /\ Filled(bins) /\ lens \in Seq(Nat) /\ multiple \in Nat \ {0} BY DEF PackInv
  <2>3. Len(bins) \in Nat /\ Len(lens) \in Nat /\ Len(bins) <= Len(lens) BY <2>2, BinsAreFew, SeqShape DEF Whole
  <2>4. multiple <= Len(lens) /\ Len(lens) % multiple = 0
          => Target(Len(bins)) \in Nat /\ Target(Len(bins)) <= Len(lens)
    BY <2>2, <2>3, TargetInReach
  <2>5. UNCHANGED <<multiple, lens>> BY <2>1 DEF Given
  <2> QED BY <2>1, <2>3, <2>4, <2>5 DEF RefusedRightly
<1>5. CASE PackStep /\ ~TooLong /\ ~CountBins
  <2>1. stage' # "refused"
    BY <1>5 DEF PackStep, ConcatRow, FitRow, RowsDone, StartLarge, LargeDone, AddMedium, MediumDone, AddPair, PairsDone,
                AddLargest, GreedyDone, AddSpilled, SpillDone, SplitBin, AdjustDone, GoTo, Pass
  <2> QED BY <2>1 DEF RefusedRightly
<1> QED BY <1>1, <1>2, <1>3, <1>4, <1>5

-----------------------------------------------------------------------------
(* The workers of a policy and their coordinates                           *)

GoodCall ==
  /\ call.op \in DOMAIN Operations /\ call.batching \in {"plain", "dynamic", "packed"}
  /\ call.alg \in Algorithms /\ call.gbs \in Nat \ {0} /\ call.mbs \in Nat \ {0}
  /\ call.axes \in [Range(Axes) -> Nat \ {0}]

PP == Extent("pipeline_parallel")
CP == Extent("context_parallel")
TP == Extent("tensor_parallel")

(* The axes, and that each has an extent.                                  *)
LEMMA AxesAre ==
  /\ Len(Axes) = 4 /\ DOMAIN Axes = 1 .. 4
  /\ Axes[1] = "pipeline_parallel" /\ Axes[2] = "data_parallel"
  /\ Axes[3] = "context_parallel" /\ Axes[4] = "tensor_parallel"
  /\ Range(Axes) = {"pipeline_parallel", "data_parallel", "context_parallel", "tensor_parallel"}
<1>1. /\ Len(Axes) = 4 /\ DOMAIN Axes = 1 .. 4
      /\ Axes[1] = "pipeline_parallel" /\ Axes[2] = "data_parallel"
      /\ Axes[3] = "context_parallel" /\ Axes[4] = "tensor_parallel"
  BY DEF Axes
<1>2. 1 .. 4 = {1, 2, 3, 4} OBVIOUS
<1>3. Range(Axes) = {Axes[k] : k \in {1, 2, 3, 4}} BY <1>1, <1>2 DEF Range
<1> QED BY <1>1, <1>3

(* Every extent is a number of workers, at least one.                      *)
LEMMA ExtentsAre ==
  ASSUME GoodCall
  PROVE  PP \in Nat \ {0} /\ DP \in Nat \ {0} /\ CP \in Nat \ {0} /\ TP \in Nat \ {0}
BY AxesAre DEF GoodCall, PP, DP, CP, TP, Extent

(* Neighbours along an axis are as far apart as there are workers within.  *)
LEMMA StridesAre ==
  ASSUME GoodCall
  PROVE  /\ Stride(4) = 1 /\ Stride(3) = TP /\ Stride(2) = CP * TP /\ Stride(1) = DP * (CP * TP)
<1> DEFINE Nests(i, f) == f = [k \in i .. Len(Axes) |-> IF k = Len(Axes) THEN 1 ELSE Extent(Axes[k + 1]) * f[k + 1]]
<1>1. \A i \in 1 .. 4 : Stride(i) = (CHOOSE f : Nests(i, f))[i] BY DEF Stride
<1>2. /\ PP \in Nat \ {0} /\ DP \in Nat \ {0} /\ CP \in Nat \ {0} /\ TP \in Nat \ {0} BY ExtentsAre
<1> PICK d, c, t : d = DP /\ c = CP /\ t = TP OBVIOUS
<1> DEFINE e(k) == IF k = 4 THEN 1 ELSE IF k = 3 THEN t ELSE IF k = 2 THEN c * t ELSE d * (c * t)
           x(k) == IF k = 1 THEN d ELSE IF k = 2 THEN c ELSE t
<1>3. \A k \in 1 .. 3 : Extent(Axes[k + 1]) = x(k)
  <2>1. SUFFICES ASSUME NEW k \in 1 .. 3 PROVE Extent(Axes[k + 1]) = x(k) OBVIOUS
  <2>2. k = 1 \/ k = 2 \/ k = 3 OBVIOUS
  <2> QED BY <2>2, AxesAre DEF DP, CP, TP
<1>4. ASSUME NEW i \in 1 .. 4 PROVE Nests(i, [k \in i .. 4 |-> e(k)])
  <2> DEFINE g == [k \in i .. 4 |-> e(k)]
  <2>1. ASSUME NEW k \in i .. 4 PROVE g[k] = IF k = 4 THEN 1 ELSE Extent(Axes[k + 1]) * g[k + 1]
    <3>1. k = 1 \/ k = 2 \/ k = 3 \/ k = 4 OBVIOUS
    <3>2. k # 4 => k + 1 \in i .. 4 /\ Extent(Axes[k + 1]) = x(k) BY <1>3, <3>1
    <3>3. k # 4 => e(k) = x(k) * e(k + 1) BY <1>2, <3>1
    <3> QED BY <3>1, <3>2, <3>3
  <2>2. g = [k \in i .. 4 |-> IF k = 4 THEN 1 ELSE Extent(Axes[k + 1]) * g[k + 1]] BY <2>1
  <2> QED BY <2>2, AxesAre, Zenon
<1>5. ASSUME NEW i \in 1 .. 4, NEW f, Nests(i, f) PROVE f[i] = e(i)
  <2>1. \A k \in i .. 4 : f[k] = IF k = 4 THEN 1 ELSE Extent(Axes[k + 1]) * f[k + 1] BY <1>5, AxesAre
  <2> HIDE DEF Nests
  <2>2. \A k \in i .. 3 : f[k] = x(k) * f[k + 1] BY <1>3, <2>1
  <2>3. f[4] = 1 BY <2>1
  <2>4. i <= 3 => f[3] = t BY <1>2, <2>2, <2>3
  <2>5. i <= 2 => f[2] = c * t BY <1>2, <2>2, <2>4
  <2>6. i <= 1 => f[1] = d * (c * t) BY <1>2, <2>2, <2>5
  <2>7. i = 1 \/ i = 2 \/ i = 3 \/ i = 4 OBVIOUS
  <2> QED BY <2>3, <2>4, <2>5, <2>6, <2>7
<1> HIDE DEF Nests
<1>6. \A i \in 1 .. 4 : Stride(i) = e(i)
  <2>1. SUFFICES ASSUME NEW i \in 1 .. 4 PROVE Stride(i) = e(i) OBVIOUS
  <2>2. \E f : Nests(i, f) BY <1>4
  <2>3. Nests(i, CHOOSE f : Nests(i, f)) BY <2>2
  <2> QED BY <1>1, <1>5, <2>3
<1> QED BY <1>6

(* A worker's coordinates are the digits of its number.                    *)
LEMMA CoordsAre ==
  ASSUME GoodCall
  PROVE  /\ Workers = 0 .. PP * (DP * (CP * TP)) - 1
         /\ \A w \in Nat : /\ CoordOf(w, "pipeline_parallel") = (w \div (DP * (CP * TP))) % PP
                           /\ RankOf(w) = (w \div (CP * TP)) % DP
                           /\ CoordOf(w, "context_parallel") = (w \div TP) % CP
                           /\ CoordOf(w, "tensor_parallel") = w % TP
<1>1. /\ PP \in Nat \ {0} /\ DP \in Nat \ {0} /\ CP \in Nat \ {0} /\ TP \in Nat \ {0} BY ExtentsAre
<1>2. /\ Stride(4) = 1 /\ Stride(3) = TP /\ Stride(2) = CP * TP /\ Stride(1) = DP * (CP * TP) BY StridesAre
<1>3. Workers = 0 .. PP * (DP * (CP * TP)) - 1
  <2> PICK n, p : n = DP * (CP * TP) /\ p = PP OBVIOUS
  <2>1. Workers = 0 .. n * p - 1 BY <1>2, AxesAre DEF Workers, PP
  <2>2. CP * TP \in Nat BY <1>1
  <2>3. n \in Nat BY <1>1, <2>2
  <2> QED BY <1>1, <2>1, <2>3
<1>4. \A k \in 1 .. 4 : (CHOOSE j \in DOMAIN Axes : Axes[j] = Axes[k]) = k
  <2>1. SUFFICES ASSUME NEW k \in 1 .. 4 PROVE (CHOOSE j \in DOMAIN Axes : Axes[j] = Axes[k]) = k OBVIOUS
  <2>2. \A i, j \in 1 .. 4 : Axes[i] = Axes[j] => i = j
    <3>1. \A i \in 1 .. 4 : i = 1 \/ i = 2 \/ i = 3 \/ i = 4 OBVIOUS
    <3> QED BY <3>1, AxesAre
  <2> QED BY <2>2, AxesAre
<1>5. \A k \in 1 .. 4 : \A w : CoordOf(w, Axes[k]) = (w \div Stride(k)) % Extent(Axes[k]) BY <1>4, Zenon DEF CoordOf
<1>6. \A w \in Nat : w \div 1 = w OBVIOUS
<1>7. \A w : CoordOf(w, "tensor_parallel") = (w \div Stride(4)) % TP
  <2>1. 4 \in 1 .. 4 OBVIOUS
  <2> QED BY <1>5, <2>1, AxesAre DEF TP
<1>8. \A w : CoordOf(w, "context_parallel") = (w \div Stride(3)) % CP
  <2>1. 3 \in 1 .. 4 OBVIOUS
  <2> QED BY <1>5, <2>1, AxesAre DEF CP
<1>9. \A w : CoordOf(w, "data_parallel") = (w \div Stride(2)) % DP
  <2>1. 2 \in 1 .. 4 OBVIOUS
  <2> QED BY <1>5, <2>1, AxesAre DEF DP
<1>10. \A w : CoordOf(w, "pipeline_parallel") = (w \div Stride(1)) % PP
  <2>1. 1 \in 1 .. 4 OBVIOUS
  <2> QED BY <1>5, <2>1, AxesAre DEF PP
<1> QED BY <1>2, <1>3, <1>6, <1>7, <1>8, <1>9, <1>10 DEF RankOf

Inside == CP * TP        \* the workers of a rank and pipeline stage
At(p, d, r) == (p * DP + d) * Inside + r

(* The worker at every place has the coordinates of its place,             *)
LEMMA WorkerAt ==
  ASSUME GoodCall, NEW p \in 0 .. PP - 1, NEW d \in 0 .. DP - 1, NEW r \in 0 .. Inside - 1
  PROVE  /\ At(p, d, r) \in Workers /\ At(p, d, r) \in Nat
         /\ CoordOf(At(p, d, r), "pipeline_parallel") = p /\ RankOf(At(p, d, r)) = d
         /\ CoordOf(At(p, d, r), "context_parallel") = r \div TP
         /\ CoordOf(At(p, d, r), "tensor_parallel") = r % TP
<1>1. /\ PP \in Nat \ {0} /\ DP \in Nat \ {0} /\ CP \in Nat \ {0} /\ TP \in Nat \ {0} BY ExtentsAre
<1> PICK np, nd, nc, nt, m : np = PP /\ nd = DP /\ nc = CP /\ nt = TP /\ m = nc * nt OBVIOUS
<1>2. m \in Nat \ {0} /\ Inside = m BY <1>1 DEF Inside
<1>3. p \in Nat /\ d \in Nat /\ r \in Nat /\ p \in 0 .. np - 1 /\ d \in 0 .. nd - 1 /\ r \in 0 .. m - 1 BY <1>1, <1>2
<1> DEFINE q == p * nd + d
           w == q * m + r
<1>4. At(p, d, r) = w BY <1>2 DEF At
<1>5. p * nd \in Nat BY <1>1, <1>3
<1>6. q \in 0 .. np * nd - 1 BY <1>1, <1>3, PlacesFit
<1>7. q \in Nat /\ np * nd \in Nat BY <1>1, <1>3, <1>5
<1>8. w \in 0 .. (np * nd) * m - 1 BY <1>2, <1>3, <1>6, <1>7, PlacesFit
<1>9. w \in Nat
  <2>1. q * m \in Nat BY <1>2, <1>7
  <2> QED BY <1>3, <2>1
<1>10. (np * nd) * m = np * (nd * m) BY <1>1, <1>2
<1>11. q % nd = d BY <1>1, <1>3, QuotientIs
<1>12. w \div m = q BY <1>2, <1>3, <1>7, QuotientIs, Zenon
<1>13. w \div (nd * m) = p
  <2>1. d * m + r \in 0 .. nd * m - 1 BY <1>1, <1>2, <1>3, PlacesFit
  <2>2. nd * m \in Nat \ {0} BY <1>1, <1>2
  <2> DEFINE s == d * m + r
  <2>3. w = p * (nd * m) + s
    <3>1. (p * nd + d) * m = (p * nd) * m + d * m BY <1>2, <1>3, <1>5
    <3>2. (p * nd) * m = p * (nd * m) BY <1>1, <1>2, <1>3
    <3>3. (p * nd) * m \in Nat /\ d * m \in Nat BY <1>2, <1>3, <1>5
    <3> QED BY <1>3, <3>1, <3>2, <3>3
  <2> HIDE DEF w
  <2>4. s \in 0 .. nd * m - 1 BY <2>1
  <2> HIDE DEF s
  <2> PICK k : k = nd * m OBVIOUS
  <2> QED BY <1>3, <2>2, <2>3, <2>4, QuotientIs
<1>14. p % np = p
  <2>1. (0 * np + p) % np = p
    <3>1. 0 \in Nat OBVIOUS
    <3> QED BY <1>1, <1>3, <3>1, QuotientIs
  <2>2. 0 * np + p = p BY <1>1, <1>3
  <2> QED BY <2>1, <2>2
<1>15. /\ w \div nt = q * nc + (r \div nt) /\ w % nt = r % nt
       /\ r \div nt \in 0 .. nc - 1
  <2> DEFINE a == r \div nt
             b == r % nt
  <2>1. a \in 0 .. nc - 1 /\ b \in 0 .. nt - 1 /\ r = a * nt + b
    BY <1>1, <1>3, PlaceOf, Zenon
  <2> HIDE DEF a, b
  <2>2. a \in Nat /\ b \in Nat BY <1>1, <2>1
  <2>3. w = (q * nc + a) * nt + b
    <3>1. q * m = (q * nc) * nt BY <1>1, <1>7
    <3>2. q * nc \in Nat BY <1>1, <1>7
    <3>3. (q * nc + a) * nt = (q * nc) * nt + a * nt BY <1>1, <2>2, <3>2
    <3>4. (q * nc) * nt \in Nat /\ a * nt \in Nat BY <1>1, <2>2, <3>2
    <3> QED BY <2>1, <2>2, <3>1, <3>3, <3>4
  <2>4. q * nc + a \in Nat
    <3>1. q * nc \in Nat BY <1>1, <1>7
    <3> QED BY <2>2, <3>1
  <2> DEFINE z == q * nc + a
  <2> HIDE DEF w
  <2>5. w = z * nt + b /\ z \in Nat BY <2>3, <2>4
  <2> HIDE DEF z
  <2>6. w \div nt = z /\ w % nt = b BY <1>1, <2>1, <2>5, QuotientIs
  <2> QED BY <2>1, <2>6 DEF a, b, z
<1>16. (w \div nt) % nc = r \div nt
  <2> HIDE DEF w, q
  <2>0. PICK a : a = r \div nt OBVIOUS
  <2>1. a \in 0 .. nc - 1 /\ q \in Nat /\ nc \in Nat \ {0} BY <1>1, <1>7, <1>15, <2>0
  <2>2. (q * nc + a) % nc = a BY <2>1, QuotientIs, Zenon
  <2> QED BY <1>15, <2>0, <2>2
<1> HIDE DEF w, q
<1>17. /\ Workers = 0 .. np * (nd * m) - 1
       /\ CoordOf(w, "pipeline_parallel") = (w \div (nd * m)) % np
       /\ RankOf(w) = (w \div m) % nd
       /\ CoordOf(w, "context_parallel") = (w \div nt) % nc
       /\ CoordOf(w, "tensor_parallel") = w % nt
  BY <1>9, CoordsAre
<1> QED BY <1>4, <1>8, <1>9, <1>10, <1>11, <1>12, <1>13, <1>14, <1>15, <1>16, <1>17

(* and every worker is at some place.                                      *)
LEMMA PlaceOfWorker ==
  ASSUME GoodCall, NEW w \in Workers
  PROVE  \E p \in 0 .. PP - 1, d \in 0 .. DP - 1, r \in 0 .. Inside - 1 : w = At(p, d, r)
<1>1. /\ PP \in Nat \ {0} /\ DP \in Nat \ {0} /\ CP \in Nat \ {0} /\ TP \in Nat \ {0} BY ExtentsAre
<1> PICK np, nd, m : np = PP /\ nd = DP /\ m = Inside OBVIOUS
<1>2. m \in Nat \ {0} /\ m = CP * TP BY <1>1 DEF Inside
<1>3. w \in 0 .. np * (nd * m) - 1 BY <1>2, CoordsAre
<1>4. nd * m \in Nat \ {0} /\ np * nd \in Nat /\ np * (nd * m) = (np * nd) * m BY <1>1, <1>2
<1>5. w \in 0 .. (np * nd) * m - 1 BY <1>3, <1>4
<1> DEFINE q == w \div m
           r == w % m
<1>6. q \in 0 .. np * nd - 1 /\ r \in 0 .. m - 1 /\ w = q * m + r BY <1>2, <1>4, <1>5, PlaceOf, Zenon
<1> HIDE DEF q, r
<1> DEFINE p == q \div nd
           d == q % nd
<1>7. p \in 0 .. np - 1 /\ d \in 0 .. nd - 1 /\ q = p * nd + d BY <1>1, <1>6, PlaceOf, Zenon
<1> HIDE DEF p, d
<1>8. w = At(p, d, r) BY <1>6, <1>7 DEF At
<1> QED BY <1>6, <1>7, <1>8

(* Which workers a call is made to, and which of them answer.              *)
LEMMA RanksOfPlaces ==
  ASSUME GoodCall
  PROVE  /\ DP \in Nat \ {0} /\ Inside \in Nat \ {0} /\ Ranks = 0 .. DP - 1
         /\ Called \subseteq Workers /\ \A w \in Workers : RankOf(w) \in Ranks
<1>1. /\ PP \in Nat \ {0} /\ DP \in Nat \ {0} /\ CP \in Nat \ {0} /\ TP \in Nat \ {0} BY ExtentsAre
<1>2. Inside \in Nat \ {0} BY <1>1 DEF Inside
<1>3. \A w \in Workers : RankOf(w) \in Ranks BY PlaceOfWorker, WorkerAt DEF Ranks
<1> QED BY <1>1, <1>2, <1>3 DEF Ranks, Called

(* The operation of a call.                                                *)
LEMMA OperationsAre ==
  ASSUME GoodCall
  PROVE  /\ Op.trains \in BOOLEAN /\ Op.balanced \in BOOLEAN
         /\ Op.trains <=> call.op = "train"
         /\ call.op \in {"score", "generate"} <=> ~Op.balanced
         /\ call.op # "generate" => Op.inputs = Replicated
         /\ call.op \notin {"generate", "get_full_logits_ipc"} => Op.tied = Replicated
         /\ call.op = "generate" => /\ Op.inputs = Replicated \ {"context_parallel"}
                                    /\ Op.tied = Replicated \ {"context_parallel"}
         /\ call.op = "get_full_logits_ipc" => Op.tied = {"pipeline_parallel"}
<1>1. call.op \in DOMAIN Operations BY DEF GoodCall
<1>2. DOMAIN Operations = {"get_logprobs", "get_reference_policy_logprobs", "get_topk_logits", "get_values",
        "calibrate_qkv_fp8_scales", "train", "score", "generate", "get_full_logits_ipc"}
  BY DEF Operations
<1>3. Op = Operations[call.op] BY DEF Op
<1> PICK o : o = call.op OBVIOUS
<1>4. o \in {"get_logprobs", "get_reference_policy_logprobs", "get_topk_logits", "get_values",
        "calibrate_qkv_fp8_scales"} => Operations[o] = RowOp
  BY DEF Operations
<1>5. o = "train" => Operations[o] = [RowOp EXCEPT !.trains = TRUE] BY DEF Operations
<1>6. o = "score" => Operations[o] = [RowOp EXCEPT !.balanced = FALSE] BY DEF Operations
<1>7. o = "generate" => Operations[o] = [RowOp EXCEPT !.balanced = FALSE, !.inputs = Replicated \ {"context_parallel"},
                                                       !.tied = Replicated \ {"context_parallel"}]
  BY DEF Operations
<1>8. o = "get_full_logits_ipc" => Operations[o] = [RowOp EXCEPT !.tied = {"pipeline_parallel"}] BY DEF Operations
<1>9. o \in {"get_logprobs", "get_reference_policy_logprobs", "get_topk_logits", "get_values",
        "calibrate_qkv_fp8_scales"} \/ o = "train" \/ o = "score" \/ o = "generate" \/ o = "get_full_logits_ipc"
  BY <1>1, <1>2
<1>10. CASE o \in {"get_logprobs", "get_reference_policy_logprobs", "get_topk_logits", "get_values",
        "calibrate_qkv_fp8_scales"}
  <2>1. Op.trains = FALSE /\ Op.balanced = TRUE /\ Op.inputs = Replicated /\ Op.tied = Replicated
    BY <1>3, <1>4, <1>10 DEF RowOp
  <2>2. o \notin {"train", "score", "generate", "get_full_logits_ipc"} BY <1>10
  <2> QED BY <2>1, <2>2, Zenon
<1>11. CASE o = "train" BY <1>3, <1>5, <1>11, Zenon DEF RowOp
<1>12. CASE o = "score" BY <1>3, <1>6, <1>12, Zenon DEF RowOp
<1>13. CASE o = "generate" BY <1>3, <1>7, <1>13, Zenon DEF RowOp
<1>14. CASE o = "get_full_logits_ipc" BY <1>3, <1>8, <1>14, Zenon DEF RowOp
<1> QED BY <1>9, <1>10, <1>11, <1>12, <1>13, <1>14

(* All workers are called, but for the replicas of a generation's inputs.  *)
LEMMA WhoIsCalled ==
  ASSUME GoodCall
  PROVE  /\ call.op # "generate" => Called = Workers
         /\ call.op = "generate" => Called = {w \in Workers : CoordOf(w, "context_parallel") = 0}
<1>1. CASE call.op # "generate"
  <2>1. Range(Axes) \ ({"data_parallel"} \cup Op.inputs) = {}
    BY <1>1, AxesAre, OperationsAre DEF Replicated
  <2> QED BY <1>1, <2>1 DEF Called
<1>2. CASE call.op = "generate"
  <2>1. Range(Axes) \ ({"data_parallel"} \cup Op.inputs) = {"context_parallel"}
    BY <1>2, AxesAre, OperationsAre DEF Replicated
  <2> QED BY <1>2, <2>1 DEF Called
<1> QED BY <1>1, <1>2

(* One worker answers for every rank, in the order of the ranks,           *)
LEMMA WhoAnswers ==
  ASSUME GoodCall, call.op # "get_full_logits_ipc"
  PROVE  /\ Answering = EvenlyFrom(0, Inside, DP) /\ Answering \subseteq Called
         /\ \A d \in 0 .. DP - 1 : d * Inside \in Workers /\ RankOf(d * Inside) = d
<1>1. /\ PP \in Nat \ {0} /\ DP \in Nat \ {0} /\ CP \in Nat \ {0} /\ TP \in Nat \ {0} BY ExtentsAre
<1>2. Inside \in Nat \ {0} BY <1>1 DEF Inside
<1>3. Answering = {w \in Workers : /\ CoordOf(w, "context_parallel") = 0 /\ CoordOf(w, "tensor_parallel") = 0
                                   /\ CoordOf(w, "pipeline_parallel") = 0}
  <2>1. CASE call.op # "generate"
    <3>1. SomeAxes(Op.tied) = {"context_parallel", "tensor_parallel", "pipeline_parallel"}
      BY <2>1, AxesAre, OperationsAre DEF SomeAxes, Replicated
    <3> QED BY <2>1, <3>1, WhoIsCalled DEF Answering
  <2>2. CASE call.op = "generate"
    <3>1. SomeAxes(Op.tied) = {"tensor_parallel", "pipeline_parallel"}
      BY <2>2, AxesAre, OperationsAre DEF SomeAxes, Replicated
    <3> QED BY <2>2, <3>1, WhoIsCalled DEF Answering
  <2> QED BY <2>1, <2>2
<1>4. ASSUME NEW d \in 0 .. DP - 1
      PROVE  /\ At(0, d, 0) = d * Inside /\ At(0, d, 0) \in Answering /\ RankOf(At(0, d, 0)) = d
             /\ At(0, d, 0) \in Workers
  <2>1. 0 \in 0 .. PP - 1 /\ 0 \in 0 .. Inside - 1 BY <1>1, <1>2
  <2>2. At(0, d, 0) = d * Inside
    <3> PICK m : m = Inside OBVIOUS
    <3> QED BY <1>1, <1>2 DEF At
  <2>3. 0 \div TP = 0 /\ 0 % TP = 0 BY <1>1
  <2> QED BY <1>3, <2>1, <2>2, <2>3, WorkerAt
<1>5. ASSUME NEW w \in Answering PROVE \E d \in 0 .. DP - 1 : w = d * Inside
  <2>1. w \in Workers BY DEF Answering, Called
  <2>2. PICK p \in 0 .. PP - 1, d \in 0 .. DP - 1, r \in 0 .. Inside - 1 : w = At(p, d, r) BY <2>1, PlaceOfWorker
  <2>3. p = 0 /\ r \div TP = 0 /\ r % TP = 0 BY <1>3, <2>2, WorkerAt
  <2>4. r = 0
    <3>1. r \in Nat BY <1>2
    <3>2. r = (r \div TP) * TP + (r % TP) BY <1>1, <3>1
    <3> QED BY <1>1, <2>3, <3>2
  <2> QED BY <1>4, <2>2, <2>3, <2>4
<1>6. \A d \in Int : 0 + d * Inside = d * Inside
  <2> PICK m : m = Inside OBVIOUS
  <2> QED BY <1>2
<1>7. Answering = EvenlyFrom(0, Inside, DP)
  <2>1. \A w \in Answering : w \in EvenlyFrom(0, Inside, DP) BY <1>5, <1>6 DEF EvenlyFrom
  <2>2. \A w \in EvenlyFrom(0, Inside, DP) : w \in Answering BY <1>4, <1>6 DEF EvenlyFrom
  <2> QED BY <2>1, <2>2, Zenon
<1> QED BY <1>4, <1>7 DEF Answering

(* and for full logits every worker of its first pipeline stage.           *)
LEMMA WhoAnswersInFull ==
  ASSUME GoodCall, call.op = "get_full_logits_ipc", NEW d \in 0 .. DP - 1
  PROVE  /\ {w \in Answering : RankOf(w) = d} = EvenlyFrom(d * Inside, 1, Inside)
         /\ EvenlyFrom(d * Inside, 1, Inside) \subseteq Called
<1>1. /\ PP \in Nat \ {0} /\ DP \in Nat \ {0} /\ CP \in Nat \ {0} /\ TP \in Nat \ {0} BY ExtentsAre
<1>2. Inside \in Nat \ {0} BY <1>1 DEF Inside
<1>3. Answering = {w \in Workers : CoordOf(w, "pipeline_parallel") = 0}
  <2>1. SomeAxes(Op.tied) = {"pipeline_parallel"} BY AxesAre, OperationsAre DEF SomeAxes
  <2> QED BY <2>1, WhoIsCalled DEF Answering
<1> DEFINE T == {w \in Answering : RankOf(w) = d}
<1>4. ASSUME NEW r \in 0 .. Inside - 1 PROVE At(0, d, r) = d * Inside + r * 1 /\ At(0, d, r) \in T
  <2>1. 0 \in 0 .. PP - 1 BY <1>1
  <2>2. At(0, d, r) = d * Inside + r * 1
    <3> PICK m : m = Inside OBVIOUS
    <3> QED BY <1>1, <1>2 DEF At
  <2> QED BY <1>3, <2>1, <2>2, WorkerAt
<1>5. ASSUME NEW w \in T PROVE \E r \in 0 .. Inside - 1 : w = At(0, d, r)
  <2>1. w \in Workers BY <1>3
  <2>2. PICK p \in 0 .. PP - 1, e \in 0 .. DP - 1, r \in 0 .. Inside - 1 : w = At(p, e, r) BY <2>1, PlaceOfWorker
  <2>3. p = 0 /\ e = d BY <1>3, <2>2, WorkerAt
  <2> QED BY <2>2, <2>3
<1>6. \A w \in T : w \in EvenlyFrom(d * Inside, 1, Inside) BY <1>4, <1>5 DEF EvenlyFrom
<1>7. \A w \in EvenlyFrom(d * Inside, 1, Inside) : w \in T BY <1>4 DEF EvenlyFrom
<1>8. T \subseteq Called BY DEF Answering
<1> QED BY <1>6, <1>7, <1>8

(* The replicas of a worker: one in every rank.                            *)
LEMMA PeerOf ==
  ASSUME GoodCall, NEW w \in Workers, NEW d \in 0 .. DP - 1
  PROVE  \E v \in Workers : /\ RankOf(v) = d
                            /\ CoordOf(v, "tensor_parallel") = CoordOf(w, "tensor_parallel")
                            /\ CoordOf(v, "context_parallel") = CoordOf(w, "context_parallel")
                            /\ CoordOf(v, "pipeline_parallel") = CoordOf(w, "pipeline_parallel")
<1>1. PICK p \in 0 .. PP - 1, e \in 0 .. DP - 1, r \in 0 .. Inside - 1 : w = At(p, e, r) BY PlaceOfWorker
<1> QED BY <1>1, WorkerAt

-----------------------------------------------------------------------------
(* The rows of a call: chunks of shards                                    *)

GoodFeed == feed \in Seq(Nat) /\ Accepts(call, Len(feed))
ChunksFed == RowsFed \div ChunkSize
RowsOfChunk(c) == {r \in 1 .. RowsFed : (c - 1) * ChunkSize < r /\ r <= c * ChunkSize}

(* What an accepted call is cut into: whole chunks of whole shards.        *)
LEMMA SizesAre ==
  ASSUME GoodCall, GoodFeed
  PROVE  /\ DP \in Nat \ {0} /\ RowsFed \in Nat \ {0} /\ ChunkSize \in Nat \ {0} /\ PerShard \in Nat \ {0}
         /\ ChunksFed \in Nat \ {0} /\ RowsFed = ChunksFed * ChunkSize /\ ChunkSize = DP * PerShard
         /\ Chunks = 1 .. ChunksFed /\ GlobalBatches = ChunksFed
         /\ DOMAIN feed = 1 .. RowsFed
         /\ ~Op.trains => ChunksFed = 1
         /\ call.batching = "plain" /\ call.op # "generate" => PerShard % call.mbs = 0
<1> DEFINE n == Len(feed)
           k == ChunkSize
           d == DP
<1>1. d \in Nat \ {0} BY ExtentsAre
<1>2. n \in Nat /\ DOMAIN feed = 1 .. n /\ RowsFed = n BY DEF GoodFeed, RowsFed
<1>3. d = call.axes["data_parallel"] BY DEF DP, Extent
<1>4. k = IF Operations[call.op].trains THEN call.gbs ELSE n BY DEF ChunkSize, Op, RowsFed
<1>5. /\ n > 0 /\ n % k = 0 /\ k % d = 0
      /\ call.batching = "plain" /\ call.op # "generate" => (k \div d) % call.mbs = 0
  BY <1>3, <1>4 DEF GoodFeed, Accepts
<1>6. call.gbs \in Nat \ {0} BY DEF GoodCall
<1>7. k \in Nat \ {0} BY <1>2, <1>4, <1>5, <1>6
<1>8. /\ PerShard = k \div d /\ ChunksFed = n \div k /\ Chunks = 1 .. n \div k
      /\ GlobalBatches = IF Op.trains THEN n \div k ELSE 1
  BY DEF PerShard, ChunksFed, Chunks, GlobalBatches, RowsFed, ChunkSize
<1>9. Op.trains = Operations[call.op].trains BY DEF Op
<1> HIDE DEF n, k, d
<1>10. \A a \in Nat \ {0}, b \in Nat \ {0} : a % b = 0 => a \div b \in Nat \ {0} /\ a = (a \div b) * b
  <2>1. SUFFICES ASSUME NEW a \in Nat \ {0}, NEW b \in Nat \ {0}, a % b = 0
                 PROVE  a \div b \in Nat \ {0} /\ a = (a \div b) * b
    OBVIOUS
  <2> DEFINE q == a \div b
  <2>2. q \in Nat /\ a = q * b + (a % b) BY <2>1
  <2> HIDE DEF q
  <2>3. q * b \in Nat BY <2>1, <2>2
  <2>4. a = q * b BY <2>1, <2>2, <2>3
  <2>5. q # 0
    <3>1. 0 * b = 0 BY <2>1
    <3> QED BY <2>1, <2>4, <3>1
  <2> QED BY <2>2, <2>4, <2>5 DEF q
<1>11. n \in Nat \ {0} BY <1>2, <1>5
<1>12. n \div k \in Nat \ {0} /\ n = (n \div k) * k BY <1>5, <1>7, <1>10, <1>11
<1>13. k \div d \in Nat \ {0} /\ k = (k \div d) * d BY <1>1, <1>5, <1>7, <1>10
<1>14. ~Op.trains => n \div k = 1
  <2>1. SUFFICES ASSUME ~Op.trains PROVE n \div k = 1 OBVIOUS
  <2>2. k = n BY <1>4, <1>9, <2>1
  <2>3. (1 * n + 0) \div n = 1
    <3>1. 1 \in Nat /\ 0 \in 0 .. n - 1 BY <1>11
    <3> QED BY <1>11, <3>1, QuotientIs
  <2>4. 1 * n + 0 = n BY <1>11
  <2> QED BY <2>2, <2>3, <2>4
<1>15. k = d * (k \div d)
  <2> PICK q : q = k \div d OBVIOUS
  <2>1. q \in Nat /\ k = q * d BY <1>13
  <2>2. q * d = d * q BY <1>1, <2>1
  <2> QED BY <2>1, <2>2
<1>16. ChunkSize = k /\ DP = d BY DEF k, d
<1> QED BY <1>1, <1>2, <1>5, <1>7, <1>8, <1>11, <1>12, <1>13, <1>14, <1>15, <1>16

(* A row has one chunk, and one place in it.                               *)
LEMMA RowsInChunk ==
  ASSUME GoodCall, GoodFeed, NEW c \in 1 .. ChunksFed
  PROVE  /\ (c - 1) * ChunkSize \in Nat /\ c * ChunkSize = (c - 1) * ChunkSize + ChunkSize /\ c * ChunkSize <= RowsFed
         /\ Range(RowsIn(c)) = RowsOfChunk(c)
         /\ \A i \in 1 .. ChunkSize : RowsIn(c)[i] = (c - 1) * ChunkSize + i /\ RowsIn(c)[i] \in RowsOfChunk(c)
         /\ \A r \in RowsOfChunk(c) : r - (c - 1) * ChunkSize \in 1 .. ChunkSize
         /\ DOMAIN RowsIn(c) = 1 .. ChunkSize
         /\ ~Op.trains => RowsOfChunk(c) = 1 .. RowsFed /\ c = 1
<1> PICK k, n, b : k = ChunkSize /\ n = RowsFed /\ b = ChunksFed OBVIOUS
<1>1. k \in Nat \ {0} /\ n \in Nat /\ b \in Nat \ {0} /\ n = b * k /\ (~Op.trains => b = 1) BY SizesAre
<1>2. (c - 1) \in Nat /\ c \in Nat /\ c <= b BY <1>1
<1> DEFINE a == (c - 1) * k
<1>3. a \in Nat /\ c * k = a + k BY <1>1, <1>2
<1>4. c * k <= n
  <2>1. b - c \in Nat /\ n = c * k + (b - c) * k /\ (b - c) * k \in Nat BY <1>1, <1>2
  <2> QED BY <1>1, <1>2, <1>3, <2>1
<1>5. RowsIn(c) = [i \in 1 .. k |-> a + i] BY DEF RowsIn
<1>6. RowsOfChunk(c) = {r \in 1 .. n : a < r /\ r <= c * k} BY DEF RowsOfChunk
<1> HIDE DEF a
<1>7. \A i \in 1 .. k : RowsIn(c)[i] = a + i /\ a + i \in RowsOfChunk(c) BY <1>1, <1>3, <1>4, <1>5, <1>6
<1>8. \A r \in RowsOfChunk(c) : r - a \in 1 .. k /\ r = a + (r - a) BY <1>1, <1>3, <1>6
<1>9. DOMAIN RowsIn(c) = 1 .. k BY <1>5
<1>10. Range(RowsIn(c)) = RowsOfChunk(c) BY <1>7, <1>8, <1>9 DEF Range
<1>11. ASSUME ~Op.trains PROVE RowsOfChunk(c) = 1 .. n /\ c = 1
  <2>1. c = 1 /\ b = 1 BY <1>1, <1>11
  <2>2. a = 0 /\ c * k = n
    <3>1. 0 * k = 0 /\ 1 * k = k BY <1>1
    <3> QED BY <1>1, <2>1, <3>1 DEF a
  <2> QED BY <1>1, <1>6, <2>1, <2>2
<1> QED BY <1>3, <1>4, <1>7, <1>8, <1>9, <1>10, <1>11 DEF a

(* What is cut out of a list.                                              *)
CutOut(V, w, b, m) ==
  /\ SubSeq(w, b + 1, b + m) \in Seq(V) /\ Len(SubSeq(w, b + 1, b + m)) = m
  /\ SubSeq(w, b + 1, b + m) = [k \in 1 .. m |-> w[b + k]]

(* It is a list of its own, as long as was asked for, as long as the list  *)
(* goes that far.                                                          *)
LEMMA CutIs ==
  ASSUME NEW V, NEW w \in Seq(V), NEW b \in Nat, NEW m \in Nat, b + m <= Len(w)
  PROVE  CutOut(V, w, b, m)
<1> DEFINE s == SubSeq(w, b + 1, b + m)
           t == [k \in 1 .. m |-> w[b + k]]
<1>1. s \in Seq(V) /\ Len(s) = m OBVIOUS
<1>2. \A k \in 1 .. m : s[k] = w[b + k] OBVIOUS
<1>3. \A k \in 1 .. m : b + k \in 1 .. Len(w) OBVIOUS
<1>4. \A k \in 1 .. m : w[b + k] \in V BY <1>3
<1>5. t \in Seq(V) /\ Len(t) = m BY <1>4
<1>6. \A k \in 1 .. m : t[k] = w[b + k] OBVIOUS
<1> HIDE DEF s, t
<1>7. s = t BY <1>1, <1>2, <1>5, <1>6, SeqEqual
<1> QED BY <1>1, <1>7 DEF s, t, CutOut

-----------------------------------------------------------------------------
(* Shards of equal size, cut from the rows in some order                   *)

(* An order of the rows that keeps the chunks apart.                       *)
PlaceIn(c, i) == (c - 1) * ChunkSize + i
ChunkWise(order) ==
  /\ order \in Seq(1 .. RowsFed) /\ Len(order) = RowsFed
  /\ \A c \in 1 .. ChunksFed :
       /\ \A i \in 1 .. ChunkSize : order[PlaceIn(c, i)] \in RowsOfChunk(c)
       /\ \A i, j \in 1 .. ChunkSize : order[PlaceIn(c, i)] = order[PlaceIn(c, j)] => i = j
       /\ \A r \in RowsOfChunk(c) : \E i \in 1 .. ChunkSize : order[PlaceIn(c, i)] = r
RankPart(order, c, d) == [k \in 1 .. PerShard |-> order[PlaceIn(c, d * PerShard + k)]]

(* A place in a shard is a place in the chunk, and each place in the chunk *)
(* is a place in one shard.                                                *)
LEMMA PlacesOfShards ==
  ASSUME GoodCall, GoodFeed
  PROVE  /\ \A c \in 1 .. ChunksFed, i \in 1 .. ChunkSize : PlaceIn(c, i) \in 1 .. RowsFed
         /\ \A d \in 0 .. DP - 1, k \in 1 .. PerShard : d * PerShard + k \in 1 .. ChunkSize
         /\ \A i \in 1 .. ChunkSize : \E d \in 0 .. DP - 1, k \in 1 .. PerShard : i = d * PerShard + k
         /\ \A d, e \in 0 .. DP - 1 : \A k, l \in 1 .. PerShard :
              d * PerShard + k = e * PerShard + l => d = e /\ k = l
<1>1. /\ DP \in Nat \ {0} /\ PerShard \in Nat \ {0} /\ ChunkSize = DP * PerShard /\ ChunkSize \in Nat \ {0}
      /\ RowsFed \in Nat
  BY SizesAre
<1> PICK n, m, k0 : n = DP /\ m = PerShard /\ k0 = ChunkSize OBVIOUS
<1>2. n \in Nat \ {0} /\ m \in Nat \ {0} /\ k0 = n * m BY <1>1
<1>3. ASSUME NEW c \in 1 .. ChunksFed, NEW i \in 1 .. k0 PROVE PlaceIn(c, i) \in 1 .. RowsFed
  <2>1. (c - 1) * ChunkSize \in Nat /\ (c - 1) * ChunkSize + ChunkSize <= RowsFed BY RowsInChunk
  <2> DEFINE a == (c - 1) * ChunkSize
  <2>2. PlaceIn(c, i) = a + i BY DEF PlaceIn
  <2>3. a \in Nat /\ a + ChunkSize <= RowsFed BY <2>1
  <2> HIDE DEF a
  <2> QED BY <1>1, <2>2, <2>3
<1>4. ASSUME NEW d \in 0 .. n - 1, NEW k \in 1 .. m PROVE d * m + k \in 1 .. k0
  <2>1. d * m + (k - 1) \in 0 .. n * m - 1
    <3>1. k - 1 \in 0 .. m - 1 BY <1>2
    <3> QED BY <1>2, <3>1, PlacesFit
  <2>2. d * m \in Nat /\ n * m \in Nat BY <1>2
  <2> QED BY <1>2, <2>1, <2>2
<1>5. ASSUME NEW i \in 1 .. k0 PROVE \E d \in 0 .. n - 1, k \in 1 .. m : i = d * m + k
  <2>1. i - 1 \in 0 .. n * m - 1
    <3>1. n * m \in Nat BY <1>2
    <3> QED BY <1>2, <3>1
  <2> DEFINE d == (i - 1) \div m
             r == (i - 1) % m
  <2>2. d \in 0 .. n - 1 /\ r \in 0 .. m - 1 /\ i - 1 = d * m + r BY <1>2, <2>1, PlaceOf, Zenon
  <2> HIDE DEF d, r
  <2>3. d * m \in Nat BY <1>2, <2>2
  <2>4. r + 1 \in 1 .. m /\ i = d * m + (r + 1) BY <1>2, <2>1, <2>2, <2>3
  <2> QED BY <2>2, <2>4
<1>6. ASSUME NEW d \in 0 .. n - 1, NEW e \in 0 .. n - 1, NEW k \in 1 .. m, NEW l \in 1 .. m, d * m + k = e * m + l
      PROVE  d = e /\ k = l
  <2>1. d \in Nat /\ e \in Nat /\ k - 1 \in 0 .. m - 1 /\ l - 1 \in 0 .. m - 1 BY <1>2
  <2>2. d * m \in Nat /\ e * m \in Nat BY <1>2, <2>1
  <2>3. d * m + (k - 1) = e * m + (l - 1) BY <1>2, <1>6, <2>1, <2>2
  <2>4. d = e /\ k - 1 = l - 1 BY <1>2, <2>1, <2>3, OnePlace
  <2> QED BY <1>2, <2>4
<1> QED BY <1>3, <1>4, <1>5, <1>6

(* The shard of a rank is its parts of the chunks, and a global batch of   *)
(* it is its part of that chunk.                                           *)
LEMMA ShardIsCut ==
  ASSUME GoodCall, GoodFeed, NEW V, NEW order \in Seq(V), Len(order) = RowsFed,
         NEW d \in 0 .. DP - 1, NEW g \in 1 .. ChunksFed
  PROVE  /\ SubSeq(RowsOfRank(order, d), (g - 1) * PerShard + 1, g * PerShard) = RankPart(order, g, d)
         /\ \A k \in 1 .. PerShard : RowsOfRank(order, d)[(g - 1) * PerShard + k] = RankPart(order, g, d)[k]
<1>1. /\ DP \in Nat \ {0} /\ PerShard \in Nat \ {0} /\ ChunkSize = DP * PerShard /\ ChunkSize \in Nat \ {0}
      /\ RowsFed \in Nat /\ ChunksFed \in Nat /\ Chunks = 1 .. ChunksFed
  BY SizesAre
<1> DEFINE a(c) == (c - 1) * ChunkSize + d * PerShard
           ss == [c \in Chunks |-> SubSeq(order, (c - 1) * ChunkSize + d * PerShard + 1,
                                                 (c - 1) * ChunkSize + (d + 1) * PerShard)]
<1>2. RowsOfRank(order, d) = FlattenSeq(ss) BY DEF RowsOfRank
<1>3. ASSUME NEW c \in 1 .. ChunksFed
      PROVE  /\ ss[c] = RankPart(order, c, d) /\ ss[c] \in Seq(V) /\ Len(ss[c]) = PerShard
  <2> PICK m, k0, n : m = PerShard /\ k0 = (c - 1) * ChunkSize /\ n = RowsFed OBVIOUS
  <2>1. \A k \in 1 .. m : PlaceIn(c, d * m + k) \in 1 .. n BY PlacesOfShards
  <2>2. \A k \in Int : PlaceIn(c, k) = k0 + k BY DEF PlaceIn
  <2>3. k0 \in Nat /\ m \in Nat \ {0} /\ d \in Nat /\ n \in Nat BY <1>1, RowsInChunk
  <2>4. d * m \in Nat /\ (d + 1) * m = d * m + m BY <2>3
  <2> PICK b : b = k0 + d * m OBVIOUS
  <2>5. b \in Nat /\ k0 + (d + 1) * m = b + m BY <2>3, <2>4
  <2>6. ss[c] = SubSeq(order, b + 1, b + m) BY <1>1, <2>5
  <2>7. \A k \in 1 .. m : b + k \in 1 .. n /\ PlaceIn(c, d * m + k) = b + k
    <3>1. ASSUME NEW k \in 1 .. m PROVE PlaceIn(c, d * m + k) = b + k
      <4>1. d * m + k \in Int /\ k \in Int BY <2>3, <2>4
      <4>2. PlaceIn(c, d * m + k) = k0 + (d * m + k) BY <2>2, <4>1
      <4> QED BY <2>3, <2>4, <4>1, <4>2
    <3> QED BY <2>1, <3>1
  <2>8. RankPart(order, c, d) = [k \in 1 .. m |-> order[b + k]] BY <2>7 DEF RankPart
  <2>9. b + m <= Len(order)
    <3>1. m \in 1 .. m BY <2>3
    <3> QED BY <2>3, <2>5, <2>7, <3>1
  <2> HIDE DEF ss
  <2>10. /\ SubSeq(order, b + 1, b + m) \in Seq(V) /\ Len(SubSeq(order, b + 1, b + m)) = m
         /\ SubSeq(order, b + 1, b + m) = [k \in 1 .. m |-> order[b + k]]
    <3>1. CutOut(V, order, b, m) BY <2>3, <2>5, <2>9, CutIs, Zenon
    <3> QED BY <3>1, Zenon DEF CutOut
  <2> QED BY <2>6, <2>8, <2>10, Zenon
<1>4. ss \in Parts(V) /\ Len(ss) = ChunksFed
  <2>1. ss \in [1 .. ChunksFed -> Seq(V)] BY <1>1, <1>3, Zenon
  <2> HIDE DEF ss
  <2>2. ss \in Seq(Seq(V)) /\ Len(ss) = ChunksFed BY <1>1, <2>1
  <2> QED BY <2>2 DEF Parts
<1> HIDE DEF ss
<1>5. \A i \in 1 .. Len(ss) : Len(ss[i]) = PerShard BY <1>3, <1>4
<1>6. Parted(ss, [i \in 0 .. Len(ss) |-> i * PerShard]) BY <1>1, <1>4, <1>5, EvenParts, Zenon
<1> DEFINE e == [i \in 0 .. Len(ss) |-> i * PerShard]
<1>7. SubSeq(FlattenSeq(ss), e[g - 1] + 1, e[g]) = ss[g] BY <1>4, <1>6, PartsCut, Zenon
<1>8. e[g - 1] = (g - 1) * PerShard /\ e[g] = g * PerShard BY <1>1, <1>4
<1> PICK w : w = FlattenSeq(ss) OBVIOUS
<1>9. Lies(ss, e, V, Len(ss), w) BY <1>4, <1>6, PartsJoined
<1>10. \A k \in 1 .. Len(ss[g]) : w[e[g - 1] + k] = ss[g][k] BY <1>4, <1>9, Zenon DEF Lies
<1> QED BY <1>2, <1>3, <1>7, <1>8, <1>10, Zenon

(* The parts of a chunk have each of its rows once,                        *)
LEMMA EvenDeal ==
  ASSUME GoodCall, GoodFeed, NEW order, ChunkWise(order), NEW g \in 1 .. ChunksFed
  PROVE  /\ DealtOnce([i \in 1 .. DP |-> RankPart(order, g, i - 1)], RowsOfChunk(g))
         /\ \A i \in 1 .. DP : Len(RankPart(order, g, i - 1)) = PerShard
<1> DEFINE ss == [i \in 1 .. DP |-> RankPart(order, g, i - 1)]
           R == RowsOfChunk(g)
<1>1. DP \in Nat \ {0} /\ PerShard \in Nat \ {0} /\ DOMAIN ss = 1 .. DP BY SizesAre
<1>2. \A i \in 1 .. DP : i - 1 \in 0 .. DP - 1 /\ ss[i] = RankPart(order, g, i - 1) BY <1>1
<1>3. \A i \in 1 .. DP : \A k \in 1 .. PerShard : ss[i][k] = order[PlaceIn(g, (i - 1) * PerShard + k)]
  BY <1>2 DEF RankPart
<1>4. \A i \in 1 .. DP : DOMAIN ss[i] = 1 .. PerShard BY <1>2 DEF RankPart
<1>5. \A i \in 1 .. DP : \A k \in 1 .. PerShard : (i - 1) * PerShard + k \in 1 .. ChunkSize
  BY <1>2, PlacesOfShards
<1>6. /\ \A p \in 1 .. ChunkSize : order[PlaceIn(g, p)] \in R
      /\ \A p, q \in 1 .. ChunkSize : order[PlaceIn(g, p)] = order[PlaceIn(g, q)] => p = q
      /\ \A r \in R : \E p \in 1 .. ChunkSize : order[PlaceIn(g, p)] = r
  BY DEF ChunkWise
<1> HIDE DEF R
<1>7. ASSUME NEW i \in 1 .. DP PROVE ss[i] \in Seq(R) /\ Len(ss[i]) = PerShard
  <2>1. ss[i] = [k \in 1 .. PerShard |-> order[PlaceIn(g, (i - 1) * PerShard + k)]] BY <1>2 DEF RankPart
  <2>2. \A k \in 1 .. PerShard : order[PlaceIn(g, (i - 1) * PerShard + k)] \in R BY <1>5, <1>6
  <2>3. [k \in 1 .. PerShard |-> order[PlaceIn(g, (i - 1) * PerShard + k)]] \in [1 .. PerShard -> R] BY <2>2
  <2>4. \A f \in [1 .. PerShard -> R] : f \in Seq(R) /\ Len(f) = PerShard BY <1>1
  <2> QED BY <2>1, <2>3, <2>4
<1>8. ss \in Parts(R) /\ Len(ss) = DP
  <2>1. ss \in [1 .. DP -> Seq(R)] BY <1>7
  <2> HIDE DEF ss
  <2>2. ss \in Seq(Seq(R)) /\ Len(ss) = DP BY <1>1, <2>1
  <2> QED BY <2>2 DEF Parts
<1> HIDE DEF ss
<1>9. ASSUME NEW r \in R PROVE \E i \in 1 .. Len(ss) : \E k \in 1 .. Len(ss[i]) : ss[i][k] = r
  <2>1. PICK p \in 1 .. ChunkSize : order[PlaceIn(g, p)] = r BY <1>6
  <2>2. PICK d \in 0 .. DP - 1, k \in 1 .. PerShard : p = d * PerShard + k BY PlacesOfShards
  <2>3. d + 1 \in 1 .. DP /\ (d + 1) - 1 = d BY <1>1
  <2>4. ss[d + 1][k] = r BY <1>3, <2>1, <2>2, <2>3
  <2>5. Len(ss[d + 1]) = PerShard BY <1>7, <2>3
  <2> QED BY <1>8, <2>3, <2>4, <2>5
<1>10. ASSUME NEW i \in 1 .. Len(ss), NEW j \in 1 .. Len(ss), NEW k \in 1 .. Len(ss[i]), NEW l \in 1 .. Len(ss[j]),
              ss[i][k] = ss[j][l]
       PROVE  i = j /\ k = l
  <2>1. i \in 1 .. DP /\ j \in 1 .. DP /\ k \in 1 .. PerShard /\ l \in 1 .. PerShard BY <1>7, <1>8, <1>10
  <2> PICK p, q : p = (i - 1) * PerShard + k /\ q = (j - 1) * PerShard + l OBVIOUS
  <2>p. p \in 1 .. ChunkSize /\ q \in 1 .. ChunkSize BY <1>5, <2>1
  <2>q. order[PlaceIn(g, p)] = order[PlaceIn(g, q)] BY <1>3, <1>10, <2>1, Zenon
  <2>2. (i - 1) * PerShard + k = (j - 1) * PerShard + l BY <1>6, <2>p, <2>q
  <2>3. i - 1 \in 0 .. DP - 1 /\ j - 1 \in 0 .. DP - 1 BY <1>2, <2>1
  <2>4. i - 1 = j - 1 /\ k = l BY <2>1, <2>2, <2>3, PlacesOfShards
  <2> QED BY <1>1, <2>1, <2>4
<1>11. DealtOnce(ss, R) BY <1>8, <1>9, <1>10, Zenon DEF DealtOnce
<1> QED BY <1>2, <1>7, <1>11 DEF ss, R

(* and the parts of an only chunk make up the order they are cut from.     *)
LEMMA EvenWhole ==
  ASSUME GoodCall, GoodFeed, NEW order, ChunkWise(order), ~Op.trains
  PROVE  FlattenSeq([i \in 1 .. DP |-> RankPart(order, 1, i - 1)]) = order
<1> DEFINE ss == [i \in 1 .. DP |-> RankPart(order, 1, i - 1)]
           w == FlattenSeq(ss)
           e == [i \in 0 .. DP |-> i * PerShard]
<1>1. /\ DP \in Nat \ {0} /\ PerShard \in Nat \ {0} /\ ChunksFed = 1 /\ RowsFed = ChunksFed * ChunkSize
      /\ ChunkSize = DP * PerShard
  BY SizesAre
<1>2. 1 \in 1 .. ChunksFed BY <1>1
<1>3. DealtOnce(ss, RowsOfChunk(1)) /\ \A i \in 1 .. DP : Len(RankPart(order, 1, i - 1)) = PerShard BY <1>2, EvenDeal
<1>4. ss \in Parts(RowsOfChunk(1)) BY <1>3 DEF DealtOnce
<1>5. DOMAIN ss = 1 .. DP OBVIOUS
<1>6. \A i \in 1 .. DP : ss[i] = RankPart(order, 1, i - 1) /\ Len(ss[i]) = PerShard BY <1>3
<1>7. \A i \in 1 .. DP : \A k \in 1 .. PerShard : ss[i][k] = order[PlaceIn(1, (i - 1) * PerShard + k)]
  BY <1>6 DEF RankPart
<1> HIDE DEF ss
<1>8. Len(ss) = DP
  <2>1. Len(ss) \in Nat /\ DOMAIN ss = 1 .. Len(ss) BY <1>4, PartsAre
  <2> QED BY <1>1, <1>5, <2>1
<1>9. Parted(ss, e)
  <2>1. \A i \in 1 .. Len(ss) : Len(ss[i]) = PerShard BY <1>6, <1>8
  <2>2. Parted(ss, [i \in 0 .. Len(ss) |-> i * PerShard]) BY <1>1, <1>4, <2>1, EvenParts, Zenon
  <2> QED BY <1>8, <2>2
<1>10. Lies(ss, e, RowsOfChunk(1), Len(ss), w) BY <1>4, <1>9, PartsJoined
<1>11. e[DP] = RowsFed
  <2>1. DP * PerShard = RowsFed BY <1>1
  <2>2. DP \in 0 .. DP BY <1>1
  <2> QED BY <2>1, <2>2
<1>12. w \in Seq(RowsOfChunk(1)) /\ Len(w) = RowsFed BY <1>8, <1>10, <1>11 DEF Lies
<1> HIDE DEF w
<1>13. ASSUME NEW p \in 1 .. RowsFed PROVE w[p] = order[p]
  <2>1. p \in 1 .. ChunkSize BY <1>1
  <2>2. PICK d \in 0 .. DP - 1, k \in 1 .. PerShard : p = d * PerShard + k BY <2>1, PlacesOfShards
  <2>3. d + 1 \in 1 .. DP /\ (d + 1) - 1 = d /\ d \in 0 .. DP BY <1>1
  <2>4. ss[d + 1][k] = order[PlaceIn(1, p)] BY <1>7, <2>2, <2>3
  <2>5. PlaceIn(1, p) = p
    <3>1. 0 * ChunkSize = 0 BY SizesAre
    <3>2. p \in Nat OBVIOUS
    <3> QED BY <3>1, <3>2 DEF PlaceIn
  <2>6. k \in 1 .. Len(ss[d + 1]) BY <1>6, <2>3
  <2>7. w[e[(d + 1) - 1] + k] = ss[d + 1][k] BY <1>8, <1>10, <2>3, <2>6, Zenon DEF Lies
  <2>8. e[(d + 1) - 1] + k = p BY <2>2, <2>3
  <2> QED BY <2>4, <2>5, <2>7, <2>8
<1>14. order \in Seq(1 .. RowsFed) /\ Len(order) = RowsFed BY DEF ChunkWise
<1> QED BY <1>12, <1>13, <1>14, SeqEqual DEF w, ss

-----------------------------------------------------------------------------
(* What stays while the call stays                                         *)

(* Called workers and their ranks, said of the extents alone.              *)
LEMMA CalledAre ==
  GoodCall =>
    /\ Workers = 0 .. PP * (DP * (CP * TP)) - 1
    /\ Called = IF call.op = "generate" THEN {w \in Workers : (w \div TP) % CP = 0} ELSE Workers
    /\ \A w \in Workers : RankOf(w) = (w \div (CP * TP)) % DP
    /\ 0 \in Called /\ Called \subseteq Workers
<1> SUFFICES ASSUME GoodCall PROVE CalledAre!2 OBVIOUS
<1>1. /\ PP \in Nat \ {0} /\ DP \in Nat \ {0} /\ CP \in Nat \ {0} /\ TP \in Nat \ {0} BY ExtentsAre
<1>2. /\ Workers = 0 .. PP * (DP * (CP * TP)) - 1
      /\ \A w \in Nat : /\ RankOf(w) = (w \div (CP * TP)) % DP
                        /\ CoordOf(w, "context_parallel") = (w \div TP) % CP
  BY CoordsAre
<1>3. \A w \in Workers : w \in Nat BY <1>2
<1>4. Called = IF call.op = "generate" THEN {w \in Workers : (w \div TP) % CP = 0} ELSE Workers
  <2>1. CASE call.op = "generate" BY <1>2, <1>3, <2>1, WhoIsCalled
  <2>2. CASE call.op # "generate" BY <2>2, WhoIsCalled
  <2> QED BY <2>1, <2>2
<1>5. 0 \in Workers
  <2>1. CP * TP \in Nat \ {0} BY <1>1
  <2>2. DP * (CP * TP) \in Nat \ {0} BY <1>1, <2>1
  <2>3. PP * (DP * (CP * TP)) \in Nat \ {0} BY <1>1, <2>2
  <2> PICK n : n = PP * (DP * (CP * TP)) OBVIOUS
  <2> QED BY <1>2, <2>3
<1>6. (0 \div TP) % CP = 0 BY <1>1
<1> QED BY <1>2, <1>3, <1>4, <1>5, <1>6

(* An accepted call stays what it is,                                      *)
SameSizes ==
  /\ Op' = Op /\ Batching' = Batching /\ DP' = DP /\ RowsFed' = RowsFed /\ ChunkSize' = ChunkSize
  /\ PerShard' = PerShard /\ ChunksFed' = ChunksFed /\ Chunks' = Chunks /\ Ranks' = Ranks
  /\ GlobalBatches' = GlobalBatches /\ \A g : RowsOfChunk(g)' = RowsOfChunk(g)

(* and with it every number that was computed from it and its batch.       *)
LEMMA SizesStay ==
  ASSUME UNCHANGED <<call, feed>>
  PROVE  (GoodCall => GoodCall') /\ (GoodFeed => GoodFeed') /\ SameSizes
<1>1. call' = call /\ feed' = feed OBVIOUS
<1>2. Op' = Op BY <1>1 DEF Op
<1>3. Batching' = Batching BY <1>1, <1>2 DEF Batching
<1>4. DP' = DP BY <1>1 DEF DP, Extent
<1>5. RowsFed' = RowsFed BY <1>1 DEF RowsFed
<1>6. ChunkSize' = ChunkSize BY <1>1, <1>2, <1>5 DEF ChunkSize
<1>7. PerShard' = PerShard BY <1>4, <1>6 DEF PerShard
<1>8. ChunksFed' = ChunksFed /\ Chunks' = Chunks BY <1>5, <1>6 DEF ChunksFed, Chunks
<1>9. Ranks' = Ranks BY <1>4 DEF Ranks
<1>10. GlobalBatches' = GlobalBatches BY <1>1, <1>2, <1>5 DEF GlobalBatches
<1>11. \A g : RowsOfChunk(g)' = RowsOfChunk(g) BY <1>5, <1>6 DEF RowsOfChunk
<1>12. GoodCall => GoodCall' BY <1>1 DEF GoodCall
<1>13. GoodFeed => GoodFeed' BY <1>1 DEF GoodFeed, Accepts
<1> QED BY <1>2, <1>3, <1>4, <1>5, <1>6, <1>7, <1>8, <1>9, <1>10, <1>11, <1>12, <1>13 DEF SameSizes

(* and is made to the same workers.                                        *)
LEMMA CalledStay ==
  ASSUME GoodCall, UNCHANGED <<call, feed>>
  PROVE  /\ Called' = Called /\ Workers' = Workers /\ (Unprepared' <=> Unprepared)
         /\ \A w \in Workers : RankOf(w)' = RankOf(w)
<1>1. call' = call /\ feed' = feed OBVIOUS
<1>2. GoodCall' BY SizesStay
<1>3. (GoodCall => /\ Workers = 0 .. PP * (DP * (CP * TP)) - 1
                   /\ Called = IF call.op = "generate" THEN {w \in Workers : (w \div TP) % CP = 0} ELSE Workers
                   /\ \A w \in Workers : RankOf(w) = (w \div (CP * TP)) % DP
                   /\ 0 \in Called /\ Called \subseteq Workers)'
  BY CalledAre, PTL
<1>4. PP' = PP /\ DP' = DP /\ CP' = CP /\ TP' = TP BY <1>1 DEF PP, DP, CP, TP, Extent
<1>5. /\ Workers' = 0 .. PP * (DP * (CP * TP)) - 1
      /\ Called' = IF call.op = "generate" THEN {w \in Workers' : (w \div TP) % CP = 0} ELSE Workers'
      /\ \A w \in Workers' : RankOf(w)' = (w \div (CP * TP)) % DP
  BY <1>1, <1>2, <1>3, <1>4
<1>6. Workers' = Workers BY <1>5, CalledAre
<1>7. Called' = Called BY <1>5, <1>6, CalledAre
<1>8. \A w \in Workers : RankOf(w)' = RankOf(w) BY <1>5, <1>6, CalledAre
<1>9. Unprepared' <=> Unprepared BY <1>1, <1>7 DEF Unprepared
<1> QED BY <1>6, <1>7, <1>8, <1>9

-----------------------------------------------------------------------------
(* What the driver has made of a call                                      *)

(* Where the n parts of a list of m rows end.                              *)
EndsIn(e, n, m) ==
  e \in [0 .. n -> Nat] /\ e[0] = 0 /\ e[n] = m /\ \A k \in 1 .. n : e[k - 1] <= e[k]

(* Ends go up.                                                             *)
LEMMA EndsRise ==
  ASSUME NEW e, NEW n \in Nat, NEW m \in Nat, EndsIn(e, n, m)
  PROVE  \A k \in 0 .. n : e[k] \in Nat /\ e[k] <= m
<1>1. /\ \A k \in 0 .. n : e[k] \in Nat /\ e[n] = m
      /\ \A k \in 1 .. n : e[k - 1] <= e[k]
  BY DEF EndsIn
<1> DEFINE S == {j \in Nat : j <= n => e[n - j] <= m}
<1>2. 0 \in S
  <2>1. n - 0 = n OBVIOUS
  <2>2. n \in 0 .. n OBVIOUS
  <2> QED BY <1>1, <2>1, <2>2
<1>3. ASSUME NEW j \in Nat, j \in S, j + 1 <= n PROVE e[n - (j + 1)] <= m
  <2> DEFINE k == n - j
  <2>1. k \in 1 .. n /\ k - 1 = n - (j + 1) /\ k - 1 \in 0 .. n /\ k \in 0 .. n BY <1>3
  <2>2. e[k] <= m BY <1>3
  <2> HIDE DEF k
  <2>3. e[k - 1] <= e[k] /\ e[k - 1] \in Nat /\ e[k] \in Nat BY <1>1, <2>1
  <2>4. e[k - 1] <= m BY <2>2, <2>3
  <2> QED BY <2>1, <2>4
<1>4. \A j \in Nat : j \in S => j + 1 \in S BY <1>3
<1> HIDE DEF S
<1>5. Nat \subseteq S BY <1>2, <1>4, Induct
<1>6. ASSUME NEW k \in 0 .. n PROVE e[k] <= m
  <2>1. n - k \in Nat /\ n - k <= n /\ n - (n - k) = k OBVIOUS
  <2>2. n - k \in S BY <1>5, <2>1
  <2> QED BY <2>1, <2>2 DEF S
<1> QED BY <1>1, <1>6

(* A plan: per chunk the part of every rank, the number of microbatches    *)
(* and where they end in the part; and where the parts end in the shard.   *)
PlanMade(p) ==
  \A g \in 1 .. ChunksFed :
    /\ DealtOnce(p.parts[g], RowsOfChunk(g)) /\ Len(p.parts[g]) = DP
    /\ p.many[g] \in Nat \ {0}
    /\ ~Unprepared => \A i \in 1 .. DP : EndsIn(p.ends[g][i], p.many[g], Len(p.parts[g][i]))
ShardsFollow(p) ==
  \A i \in 1 .. DP :
    /\ p.offs[i] \in [0 .. ChunksFed -> Nat] /\ p.offs[i][0] = 0
    /\ \A g \in 1 .. ChunksFed :
         /\ p.offs[i][g] = p.offs[i][g - 1] + Len(p.parts[g][i])
         /\ Batching # "packed" => p.offs[i][g] = g * PerShard
         /\ SubSeq(shard[i - 1], p.offs[i][g - 1] + 1, p.offs[i][g]) = p.parts[g][i]
InBudget(m, rows) ==
  IF Batching = "packed" THEN m.len <= Capacity
  ELSE m.len * (m.to - m.from) <= MaxTokens /\ \A j \in m.from + 1 .. m.to : feed[rows[j]] <= m.len
MicroFollows(p) ==
  IF Batching = "plain"
    THEN /\ micro = Nothing
         /\ ~Unprepared => \A g \in 1 .. ChunksFed, i \in 1 .. DP :
              IF call.op = "generate" THEN p.many[g] = 1
              ELSE /\ p.many[g] = Len(p.parts[g][i]) \div call.mbs
                   /\ \A k \in 0 .. p.many[g] : p.ends[g][i][k] = k * call.mbs
    ELSE \A g \in 1 .. ChunksFed, i \in 1 .. DP :
           /\ DOMAIN micro[i - 1][g] = 1 .. p.many[g] /\ Len(micro[i - 1][g]) = p.many[g]
           /\ \A k \in 1 .. p.many[g] :
                /\ micro[i - 1][g][k].from = p.ends[g][i][k - 1] /\ micro[i - 1][g][k].to = p.ends[g][i][k]
                /\ InBudget(micro[i - 1][g][k], p.parts[g][i])
AnswersFollow(p) ==
  /\ Batching = "plain" => perm = Nothing
  /\ ~Op.trains =>
       IF perm = Nothing THEN \A r \in 1 .. RowsFed : FlattenSeq(p.parts[1])[r] = r
       ELSE perm = FlattenSeq(p.parts[1])
Planned(p) == PlanMade(p) /\ ShardsFollow(p) /\ MicroFollows(p) /\ AnswersFollow(p)

(* As long as the driver does nothing, the plan stays.                     *)
LEMMA PlanStays ==
  ASSUME GoodCall, UNCHANGED <<call, feed, shard, micro, perm>>, NEW p, Planned(p)
  PROVE  Planned(p)'
<1>1. /\ call' = call /\ feed' = feed /\ shard' = shard /\ micro' = micro /\ perm' = perm OBVIOUS
<1>2. /\ Op' = Op /\ Batching' = Batching /\ DP' = DP /\ RowsFed' = RowsFed /\ ChunkSize' = ChunkSize
      /\ PerShard' = PerShard /\ ChunksFed' = ChunksFed /\ \A g : RowsOfChunk(g)' = RowsOfChunk(g)
  BY SizesStay DEF SameSizes
<1>3. Unprepared' <=> Unprepared BY CalledStay
<1>4. PlanMade(p)' BY <1>2, <1>3 DEF Planned, PlanMade
<1>5. ShardsFollow(p)' BY <1>1, <1>2 DEF Planned, ShardsFollow
<1>6. MicroFollows(p)' BY <1>1, <1>2, <1>3 DEF Planned, MicroFollows, InBudget
<1>7. AnswersFollow(p)' BY <1>1, <1>2 DEF Planned, AnswersFollow
<1> QED BY <1>4, <1>5, <1>6, <1>7 DEF Planned

(* The part of a rank in a chunk is a list of rows, and its offsets too.   *)
LEMMA PartOfRank ==
  ASSUME GoodCall, GoodFeed, NEW p, Planned(p), NEW g \in 1 .. ChunksFed, NEW i \in 1 .. DP
  PROVE  /\ p.parts[g] \in Parts(RowsOfChunk(g)) /\ p.parts[g][i] \in Seq(RowsOfChunk(g))
         /\ p.parts[g][i] \in Seq(Nat) /\ Len(p.parts[g][i]) \in Nat
         /\ DOMAIN p.parts[g][i] = 1 .. Len(p.parts[g][i])
<1>1. p.parts[g] \in Parts(RowsOfChunk(g)) /\ Len(p.parts[g]) = DP BY DEF Planned, PlanMade, DealtOnce
<1>2. /\ p.parts[g][i] \in Seq(RowsOfChunk(g)) /\ Len(p.parts[g][i]) \in Nat
      /\ DOMAIN p.parts[g][i] = 1 .. Len(p.parts[g][i])
  BY <1>1, PartsAre
<1>3. RowsOfChunk(g) \subseteq Nat BY SizesAre DEF RowsOfChunk
<1>4. p.parts[g][i] \in Seq(Nat) BY <1>2, <1>3, ListWithin
<1> QED BY <1>1, <1>2, <1>4

(* get_batch finds the part of its rank.                                   *)
LEMMA BatchesPlanned ==
  ASSUME GoodCall, GoodFeed, NEW p, Planned(p), NEW g \in 1 .. ChunksFed, NEW i \in 1 .. DP
  PROVE  BatchOf(i - 1, g) = p.parts[g][i]
<1>1. /\ DP \in Nat \ {0} /\ ChunksFed \in Nat \ {0} /\ PerShard \in Nat BY SizesAre
<1> DEFINE offs == p.offs[i]
<1>2. /\ offs \in [0 .. ChunksFed -> Nat] /\ offs[0] = 0
      /\ \A c \in 1 .. ChunksFed : /\ offs[c] = offs[c - 1] + Len(p.parts[c][i])
                                   /\ Batching # "packed" => offs[c] = c * PerShard
                                   /\ SubSeq(shard[i - 1], offs[c - 1] + 1, offs[c]) = p.parts[c][i]
  BY DEF Planned, ShardsFollow
<1> HIDE DEF offs
<1>3. g - 1 \in 0 .. ChunksFed /\ g \in 0 .. ChunksFed BY <1>1
<1>4. Bounded(i - 1, g).from = offs[g - 1] /\ Bounded(i - 1, g).to = offs[g]
  <2>1. CASE Batching = "packed"
    <3> DEFINE Adding(f) == f = [c \in 0 .. g |-> IF c = 0 THEN 0 ELSE f[c - 1] + micro[i - 1][c][Len(micro[i - 1][c])].to]
    <3>1. /\ Bounded(i - 1, g).from = (CHOOSE f : Adding(f))[g - 1]
          /\ Bounded(i - 1, g).to = (CHOOSE f : Adding(f))[g]
      BY <2>1 DEF Bounded
    <3>2. ASSUME NEW c \in 1 .. g PROVE micro[i - 1][c][Len(micro[i - 1][c])].to = Len(p.parts[c][i])
      <4>1. c \in 1 .. ChunksFed BY <1>1
      <4>2. Len(micro[i - 1][c]) = p.many[c] /\ \A k \in 1 .. p.many[c] : micro[i - 1][c][k].to = p.ends[c][i][k]
        BY <2>1, <4>1 DEF Planned, MicroFollows
      <4>3. p.many[c] \in Nat \ {0} BY <4>1 DEF Planned, PlanMade
      <4>4. ~Unprepared
        <5>1. Op.balanced BY <2>1 DEF Batching
        <5> QED BY <5>1, OperationsAre DEF Unprepared
      <4>5. p.ends[c][i][p.many[c]] = Len(p.parts[c][i]) BY <4>1, <4>4, Zenon DEF Planned, PlanMade, EndsIn
      <4> PICK n : n = p.many[c] OBVIOUS
      <4>6. n \in 1 .. n BY <4>3
      <4>7. Len(micro[i - 1][c]) = n /\ micro[i - 1][c][n].to = p.ends[c][i][n] BY <4>2, <4>6, Zenon
      <4> QED BY <4>5, <4>7
    <3> DEFINE t == [c \in 0 .. g |-> offs[c]]
    <3>3. Adding(t)
      <4>1. ASSUME NEW c \in 0 .. g
            PROVE  t[c] = IF c = 0 THEN 0 ELSE t[c - 1] + micro[i - 1][c][Len(micro[i - 1][c])].to
        <5>1. CASE c = 0 BY <1>2, <5>1
        <5>2. CASE c # 0
          <6>1. c \in 1 .. g /\ c \in 1 .. ChunksFed /\ c - 1 \in 0 .. g BY <1>1, <5>2
          <6>2. offs[c] = offs[c - 1] + Len(p.parts[c][i]) BY <1>2, <6>1
          <6> QED BY <3>2, <5>2, <6>1, <6>2
        <5> QED BY <5>1, <5>2
      <4> HIDE DEF t
      <4>2. DOMAIN t = 0 .. g /\ t = [c \in 0 .. g |-> t[c]] BY DEF t
      <4>3. t = [c \in 0 .. g |-> IF c = 0 THEN 0 ELSE t[c - 1] + micro[i - 1][c][Len(micro[i - 1][c])].to]
        BY <4>1, <4>2
      <4> QED BY <4>3
    <3> DEFINE b == CHOOSE f : Adding(f)
    <3>4. Adding(b)
      <4>1. \E f : Adding(f) BY <3>3, Zenon
      <4> HIDE DEF Adding
      <4> QED BY <4>1
    <3>5. \A c \in 0 .. g : b[c] = IF c = 0 THEN 0 ELSE b[c - 1] + micro[i - 1][c][Len(micro[i - 1][c])].to
      BY <3>4, Zenon
    <3> HIDE DEF b, t, Adding
    <3> DEFINE S == {c \in Nat : c <= g => b[c] = offs[c]}
    <3>6. 0 \in S
      <4>1. 0 \in 0 .. g BY <1>1
      <4> QED BY <1>2, <3>5, <4>1
    <3>7. ASSUME NEW c \in Nat, c \in S, c + 1 <= g PROVE b[c + 1] = offs[c + 1]
      <4>1. c + 1 \in 0 .. g /\ c + 1 \in 1 .. g /\ c + 1 # 0 /\ (c + 1) - 1 = c /\ c + 1 \in 1 .. ChunksFed
        BY <1>1, <3>7
      <4>2. offs[c + 1] = offs[c] + Len(p.parts[c + 1][i]) BY <1>2, <4>1
      <4>3. b[c + 1] = b[c] + Len(p.parts[c + 1][i]) BY <3>2, <3>5, <4>1
      <4>4. b[c] = offs[c] BY <1>1, <3>7, <4>1
      <4> QED BY <4>2, <4>3, <4>4
    <3>8. \A c \in Nat : c \in S => c + 1 \in S BY <3>7
    <3> HIDE DEF S
    <3>9. Nat \subseteq S BY <3>6, <3>8, Induct
    <3>10. b[g - 1] = offs[g - 1] /\ b[g] = offs[g] BY <1>1, <1>3, <3>9 DEF S
    <3> QED BY <3>1, <3>10 DEF b
  <2>2. CASE Batching # "packed"
    <3>1. Bounded(i - 1, g).from = (g - 1) * PerShard /\ Bounded(i - 1, g).to = g * PerShard BY <2>2 DEF Bounded
    <3>2. offs[g] = g * PerShard BY <1>2, <2>2
    <3>3. offs[g - 1] = (g - 1) * PerShard
      <4>1. CASE g = 1
        <5>1. 0 * PerShard = 0 BY <1>1
        <5> QED BY <1>2, <4>1, <5>1
      <4>2. CASE g # 1
        <5>1. g - 1 \in 1 .. ChunksFed BY <1>1, <4>2
        <5> QED BY <1>2, <2>2, <5>1
      <4> QED BY <4>1, <4>2
    <3> QED BY <3>1, <3>2, <3>3
  <2> QED BY <2>1, <2>2
<1> QED BY <1>2, <1>4, Zenon DEF BatchOf


(* and cuts it into the microbatches of the plan, so many in every rank.   *)
MicroOf(p, g, i) ==
  [k \in 1 .. p.many[g] |-> SubSeq(p.parts[g][i], p.ends[g][i][k - 1] + 1, p.ends[g][i][k])]

(* So the iterators of a worker (get_batch, the microbatch iterators) find *)
(* the microbatches of the plan.                                           *)
LEMMA MicroPlanned ==
  ASSUME GoodCall, GoodFeed, ~Unprepared, NEW p, Planned(p), NEW g \in 1 .. ChunksFed, NEW i \in 1 .. DP
  PROVE  /\ MicroBatches(i - 1, g) = MicroOf(p, g, i) /\ Own(i - 1, g) = p.many[g]
<1>0. PICK w, n, e : w = p.parts[g][i] /\ n = p.many[g] /\ e = p.ends[g][i] OBVIOUS
<1>1. BatchOf(i - 1, g) = w BY <1>0, BatchesPlanned
<1>2. w \in Seq(Nat) /\ Len(w) \in Nat BY <1>0, PartOfRank
<1>3. /\ n \in Nat \ {0} /\ EndsIn(e, n, Len(w)) BY <1>0 DEF Planned, PlanMade
<1>4. \A k \in 1 .. n : k - 1 \in 0 .. n /\ k \in 0 .. n BY <1>3
<1>5. MicroBatches(i - 1, g) = [k \in 1 .. n |-> SubSeq(w, e[k - 1] + 1, e[k])]
  <2>1. CASE call.op = "generate"
    <3>1. MicroBatches(i - 1, g) = <<w>> BY <1>1, <2>1 DEF MicroBatches
    <3>2. Batching = "plain" BY <2>1, OperationsAre DEF Batching
    <3>3. n = 1 BY <1>0, <2>1, <3>2 DEF Planned, MicroFollows
    <3>4. e[0] = 0 /\ e[1] = Len(w) BY <1>3, <3>3 DEF EndsIn
    <3>5. SubSeq(w, 1, Len(w)) = w BY <1>2
    <3> DEFINE m == [k \in 1 .. 1 |-> SubSeq(w, e[k - 1] + 1, e[k])]
    <3>6. m[1] = w /\ m \in Seq(Seq(Nat)) /\ Len(m) = 1
      <4>2. \A k \in 1 .. 1 : SubSeq(w, e[k - 1] + 1, e[k]) = w
        <5>1. ASSUME NEW k \in 1 .. 1 PROVE SubSeq(w, e[k - 1] + 1, e[k]) = w
          <6>1. k = 1 /\ k - 1 = 0 OBVIOUS
          <6>2. e[k - 1] + 1 = 1 /\ e[k] = Len(w) BY <3>4, <6>1
          <6> QED BY <3>5, <6>2
        <5> QED BY <5>1
      <4>1. m[1] = w BY <4>2
      <4>3. m = [k \in 1 .. 1 |-> w] BY <4>2
      <4> HIDE DEF m
      <4>4. m \in Seq(Seq(Nat)) /\ Len(m) = 1 BY <1>2, <4>3
      <4> QED BY <4>1, <4>4
    <3>7. <<w>> = m
      <4> HIDE DEF m
      <4>1. <<w>> \in Seq(Seq(Nat)) /\ Len(<<w>>) = 1 /\ <<w>>[1] = w BY <1>2
      <4>2. \A k \in 1 .. 1 : <<w>>[k] = m[k] BY <3>6, <4>1
      <4> QED BY <3>6, <4>1, <4>2, SeqEqual
    <3> QED BY <3>1, <3>3, <3>7, Zenon
  <2>2. CASE call.op # "generate" /\ Batching = "plain"
    <3>1. MicroBatches(i - 1, g) = Cut(w, Even(Len(w), call.mbs)) BY <1>1, <2>2 DEF MicroBatches
    <3>2. n = Len(w) \div call.mbs /\ \A k \in 0 .. n : e[k] = k * call.mbs
      BY <1>0, <2>2 DEF Planned, MicroFollows
    <3>3. Even(Len(w), call.mbs) = [k \in 1 .. n |-> [from |-> (k - 1) * call.mbs, to |-> k * call.mbs]]
      BY <3>2 DEF Even
    <3> DEFINE v == Even(Len(w), call.mbs)
    <3>4. DOMAIN v = 1 .. n /\ \A k \in 1 .. n : v[k].from = e[k - 1] /\ v[k].to = e[k] BY <1>4, <3>2, <3>3
    <3> HIDE DEF v
    <3>5. Cut(w, v) = [k \in 1 .. n |-> SubSeq(w, v[k].from + 1, v[k].to)] BY <3>4 DEF Cut
    <3> QED BY <3>1, <3>4, <3>5, Zenon DEF v
  <2>3. CASE call.op # "generate" /\ Batching # "plain"
    <3>1. MicroBatches(i - 1, g) = Cut(w, micro[i - 1][g]) BY <1>1, <2>3 DEF MicroBatches
    <3>4. PICK v : v = micro[i - 1][g] OBVIOUS
    <3>2. DOMAIN v = 1 .. n /\ \A k \in 1 .. n : v[k].from = e[k - 1] /\ v[k].to = e[k]
      BY <1>0, <2>3, <3>4 DEF Planned, MicroFollows
    <3>3. Cut(w, v) = [k \in 1 .. n |-> SubSeq(w, v[k].from + 1, v[k].to)] BY <3>2 DEF Cut
    <3> QED BY <3>1, <3>2, <3>3, <3>4, Zenon
  <2> QED BY <2>1, <2>2, <2>3
<1>6. Own(i - 1, g) = n
  <2>1. \A k \in 1 .. n : SubSeq(w, e[k - 1] + 1, e[k]) \in Seq(Nat)
    <3>1. ASSUME NEW k \in 1 .. n PROVE SubSeq(w, e[k - 1] + 1, e[k]) \in Seq(Nat)
      <4>0. n \in Nat /\ Len(w) \in Nat BY <1>2, <1>3
      <4>1. e[k - 1] \in Nat /\ e[k] \in Nat /\ e[k] <= Len(w) BY <1>3, <1>4, <4>0, EndsRise
      <4>2. PICK a, c : a = e[k - 1] /\ c = e[k] OBVIOUS
      <4>3. \A j \in a + 1 .. c : w[j] \in Nat
        <5>1. \A j \in a + 1 .. c : j \in 1 .. Len(w) BY <1>2, <4>1, <4>2
        <5> QED BY <1>2, <5>1
      <4>4. SubSeq(w, a + 1, c) \in Seq(Nat) BY <1>2, <4>1, <4>2, <4>3
      <4> QED BY <4>2, <4>4
    <3> QED BY <3>1
  <2> DEFINE m == [k \in 1 .. n |-> SubSeq(w, e[k - 1] + 1, e[k])]
  <2>2. m \in [1 .. n -> Seq(Nat)] BY <2>1
  <2> HIDE DEF m
  <2>3. Len(m) = n BY <1>3, <2>2
  <2> QED BY <1>5, <2>3, Zenon DEF Own, m
<1> QED BY <1>0, <1>5, <1>6 DEF MicroOf

-----------------------------------------------------------------------------
(* The workers, in step with the plan                                      *)

Lists == Seq(Nat)
Standing == [gb : Nat, mb : Nat, step : Nat, seen : Lists, steps : Seq(Lists)]
Stands(p, i, r) ==
  /\ r \in Standing /\ r.gb \in 1 .. ChunksFed + 1 /\ Len(r.steps) = r.gb - 1
  /\ \A g \in 1 .. r.gb - 1 : r.steps[g] = p.parts[g][i]
  /\ IF Unprepared THEN r = Idle1
     ELSE IF r.gb <= ChunksFed
       THEN r.mb <= p.many[r.gb] /\ r.seen = SubSeq(p.parts[r.gb][i], 1, p.ends[r.gb][i][r.mb])
       ELSE r.mb = 0
InStep(p, r, q) ==
  /\ r.step <= q.step + 1
  /\ r.step = q.step => r.gb = q.gb /\ r.mb = q.mb
  /\ r.step = q.step + 1 =>
       \/ r.gb = q.gb /\ r.mb = q.mb + 1
       \/ q.gb <= ChunksFed /\ r.gb = q.gb + 1 /\ r.mb = 0 /\ q.mb = p.many[q.gb]
AllStand(p) ==
  /\ DOMAIN rank = Called /\ rank = [w \in Called |-> rank[w]]
  /\ \A w \in Called : Stands(p, RankOf(w) + 1, rank[w])
  /\ \A v, w \in Called : InStep(p, rank[v], rank[w])

(* Called workers have a rank.                                             *)
LEMMA RankOfCalled ==
  ASSUME GoodCall, NEW w \in Called
  PROVE  /\ w \in Workers /\ RankOf(w) \in Ranks /\ RankOf(w) + 1 \in 1 .. DP /\ (RankOf(w) + 1) - 1 = RankOf(w)
         /\ RankOf(w) \in Nat
<1>1. DP \in Nat \ {0} /\ Ranks = 0 .. DP - 1 /\ w \in Workers /\ RankOf(w) \in Ranks BY RanksOfPlaces
<1> QED BY <1>1

(* They all start with the first microbatch of the first global batch,     *)
LEMMA IdleStand ==
  \A p : GoodCall /\ GoodFeed /\ Planned(p) /\ rank = [w \in Called |-> Idle1] => AllStand(p)
<1> SUFFICES ASSUME NEW p, GoodCall, GoodFeed, Planned(p), rank = [w \in Called |-> Idle1] PROVE AllStand(p) OBVIOUS
<1>1. \A w \in Called : rank[w] = Idle1 OBVIOUS
<1>2. ChunksFed \in Nat \ {0} BY SizesAre
<1>3. Idle1 \in Standing
  <2>1. <<>> \in Lists /\ <<>> \in Seq(Lists) BY DEF Lists
  <2> QED BY <2>1 DEF Standing, Idle1
<1>4. Idle1.gb = 1 /\ Idle1.mb = 0 /\ Idle1.step = 0 /\ Idle1.seen = <<>> /\ Idle1.steps = <<>> BY DEF Idle1
<1>5. ASSUME NEW w \in Called PROVE Stands(p, RankOf(w) + 1, Idle1)
  <2>0. PICK i : i = RankOf(w) + 1 OBVIOUS
  <2>1. i \in 1 .. DP BY <2>0, RankOfCalled
  <2>2. Len(Idle1.steps) = Idle1.gb - 1 BY <1>4
  <2>3. ~Unprepared => Idle1.mb <= p.many[1] /\ Idle1.seen = SubSeq(p.parts[1][i], 1, p.ends[1][i][Idle1.mb])
    <3> SUFFICES ASSUME ~Unprepared PROVE Idle1.mb <= p.many[1] /\ Idle1.seen = SubSeq(p.parts[1][i], 1, p.ends[1][i][Idle1.mb])
      OBVIOUS
    <3>1. 1 \in 1 .. ChunksFed BY <1>2
    <3>2. p.many[1] \in Nat \ {0} /\ EndsIn(p.ends[1][i], p.many[1], Len(p.parts[1][i]))
      BY <2>1, <3>1 DEF Planned, PlanMade
    <3>3. p.ends[1][i][0] = 0 BY <3>2 DEF EndsIn
    <3>4. p.parts[1][i] \in Seq(Nat) BY <2>1, <3>1, PartOfRank
    <3>5. SubSeq(p.parts[1][i], 1, 0) = <<>> BY <3>4
    <3> QED BY <1>4, <3>2, <3>3, <3>5
  <2>4. Idle1.gb \in 1 .. ChunksFed + 1 /\ Idle1.gb <= ChunksFed /\ 1 .. Idle1.gb - 1 = {} BY <1>2, <1>4
  <2> QED BY <1>3, <1>4, <2>0, <2>2, <2>3, <2>4 DEF Stands
<1>6. InStep(p, Idle1, Idle1) BY <1>4 DEF InStep
<1> QED BY <1>1, <1>5, <1>6 DEF AllStand

(* and a step of a worker takes it to the next microbatch or, when it has  *)
(* done all of them, to the next global batch.                             *)
Advances(p, i, r, q) ==
  /\ ~Unprepared /\ r.gb <= ChunksFed
  /\ \/ /\ r.mb < p.many[r.gb]
        /\ q = [r EXCEPT !.mb = @ + 1, !.step = @ + 1, !.seen = SubSeq(p.parts[r.gb][i], 1, p.ends[r.gb][i][r.mb + 1])]
     \/ /\ r.mb = p.many[r.gb]
        /\ q = [r EXCEPT !.gb = @ + 1, !.mb = 0, !.step = @ + 1, !.seen = <<>>, !.steps = Append(@, p.parts[r.gb][i])]

(* One more microbatch of those that a part is cut into.                   *)
LEMMA OneMoreSeen ==
  ASSUME NEW w \in Seq(Nat), NEW n \in Nat, NEW e, EndsIn(e, n, Len(w)), NEW k \in Nat, k < n
  PROVE  SubSeq(w, 1, e[k]) \o SubSeq(w, e[(k + 1) - 1] + 1, e[k + 1]) = SubSeq(w, 1, e[k + 1])
<1>1. Len(w) \in Nat OBVIOUS
<1>2. k \in 0 .. n /\ k + 1 \in 0 .. n /\ k + 1 \in 1 .. n /\ (k + 1) - 1 = k OBVIOUS
<1>3. e[k] \in Nat /\ e[k + 1] \in Nat /\ e[k + 1] <= Len(w) BY <1>1, <1>2, EndsRise
<1>4. e[k] <= e[k + 1] BY <1>2 DEF EndsIn
<1>5. PICK a, b : a = e[k] /\ b = e[k + 1] OBVIOUS
<1>6. a \in Nat /\ b \in Nat /\ a <= b /\ b <= Len(w) BY <1>3, <1>4, <1>5
<1>7. SubSeq(w, 1, a) \o SubSeq(w, a + 1, b) = SubSeq(w, 1, b)
  <2>1. 1 \in 1 .. Len(w) + 1 /\ a \in 1 - 1 .. Len(w) /\ b \in a .. Len(w) BY <1>1, <1>6
  <2> QED BY <2>1, ConcatAdjacentSubSeq, Zenon
<1> QED BY <1>2, <1>5, <1>7, Zenon

(* Whatever a worker is called for, its step is one of the plan, and no    *)
(* worker is behind it when it takes the step.                             *)
LEMMA WorkerAdvances ==
  ASSUME GoodCall, GoodFeed, NEW p, Planned(p), AllStand(p), NEW w \in Called, WorkerStep(w)
  PROVE  /\ \E q : Advances(p, RankOf(w) + 1, rank[w], q) /\ rank' = [rank EXCEPT ![w] = q]
         /\ \A v \in Called : rank[v].step >= rank[w].step
         /\ UNCHANGED <<call, feed, phase, packed, shard, micro, perm, answer, packVars>>
<1>0. PICK d, r : d = RankOf(w) /\ r = rank[w] OBVIOUS
<1>1. /\ ~Unprepared /\ r.gb <= GlobalBatches /\ \A v \in Called : rank[v].step >= r.step
      /\ call.backend \in {"dtensor", "automodel", "automodel_value", "megatron", "megatron_value"}
      /\ Microbatch(w) \/ EndOfBatch(w)
  BY <1>0 DEF WorkerStep, Serves, Infer, DTensorTrain, DTensorUpdate, DTensorLogprobs, DTensorTopk, DTensorScore,
    AutomodelTrain, AutomodelUpdate, AutomodelLogprobs, AutomodelTopk, AutomodelScore, AutomodelFullLogits,
    MegatronTrain, MegatronUpdate, MegatronLogprobs, MegatronTopk, MegatronCalibrate, MegatronGenerate,
    AutomodelValueTrain, AutomodelValues, MegatronValueTrain, MegatronValues
<1>2. PICK i : i = d + 1 OBVIOUS
<1>3. d \in Ranks /\ i \in 1 .. DP /\ i - 1 = d BY <1>0, <1>2, RankOfCalled
<1>4. PICK g : g = r.gb OBVIOUS
<1>5. GlobalBatches = ChunksFed /\ ChunksFed \in Nat BY SizesAre
<1>6. Stands(p, i, r) BY <1>0, <1>2 DEF AllStand
<1>7. g \in 1 .. ChunksFed /\ r \in Standing /\ r.mb <= p.many[g] /\ r.seen = SubSeq(p.parts[g][i], 1, p.ends[g][i][r.mb])
  BY <1>1, <1>4, <1>5, <1>6 DEF Stands
<1>8. PICK n : n = p.many[g] OBVIOUS
<1>9. n \in Nat \ {0} /\ EndsIn(p.ends[g][i], n, Len(p.parts[g][i]))
  BY <1>1, <1>3, <1>7, <1>8, Zenon DEF Planned, PlanMade
<1>10. \A e \in Ranks : Own(e, g) = n
  <2>1. ASSUME NEW e \in Ranks PROVE Own(e, g) = n
    <3>1. e + 1 \in 1 .. DP /\ (e + 1) - 1 = e
      <4>1. DP \in Nat /\ Ranks = 0 .. DP - 1 BY RanksOfPlaces
      <4> QED BY <4>1
    <3>2. Own((e + 1) - 1, g) = p.many[g] BY <1>1, <1>7, <3>1, MicroPlanned
    <3> QED BY <1>8, <3>1, <3>2
  <2> QED BY <2>1
<1>11. Agreed(g) = n
  <2>1. {Own(e, g) : e \in Ranks} = {n} BY <1>3, <1>10
  <2>2. n <= n BY <1>9
  <2>3. \A x \in {n} : (\A e \in Ranks : Own(e, g) <= x) <=> x = n BY <1>10, <2>2
  <2>4. Agreed(g) = CHOOSE x \in {n} : \A e \in Ranks : Own(e, g) <= x BY <2>1 DEF Agreed
  <2> QED BY <2>3, <2>4
<1>12. MicroCount(d, g) = n
  BY <1>1, <1>3, <1>10, <1>11 DEF MicroCount, DTensorCount, AutomodelCount, MegatronCount
<1>13. MicroBatches(d, g) = MicroOf(p, g, i)
  <2>1. MicroBatches(i - 1, g) = MicroOf(p, g, i) BY <1>1, <1>3, <1>7, MicroPlanned
  <2> QED BY <1>3, <2>1
<1>14. PICK t, e : t = p.parts[g][i] /\ e = p.ends[g][i] OBVIOUS
<1>15. t \in Seq(Nat) /\ Len(t) \in Nat BY <1>3, <1>7, <1>14, PartOfRank
<1>16. EndsIn(e, n, Len(t)) BY <1>9, <1>14
<1>17. UNCHANGED <<call, feed, phase, packed, shard, micro, perm, answer, packVars>>
  BY <1>1 DEF Microbatch, EndOfBatch, OnlyRank
<1>18. \E q : Advances(p, i, r, q) /\ rank' = [rank EXCEPT ![w] = q]
  <2>1. CASE Microbatch(w)
    <3>1. PICK mine : mine = MicroBatches(d, g) OBVIOUS
    <3>2. /\ r.mb < MicroCount(d, g)
          /\ rank' = [rank EXCEPT ![w] = [r EXCEPT !.mb = @ + 1, !.step = @ + 1,
                                            !.seen = IF r.mb < Len(mine) THEN @ \o mine[r.mb + 1] ELSE @]]
      BY <1>0, <1>4, <2>1, <3>1 DEF Microbatch, OnlyRank
    <3>3. r.mb < n /\ r.mb \in Nat BY <1>7, <1>12, <3>2 DEF Standing
    <3>4. Len(mine) = n
      <4>1. Own(d, g) = n BY <1>3, <1>10
      <4> QED BY <3>1, <4>1 DEF Own
    <3>5. mine = [k \in 1 .. n |-> SubSeq(t, e[k - 1] + 1, e[k])] BY <1>8, <1>13, <1>14, <3>1 DEF MicroOf
    <3>6. mine[r.mb + 1] = SubSeq(t, e[(r.mb + 1) - 1] + 1, e[r.mb + 1])
      <4>1. r.mb + 1 \in 1 .. n BY <1>9, <3>3
      <4> QED BY <3>5, <4>1, Zenon
    <3>7. r.seen = SubSeq(t, 1, e[r.mb]) BY <1>7, <1>14
    <3>8. SubSeq(t, 1, e[r.mb]) \o SubSeq(t, e[(r.mb + 1) - 1] + 1, e[r.mb + 1]) = SubSeq(t, 1, e[r.mb + 1])
      <4>1. n \in Nat BY <1>9
      <4> QED BY <1>15, <1>16, <3>3, <4>1, OneMoreSeen, Zenon
    <3>9. r.seen \o mine[r.mb + 1] = SubSeq(t, 1, e[r.mb + 1]) BY <3>6, <3>7, <3>8, Zenon
    <3> DEFINE q == [r EXCEPT !.mb = @ + 1, !.step = @ + 1, !.seen = SubSeq(t, 1, e[r.mb + 1])]
    <3>10. rank' = [rank EXCEPT ![w] = q] BY <3>2, <3>3, <3>4, <3>9
    <3>11. Advances(p, i, r, q) BY <1>1, <1>4, <1>5, <1>8, <1>14, <3>3 DEF Advances
    <3> HIDE DEF q
    <3> QED BY <3>10, <3>11, Zenon
  <2>2. CASE EndOfBatch(w)
    <3>1. /\ r.mb = MicroCount(d, g)
          /\ rank' = [rank EXCEPT ![w] = [r EXCEPT !.gb = @ + 1, !.mb = 0, !.step = @ + 1,
                                            !.seen = <<>>, !.steps = Append(@, r.seen)]]
      BY <1>0, <1>4, <2>2 DEF EndOfBatch, OnlyRank
    <3>2. r.mb = n BY <1>12, <3>1
    <3>3. r.seen = t
      <4>1. r.seen = SubSeq(t, 1, e[n]) BY <1>7, <1>14, <3>2
      <4>2. e[n] = Len(t) BY <1>16 DEF EndsIn
      <4>3. SubSeq(t, 1, Len(t)) = t BY <1>15
      <4> QED BY <4>1, <4>2, <4>3
    <3> DEFINE q == [r EXCEPT !.gb = @ + 1, !.mb = 0, !.step = @ + 1, !.seen = <<>>, !.steps = Append(@, t)]
    <3>4. rank' = [rank EXCEPT ![w] = q] BY <3>1, <3>3
    <3>5. Advances(p, i, r, q) BY <1>1, <1>4, <1>5, <1>8, <1>14, <3>2 DEF Advances
    <3> HIDE DEF q
    <3> QED BY <3>4, <3>5, Zenon
  <2> QED BY <1>1, <2>1, <2>2
<1> QED BY <1>0, <1>1, <1>2, <1>17, <1>18, Zenon

(* A worker with some of its fields changed.                               *)
LEMMA WorkerChanged ==
  ASSUME NEW L, NEW M, NEW r \in [gb : Nat, mb : Nat, step : Nat, seen : L, steps : M],
         NEW a \in Nat, NEW b \in Nat, NEW c \in Nat, NEW s \in L, NEW t \in M,
         NEW q, q = [r EXCEPT !.gb = a, !.mb = b, !.step = c, !.seen = s, !.steps = t]
  PROVE  /\ q \in [gb : Nat, mb : Nat, step : Nat, seen : L, steps : M]
         /\ q.gb = a /\ q.mb = b /\ q.step = c /\ q.seen = s /\ q.steps = t
BY Zenon

(* Whoever advances stands at its next place,                              *)
LEMMA AdvancedStands ==
  ASSUME GoodCall, GoodFeed, NEW p, Planned(p), NEW i \in 1 .. DP, NEW r, Stands(p, i, r), NEW q, Advances(p, i, r, q)
  PROVE  /\ Stands(p, i, q) /\ q.step = r.step + 1
         /\ \/ r.mb < p.many[r.gb] /\ q.gb = r.gb /\ q.mb = r.mb + 1
            \/ r.mb = p.many[r.gb] /\ q.gb = r.gb + 1 /\ q.mb = 0
<1>1. ChunksFed \in Nat \ {0} BY SizesAre
<1>2. ~Unprepared /\ r.gb <= ChunksFed /\ r \in Standing /\ r.gb \in 1 .. ChunksFed + 1 BY DEF Advances, Stands
<1>3. r.gb \in 1 .. ChunksFed BY <1>1, <1>2
<1>4. PICK g, t, e, n : g = r.gb /\ t = p.parts[g][i] /\ e = p.ends[g][i] /\ n = p.many[g] OBVIOUS
<1>5. g \in 1 .. ChunksFed BY <1>3, <1>4
<1>6. n \in Nat \ {0} /\ EndsIn(e, n, Len(t)) BY <1>2, <1>4, <1>5 DEF Planned, PlanMade
<1>7. t \in Seq(Nat) /\ Len(t) \in Nat BY <1>4, <1>5, PartOfRank
<1>8. /\ r.mb <= n /\ r.mb \in Nat /\ r.step \in Nat /\ r.gb = g /\ r.steps \in Seq(Lists) /\ Len(r.steps) = g - 1
      /\ \A h \in 1 .. g - 1 : r.steps[h] = p.parts[h][i]
  BY <1>2, <1>3, <1>4 DEF Stands, Standing
<1>9. CASE r.mb < n /\ q = [r EXCEPT !.mb = @ + 1, !.step = @ + 1, !.seen = SubSeq(t, 1, e[r.mb + 1])]
  <2>1. PICK s : s = SubSeq(t, 1, e[r.mb + 1]) BY Zenon
  <2>2. s \in Lists
    <3>1. r.mb + 1 \in 0 .. n BY <1>6, <1>8, <1>9
    <3>2. n \in Nat BY <1>6
    <3>3. e[r.mb + 1] \in Nat /\ e[r.mb + 1] <= Len(t) BY <1>6, <1>7, <3>1, <3>2, EndsRise
    <3>4. PICK a : a = e[r.mb + 1] OBVIOUS
    <3>5. \A j \in 1 .. a : t[j] \in Nat
      <4>1. \A j \in 1 .. a : j \in 1 .. Len(t) BY <1>7, <3>3, <3>4
      <4> QED BY <1>7, <4>1
    <3>6. SubSeq(t, 1, a) \in Seq(Nat) BY <1>7, <3>3, <3>4, <3>5
    <3> QED BY <2>1, <3>4, <3>6 DEF Lists
  <2>3. q = [r EXCEPT !.mb = @ + 1, !.step = @ + 1, !.seen = s] BY <1>9, <2>1
  <2>4. /\ q \in Standing /\ q.gb = g /\ q.mb = r.mb + 1 /\ q.step = r.step + 1 /\ q.seen = s /\ q.steps = r.steps
    <3>1. r.gb \in Nat /\ r.mb + 1 \in Nat /\ r.step + 1 \in Nat /\ r.steps \in Seq(Lists) BY <1>5, <1>8
    <3>2. r \in [gb : Nat, mb : Nat, step : Nat, seen : Lists, steps : Seq(Lists)] BY <1>2 DEF Standing
    <3>3. q = [r EXCEPT !.gb = r.gb, !.mb = r.mb + 1, !.step = r.step + 1, !.seen = s, !.steps = r.steps]
      BY <2>3, <3>2, Zenon
    <3>4. /\ q \in [gb : Nat, mb : Nat, step : Nat, seen : Lists, steps : Seq(Lists)]
          /\ q.gb = r.gb /\ q.mb = r.mb + 1 /\ q.step = r.step + 1 /\ q.seen = s /\ q.steps = r.steps
      BY <2>2, <3>1, <3>2, <3>3, WorkerChanged, Zenon
    <3> QED BY <1>8, <3>4 DEF Standing
  <2>5. q.mb <= n BY <1>6, <1>8, <1>9, <2>4
  <2>6. Stands(p, i, q) BY <1>1, <1>2, <1>4, <1>5, <1>8, <2>1, <2>4, <2>5 DEF Stands
  <2> QED BY <1>4, <1>9, <2>4, <2>6
<1>10. CASE r.mb = n /\ q = [r EXCEPT !.gb = @ + 1, !.mb = 0, !.step = @ + 1, !.seen = <<>>, !.steps = Append(@, t)]
  <2>1. t \in Lists /\ <<>> \in Lists BY <1>7 DEF Lists
  <2>2. PICK ss : ss = Append(r.steps, t) BY Zenon
  <2>3. /\ ss \in Seq(Lists) /\ Len(ss) = (g - 1) + 1 /\ \A h \in 1 .. Len(r.steps) : ss[h] = r.steps[h]
        /\ ss[Len(r.steps) + 1] = t
    BY <1>8, <2>1, <2>2, AppendProperties
  <2>4. q = [r EXCEPT !.gb = @ + 1, !.mb = 0, !.step = @ + 1, !.seen = <<>>, !.steps = ss] BY <1>10, <2>2
  <2>5. /\ q \in Standing /\ q.gb = g + 1 /\ q.mb = 0 /\ q.step = r.step + 1 /\ q.seen = <<>> /\ q.steps = ss
    <3>1. r.gb + 1 \in Nat /\ 0 \in Nat /\ r.step + 1 \in Nat /\ <<>> \in Lists /\ ss \in Seq(Lists)
      BY <1>5, <1>8, <2>1, <2>3
    <3>2. r \in [gb : Nat, mb : Nat, step : Nat, seen : Lists, steps : Seq(Lists)] BY <1>2 DEF Standing
    <3>3. q = [r EXCEPT !.gb = r.gb + 1, !.mb = 0, !.step = r.step + 1, !.seen = <<>>, !.steps = ss] BY <2>4
    <3>4. /\ q \in [gb : Nat, mb : Nat, step : Nat, seen : Lists, steps : Seq(Lists)]
          /\ q.gb = r.gb + 1 /\ q.mb = 0 /\ q.step = r.step + 1 /\ q.seen = <<>> /\ q.steps = ss
      BY <3>1, <3>2, <3>3, WorkerChanged, Zenon
    <3> QED BY <1>8, <3>4 DEF Standing
  <2>6. g + 1 \in 1 .. ChunksFed + 1 /\ Len(q.steps) = (g + 1) - 1 BY <1>1, <1>5, <2>3, <2>5
  <2>7. \A h \in 1 .. (g + 1) - 1 : q.steps[h] = p.parts[h][i]
    <3>1. ASSUME NEW h \in 1 .. (g + 1) - 1 PROVE ss[h] = p.parts[h][i]
      <4>1. h \in 1 .. g - 1 \/ h = g BY <1>1, <1>5
      <4>2. h = g => ss[h] = t
        <5>1. (g - 1) + 1 = g BY <1>1, <1>5
        <5> QED BY <1>8, <2>3, <5>1
      <4> QED BY <1>4, <1>8, <2>3, <4>1, <4>2
    <3> QED BY <2>5, <3>1
  <2>8. g + 1 <= ChunksFed => q.mb <= p.many[g + 1] /\ q.seen = SubSeq(p.parts[g + 1][i], 1, p.ends[g + 1][i][q.mb])
    <3> SUFFICES ASSUME g + 1 <= ChunksFed PROVE <2>8!2 OBVIOUS
    <3>1. g + 1 \in 1 .. ChunksFed BY <1>1, <1>5
    <3>2. p.many[g + 1] \in Nat \ {0} /\ EndsIn(p.ends[g + 1][i], p.many[g + 1], Len(p.parts[g + 1][i]))
      BY <1>2, <3>1 DEF Planned, PlanMade
    <3>3. p.ends[g + 1][i][0] = 0 BY <3>2 DEF EndsIn
    <3>4. p.parts[g + 1][i] \in Seq(Nat) BY <3>1, PartOfRank
    <3>5. SubSeq(p.parts[g + 1][i], 1, 0) = <<>> BY <3>4
    <3> QED BY <2>5, <3>2, <3>3, <3>5
  <2>9. Stands(p, i, q) BY <1>2, <2>5, <2>6, <2>7, <2>8 DEF Stands
  <2> QED BY <1>4, <1>10, <2>5, <2>9
<1> QED BY <1>4, <1>9, <1>10 DEF Advances

(* and as only the last may advance, they stay in step.                    *)
LEMMA AdvancedInStep ==
  ASSUME GoodCall, GoodFeed, NEW p, Planned(p),
         NEW i \in 1 .. DP, NEW r, Stands(p, i, r), NEW q, Advances(p, i, r, q),
         NEW j \in 1 .. DP, NEW s, Stands(p, j, s), s.step >= r.step, InStep(p, r, s), InStep(p, s, r)
  PROVE  InStep(p, q, s) /\ InStep(p, s, q)
<1>1. ChunksFed \in Nat \ {0} BY SizesAre
<1>2. /\ q.step = r.step + 1
      /\ \/ r.mb < p.many[r.gb] /\ q.gb = r.gb /\ q.mb = r.mb + 1
         \/ r.mb = p.many[r.gb] /\ q.gb = r.gb + 1 /\ q.mb = 0
  BY AdvancedStands
<1>3. /\ r \in Standing /\ s \in Standing /\ r.gb <= ChunksFed /\ ~Unprepared
      /\ s.gb \in 1 .. ChunksFed + 1 /\ r.gb \in 1 .. ChunksFed + 1
  BY DEF Stands, Advances
<1>4. /\ r.step \in Nat /\ s.step \in Nat /\ r.mb \in Nat /\ s.mb \in Nat /\ r.gb \in Nat /\ s.gb \in Nat
  BY <1>3 DEF Standing
<1>5. p.many[r.gb] \in Nat /\ (s.gb <= ChunksFed => s.mb <= p.many[s.gb]) 
  <2>1. r.gb \in 1 .. ChunksFed BY <1>1, <1>3
  <2> QED BY <1>3, <2>1 DEF Stands, Planned, PlanMade
<1>6. CASE s.step = r.step
  <2>1. s.gb = r.gb /\ s.mb = r.mb BY <1>6 DEF InStep
  <2>2. q.step = s.step + 1 BY <1>2, <1>6
  <2>3. InStep(p, q, s) BY <1>2, <1>3, <1>4, <2>1, <2>2 DEF InStep
  <2>4. InStep(p, s, q) BY <1>4, <2>2 DEF InStep
  <2> QED BY <2>3, <2>4
<1>7. CASE s.step = r.step + 1
  <2>1. \/ s.gb = r.gb /\ s.mb = r.mb + 1
        \/ s.gb = r.gb + 1 /\ s.mb = 0 /\ r.mb = p.many[r.gb]
    BY <1>7 DEF InStep
  <2>2. q.step = s.step BY <1>2, <1>7
  <2>3. q.gb = s.gb /\ q.mb = s.mb BY <1>2, <1>3, <1>4, <1>5, <2>1
  <2> QED BY <1>4, <2>2, <2>3 DEF InStep
<1> QED BY <1>4, <1>6, <1>7 DEF InStep

(* A worker is always where the plan has it.                               *)
LEMMA WorkersStand ==
  ASSUME GoodCall, GoodFeed, NEW p, Planned(p), AllStand(p), NEW w \in Called, WorkerStep(w)
  PROVE  Planned(p)' /\ AllStand(p)' /\ UNCHANGED <<call, feed, phase, packed, answer, packVars>> /\ ~Unprepared
<1>1. /\ UNCHANGED <<call, feed, phase, packed, shard, micro, perm, answer, packVars>>
      /\ \A v \in Called : rank[v].step >= rank[w].step
  BY WorkerAdvances
<1>2. PICK q : Advances(p, RankOf(w) + 1, rank[w], q) /\ rank' = [rank EXCEPT ![w] = q] BY WorkerAdvances
<1>3. Planned(p)' BY <1>1, PlanStays
<1>4. /\ Called' = Called /\ \A v \in Called : RankOf(v)' = RankOf(v)
      /\ (Unprepared' <=> Unprepared) /\ ChunksFed' = ChunksFed
  BY <1>1, CalledStay, RankOfCalled, SizesStay DEF SameSizes
<1>5. \A v \in Called : RankOf(v) + 1 \in 1 .. DP BY RankOfCalled
<1>6. \A v \in Called : Stands(p, RankOf(v) + 1, rank[v]) BY DEF AllStand
<1>7. \A u, v \in Called : InStep(p, rank[u], rank[v]) BY DEF AllStand
<1>8. DOMAIN rank = Called /\ rank = [v \in Called |-> rank[v]] BY DEF AllStand
<1>9. /\ rank'[w] = q /\ \A v \in Called \ {w} : rank'[v] = rank[v] BY <1>2, <1>8
<1>10. DOMAIN rank' = Called /\ rank' = [v \in Called |-> rank'[v]] BY <1>2, <1>8
<1>11. Stands(p, RankOf(w) + 1, q) BY <1>2, <1>5, <1>6, AdvancedStands
<1>12. \A v \in Called : Stands(p, RankOf(v) + 1, rank'[v]) BY <1>6, <1>9, <1>11
<1>13. \A v \in Called : Stands(p, RankOf(v) + 1, rank[v])'
  <2>1. ASSUME NEW i, NEW r, Stands(p, i, r) PROVE Stands(p, i, r)'
    BY <1>4, <2>1 DEF Stands
  <2>2. ASSUME NEW v \in Called PROVE Stands(p, RankOf(v) + 1, rank[v])'
    <3>1. PICK i, r : i = RankOf(v) + 1 /\ r = rank'[v] OBVIOUS
    <3>2. Stands(p, i, r)' BY <1>12, <2>1, <3>1
    <3>3. RankOf(v)' + 1 = i /\ rank'[v] = r BY <1>4, <3>1
    <3> QED BY <3>2, <3>3 DEF Stands
  <2> QED BY <2>2
<1>14. \A v \in Called \ {w} : InStep(p, q, rank[v]) /\ InStep(p, rank[v], q)
  BY <1>1, <1>2, <1>5, <1>6, <1>7, AdvancedInStep
<1>15. InStep(p, q, q)
  <2>1. q.step \in Nat BY <1>11 DEF Stands, Standing
  <2> QED BY <2>1 DEF InStep
<1>16. \A u, v \in Called : InStep(p, rank'[u], rank'[v]) BY <1>7, <1>9, <1>14, <1>15
<1>17. \A u, v \in Called : InStep(p, rank[u], rank[v])' BY <1>4, <1>16 DEF InStep
<1>18. AllStand(p)' BY <1>4, <1>10, <1>13, <1>17 DEF AllStand
<1> QED BY <1>1, <1>2, <1>3, <1>18 DEF Advances

(* What the ranks have trained by an optimizer step: the chunk, each row   *)
(* once.                                                                   *)
LEMMA TrainedWhole ==
  ASSUME GoodCall, GoodFeed, NEW p, Planned(p), AllStand(p)
  PROVE  BatchesTrained
<1> SUFFICES ASSUME Op.trains, NEW w \in Called, NEW g \in DOMAIN rank[w].steps
             PROVE  LET peers == {v \in Called : CoordOf(v, "tensor_parallel") = CoordOf(w, "tensor_parallel")
                                    /\ CoordOf(v, "context_parallel") = CoordOf(w, "context_parallel")
                                    /\ CoordOf(v, "pipeline_parallel") = CoordOf(w, "pipeline_parallel")}
                        trained == FlattenSeq([i \in 1 .. DP |->
                                     LET v == CHOOSE v \in peers : RankOf(v) = i - 1
                                     IN  IF g \in DOMAIN rank[v].steps THEN rank[v].steps[g] ELSE rank[v].seen])
                    IN  /\ IsInjective(trained) /\ Range(trained) = Range(RowsIn(g))
  BY DEF BatchesTrained
<1> DEFINE peers == {v \in Called : CoordOf(v, "tensor_parallel") = CoordOf(w, "tensor_parallel")
                       /\ CoordOf(v, "context_parallel") = CoordOf(w, "context_parallel")
                       /\ CoordOf(v, "pipeline_parallel") = CoordOf(w, "pipeline_parallel")}
           peer(i) == CHOOSE v \in peers : RankOf(v) = i - 1
           ss == [i \in 1 .. DP |-> IF g \in DOMAIN rank[peer(i)].steps THEN rank[peer(i)].steps[g] ELSE rank[peer(i)].seen]
<1>1. call.op = "train" /\ Called = Workers BY OperationsAre, WhoIsCalled
<1>2. ~Unprepared BY <1>1 DEF Unprepared
<1>3. /\ ChunksFed \in Nat \ {0} /\ DP \in Nat \ {0} BY SizesAre
<1>4. ASSUME NEW v \in Called
      PROVE  /\ rank[v].gb \in 1 .. ChunksFed + 1 /\ DOMAIN rank[v].steps = 1 .. rank[v].gb - 1
             /\ rank[v].step \in Nat /\ rank[v].gb \in Nat /\ rank[v].mb \in Nat
             /\ \A h \in 1 .. rank[v].gb - 1 : rank[v].steps[h] = p.parts[h][RankOf(v) + 1]
             /\ rank[v].gb <= ChunksFed =>
                  rank[v].seen = SubSeq(p.parts[rank[v].gb][RankOf(v) + 1], 1, p.ends[rank[v].gb][RankOf(v) + 1][rank[v].mb])
  <2>1. Stands(p, RankOf(v) + 1, rank[v]) BY DEF AllStand
  <2>2. rank[v].steps \in Seq(Lists) BY <2>1 DEF Stands, Standing
  <2>3. DOMAIN rank[v].steps = 1 .. Len(rank[v].steps) BY <2>2
  <2> QED BY <1>2, <2>1, <2>3 DEF Stands, Standing
<1>5. g \in 1 .. ChunksFed /\ g < rank[w].gb BY <1>3, <1>4
<1>6. p.parts[g] \in Parts(RowsOfChunk(g)) /\ Len(p.parts[g]) = DP /\ DealtOnce(p.parts[g], RowsOfChunk(g))
  BY <1>5, Zenon DEF Planned, PlanMade, DealtOnce
<1>7. ASSUME NEW i \in 1 .. DP PROVE ss[i] = p.parts[g][i]
  <2>1. i - 1 \in 0 .. DP - 1 BY <1>3
  <2>2. \E v \in peers : RankOf(v) = i - 1 BY <1>1, <2>1, PeerOf
  <2> DEFINE v == peer(i)
  <2>3. v \in peers /\ RankOf(v) = i - 1
    <3> HIDE DEF peers
    <3> QED BY <2>2
  <2>4. v \in Called BY <2>3
  <2>5. ss[i] = IF g \in DOMAIN rank[v].steps THEN rank[v].steps[g] ELSE rank[v].seen OBVIOUS
  <2>6. RankOf(v) + 1 = i
    <3> HIDE DEF v
    <3> QED BY <1>3, <2>3
  <2> HIDE DEF v, peers, ss
  <2>7. CASE g \in DOMAIN rank[v].steps
    <3>1. g \in 1 .. rank[v].gb - 1 BY <1>4, <2>4, <2>7
    <3> QED BY <1>4, <2>4, <2>5, <2>6, <2>7, <3>1
  <2>8. CASE g \notin DOMAIN rank[v].steps
    <3>1. rank[v].gb <= g BY <1>3, <1>4, <1>5, <2>4, <2>8
    <3>2. InStep(p, rank[w], rank[v]) /\ InStep(p, rank[v], rank[w]) BY <2>4 DEF AllStand
    <3>3. rank[v].gb = g /\ rank[v].mb = p.many[g]
      <4>0. PICK r, s : r = rank[w] /\ s = rank[v] OBVIOUS
      <4>1. /\ r.step \in Nat /\ s.step \in Nat /\ r.gb \in Nat /\ s.gb \in Nat /\ g \in Nat /\ s.gb <= g /\ g < r.gb
        BY <1>4, <1>5, <2>4, <3>1, <4>0
      <4>2. r.step <= s.step + 1 /\ s.step <= r.step + 1 BY <3>2, <4>0 DEF InStep
      <4>3. r.step # s.step BY <3>2, <4>0, <4>1 DEF InStep
      <4>4. s.step # r.step + 1
        <5>1. s.gb # r.gb /\ s.gb # r.gb + 1 BY <4>1
        <5> QED BY <3>2, <4>0, <5>1 DEF InStep
      <4>5. r.step = s.step + 1 BY <4>1, <4>2, <4>3, <4>4
      <4>6. r.gb = s.gb + 1 /\ s.mb = p.many[s.gb] BY <3>2, <4>0, <4>1, <4>5 DEF InStep
      <4>7. s.gb = g BY <4>1, <4>6
      <4> QED BY <4>0, <4>6, <4>7
    <3>4. rank[v].gb <= ChunksFed BY <1>3, <1>5, <3>3
    <3>5. rank[v].seen = SubSeq(p.parts[g][i], 1, p.ends[g][i][p.many[g]]) BY <1>4, <2>4, <2>6, <3>3, <3>4, Zenon
    <3>6. p.ends[g][i][p.many[g]] = Len(p.parts[g][i]) BY <1>2, <1>5 DEF Planned, PlanMade, EndsIn
    <3>7. p.parts[g][i] \in Seq(Nat) BY <1>5, PartOfRank
    <3>8. SubSeq(p.parts[g][i], 1, Len(p.parts[g][i])) = p.parts[g][i] BY <3>7
    <3> QED BY <2>5, <2>8, <3>5, <3>6, <3>8
  <2> QED BY <2>7, <2>8
<1>8. ss = p.parts[g]
  <2>1. DOMAIN p.parts[g] = 1 .. DP /\ DOMAIN ss = 1 .. DP BY <1>6, PartsAre
  <2>2. ss = [i \in 1 .. DP |-> ss[i]] OBVIOUS
  <2>3. p.parts[g] = [i \in 1 .. DP |-> p.parts[g][i]]
    <3>1. p.parts[g] \in Seq(Seq(RowsOfChunk(g))) BY <1>6 DEF Parts
    <3> PICK V : V = Seq(RowsOfChunk(g)) OBVIOUS
    <3>2. p.parts[g] \in Seq(V) BY <3>1
    <3> QED BY <1>6, <2>1, <3>2
  <2> HIDE DEF ss
  <2> QED BY <1>7, <2>2, <2>3
<1>9. IsInjective(FlattenSeq(ss)) /\ Range(FlattenSeq(ss)) = RowsOfChunk(g) BY <1>6, <1>8, JoinedOnce
<1>10. Range(RowsIn(g)) = RowsOfChunk(g) BY <1>5, RowsInChunk
<1> QED BY <1>9, <1>10

(* No microbatch is over its budget, and none cuts a row short.            *)
LEMMA BudgetsKept ==
  ASSUME GoodCall, GoodFeed, NEW p, Planned(p), micro # Nothing,
         NEW d \in Ranks, NEW g \in Chunks, NEW k \in DOMAIN micro[d][g]
  PROVE  IF Batching = "packed" THEN micro[d][g][k].len <= Capacity
         ELSE /\ micro[d][g][k].len * Len(MicroBatches(d, g)[k]) <= MaxTokens
              /\ \A r \in Range(MicroBatches(d, g)[k]) : feed[r] <= micro[d][g][k].len
<1>1. Batching # "plain" BY DEF Planned, MicroFollows
<1>2. ~Unprepared
  <2>1. Op.balanced BY <1>1 DEF Batching
  <2> QED BY <2>1, OperationsAre DEF Unprepared
<1>3. PICK i : i = d + 1 OBVIOUS
<1>4. i \in 1 .. DP /\ i - 1 = d
  <2>1. DP \in Nat /\ Ranks = 0 .. DP - 1 BY RanksOfPlaces
  <2> QED BY <1>3, <2>1
<1>5. g \in 1 .. ChunksFed BY SizesAre
<1>6. PICK n, t, e : n = p.many[g] /\ t = p.parts[g][i] /\ e = p.ends[g][i] OBVIOUS
<1>7. n \in Nat \ {0} /\ EndsIn(e, n, Len(t)) BY <1>2, <1>4, <1>5, <1>6 DEF Planned, PlanMade
<1>8. t \in Seq(Nat) /\ Len(t) \in Nat BY <1>4, <1>5, <1>6, PartOfRank
<1>9. PICK m : m = micro[d][g][k] OBVIOUS
<1>10. /\ k \in 1 .. n /\ m.from = e[k - 1] /\ m.to = e[k] /\ InBudget(m, t)
  <2>1. /\ DOMAIN micro[i - 1][g] = 1 .. p.many[g]
        /\ \A j \in 1 .. p.many[g] :
             /\ micro[i - 1][g][j].from = p.ends[g][i][j - 1] /\ micro[i - 1][g][j].to = p.ends[g][i][j]
             /\ InBudget(micro[i - 1][g][j], p.parts[g][i])
    BY <1>1, <1>4, <1>5, Zenon DEF Planned, MicroFollows
  <2>2. k \in 1 .. p.many[g] BY <1>4, <2>1, Zenon
  <2> QED BY <1>4, <1>6, <1>9, <2>1, <2>2
<1>11. MicroBatches(d, g) = MicroOf(p, g, i)
  <2>1. MicroBatches(i - 1, g) = MicroOf(p, g, i) BY <1>2, <1>4, <1>5, MicroPlanned
  <2> QED BY <1>4, <2>1
<1>12. MicroBatches(d, g)[k] = SubSeq(t, m.from + 1, m.to) BY <1>6, <1>10, <1>11, Zenon DEF MicroOf
<1>13. m.from \in Nat /\ m.to \in Nat /\ m.from <= m.to /\ m.to <= Len(t)
  <2>1. n \in Nat /\ k - 1 \in 0 .. n /\ k \in 0 .. n BY <1>7, <1>10
  <2>2. e[k - 1] \in Nat /\ e[k] \in Nat /\ e[k] <= Len(t) BY <1>7, <1>8, <2>1, EndsRise
  <2>3. e[k - 1] <= e[k] BY <1>7, <1>10 DEF EndsIn
  <2> QED BY <1>10, <2>2, <2>3
<1>14. PICK a, b : a = m.from /\ b = m.to OBVIOUS
<1>15. PICK c : c = b - a OBVIOUS
<1>16. a \in Nat /\ c \in Nat /\ b = a + c /\ a + c <= Len(t) BY <1>13, <1>14, <1>15
<1>17. CutOut(Nat, t, a, c) BY <1>8, <1>16, CutIs
<1>18. PICK s : s = SubSeq(t, a + 1, b) BY Zenon
<1>19. Len(s) = c /\ s = [j \in 1 .. c |-> t[a + j]] BY <1>16, <1>17, <1>18 DEF CutOut
<1>20. MicroBatches(d, g)[k] = s BY <1>12, <1>14, <1>18
<1>21. CASE Batching = "packed" BY <1>9, <1>10, <1>21 DEF InBudget
<1>22. CASE Batching # "packed"
  <2>1. m.len * (b - a) <= MaxTokens /\ \A j \in a + 1 .. b : feed[t[j]] <= m.len BY <1>10, <1>14, <1>22 DEF InBudget
  <2>2. m.len * Len(s) <= MaxTokens BY <1>15, <1>19, <2>1
  <2>3. \A r \in Range(s) : feed[r] <= m.len
    <3>1. SUFFICES ASSUME NEW r \in Range(s) PROVE feed[r] <= m.len OBVIOUS
    <3>2. PICK j \in 1 .. c : r = t[a + j] BY <1>19 DEF Range
    <3>3. a + j \in a + 1 .. b BY <1>16
    <3> QED BY <2>1, <3>2, <3>3
  <2> QED BY <1>9, <1>20, <1>22, <2>2, <2>3
<1> QED BY <1>21, <1>22

(* A list with each of the first n numbers once has n members.             *)
LEMMA OrderLength ==
  ASSUME NEW n \in Nat, NEW w \in Seq(1 .. n), IsInjective(w), Range(w) = 1 .. n
  PROVE  Len(w) = n /\ DOMAIN w = 1 .. n
<1>1. Len(w) \in Nat /\ DOMAIN w = 1 .. Len(w) OBVIOUS
<1>2. PICK m : m = Len(w) OBVIOUS
<1>3. w \in [1 .. m -> 1 .. n]
  <2>1. w \in [1 .. Len(w) -> 1 .. n] OBVIOUS
  <2> QED BY <1>2, <2>1
<1>4. m \in Nat /\ IsFiniteSet(1 .. m) /\ IsFiniteSet(1 .. n) /\ Cardinality(1 .. m) = m /\ Cardinality(1 .. n) = n
  <2>1. m \in Nat /\ 1 \in Int BY <1>1, <1>2
  <2>2. IsFiniteSet(1 .. m) /\ Cardinality(1 .. m) = IF m >= 1 THEN (m - 1) + 1 ELSE 0 BY <2>1, FS_Interval
  <2>3. IsFiniteSet(1 .. n) /\ Cardinality(1 .. n) = IF n >= 1 THEN (n - 1) + 1 ELSE 0 BY <2>1, FS_Interval
  <2> QED BY <2>1, <2>2, <2>3
<1>5. Cardinality(1 .. m) = Cardinality(1 .. n)
  <2>1. ExistsBijection(1 .. m, 1 .. n)
    <3>1. DOMAIN w = 1 .. m BY <1>1, <1>2
    <3>2. \A a, b \in 1 .. m : w[a] = w[b] => a = b BY <3>1, Zenon DEF IsInjective
    <3>3. \A r \in 1 .. n : \E a \in 1 .. m : w[a] = r BY <3>1 DEF Range
    <3>4. w \in Bijection(1 .. m, 1 .. n) BY <1>3, <3>2, <3>3 DEF Bijection, Injection, Surjection, IsInjective
    <3> QED BY <3>4 DEF ExistsBijection
  <2> QED BY <1>4, <2>1, FS_Bijection
<1> QED BY <1>1, <1>2, <1>4, <1>5, Zenon

(* The only chunk of a call that does not train, in the order of the       *)
(* ranks: each row once, and the driver knows where.                       *)
LEMMA OnlyChunk ==
  ASSUME GoodCall, GoodFeed, NEW p, Planned(p), ~Op.trains, NEW w, w = FlattenSeq(p.parts[1])
  PROVE  /\ ChunksFed = 1 /\ 1 \in 1 .. ChunksFed
         /\ w \in Seq(1 .. RowsFed) /\ IsInjective(w) /\ Range(w) = 1 .. RowsFed /\ Len(w) = RowsFed /\ DOMAIN w = 1 .. RowsFed
         /\ IF perm = Nothing THEN \A r \in 1 .. RowsFed : w[r] = r ELSE perm = w
<1>1. ChunksFed = 1 /\ 1 \in 1 .. ChunksFed /\ RowsFed \in Nat BY SizesAre
<1>2. RowsOfChunk(1) = 1 .. RowsFed BY <1>1, RowsInChunk
<1>3. DealtOnce(p.parts[1], 1 .. RowsFed) BY <1>1, <1>2 DEF Planned, PlanMade
<1>4. w \in Seq(1 .. RowsFed) /\ IsInjective(w) /\ Range(w) = 1 .. RowsFed BY <1>3, JoinedOnce
<1>5. Len(w) = RowsFed /\ DOMAIN w = 1 .. RowsFed BY <1>1, <1>4, OrderLength
<1>6. IF perm = Nothing THEN \A r \in 1 .. RowsFed : w[r] = r ELSE perm = w BY DEF Planned, AnswersFollow
<1> QED BY <1>1, <1>4, <1>5, <1>6

(* What a worker returns when it has done all of it.                       *)
LEMMA ResultsPlanned ==
  ASSUME GoodCall, GoodFeed, NEW p, Planned(p), AllStand(p), ~Op.trains,
         NEW w \in Called, rank[w].gb > GlobalBatches
  PROVE  Results(w) = p.parts[1][RankOf(w) + 1]
<1>1. ChunksFed = 1 /\ GlobalBatches = ChunksFed BY SizesAre
<1>2. Stands(p, RankOf(w) + 1, rank[w]) BY DEF AllStand
<1>3. rank[w].gb \in 1 .. 2 /\ rank[w].gb > 1 BY <1>1, <1>2 DEF Stands
<1>4. 1 \in 1 .. rank[w].gb - 1 BY <1>3
<1> QED BY <1>2, <1>4 DEF Stands, Results

(* The results of the ranks one after the other.                           *)
LEMMA JoinedPlanned ==
  ASSUME GoodCall, GoodFeed, NEW p, Planned(p), AllStand(p), ~Op.trains, call.op # "get_full_logits_ipc",
         \A w \in Called : rank[w].gb > GlobalBatches
  PROVE  Joined = FlattenSeq(p.parts[1])
<1>1. Answering = EvenlyFrom(0, Inside, DP) /\ Answering \subseteq Called
      /\ \A d \in 0 .. DP - 1 : d * Inside \in Workers /\ RankOf(d * Inside) = d
  BY WhoAnswers
<1>2. DP \in Nat \ {0} /\ Inside \in Nat \ {0} BY RanksOfPlaces
<1>3. InOrder(Answering) = [i \in 1 .. DP |-> 0 + (i - 1) * Inside]
  <2>1. 0 \in Nat /\ DP \in Nat BY <1>2
  <2> QED BY <1>1, <1>2, <2>1, EvenlyInOrder
<1>4. PICK o : o = InOrder(Answering) OBVIOUS
<1>5. DOMAIN o = 1 .. DP /\ \A i \in 1 .. DP : o[i] = 0 + (i - 1) * Inside BY <1>3, <1>4
<1>6. Joined = FlattenSeq([i \in 1 .. DP |-> Results(o[i])]) BY <1>4, <1>5 DEF Joined
<1>7. ASSUME NEW i \in 1 .. DP PROVE Results(o[i]) = p.parts[1][i]
  <2>1. i - 1 \in 0 .. DP - 1 /\ (i - 1) + 1 = i BY <1>2
  <2>2. PICK v : v = (i - 1) * Inside OBVIOUS
  <2>3. v \in Int BY <1>2, <2>1, <2>2
  <2>4. o[i] = v BY <1>5, <2>2, <2>3
  <2>5. RankOf(v) = i - 1 BY <1>1, <2>1, <2>2
  <2>6. v \in Called
    <3>1. o[i] \in EvenlyFrom(0, Inside, DP) BY <1>5, <2>1 DEF EvenlyFrom
    <3> QED BY <1>1, <2>4, <3>1
  <2>7. Results(v) = p.parts[1][RankOf(v) + 1] BY <2>6, ResultsPlanned
  <2> QED BY <2>1, <2>4, <2>5, <2>7
<1>8. [i \in 1 .. DP |-> Results(o[i])] = p.parts[1]
  <2>1. 1 \in 1 .. ChunksFed BY SizesAre
  <2>2. p.parts[1] \in Parts(RowsOfChunk(1)) /\ Len(p.parts[1]) = DP BY <2>1 DEF Planned, PlanMade, DealtOnce
  <2>3. p.parts[1] = [i \in 1 .. DP |-> p.parts[1][i]]
    <3>1. p.parts[1] \in Seq(Seq(RowsOfChunk(1))) BY <2>2 DEF Parts
    <3>2. PICK V : V = Seq(RowsOfChunk(1)) OBVIOUS
    <3>3. p.parts[1] \in Seq(V) BY <3>1, <3>2
    <3> QED BY <2>2, <3>3
  <2>4. [i \in 1 .. DP |-> Results(o[i])] = [i \in 1 .. DP |-> p.parts[1][i]] BY <1>7
  <2> QED BY <2>3, <2>4
<1> QED BY <1>6, <1>8

(* The handles of full logits: for every row one from each worker of the   *)
(* first stage of its rank.                                                *)
HandlesOf(r, d) == [i \in 1 .. Inside |-> <<r, d * Inside + (i - 1) * 1>>]

(* per_sample_handles puts a handle of each of them at every row, and at no*)
(* row twice.                                                              *)
LEMMA HandlesPlanned ==
  ASSUME GoodCall, GoodFeed, NEW p, Planned(p), AllStand(p), call.op = "get_full_logits_ipc", call.batching = "plain",
         \A w \in Called : rank[w].gb > GlobalBatches
  PROVE  /\ PerSampleHandles \in Seq([1 .. Inside -> Nat \X Nat]) /\ Len(PerSampleHandles) = RowsFed
         /\ \A r \in 1 .. RowsFed : \E d \in 0 .. DP - 1 : PerSampleHandles[r] = HandlesOf(r, d)
<1>1. ~Op.trains BY OperationsAre
<1>2. perm = Nothing BY DEF Planned, AnswersFollow, Batching
<1>3. DP \in Nat \ {0} /\ Inside \in Nat \ {0} BY RanksOfPlaces
<1>4. PICK pp, w : pp = p.parts[1] /\ w = FlattenSeq(pp) OBVIOUS
<1>5. /\ 1 \in 1 .. ChunksFed /\ Len(w) = RowsFed /\ \A r \in 1 .. RowsFed : w[r] = r BY <1>1, <1>2, <1>4, OnlyChunk
<1>6. PICK R : R = RowsOfChunk(1) OBVIOUS
<1>7. pp \in Parts(R) /\ Len(pp) = DP BY <1>4, <1>5, <1>6 DEF Planned, PlanMade, DealtOnce
<1>8. \A i \in 1 .. DP : pp[i] \in Seq(Nat) /\ Len(pp[i]) \in Nat /\ DOMAIN pp[i] = 1 .. Len(pp[i]) BY <1>4, <1>5, PartOfRank
<1> DEFINE of(d) == InOrder({x \in Answering : RankOf(x) = d})
           shards(d) == [k \in DOMAIN Results(of(d)[1]) |-> [i \in DOMAIN of(d) |-> <<Results(of(d)[i])[k], of(d)[i]>>]]
           ss == [d \in 1 .. DP |-> shards(d - 1)]
           V == [1 .. Inside -> Nat \X Nat]
           s(i, k) == [j \in 1 .. Inside |-> <<pp[i][k], (i - 1) * Inside + (j - 1) * 1>>]
<1>9. PerSampleHandles = FlattenSeq(ss) BY DEF PerSampleHandles
<1>10. ASSUME NEW i \in 1 .. DP
       PROVE  /\ DOMAIN ss[i] = 1 .. Len(pp[i]) /\ \A k \in 1 .. Len(pp[i]) : ss[i][k] = s(i, k)
              /\ ss[i] \in Seq(V) /\ Len(ss[i]) = Len(pp[i])
  <2>1. PICK d : d = i - 1 OBVIOUS
  <2>2. d \in 0 .. DP - 1 /\ d + 1 = i /\ d \in Nat BY <1>3, <2>1
  <2>3. ss[i] = shards(d) BY <2>1
  <2>4. /\ {x \in Answering : RankOf(x) = d} = EvenlyFrom(d * Inside, 1, Inside)
        /\ EvenlyFrom(d * Inside, 1, Inside) \subseteq Called
    BY <2>2, WhoAnswersInFull
  <2>5. PICK a : a = d * Inside OBVIOUS
  <2>6. a \in Nat BY <1>3, <2>2, <2>5
  <2>7. of(d) = [j \in 1 .. Inside |-> a + (j - 1) * 1]
    <3>1. 1 \in Nat \ {0} /\ Inside \in Nat BY <1>3
    <3>2. InOrder(EvenlyFrom(a, 1, Inside)) = [j \in 1 .. Inside |-> a + (j - 1) * 1]
      BY <2>6, <3>1, EvenlyInOrder, Zenon
    <3> QED BY <2>4, <2>5, <3>2, Zenon
  <2>8. PICK o : o = of(d) OBVIOUS
  <2>9. DOMAIN o = 1 .. Inside /\ \A j \in 1 .. Inside : o[j] = a + (j - 1) * 1 /\ o[j] \in Nat
    <3>1. o = [j \in 1 .. Inside |-> a + (j - 1) * 1] BY <2>7, <2>8
    <3>2. DOMAIN o = 1 .. Inside /\ \A j \in 1 .. Inside : o[j] = a + (j - 1) * 1 BY <3>1
    <3>3. \A j \in 1 .. Inside : a + (j - 1) * 1 \in Nat BY <1>3, <2>6
    <3> QED BY <3>2, <3>3
  <2>10. ASSUME NEW j \in 1 .. Inside PROVE Results(o[j]) = pp[i]
    <3>1. o[j] \in EvenlyFrom(a, 1, Inside)
      <4>1. j - 1 \in 0 .. Inside - 1 BY <1>3
      <4> QED BY <2>9, <4>1 DEF EvenlyFrom
    <3>2. o[j] \in Called /\ RankOf(o[j]) = d BY <2>4, <2>5, <3>1
    <3>3. Results(o[j]) = p.parts[1][RankOf(o[j]) + 1] BY <1>1, <3>2, ResultsPlanned
    <3> QED BY <1>4, <2>2, <3>2, <3>3
  <2>11. ss[i] = [k \in DOMAIN Results(o[1]) |-> [j \in DOMAIN o |-> <<Results(o[j])[k], o[j]>>]] BY <2>3, <2>8, Zenon
  <2>12. DOMAIN Results(o[1]) = 1 .. Len(pp[i])
    <3>1. 1 \in 1 .. Inside BY <1>3
    <3> QED BY <1>8, <2>10, <3>1
  <2> HIDE DEF ss
  <2>13. ASSUME NEW k \in 1 .. Len(pp[i]) PROVE ss[i][k] = s(i, k) /\ s(i, k) \in V
    <3>1. ss[i][k] = [j \in 1 .. Inside |-> <<Results(o[j])[k], o[j]>>] BY <2>9, <2>11, <2>12, Zenon
    <3>2. \A j \in 1 .. Inside : <<Results(o[j])[k], o[j]>> = <<pp[i][k], (i - 1) * Inside + (j - 1) * 1>>
      BY <2>1, <2>5, <2>9, <2>10
    <3>3. ss[i][k] = s(i, k) BY <3>1, <3>2
    <3>4. pp[i][k] \in Nat BY <1>8
    <3>5. \A j \in 1 .. Inside : <<pp[i][k], (i - 1) * Inside + (j - 1) * 1>> \in Nat \X Nat
      <4>1. ASSUME NEW j \in 1 .. Inside PROVE (i - 1) * Inside + (j - 1) * 1 \in Nat
        <5>1. o[j] \in Nat /\ o[j] = a + (j - 1) * 1 BY <2>9
        <5> QED BY <2>1, <2>5, <5>1
      <4> QED BY <3>4, <4>1
    <3> QED BY <3>3, <3>5
  <2>14. DOMAIN ss[i] = 1 .. Len(pp[i]) BY <2>11, <2>12
  <2>15. ss[i] \in Seq(V) /\ Len(ss[i]) = Len(pp[i])
    <3>1. ss[i] = [k \in 1 .. Len(pp[i]) |-> ss[i][k]] BY <2>11, <2>12
    <3>2. \A k \in 1 .. Len(pp[i]) : ss[i][k] \in V
      <4> HIDE DEF V, s
      <4> QED BY <2>13
    <3> PICK f, n : f = ss[i] /\ n = Len(pp[i]) BY Zenon
    <3> HIDE DEF V
    <3>3. n \in Nat BY <1>8
    <3>4. f \in [1 .. n -> V] BY <3>1, <3>2
    <3>5. f \in Seq(V) /\ Len(f) = n BY <3>3, <3>4
    <3> QED BY <3>5
  <2> QED BY <2>13, <2>14, <2>15
<1> HIDE DEF V, s
<1>11. ss \in Parts(V) /\ Len(ss) = DP
  <2>1. ss \in [1 .. DP -> Seq(V)]
    <3>1. \A i \in 1 .. DP : ss[i] \in Seq(V) BY <1>10
    <3>2. ss = [i \in 1 .. DP |-> ss[i]] OBVIOUS
    <3> HIDE DEF ss
    <3> QED BY <3>1, <3>2
  <2> HIDE DEF ss
  <2>2. ss \in Seq(Seq(V)) /\ Len(ss) = DP BY <1>3, <2>1
  <2> QED BY <2>2 DEF Parts
<1>12. PICK e : Parted(pp, e) BY <1>7, EndsExist
<1> HIDE DEF ss
<1>13. Parted(ss, e)
  <2>1. \A i \in 1 .. DP : Len(ss[i]) = Len(pp[i]) BY <1>10
  <2> QED BY <1>7, <1>11, <1>12, <2>1 DEF Parted
<1>14. Lies(pp, e, R, Len(pp), w) BY <1>4, <1>7, <1>12, PartsJoined
<1>15. Lies(ss, e, V, Len(ss), FlattenSeq(ss)) BY <1>11, <1>13, PartsJoined
<1>16. e[DP] = RowsFed BY <1>5, <1>7, <1>14 DEF Lies
<1>17. FlattenSeq(ss) \in Seq(V) /\ Len(FlattenSeq(ss)) = RowsFed BY <1>11, <1>15, <1>16 DEF Lies
<1>18. ASSUME NEW r \in 1 .. RowsFed PROVE \E d \in 0 .. DP - 1 : FlattenSeq(ss)[r] = HandlesOf(r, d)
  <2>1. r \in 1 .. e[Len(pp)] BY <1>7, <1>16
  <2>2. PICK i \in 1 .. Len(pp) : \E k \in 1 .. Len(pp[i]) : r = e[i - 1] + k BY <1>7, <1>12, <2>1, PartOfPlace
  <2>3. PICK k \in 1 .. Len(pp[i]) : r = e[i - 1] + k BY <2>2
  <2>4. i \in 1 .. DP /\ Len(ss[i]) = Len(pp[i]) /\ ss[i][k] = s(i, k) BY <1>7, <1>10
  <2>5. pp[i][k] = r BY <1>5, <1>14, <2>3, Zenon DEF Lies
  <2>6. FlattenSeq(ss)[r] = ss[i][k] BY <1>11, <1>15, <2>3, <2>4, Zenon DEF Lies
  <2>7. i - 1 \in 0 .. DP - 1 BY <1>3, <2>4
  <2>8. s(i, k) = HandlesOf(r, i - 1) BY <2>5 DEF s, HandlesOf
  <2> QED BY <2>4, <2>6, <2>7, <2>8
<1> QED BY <1>9, <1>17, <1>18 DEF V

(* The handles of a row name it, each once, and as many as workers hold a  *)
(* part of it.                                                             *)
LEMMA HandlesName ==
  ASSUME GoodCall, NEW r, NEW d \in 0 .. DP - 1, NEW h, h = HandlesOf(r, d)
  PROVE  LET parts == Range(h)
         IN  /\ {q[1] : q \in parts} = {r} /\ Len(h) = Cardinality(parts)
             /\ Cardinality(parts) * DP * Extent("pipeline_parallel") = Cardinality(Workers)
<1> DEFINE parts == Range(h)
<1>1. /\ PP \in Nat \ {0} /\ DP \in Nat \ {0} /\ CP \in Nat \ {0} /\ TP \in Nat \ {0} BY ExtentsAre
<1>2. PICK m : m = Inside OBVIOUS
<1>3. m \in Nat \ {0} /\ m = CP * TP BY <1>1, <1>2 DEF Inside
<1>4. PICK a : a = d * m OBVIOUS
<1>5. a \in Nat BY <1>1, <1>3, <1>4
<1>6. h = [i \in 1 .. m |-> <<r, a + (i - 1) * 1>>] BY <1>2, <1>4 DEF HandlesOf
<1>7. DOMAIN h = 1 .. m /\ \A i \in 1 .. m : h[i] = <<r, a + (i - 1)>>
  <2>1. \A i \in 1 .. m : a + (i - 1) * 1 = a + (i - 1) BY <1>3, <1>5
  <2> QED BY <1>6, <2>1
<1>8. parts = {h[i] : i \in 1 .. m} BY <1>7 DEF Range
<1>9. {q[1] : q \in parts} = {r}
  <2>1. \A q \in parts : q[1] = r BY <1>7, <1>8
  <2>2. h[1] \in parts BY <1>3, <1>8
  <2> QED BY <2>1, <2>2
<1>10. h \in [1 .. m -> parts] BY <1>6, <1>7, <1>8
<1>11. \A i, j \in 1 .. m : h[i] = h[j] => i = j
  <2>1. ASSUME NEW i \in 1 .. m, NEW j \in 1 .. m, h[i] = h[j] PROVE i = j
    <3>1. <<r, a + (i - 1)>> = <<r, a + (j - 1)>> BY <1>7, <2>1
    <3>2. a + (i - 1) = a + (j - 1) BY <3>1
    <3> QED BY <1>3, <1>5, <3>2
  <2> QED BY <2>1
<1>12. \A q \in parts : \E i \in 1 .. m : h[i] = q BY <1>8
<1> HIDE DEF parts
<1>13. ExistsBijection(1 .. m, parts)
  <2>1. h \in Bijection(1 .. m, parts) BY <1>10, <1>11, <1>12 DEF Bijection, Injection, Surjection, IsInjective
  <2> QED BY <2>1 DEF ExistsBijection
<1>14. IsFiniteSet(1 .. m) /\ Cardinality(1 .. m) = m
  <2>1. m \in Int /\ 1 \in Int BY <1>3
  <2>2. IsFiniteSet(1 .. m) /\ Cardinality(1 .. m) = IF 1 > m THEN 0 ELSE m - 1 + 1 BY <2>1, FS_Interval
  <2> QED BY <1>3, <2>2
<1>15. Cardinality(parts) = m BY <1>13, <1>14, FS_Bijection
<1>16. Len(h) = m
  <2>1. h \in Seq(parts) BY <1>3, <1>10
  <2> QED BY <1>3, <1>7, <2>1
<1>17. Cardinality(Workers) = m * DP * PP
  <2>1. Workers = 0 .. PP * (DP * m) - 1 BY <1>3, CalledAre
  <2> PICK n : n = PP * (DP * m) OBVIOUS
  <2>2. DP * m \in Nat \ {0} BY <1>1, <1>3
  <2>3. PP * (DP * m) \in Nat \ {0} BY <1>1, <2>2
  <2>4. Cardinality(0 .. n - 1) = n
    <3>1. n \in Nat \ {0} /\ 0 \in Int /\ n - 1 \in Int BY <2>3
    <3>2. Cardinality(0 .. n - 1) = IF 0 > n - 1 THEN 0 ELSE (n - 1) - 0 + 1 BY <3>1, FS_Interval, Zenon
    <3> QED BY <3>1, <3>2
  <2>5. PP * (DP * m) = m * DP * PP BY <1>1, <1>3
  <2> QED BY <2>1, <2>4, <2>5
<1> QED BY <1>9, <1>15, <1>16, <1>17, Zenon DEF parts, PP

(* What the driver puts together is right.                                 *)
RightAnswer(a) ==
  a # Nothing =>
    /\ Len(a) = RowsFed
    /\ \A i \in DOMAIN a :
         IF call.op = "get_full_logits_ipc"
           THEN LET parts == Range(a[i])
                IN  /\ {q[1] : q \in parts} = {i} /\ Len(a[i]) = Cardinality(parts)
                    /\ Cardinality(parts) * DP * Extent("pipeline_parallel") = Cardinality(Workers)
           ELSE a[i] = i

(* The answer of a call is put together right, joined in the order of the  *)
(* ranks, reordered, or handle by handle.                                  *)
LEMMA AnswersRight ==
  ASSUME GoodCall, GoodFeed, NEW p, Planned(p), AllStand(p), call.op = "get_full_logits_ipc" => call.batching = "plain",
         Gather
  PROVE  ResultsInPlace'
<1>1. \A w \in Called : rank[w].gb > GlobalBatches BY DEF Gather
<1>2. PICK a : a = answer' OBVIOUS
<1>3. a = IF call.op \in {"train", "calibrate_qkv_fp8_scales"} THEN Nothing
          ELSE IF call.op = "get_full_logits_ipc" THEN PerSampleHandles
          ELSE IF perm # Nothing THEN Reordered ELSE Joined
  BY <1>2 DEF Gather
<1>4. RightAnswer(a)
  <2>1. CASE call.op \in {"train", "calibrate_qkv_fp8_scales"} BY <1>3, <2>1 DEF RightAnswer
  <2>2. CASE call.op = "get_full_logits_ipc"
    <3>1. a = PerSampleHandles BY <1>3, <2>2
    <3>2. /\ a \in Seq([1 .. Inside -> Nat \X Nat]) /\ Len(a) = RowsFed
          /\ \A r \in 1 .. RowsFed : \E d \in 0 .. DP - 1 : a[r] = HandlesOf(r, d)
      BY <1>1, <2>2, <3>1, HandlesPlanned
    <3>3. DOMAIN a = 1 .. RowsFed
      <4> PICK V : V = [1 .. Inside -> Nat \X Nat] BY Zenon
      <4>1. a \in Seq(V) BY <3>2
      <4> QED BY <3>2, <4>1
    <3>4. ASSUME NEW r \in DOMAIN a
          PROVE  LET parts == Range(a[r])
                 IN  /\ {q[1] : q \in parts} = {r} /\ Len(a[r]) = Cardinality(parts)
                     /\ Cardinality(parts) * DP * Extent("pipeline_parallel") = Cardinality(Workers)
      <4>1. PICK d \in 0 .. DP - 1 : a[r] = HandlesOf(r, d) BY <3>2, <3>3
      <4>2. PICK h : h = a[r] OBVIOUS
      <4>3. h = HandlesOf(r, d) BY <4>1, <4>2
      <4>4. LET parts == Range(h)
            IN  /\ {q[1] : q \in parts} = {r} /\ Len(h) = Cardinality(parts)
                /\ Cardinality(parts) * DP * Extent("pipeline_parallel") = Cardinality(Workers)
        BY <4>3, HandlesName, Zenon
      <4> QED BY <4>2, <4>4, Zenon
    <3> QED BY <2>2, <3>2, <3>4, Zenon DEF RightAnswer
  <2>3. CASE call.op \notin {"train", "calibrate_qkv_fp8_scales", "get_full_logits_ipc"}
    <3>1. ~Op.trains BY <2>3, OperationsAre
    <3>2. PICK w : w = FlattenSeq(p.parts[1]) OBVIOUS
    <3>3. Joined = w BY <1>1, <2>3, <3>1, <3>2, JoinedPlanned
    <3>4. /\ w \in Seq(1 .. RowsFed) /\ IsInjective(w) /\ Range(w) = 1 .. RowsFed /\ Len(w) = RowsFed
          /\ DOMAIN w = 1 .. RowsFed
          /\ IF perm = Nothing THEN \A r \in 1 .. RowsFed : w[r] = r ELSE perm = w
      BY <3>1, <3>2, OnlyChunk
    <3>5. CASE perm = Nothing
      <4>1. a = w BY <1>3, <2>3, <3>3, <3>5
      <4> QED BY <2>3, <3>4, <3>5, <4>1 DEF RightAnswer
    <3>6. CASE perm # Nothing
      <4>1. a = Reordered BY <1>3, <2>3, <3>6
      <4>2. perm = w BY <3>4, <3>6
      <4>3. a = [i \in 1 .. RowsFed |-> w[CHOOSE k \in 1 .. RowsFed : w[k] = i]]
        BY <3>3, <3>4, <4>1, <4>2 DEF Reordered
      <4>4. ASSUME NEW i \in 1 .. RowsFed PROVE w[CHOOSE k \in 1 .. RowsFed : w[k] = i] = i
        <5>1. \E k \in 1 .. RowsFed : w[k] = i BY <3>4 DEF Range
        <5> QED BY <5>1
      <4>5. a = [i \in 1 .. RowsFed |-> i] BY <4>3, <4>4
      <4>6. RowsFed \in Nat BY SizesAre
      <4>7. a \in Seq(Nat) /\ Len(a) = RowsFed /\ DOMAIN a = 1 .. RowsFed BY <4>5, <4>6
      <4>8. \A i \in 1 .. RowsFed : a[i] = i BY <4>5
      <4> QED BY <2>3, <4>7, <4>8 DEF RightAnswer
    <3> QED BY <3>5, <3>6
  <2> QED BY <2>1, <2>2, <2>3
<1>5. call' = call /\ feed' = feed BY DEF Gather
<1>6. RowsFed' = RowsFed /\ DP' = DP BY <1>5, SizesStay DEF SameSizes
<1>7. Workers' = Workers BY <1>5, CalledStay
<1>8. Extent("pipeline_parallel")' = Extent("pipeline_parallel") BY <1>5 DEF Extent
<1>9. RightAnswer(a)' BY <1>4, <1>5, <1>6, <1>7, <1>8, Zenon DEF RightAnswer
<1> QED BY <1>2, <1>9, Zenon DEF RightAnswer, ResultsInPlace

-----------------------------------------------------------------------------
(* What the driver makes of a call: a plan, and workers at its beginning   *)

(* Where the microbatches end that have the same number of rows.           *)
LEMMA EvenEnds ==
  ASSUME NEW n \in Nat \ {0}, NEW by \in Nat \ {0}, NEW m \in Nat, m = n * by
  PROVE  EndsIn([k \in 0 .. n |-> k * by], n, m)
<1> DEFINE e == [k \in 0 .. n |-> k * by]
<1>1. \A k \in 0 .. n : k * by \in Nat OBVIOUS
<1>2. 0 \in 0 .. n /\ n \in 0 .. n /\ 0 * by = 0 OBVIOUS
<1>3. ASSUME NEW k \in 1 .. n PROVE (k - 1) * by <= k * by /\ k - 1 \in 0 .. n /\ k \in 0 .. n
  <2>1. k * by = (k - 1) * by + by BY <1>3
  <2>2. (k - 1) * by \in Nat BY <1>3
  <2> QED BY <2>1, <2>2
<1>4. e[0] = 0 /\ e[n] = m BY <1>2
<1>5. \A k \in 1 .. n : e[k - 1] <= e[k] BY <1>3
<1>6. e \in [0 .. n -> Nat] BY <1>1
<1> QED BY <1>4, <1>5, <1>6 DEF EndsIn

(* Even shards of rows in an order that keeps the chunks apart.            *)
EvenlyOf(order) == [g \in 1 .. ChunksFed |-> [i \in 1 .. DP |-> RankPart(order, g, i - 1)]]
EvenlyAt == [i \in 1 .. DP |-> [c \in 0 .. ChunksFed |-> c * PerShard]]

(* They are shards that follow the plan, chunk by chunk, each row of a     *)
(* chunk in one of them.                                                   *)
LEMMA EvenlySharded ==
  ASSUME GoodCall, GoodFeed, UNCHANGED <<call, feed>>, Batching # "packed",
         NEW order, ChunkWise(order), shard' = [d \in Ranks |-> RowsOfRank(order, d)],
         NEW p, p.parts = EvenlyOf(order), p.offs = EvenlyAt
  PROVE  /\ ShardsFollow(p)'
         /\ \A g \in 1 .. ChunksFed :
              /\ DealtOnce(p.parts[g], RowsOfChunk(g)) /\ Len(p.parts[g]) = DP
              /\ \A i \in 1 .. DP : p.parts[g][i] = RankPart(order, g, i - 1) /\ Len(p.parts[g][i]) = PerShard
<1>1. /\ DP \in Nat \ {0} /\ PerShard \in Nat \ {0} /\ ChunksFed \in Nat \ {0} BY SizesAre
<1>2. order \in Seq(1 .. RowsFed) /\ Len(order) = RowsFed BY DEF ChunkWise
<1>3. \A g \in 1 .. ChunksFed : p.parts[g] = [i \in 1 .. DP |-> RankPart(order, g, i - 1)] BY DEF EvenlyOf
<1>4. \A i \in 1 .. DP, c \in 0 .. ChunksFed : p.offs[i][c] = c * PerShard BY DEF EvenlyAt
<1>5. \A i \in 1 .. DP : p.offs[i] \in [0 .. ChunksFed -> Nat]
  <2>1. \A c \in 0 .. ChunksFed : c * PerShard \in Nat BY <1>1
  <2>2. \A i \in 1 .. DP : p.offs[i] = [c \in 0 .. ChunksFed |-> c * PerShard] BY DEF EvenlyAt
  <2> QED BY <2>1, <2>2, Zenon
<1>6. ASSUME NEW g \in 1 .. ChunksFed
      PROVE  /\ DealtOnce(p.parts[g], RowsOfChunk(g)) /\ Len(p.parts[g]) = DP
             /\ \A i \in 1 .. DP : p.parts[g][i] = RankPart(order, g, i - 1) /\ Len(p.parts[g][i]) = PerShard
  <2>1. /\ DealtOnce(p.parts[g], RowsOfChunk(g)) /\ \A i \in 1 .. DP : Len(RankPart(order, g, i - 1)) = PerShard
    BY <1>3, EvenDeal, Zenon
  <2>2. p.parts[g] \in Parts(RowsOfChunk(g)) BY <2>1 DEF DealtOnce
  <2>3. Len(p.parts[g]) \in Nat /\ DOMAIN p.parts[g] = 1 .. Len(p.parts[g]) BY <2>2, PartsAre
  <2>4. DOMAIN p.parts[g] = 1 .. DP BY <1>3, Zenon
  <2>5. Len(p.parts[g]) = DP BY <1>1, <2>3, <2>4
  <2> QED BY <1>3, <2>1, <2>5, Zenon
<1>7. ASSUME NEW i \in 1 .. DP, NEW g \in 1 .. ChunksFed
      PROVE  /\ p.offs[i][g] = p.offs[i][g - 1] + Len(p.parts[g][i]) /\ p.offs[i][g] = g * PerShard
             /\ SubSeq(shard'[i - 1], p.offs[i][g - 1] + 1, p.offs[i][g]) = p.parts[g][i]
  <2>1. i - 1 \in 0 .. DP - 1 /\ i - 1 \in Ranks BY <1>1 DEF Ranks
  <2>2. g - 1 \in 0 .. ChunksFed /\ g \in 0 .. ChunksFed BY <1>1
  <2>3. p.offs[i][g - 1] = (g - 1) * PerShard /\ p.offs[i][g] = g * PerShard BY <1>4, <2>2
  <2>4. g * PerShard = (g - 1) * PerShard + PerShard BY <1>1
  <2>5. shard'[i - 1] = RowsOfRank(order, i - 1) BY <2>1
  <2>6. SubSeq(RowsOfRank(order, i - 1), (g - 1) * PerShard + 1, g * PerShard) = RankPart(order, g, i - 1)
    BY <1>2, <2>1, ShardIsCut
  <2>7. p.parts[g][i] = RankPart(order, g, i - 1) /\ Len(p.parts[g][i]) = PerShard BY <1>6
  <2> QED BY <2>3, <2>4, <2>5, <2>6, <2>7, Zenon
<1>8. \A i \in 1 .. DP : p.offs[i][0] = 0
  <2>1. 0 \in 0 .. ChunksFed /\ 0 * PerShard = 0 BY <1>1
  <2> QED BY <1>4, <2>1
<1>9. DP' = DP /\ ChunksFed' = ChunksFed /\ PerShard' = PerShard /\ Batching' = Batching BY SizesStay DEF SameSizes
<1>10. ShardsFollow(p)' BY <1>5, <1>7, <1>8, <1>9 DEF ShardsFollow
<1> QED BY <1>6, <1>10

(* A plan, and everybody at the beginning of it.                           *)
LEMMA StartsInStep ==
  ASSUME GoodCall, GoodFeed, UNCHANGED <<call, feed>>, Submit
  PROVE  \A p : Planned(p)' => AllStand(p)'
<1>1. GoodCall' /\ GoodFeed' BY SizesStay
<1>2. Called' = Called BY CalledStay
<1>3. rank' = [w \in Called' |-> Idle1] BY <1>2 DEF Submit
<1>4. (\A p : GoodCall /\ GoodFeed /\ Planned(p) /\ rank = [w \in Called |-> Idle1] => AllStand(p))' BY IdleStand, PTL
<1> QED BY <1>1, <1>3, <1>4 DEF Idle1

(* As they come, the rows keep the chunks apart.                           *)
LEMMA InOrderChunkWise ==
  ASSUME GoodCall, GoodFeed
  PROVE  ChunkWise([i \in 1 .. RowsFed |-> i])
<1>0. PICK w : w = [i \in 1 .. RowsFed |-> i] BY Zenon
<1>1. RowsFed \in Nat /\ ChunkSize \in Nat \ {0} BY SizesAre
<1>2. w \in Seq(1 .. RowsFed) /\ Len(w) = RowsFed /\ \A i \in 1 .. RowsFed : w[i] = i BY <1>0, <1>1
<1>3. ASSUME NEW c \in 1 .. ChunksFed
      PROVE  /\ \A i \in 1 .. ChunkSize : w[PlaceIn(c, i)] \in RowsOfChunk(c)
             /\ \A i, j \in 1 .. ChunkSize : w[PlaceIn(c, i)] = w[PlaceIn(c, j)] => i = j
             /\ \A r \in RowsOfChunk(c) : \E i \in 1 .. ChunkSize : w[PlaceIn(c, i)] = r
  <2> PICK a : a = (c - 1) * ChunkSize OBVIOUS
  <2>1. a \in Nat BY RowsInChunk
  <2>2. \A i \in Nat : PlaceIn(c, i) = a + i BY DEF PlaceIn
  <2>3. \A i \in 1 .. ChunkSize : a + i \in RowsOfChunk(c) BY RowsInChunk
  <2>4. \A r \in RowsOfChunk(c) : r - a \in 1 .. ChunkSize BY RowsInChunk
  <2>5. \A r \in RowsOfChunk(c) : r \in 1 .. RowsFed BY DEF RowsOfChunk
  <2>6. ASSUME NEW i \in 1 .. ChunkSize PROVE w[PlaceIn(c, i)] = a + i
    <3>1. i \in Nat BY <1>1
    <3> QED BY <1>2, <2>2, <2>3, <2>5, <3>1
  <2>7. ASSUME NEW r \in RowsOfChunk(c) PROVE \E i \in 1 .. ChunkSize : w[PlaceIn(c, i)] = r
    <3>1. r - a \in 1 .. ChunkSize /\ a + (r - a) = r BY <1>1, <2>1, <2>4, <2>5
    <3> QED BY <2>6, <3>1
  <2>8. \A i, j \in 1 .. ChunkSize : a + i = a + j => i = j BY <1>1, <2>1
  <2> QED BY <2>3, <2>6, <2>7, <2>8
<1>4. ChunkWise(w) BY <1>2, <1>3 DEF ChunkWise
<1> QED BY <1>0, <1>4

(* Cut as they come, the rows are planned;                                 *)
LEMMA PlainSharded ==
  ASSUME GoodCall, GoodFeed, micro = Nothing, perm = Nothing, ShardPlain
  PROVE  \E p : Planned(p)' /\ AllStand(p)'
<1>1. /\ DP \in Nat \ {0} /\ PerShard \in Nat \ {0} /\ ChunksFed \in Nat \ {0} /\ DOMAIN feed = 1 .. RowsFed
      /\ call.batching = "plain" /\ call.op # "generate" => PerShard % call.mbs = 0
  BY SizesAre
<1>2. PICK order : order = [i \in 1 .. RowsFed |-> i] BY Zenon
<1>3. ChunkWise(order) BY <1>2, InOrderChunkWise
<1>4. /\ UNCHANGED <<call, feed>> /\ Submit /\ Batching = "plain" /\ micro' = Nothing /\ perm' = Nothing
      /\ shard' = [d \in Ranks |-> RowsOfRank(order, d)]
  BY <1>1, <1>2 DEF ShardPlain
<1>5. PICK by : by = IF call.op = "generate" \/ Unprepared THEN PerShard ELSE call.mbs OBVIOUS
<1>6. by \in Nat \ {0} /\ PerShard % by = 0
  <2>1. CASE call.op = "generate" \/ Unprepared
    <3>1. PerShard % PerShard = 0
      <4>1. 1 \in Nat /\ 0 \in 0 .. PerShard - 1 /\ 1 * PerShard + 0 = PerShard BY <1>1
      <4>2. (1 * PerShard + 0) % PerShard = 0 BY <1>1, <4>1, QuotientIs
      <4> QED BY <4>1, <4>2
    <3> QED BY <1>1, <1>5, <2>1, <3>1
  <2>2. CASE ~(call.op = "generate" \/ Unprepared)
    <3>1. call.batching = "plain"
      <4>1. CASE Op.balanced BY <1>4, <4>1 DEF Batching
      <4>2. CASE ~Op.balanced
        <5>1. call.op = "score" BY <2>2, <4>2, OperationsAre
        <5> QED BY <2>2, <5>1 DEF Unprepared
      <4> QED BY <4>1, <4>2
    <3>2. call.mbs \in Nat \ {0} BY DEF GoodCall
    <3> QED BY <1>1, <1>5, <2>2, <3>1, <3>2
  <2> QED BY <2>1, <2>2
<1>7. PICK n : n = PerShard \div by OBVIOUS
<1>8. n \in Nat \ {0} /\ PerShard = n * by
  <2>1. n \in Nat /\ PerShard = by * n + (PerShard % by) BY <1>1, <1>6, <1>7
  <2>2. by * n = n * by /\ n * by \in Nat BY <1>6, <2>1
  <2>3. n # 0
    <3>1. 0 * by = 0 BY <1>6
    <3> QED BY <1>1, <1>6, <2>1, <2>2, <3>1
  <2> QED BY <1>6, <2>1, <2>2, <2>3
<1>9. PICK e : e = [k \in 0 .. n |-> k * by] BY Zenon
<1>10. EndsIn(e, n, PerShard) BY <1>1, <1>6, <1>8, <1>9, EvenEnds
<1>11. PICK p : p = [parts |-> EvenlyOf(order), offs |-> EvenlyAt, many |-> [g \in 1 .. ChunksFed |-> n],
                     ends |-> [g \in 1 .. ChunksFed |-> [i \in 1 .. DP |-> e]]]
  BY Zenon
<1>12. /\ p.parts = EvenlyOf(order) /\ p.offs = EvenlyAt
       /\ \A g \in 1 .. ChunksFed : p.many[g] = n /\ \A i \in 1 .. DP : p.ends[g][i] = e
  BY <1>11
<1>13. /\ ShardsFollow(p)'
       /\ \A g \in 1 .. ChunksFed :
            /\ DealtOnce(p.parts[g], RowsOfChunk(g)) /\ Len(p.parts[g]) = DP
            /\ \A i \in 1 .. DP : p.parts[g][i] = RankPart(order, g, i - 1) /\ Len(p.parts[g][i]) = PerShard
  <2>1. Batching # "packed" BY <1>4
  <2> QED BY <1>3, <1>4, <1>12, <2>1, EvenlySharded
<1>14. /\ Op' = Op /\ Batching' = Batching /\ DP' = DP /\ RowsFed' = RowsFed /\ ChunksFed' = ChunksFed
       /\ \A g : RowsOfChunk(g)' = RowsOfChunk(g)
  BY <1>4, SizesStay DEF SameSizes
<1>15. (Unprepared' <=> Unprepared) /\ call' = call BY <1>4, CalledStay
<1>16. PlanMade(p)' BY <1>8, <1>10, <1>12, <1>13, <1>14 DEF PlanMade
<1>17. MicroFollows(p)'
  <2>1. ASSUME ~Unprepared, NEW g \in 1 .. ChunksFed, NEW i \in 1 .. DP
        PROVE  IF call.op = "generate" THEN p.many[g] = 1
               ELSE /\ p.many[g] = Len(p.parts[g][i]) \div call.mbs
                    /\ \A k \in 0 .. p.many[g] : p.ends[g][i][k] = k * call.mbs
    <3>1. CASE call.op = "generate"
      <4>1. by = PerShard BY <1>5, <3>1
      <4>2. (1 * PerShard + 0) \div PerShard = 1
        <5>1. 1 \in Nat /\ 0 \in 0 .. PerShard - 1 BY <1>1
        <5> QED BY <1>1, <5>1, QuotientIs
      <4>3. 1 * PerShard + 0 = PerShard BY <1>1
      <4> QED BY <1>7, <1>12, <3>1, <4>1, <4>2, <4>3
    <3>2. CASE call.op # "generate"
      <4>1. by = call.mbs BY <1>5, <2>1, <3>2
      <4>2. p.many[g] = n /\ p.ends[g][i] = e /\ Len(p.parts[g][i]) = PerShard BY <1>12, <1>13
      <4>3. \A k \in 0 .. n : e[k] = k * call.mbs BY <1>9, <4>1
      <4> QED BY <1>7, <3>2, <4>1, <4>2, <4>3
    <3> QED BY <3>1, <3>2
  <2> QED BY <1>4, <1>14, <1>15, <2>1 DEF MicroFollows
<1>18. AnswersFollow(p)'
  <2>1. ASSUME ~Op.trains PROVE \A r \in 1 .. RowsFed : FlattenSeq(p.parts[1])[r] = r
    <3>1. 1 \in 1 .. ChunksFed BY <1>1
    <3>2. p.parts[1] = [i \in 1 .. DP |-> RankPart(order, 1, i - 1)] BY <1>12, <3>1 DEF EvenlyOf
    <3>3. FlattenSeq(p.parts[1]) = order BY <1>3, <2>1, <3>2, EvenWhole
    <3> QED BY <1>2, <3>3
  <2> QED BY <1>4, <1>14, <2>1 DEF AnswersFollow
<1>19. Planned(p)' BY <1>13, <1>16, <1>17, <1>18 DEF Planned
<1>20. AllStand(p)' BY <1>4, <1>19, StartsInStep
<1> QED BY <1>19, <1>20

(* One of finitely many numbers is not below any.                          *)
LEMMA OneIsLongest ==
  ASSUME NEW n \in Nat \ {0}, NEW f \in [1 .. n -> Nat]
  PROVE  \E i \in 1 .. n : \A j \in 1 .. n : f[j] <= f[i]
<1> DEFINE Highest(l) == \E i \in 1 .. l : \A j \in 1 .. l : f[j] <= f[i]
           S == {m \in Nat : m + 1 <= n => Highest(m + 1)}
<1>1. 0 \in S
  <2>1. 1 \in 1 .. 0 + 1 /\ 1 \in 1 .. n /\ \A j \in 1 .. 0 + 1 : j = 1 OBVIOUS
  <2>2. f[1] <= f[1] BY <2>1
  <2>3. \E i \in 1 .. 0 + 1 : \A j \in 1 .. 0 + 1 : f[j] <= f[i] BY <2>1, <2>2
  <2> QED BY <2>3
<1>2. ASSUME NEW m \in Nat, m \in S, (m + 1) + 1 <= n
      PROVE  Highest((m + 1) + 1)
  <2>1. PICK i \in 1 .. m + 1 : \A j \in 1 .. m + 1 : f[j] <= f[i] BY <1>2
  <2> DEFINE l == (m + 1) + 1
  <2>2. l \in 1 .. n /\ i \in 1 .. n /\ i \in 1 .. l /\ l \in 1 .. l /\ \A j \in 1 .. l : j \in 1 .. m + 1 \/ j = l BY <1>2
  <2>3. f[l] \in Nat /\ f[i] \in Nat /\ \A j \in 1 .. m + 1 : f[j] \in Nat BY <1>2, <2>2
  <2> HIDE DEF l
  <2>4. CASE f[l] <= f[i]
    <3>1. \A j \in 1 .. l : f[j] <= f[i] BY <2>1, <2>2, <2>4
    <3> QED BY <2>2, <3>1 DEF l
  <2>5. CASE f[i] <= f[l]
    <3>1. \A j \in 1 .. l : f[j] <= f[l] BY <2>1, <2>2, <2>3, <2>5
    <3> QED BY <2>2, <3>1 DEF l
  <2> QED BY <2>3, <2>4, <2>5
<1>3. ASSUME NEW m \in Nat, m \in S PROVE m + 1 \in S
  <2> HIDE DEF Highest
  <2>1. (m + 1) + 1 <= n => Highest((m + 1) + 1) BY <1>2, <1>3, Zenon
  <2> QED BY <1>3, <2>1
<1> HIDE DEF S
<1>4. Nat \subseteq S BY <1>1, <1>3, Induct, Zenon
<1>5. n - 1 \in Nat /\ (n - 1) + 1 = n OBVIOUS
<1>6. n - 1 \in S BY <1>4, <1>5
<1> QED BY <1>5, <1>6 DEF S

(* A padded length is no shorter.                                          *)
LEMMA PaddedUp ==
  ASSUME NEW n \in Nat
  PROVE  Padded(n) \in Nat /\ n <= Padded(n)
<1> PICK m : m = RoundTo OBVIOUS
<1>1. m \in Nat \ {0} BY PolicyConstants
<1> DEFINE a == n + m - 1
           q == a \div m
<1>2. a \in Nat BY <1>1
<1> HIDE DEF a
<1>3. q \in Nat /\ a % m \in 0 .. m - 1 /\ a = m * q + (a % m) BY <1>1, <1>2
<1> HIDE DEF q
<1>4. m * q = q * m /\ q * m \in Nat BY <1>1, <1>3
<1>5. n <= q * m
  <2>1. a = n + m - 1 BY DEF a
  <2> QED BY <1>1, <1>3, <1>4, <2>1
<1>6. Padded(n) = q * m BY DEF Padded, q, a
<1> QED BY <1>4, <1>5, <1>6

-----------------------------------------------------------------------------
(* Dynamic batching: sorted by length and dealt                            *)

(* The rows of a chunk by length, and by position where that is the same.  *)
ByLength(c) ==
  {p \in RowsOfChunk(c) \X RowsOfChunk(c) : feed[p[1]] < feed[p[2]] \/ (feed[p[1]] = feed[p[2]] /\ p[1] < p[2])}

(* A chunk has finitely many rows, and that order of them is strict.       *)
LEMMA LengthsStrict ==
  ASSUME GoodCall, GoodFeed, NEW c \in 1 .. ChunksFed
  PROVE  /\ IsFiniteSet(RowsOfChunk(c)) /\ Cardinality(RowsOfChunk(c)) = ChunkSize
         /\ Strict(RowsOfChunk(c), ByLength(c))
<1> DEFINE S == RowsOfChunk(c)
           R == ByLength(c)
           a == (c - 1) * ChunkSize
<1>0. RowsFed \in Nat /\ DOMAIN feed = 1 .. RowsFed /\ ChunkSize \in Nat \ {0} BY SizesAre
<1>1. \A r \in S : feed[r] \in Nat /\ r \in Nat
  <2>1. \A r \in S : r \in 1 .. RowsFed BY DEF RowsOfChunk
  <2>2. feed \in Seq(Nat) BY DEF GoodFeed
  <2> QED BY <1>0, <2>1, <2>2
<1>2. a \in Nat /\ S = a + 1 .. a + ChunkSize
  <2>1. a \in Nat /\ c * ChunkSize = a + ChunkSize /\ c * ChunkSize <= RowsFed BY RowsInChunk
  <2>2. S = {r \in 1 .. RowsFed : a < r /\ r <= a + ChunkSize} BY <2>1 DEF RowsOfChunk
  <2>3. a \in Nat /\ a + ChunkSize <= RowsFed BY <2>1
  <2> HIDE DEF a, S
  <2> PICK k, b, n : k = ChunkSize /\ b = a /\ n = RowsFed OBVIOUS
  <2>4. k \in Nat \ {0} /\ n \in Nat /\ b \in Nat /\ b + k <= n /\ S = {r \in 1 .. n : b < r /\ r <= b + k} BY <1>0, <2>2, <2>3
  <2>5. \A r : r \in S <=> r \in b + 1 .. b + k BY <2>4
  <2> QED BY <2>4, <2>5
<1>3. IsFiniteSet(S) /\ Cardinality(S) = ChunkSize
  <2> PICK k, b : k = ChunkSize /\ b = a OBVIOUS
  <2> HIDE DEF a, S
  <2>1. k \in Nat \ {0} /\ b + 1 \in Int /\ b + k \in Int /\ b \in Nat BY <1>0, <1>2
  <2>2. IsFiniteSet(b + 1 .. b + k) /\ Cardinality(b + 1 .. b + k) = IF b + 1 > b + k THEN 0 ELSE (b + k) - (b + 1) + 1
    BY <2>1, FS_Interval
  <2>3. Cardinality(b + 1 .. b + k) = k BY <2>1, <2>2
  <2> QED BY <1>2, <2>2, <2>3
<1>4. \A x, y \in S : <<x, y>> \in R <=> feed[x] < feed[y] \/ (feed[x] = feed[y] /\ x < y) BY DEF ByLength
<1> HIDE DEF S, R
<1>5. Strict(S, R)
  <2>1. \A x \in S : <<x, x>> \notin R BY <1>1, <1>4
  <2>2. ASSUME NEW x \in S, NEW y \in S PROVE x = y \/ <<x, y>> \in R \/ <<y, x>> \in R
    <3>1. feed[x] \in Nat /\ feed[y] \in Nat /\ x \in Nat /\ y \in Nat BY <1>1
    <3>2. <<x, y>> \in R <=> feed[x] < feed[y] \/ (feed[x] = feed[y] /\ x < y) BY <1>4
    <3>3. <<y, x>> \in R <=> feed[y] < feed[x] \/ (feed[y] = feed[x] /\ y < x) BY <1>4
    <3> QED BY <3>1, <3>2, <3>3
  <2>3. ASSUME NEW x \in S, NEW y \in S, NEW z \in S, <<x, y>> \in R, <<y, z>> \in R PROVE <<x, z>> \in R
    BY <1>1, <1>4, <2>3
  <2> QED BY <2>1, <2>2, <2>3 DEF Strict
<1> QED BY <1>3, <1>5 DEF S, R

(* Sorted: every row of the chunk in one place.                            *)
SortedIn(c) == [k \in 1 .. ChunkSize |-> CHOOSE x \in RowsOfChunk(c) : Cardinality(Below(RowsOfChunk(c), ByLength(c), x)) = k - 1]

(* Sorting a chunk for dynamic batching puts each of its rows in one place,*)
(* and dealing takes them from there.                                      *)
LEMMA SortedOnce ==
  ASSUME GoodCall, GoodFeed, NEW c \in 1 .. ChunksFed
  PROVE  /\ \A k \in 1 .. ChunkSize : SortedIn(c)[k] \in RowsOfChunk(c)
         /\ \A k, l \in 1 .. ChunkSize : SortedIn(c)[k] = SortedIn(c)[l] => k = l
         /\ \A r \in RowsOfChunk(c) : \E k \in 1 .. ChunkSize : SortedIn(c)[k] = r
         /\ Dealt(c) = FlattenSeq([d \in 1 .. DP |-> [k \in 1 .. PerShard |-> SortedIn(c)[(k - 1) * DP + d]]])
<1> DEFINE S == RowsOfChunk(c)
           R == ByLength(c)
           w == SortedIn(c)
<1>1. /\ IsFiniteSet(S) /\ Cardinality(S) = ChunkSize /\ Strict(S, R) BY LengthsStrict
<1>2. ChunkSize \in Nat \ {0} BY SizesAre
<1>3. w = [k \in 1 .. ChunkSize |-> CHOOSE x \in S : Cardinality(Below(S, R, x)) = k - 1] BY DEF SortedIn
<1>4. Dealt(c) = FlattenSeq([d \in 1 .. DP |-> [k \in 1 .. PerShard |-> w[(k - 1) * DP + d]]])
  <2>1. Range(RowsIn(c)) = S BY RowsInChunk
  <2>2. \A x \in S : {y \in S : feed[y] < feed[x] \/ (feed[y] = feed[x] /\ y < x)} = Below(S, R, x)
    BY DEF Below, ByLength
  <2>3. Sorted(S, LAMBDA i, j : feed[i] < feed[j] \/ (feed[i] = feed[j] /\ i < j)) = w
    <3>1. \A k \in 1 .. ChunkSize :
            (CHOOSE x \in S : Cardinality({y \in S : feed[y] < feed[x] \/ (feed[y] = feed[x] /\ y < x)}) = k - 1)
              = (CHOOSE x \in S : Cardinality(Below(S, R, x)) = k - 1)
      BY <2>2, Zenon
    <3> QED BY <1>1, <1>3, <3>1 DEF Sorted
  <2> QED BY <2>1, <2>3, Zenon DEF Dealt
<1>5. /\ \A x, z \in S : Cardinality(Below(S, R, x)) = Cardinality(Below(S, R, z)) => x = z
      /\ \A x \in S : Cardinality(Below(S, R, x)) \in 0 .. ChunkSize - 1
      /\ \A k \in 0 .. ChunkSize - 1 : \E x \in S : Cardinality(Below(S, R, x)) = k
  BY <1>1, EveryRank
<1> HIDE DEF S, R, w
<1>6. ASSUME NEW k \in 1 .. ChunkSize PROVE w[k] \in S /\ Cardinality(Below(S, R, w[k])) = k - 1
  <2>1. k - 1 \in 0 .. ChunkSize - 1 BY <1>2
  <2>2. \E x \in S : Cardinality(Below(S, R, x)) = k - 1 BY <1>5, <2>1
  <2>3. w[k] = CHOOSE x \in S : Cardinality(Below(S, R, x)) = k - 1 BY <1>3
  <2> QED BY <2>2, <2>3
<1>7. ASSUME NEW k \in 1 .. ChunkSize, NEW l \in 1 .. ChunkSize, w[k] = w[l] PROVE k = l
  <2>1. k - 1 = l - 1 BY <1>6, <1>7
  <2> QED BY <1>2, <2>1
<1>8. ASSUME NEW r \in S PROVE \E k \in 1 .. ChunkSize : w[k] = r
  <2> PICK k : k = Cardinality(Below(S, R, r)) + 1 OBVIOUS
  <2>1. k \in 1 .. ChunkSize /\ k - 1 = Cardinality(Below(S, R, r)) BY <1>2, <1>5
  <2>2. w[k] = r BY <1>5, <1>6, <2>1
  <2> QED BY <2>1, <2>2
<1> QED BY <1>4, <1>6, <1>7, <1>8 DEF S, R, w

(* Dealt out, too;                                                         *)
LEMMA DealtWhole ==
  ASSUME GoodCall, GoodFeed, NEW c \in 1 .. ChunksFed
  PROVE  /\ Dealt(c) \in Seq(RowsOfChunk(c)) /\ Len(Dealt(c)) = ChunkSize
         /\ IsInjective(Dealt(c)) /\ Range(Dealt(c)) = RowsOfChunk(c)
<1> DEFINE S == RowsOfChunk(c)
           w == SortedIn(c)
           ss == [d \in 1 .. DP |-> [k \in 1 .. PerShard |-> w[(k - 1) * DP + d]]]
<1>1. /\ \A k \in 1 .. ChunkSize : w[k] \in S
      /\ \A k, l \in 1 .. ChunkSize : w[k] = w[l] => k = l
      /\ \A r \in S : \E k \in 1 .. ChunkSize : w[k] = r
      /\ Dealt(c) = FlattenSeq(ss)
  BY SortedOnce
<1>2. PICK n, m, k0 : n = DP /\ m = PerShard /\ k0 = ChunkSize OBVIOUS
<1>3. n \in Nat \ {0} /\ m \in Nat \ {0} /\ k0 = n * m /\ k0 \in Nat BY <1>2, SizesAre
<1> HIDE DEF S, w
<1>4. /\ \A d \in 1 .. n, k \in 1 .. m : (k - 1) * n + d \in 1 .. k0
      /\ \A i \in 1 .. k0 : \E d \in 1 .. n, k \in 1 .. m : i = (k - 1) * n + d
      /\ \A d, e \in 1 .. n : \A k, l \in 1 .. m : (k - 1) * n + d = (l - 1) * n + e => d = e /\ k = l
  <2>0. m * n = k0 /\ m * n \in Nat BY <1>3
  <2>1. ASSUME NEW d \in 1 .. n, NEW k \in 1 .. m PROVE (k - 1) * n + d \in 1 .. k0
    <3>1. k - 1 \in 0 .. m - 1 /\ d - 1 \in 0 .. n - 1 BY <1>3
    <3>2. (k - 1) * n + (d - 1) \in 0 .. m * n - 1 BY <1>3, <3>1, PlacesFit
    <3>3. (k - 1) * n \in Nat BY <1>3, <3>1
    <3> QED BY <1>3, <2>0, <3>2, <3>3
  <2>2. ASSUME NEW i \in 1 .. k0 PROVE \E d \in 1 .. n, k \in 1 .. m : i = (k - 1) * n + d
    <3>1. i - 1 \in 0 .. m * n - 1 BY <1>3, <2>0
    <3> DEFINE q == (i - 1) \div n
               r == (i - 1) % n
    <3>2. q \in 0 .. m - 1 /\ r \in 0 .. n - 1 /\ i - 1 = q * n + r BY <1>3, <3>1, PlaceOf, Zenon
    <3> HIDE DEF q, r
    <3>3. q * n \in Nat BY <1>3, <3>2
    <3>4. q + 1 \in 1 .. m /\ r + 1 \in 1 .. n /\ (q + 1) - 1 = q BY <1>3, <3>2
    <3>5. i = q * n + (r + 1) BY <1>3, <3>2, <3>3
    <3>6. i = ((q + 1) - 1) * n + (r + 1) BY <3>4, <3>5
    <3> QED BY <3>4, <3>6
  <2>3. ASSUME NEW d \in 1 .. n, NEW e \in 1 .. n, NEW k \in 1 .. m, NEW l \in 1 .. m, (k - 1) * n + d = (l - 1) * n + e
        PROVE  d = e /\ k = l
    <3>1. k - 1 \in Nat /\ l - 1 \in Nat /\ d - 1 \in 0 .. n - 1 /\ e - 1 \in 0 .. n - 1 BY <1>3
    <3>2. (k - 1) * n \in Nat /\ (l - 1) * n \in Nat BY <1>3, <3>1
    <3>3. (k - 1) * n + (d - 1) = (l - 1) * n + (e - 1) BY <1>3, <2>3, <3>1, <3>2
    <3>4. k - 1 = l - 1 /\ d - 1 = e - 1 BY <1>3, <3>1, <3>3, OnePlace
    <3> QED BY <1>3, <3>4
  <2> QED BY <2>1, <2>2, <2>3
<1>5. ss = [d \in 1 .. n |-> [k \in 1 .. m |-> w[(k - 1) * n + d]]] BY <1>2
<1> HIDE DEF ss
<1>6. \A d \in 1 .. n, k \in 1 .. m : ss[d][k] = w[(k - 1) * n + d] BY <1>5
<1>7. ASSUME NEW d \in 1 .. n PROVE ss[d] \in Seq(S) /\ Len(ss[d]) = m
  <2>1. \A k \in 1 .. m : w[(k - 1) * n + d] \in S
    <3>1. \A k \in 1 .. m : (k - 1) * n + d \in 1 .. k0 BY <1>4
    <3>2. \A i \in 1 .. k0 : w[i] \in S BY <1>1, <1>2
    <3> QED BY <3>1, <3>2
  <2>2. ss[d] = [k \in 1 .. m |-> w[(k - 1) * n + d]] BY <1>5
  <2>3. [k \in 1 .. m |-> w[(k - 1) * n + d]] \in [1 .. m -> S] BY <2>1
  <2>4. \A f \in [1 .. m -> S] : f \in Seq(S) /\ Len(f) = m BY <1>3
  <2> QED BY <2>2, <2>3, <2>4
<1>8. ss \in Parts(S) /\ Len(ss) = n
  <2>1. ss \in [1 .. n -> Seq(S)] BY <1>5, <1>7
  <2>2. ss \in Seq(Seq(S)) /\ Len(ss) = n BY <1>3, <2>1
  <2> QED BY <2>2 DEF Parts
<1>9. ASSUME NEW r \in S PROVE \E i \in 1 .. Len(ss) : \E k \in 1 .. Len(ss[i]) : ss[i][k] = r
  <2>1. PICK i \in 1 .. k0 : w[i] = r BY <1>1, <1>2
  <2>2. PICK d \in 1 .. n, k \in 1 .. m : i = (k - 1) * n + d BY <1>4
  <2>3. ss[d][k] = r BY <1>6, <2>1, <2>2
  <2> QED BY <1>7, <1>8, <2>3
<1>10. ASSUME NEW i \in 1 .. Len(ss), NEW j \in 1 .. Len(ss), NEW k \in 1 .. Len(ss[i]), NEW l \in 1 .. Len(ss[j]),
              ss[i][k] = ss[j][l]
       PROVE  i = j /\ k = l
  <2>1. i \in 1 .. n /\ j \in 1 .. n /\ k \in 1 .. m /\ l \in 1 .. m BY <1>7, <1>8, <1>10
  <2> PICK p, q : p = (k - 1) * n + i /\ q = (l - 1) * n + j OBVIOUS
  <2>2. p \in 1 .. k0 /\ q \in 1 .. k0 BY <1>4, <2>1
  <2>3. w[p] = w[q] BY <1>6, <1>10, <2>1, Zenon
  <2>4. p = q BY <1>1, <1>2, <2>2, <2>3
  <2>5. (k - 1) * n + i = (l - 1) * n + j BY <2>4
  <2> QED BY <1>4, <2>1, <2>5
<1>11. DealtOnce(ss, S) BY <1>8, <1>9, <1>10, Zenon DEF DealtOnce
<1>12. FlattenSeq(ss) \in Seq(S) /\ IsInjective(FlattenSeq(ss)) /\ Range(FlattenSeq(ss)) = S BY <1>11, JoinedOnce
<1>13. Len(FlattenSeq(ss)) = k0
  <2>1. \A i \in 1 .. Len(ss) : Len(ss[i]) = m BY <1>7, <1>8
  <2> PICK e : e = [i \in 0 .. Len(ss) |-> i * m] BY Zenon
  <2>2. Parted(ss, e) BY <1>3, <1>8, <2>1, EvenParts, Zenon
  <2>3. Len(FlattenSeq(ss)) = e[Len(ss)] BY <1>8, <2>2, PartsJoined DEF Lies
  <2>4. Len(ss) \in 0 .. Len(ss) BY <1>3, <1>8
  <2>5. e[Len(ss)] = n * m BY <1>8, <2>4
  <2> QED BY <1>3, <2>3, <2>5
<1> QED BY <1>1, <1>2, <1>12, <1>13 DEF S

(* so the chunks are kept apart.                                           *)
LEMMA DealtChunkWise ==
  ASSUME GoodCall, GoodFeed, NEW order, order = FlattenSeq([c \in Chunks |-> Dealt(c)])
  PROVE  ChunkWise(order)
<1> DEFINE ss == [c \in 1 .. ChunksFed |-> Dealt(c)]
           V == 1 .. RowsFed
           e == [i \in 0 .. Len(ss) |-> i * ChunkSize]
<1>1. /\ ChunksFed \in Nat \ {0} /\ ChunkSize \in Nat \ {0} /\ RowsFed \in Nat /\ RowsFed = ChunksFed * ChunkSize
      /\ Chunks = 1 .. ChunksFed
  BY SizesAre
<1>2. order = FlattenSeq(ss) BY <1>1
<1>3. \A c \in 1 .. ChunksFed : ss[c] = Dealt(c) OBVIOUS
<1>4. ASSUME NEW c \in 1 .. ChunksFed
      PROVE  /\ ss[c] \in Seq(RowsOfChunk(c)) /\ Len(ss[c]) = ChunkSize
             /\ IsInjective(ss[c]) /\ Range(ss[c]) = RowsOfChunk(c)
  BY <1>3, DealtWhole
<1>5. ASSUME NEW c \in 1 .. ChunksFed PROVE ss[c] \in Seq(V)
  <2>1. RowsOfChunk(c) \subseteq V BY DEF RowsOfChunk
  <2> PICK t, A : t = ss[c] /\ A = RowsOfChunk(c) OBVIOUS
  <2>2. t \in Seq(A) BY <1>4
  <2> HIDE DEF ss, V
  <2>3. \A k \in 1 .. Len(t) : t[k] \in V BY <2>1, <2>2
  <2>4. t \in Seq(V) BY <2>2, <2>3
  <2> QED BY <2>4
<1>6. ss \in Parts(V) /\ Len(ss) = ChunksFed
  <2>1. ss \in [1 .. ChunksFed -> Seq(V)] BY <1>5
  <2> HIDE DEF ss, V
  <2>2. ss \in Seq(Seq(V)) /\ Len(ss) = ChunksFed BY <1>1, <2>1
  <2> QED BY <2>2 DEF Parts
<1> HIDE DEF ss, V
<1>7. Parted(ss, e)
  <2>1. \A i \in 1 .. Len(ss) : Len(ss[i]) = ChunkSize BY <1>4, <1>6
  <2> QED BY <1>1, <1>6, <2>1, EvenParts
<1>8. Lies(ss, e, V, Len(ss), order) BY <1>2, <1>6, <1>7, PartsJoined
<1>9. \A c \in 0 .. ChunksFed : e[c] = c * ChunkSize BY <1>6
<1> HIDE DEF e
<1>10. order \in Seq(V) /\ Len(order) = RowsFed
  <2>1. order \in Seq(V) /\ Len(order) = e[Len(ss)] BY <1>8 DEF Lies
  <2>2. e[Len(ss)] = RowsFed BY <1>1, <1>6, <1>9
  <2> QED BY <2>1, <2>2
<1>11. ASSUME NEW c \in 1 .. ChunksFed, NEW i \in 1 .. ChunkSize PROVE order[PlaceIn(c, i)] = ss[c][i]
  <2>1. i \in 1 .. Len(ss[c]) /\ c \in 1 .. Len(ss) BY <1>4, <1>6
  <2>2. order[e[c - 1] + i] = ss[c][i] BY <1>8, <2>1, Zenon DEF Lies
  <2>3. c - 1 \in 0 .. ChunksFed BY <1>1
  <2> QED BY <1>9, <2>2, <2>3 DEF PlaceIn
<1>12. ASSUME NEW c \in 1 .. ChunksFed
       PROVE  /\ \A i \in 1 .. ChunkSize : order[PlaceIn(c, i)] \in RowsOfChunk(c)
              /\ \A i, j \in 1 .. ChunkSize : order[PlaceIn(c, i)] = order[PlaceIn(c, j)] => i = j
              /\ \A r \in RowsOfChunk(c) : \E i \in 1 .. ChunkSize : order[PlaceIn(c, i)] = r
  <2>0. PICK t : t = ss[c] OBVIOUS
  <2>1. t \in Seq(RowsOfChunk(c)) /\ Len(t) = ChunkSize /\ IsInjective(t) /\ Range(t) = RowsOfChunk(c) BY <1>4, <2>0
  <2>2. DOMAIN t = 1 .. ChunkSize BY <2>1
  <2>3. \A i \in 1 .. ChunkSize : t[i] \in RowsOfChunk(c) BY <2>1
  <2>4. \A i, j \in 1 .. ChunkSize : t[i] = t[j] => i = j BY <2>1, <2>2 DEF IsInjective
  <2>5. \A r \in RowsOfChunk(c) : \E i \in 1 .. ChunkSize : t[i] = r BY <2>1, <2>2 DEF Range
  <2>6. \A i \in 1 .. ChunkSize : order[PlaceIn(c, i)] = t[i] BY <1>11, <2>0
  <2> QED BY <2>3, <2>4, <2>5, <2>6
<1> QED BY <1>10, <1>12, Zenon DEF ChunkWise, V

-----------------------------------------------------------------------------
(* Microbatches as many rows long as fit                                   *)

Stretch == [from : Nat, to : Nat, len : Nat]
Stretches == {mbs \in Seq(Stretch) : Len(mbs) > 0}
FirstStretch == <<[from |-> 0, to |-> 0, len |-> 0]>>
StretchFits(m, T) ==
  m.from <= m.to /\ m.len * (m.to - m.from) <= MaxTokens /\ \A i \in m.from + 1 .. m.to : T[i] \in Nat /\ T[i] <= m.len
Fills(mbs, j, T) ==
  /\ mbs \in Stretches /\ mbs[1].from = 0 /\ mbs[Len(mbs)].to = j
  /\ \A k \in 1 .. Len(mbs) : StretchFits(mbs[k], T)
  /\ \A k \in 1 .. Len(mbs) : k > 1 => mbs[k].from = mbs[k - 1].to

(* A row more: in the last microbatch if it has room for it, or in one of  *)
(* its own.                                                                *)
GrowsTo(mbs, more, last) ==
  /\ more \in Stretches /\ more[Len(more)] = last
  /\ \/ Len(more) = Len(mbs) /\ \A k \in 1 .. Len(mbs) : k < Len(mbs) => more[k] = mbs[k]
     \/ Len(more) = Len(mbs) + 1 /\ \A k \in 1 .. Len(mbs) : more[k] = mbs[k]

(* Taking a row into the last microbatch leaves those before it alone.     *)
LEMMA LastGrows ==
  ASSUME NEW mbs \in Stretches, NEW a \in Nat, NEW b \in Nat
  PROVE  GrowsTo(mbs, [mbs EXCEPT ![Len(mbs)] = [from |-> mbs[Len(mbs)].from, to |-> a, len |-> b]],
                 [from |-> mbs[Len(mbs)].from, to |-> a, len |-> b])
<1> DEFINE n == Len(mbs)
           new == [from |-> mbs[n].from, to |-> a, len |-> b]
           more == [mbs EXCEPT ![n] = new]
<1>1. mbs \in Seq(Stretch) /\ n \in Nat /\ n > 0 /\ DOMAIN mbs = 1 .. n BY DEF Stretches
<1>2. mbs[n] \in Stretch BY <1>1
<1>3. new = [from |-> mbs[n].from, to |-> a, len |-> b] /\ new \in Stretch BY <1>2 DEF Stretch
<1> HIDE DEF n, new
<1>4. more \in Seq(Stretch) /\ Len(more) = n /\ more[n] = new /\ \A k \in 1 .. n : k < n => more[k] = mbs[k]
  BY <1>1, <1>3
<1> HIDE DEF more
<1>5. more \in Stretches BY <1>1, <1>4 DEF Stretches
<1>6. GrowsTo(mbs, more, new) BY <1>4, <1>5 DEF GrowsTo, n
<1> QED BY <1>3, <1>6 DEF more, new, n

(* A microbatch of its own.                                                *)
LEMMA OneMoreStretch ==
  ASSUME NEW mbs \in Stretches, NEW m \in Stretch
  PROVE  GrowsTo(mbs, Append(mbs, m), m) /\ Len(Append(mbs, m)) = Len(mbs) + 1
<1> DEFINE n == Len(mbs)
           more == Append(mbs, m)
<1>1. mbs \in Seq(Stretch) /\ n \in Nat /\ n > 0 BY DEF Stretches
<1>2. more \in Seq(Stretch) /\ Len(more) = n + 1 /\ more[n + 1] = m /\ \A k \in 1 .. n : more[k] = mbs[k]
  BY <1>1, AppendProperties
<1> HIDE DEF more
<1>3. more \in Stretches BY <1>1, <1>2 DEF Stretches
<1> QED BY <1>2, <1>3 DEF GrowsTo, more

(* Either way everything fits that did, and the row as well.               *)
LEMMA GrowFills ==
  ASSUME NEW T, NEW j \in Nat, NEW mbs \in Stretches, NEW tall \in Nat
  PROVE  /\ Grow(mbs, j + 1, tall) \in Stretches
         /\ Fills(mbs, j, T) /\ T[j + 1] = tall /\ tall <= MaxTokens => Fills(Grow(mbs, j + 1, tall), j + 1, T)
<1>1. PICK n : n = Len(mbs) BY Zenon
<1>2. n \in Nat \ {0} /\ mbs \in Seq(Stretch) BY <1>1 DEF Stretches
<1>3. PICK last : last = mbs[n] OBVIOUS
<1>4. last \in Stretch BY <1>2, <1>3, <1>1
<1>5. last.from \in Nat /\ last.to \in Nat /\ last.len \in Nat BY <1>4 DEF Stretch
<1>6. PICK both : both = IF last.len < tall THEN tall ELSE last.len OBVIOUS
<1>7. both \in Nat /\ last.len <= both /\ tall <= both BY <1>5, <1>6
<1>8. PICK fits : fits \in BOOLEAN /\ (fits <=> (last.to - last.from + 1) * both <= MaxTokens)
  <2>1. ((last.to - last.from + 1) * both <= MaxTokens) \in BOOLEAN OBVIOUS
  <2> QED BY <2>1, Zenon
<1>9. PICK more : more = Grow(mbs, j + 1, tall) OBVIOUS
<1>10. more = IF fits THEN [mbs EXCEPT ![n] = [from |-> last.from, to |-> last.to + 1, len |-> both]]
              ELSE Append(mbs, [from |-> (j + 1) - 1, to |-> j + 1, len |-> tall])
  BY <1>1, <1>3, <1>6, <1>8, <1>9 DEF Grow
<1>11. CASE fits
  <2>1. more = [mbs EXCEPT ![n] = [from |-> last.from, to |-> last.to + 1, len |-> both]] BY <1>10, <1>11
  <2>2. PICK new : new = [from |-> last.from, to |-> last.to + 1, len |-> both] BY Zenon
  <2>3. GrowsTo(mbs, more, new)
    <3>1. last.to + 1 \in Nat BY <1>5
    <3> QED BY <1>1, <1>3, <1>7, <2>1, <2>2, <3>1, LastGrows, Zenon
  <2>4. new.from = last.from /\ new.to = last.to + 1 /\ new.len = both BY <2>2
  <2>5. more \in Stretches BY <2>3 DEF GrowsTo
  <2>6. Len(more) = n /\ more[n] = new /\ \A k \in 1 .. n : k < n => more[k] = mbs[k]
    <3>1. Len(more) = n
      <4>1. DOMAIN more = DOMAIN mbs BY <2>1
      <4>2. DOMAIN mbs = 1 .. n BY <1>1, <1>2
      <4>3. more \in Seq(Stretch) BY <2>5 DEF Stretches
      <4>4. DOMAIN more = 1 .. Len(more) /\ Len(more) \in Nat BY <4>3
      <4> QED BY <1>2, <4>1, <4>2, <4>4
    <3>2. more[Len(more)] = new BY <2>3 DEF GrowsTo
    <3>3. \A k \in 1 .. n : k < n => more[k] = mbs[k]
      <4>1. Len(more) # Len(mbs) + 1 BY <1>1, <1>2, <3>1
      <4> QED BY <1>1, <2>3, <4>1 DEF GrowsTo
    <3> QED BY <3>1, <3>2, <3>3
  <2>7. ASSUME Fills(mbs, j, T), T[j + 1] = tall, tall <= MaxTokens PROVE Fills(more, j + 1, T)
    <3>1. /\ mbs[1].from = 0 /\ last.to = j /\ StretchFits(last, T)
          /\ \A k \in 1 .. n : StretchFits(mbs[k], T)
          /\ \A k \in 1 .. n : k > 1 => mbs[k].from = mbs[k - 1].to
      <4>1. n \in 1 .. n BY <1>2
      <4> QED BY <1>1, <1>3, <2>7, <4>1 DEF Fills
    <3>2. StretchFits(new, T)
      <4>1. last.from <= last.to /\ \A i \in last.from + 1 .. last.to : T[i] \in Nat /\ T[i] <= last.len BY <3>1 DEF StretchFits
      <4>2. new.from <= new.to BY <1>5, <2>4, <4>1
      <4>3. new.len * (new.to - new.from) <= MaxTokens
        <5>1. new.to - new.from = last.to - last.from + 1 BY <1>5, <2>4
        <5> PICK s : s = last.to - last.from + 1 OBVIOUS
        <5>2. s \in Int /\ s * both <= MaxTokens BY <1>5, <1>8, <1>11
        <5>3. s * both = both * s BY <1>7, <5>2
        <5> QED BY <2>4, <5>1, <5>2, <5>3
      <4>4. ASSUME NEW i \in new.from + 1 .. new.to PROVE T[i] \in Nat /\ T[i] <= new.len
        <5>1. CASE i = j + 1 BY <1>7, <2>4, <2>7, <5>1
        <5>2. CASE i # j + 1
          <6>1. i \in last.from + 1 .. last.to BY <1>5, <2>4, <3>1, <4>4, <5>2
          <6>2. T[i] \in Nat /\ T[i] <= last.len BY <4>1, <6>1
          <6> QED BY <1>5, <1>7, <2>4, <6>2
        <5> QED BY <5>1, <5>2
      <4> QED BY <4>2, <4>3, <4>4 DEF StretchFits
    <3>3. ASSUME NEW k \in 1 .. n PROVE StretchFits(more[k], T) BY <1>2, <2>6, <3>1, <3>2
    <3>4. ASSUME NEW k \in 1 .. n, k > 1 PROVE more[k].from = more[k - 1].to
      <4>1. more[k].from = mbs[k].from BY <1>2, <1>3, <2>4, <2>6
      <4>2. k - 1 \in 1 .. n /\ k - 1 < n BY <1>2, <3>4
      <4>3. more[k - 1] = mbs[k - 1] BY <2>6, <4>2
      <4> QED BY <3>1, <3>4, <4>1, <4>3
    <3>5. more[1].from = 0
      <4>1. CASE n = 1 BY <1>3, <2>4, <2>6, <3>1, <4>1
      <4>2. CASE n # 1
        <5>1. 1 \in 1 .. n /\ 1 < n BY <1>2, <4>2
        <5>2. more[1] = mbs[1] BY <2>6, <5>1
        <5> QED BY <3>1, <5>2
      <4> QED BY <4>1, <4>2
    <3>6. more[n].to = j + 1 BY <2>4, <2>6, <3>1
    <3> QED BY <2>5, <2>6, <3>3, <3>4, <3>5, <3>6 DEF Fills
  <2> QED BY <1>9, <2>5, <2>7
<1>12. CASE ~fits
  <2>1. PICK new : new = [from |-> j, to |-> j + 1, len |-> tall] BY Zenon
  <2>2. new \in Stretch /\ new.from = j /\ new.to = j + 1 /\ new.len = tall BY <2>1 DEF Stretch
  <2>3. more = Append(mbs, new)
    <3>1. (j + 1) - 1 = j OBVIOUS
    <3> QED BY <1>10, <1>12, <2>1, <3>1
  <2>4. GrowsTo(mbs, more, new) /\ Len(more) = n + 1 BY <1>1, <2>2, <2>3, OneMoreStretch
  <2>5. more \in Stretches /\ more[n + 1] = new /\ \A k \in 1 .. n : more[k] = mbs[k]
    <3>1. n + 1 # n BY <1>2
    <3> QED BY <1>1, <2>4, <3>1 DEF GrowsTo
  <2>6. ASSUME Fills(mbs, j, T), T[j + 1] = tall, tall <= MaxTokens PROVE Fills(more, j + 1, T)
    <3>1. /\ mbs[1].from = 0 /\ last.to = j
          /\ \A k \in 1 .. n : StretchFits(mbs[k], T)
          /\ \A k \in 1 .. n : k > 1 => mbs[k].from = mbs[k - 1].to
      BY <1>1, <1>3, <2>6 DEF Fills
    <3>2. StretchFits(new, T)
      <4>1. (j + 1) - j = 1 /\ tall * 1 = tall /\ j <= j + 1 OBVIOUS
      <4>2. \A i \in j + 1 .. j + 1 : i = j + 1 OBVIOUS
      <4>3. new.len * (new.to - new.from) <= MaxTokens BY <2>2, <2>6, <4>1
      <4>4. \A i \in j + 1 .. j + 1 : T[i] \in Nat /\ T[i] <= tall BY <2>6, <4>2
      <4> QED BY <2>2, <4>1, <4>3, <4>4 DEF StretchFits
    <3>3. ASSUME NEW k \in 1 .. n + 1 PROVE StretchFits(more[k], T) /\ (k > 1 => more[k].from = more[k - 1].to)
      <4>1. CASE k = n + 1
        <5>1. k - 1 = n /\ n \in 1 .. n BY <1>2, <4>1
        <5>2. more[k - 1] = last BY <1>3, <2>5, <5>1
        <5> QED BY <2>2, <2>5, <3>1, <3>2, <4>1, <5>2
      <4>2. CASE k \in 1 .. n
        <5>1. more[k] = mbs[k] /\ StretchFits(mbs[k], T) BY <2>5, <3>1, <4>2
        <5>2. ASSUME k > 1 PROVE more[k].from = more[k - 1].to
          <6>1. k - 1 \in 1 .. n BY <1>2, <4>2, <5>2
          <6>2. more[k - 1] = mbs[k - 1] BY <2>5, <6>1
          <6> QED BY <3>1, <4>2, <5>1, <5>2, <6>2
        <5> QED BY <5>1, <5>2
      <4> QED BY <1>2, <4>1, <4>2
    <3>4. more[1].from = 0
      <4>1. 1 \in 1 .. n BY <1>2
      <4> QED BY <2>5, <3>1, <4>1
    <3> QED BY <2>2, <2>4, <2>5, <3>3, <3>4 DEF Fills
  <2> QED BY <1>9, <2>5, <2>6
<1> QED BY <1>8, <1>11, <1>12

(* Row by row, all of them are filled up.                                  *)
LEMMA FilledUp ==
  ASSUME NEW rows, NEW c, NEW T \in [1 .. PerShard -> Nat], PerShard \in Nat, MaxTokens \in Nat,
         \A j \in 1 .. PerShard : T[j] = Tallest(rows, c, j) /\ T[j] <= MaxTokens
  PROVE  Fills(MicroDynamic(rows, c), PerShard, T)
<1>1. PICK n : n = PerShard OBVIOUS
<1> DEFINE Growing(f) ==
             f = [j \in 0 .. PerShard |-> IF j = 0 THEN <<[from |-> 0, to |-> 0, len |-> 0]>>
                                          ELSE Grow(f[j - 1], j, Tallest(rows, c, j))]
           b == CHOOSE f : Growing(f)
<1>2. MicroDynamic(rows, c) = b[n] BY <1>1 DEF MicroDynamic
<1>3. /\ FirstStretch \in Stretches /\ Fills(FirstStretch, 0, T)
  <2>1. PICK m : m = [from |-> 0, to |-> 0, len |-> 0] BY Zenon
  <2>2. m \in Stretch /\ m.from = 0 /\ m.to = 0 /\ m.len = 0 BY <2>1 DEF Stretch
  <2>3. FirstStretch = <<m>> BY <2>1 DEF FirstStretch
  <2>4. <<m>> \in Seq(Stretch) /\ Len(<<m>>) = 1 /\ <<m>>[1] = m BY <2>2
  <2>5. FirstStretch \in Stretches BY <2>3, <2>4 DEF Stretches
  <2>6. StretchFits(m, T)
    <3>1. 0 * (0 - 0) <= MaxTokens OBVIOUS
    <3>2. \A i \in 0 + 1 .. 0 : FALSE OBVIOUS
    <3> QED BY <2>2, <3>1, <3>2 DEF StretchFits
  <2>7. \A k \in 1 .. 1 : k = 1 OBVIOUS
  <2> QED BY <2>2, <2>3, <2>4, <2>5, <2>6, <2>7 DEF Fills
<1>4. \E f : Growing(f)
  <2> DEFINE op == [x \in (1 .. n) \X Stretches |-> Grow(x[2], x[1], T[x[1]])]
  <2>1. op \in Steps(n, Stretches)
    <3>1. ASSUME NEW j \in 1 .. n, NEW mbs \in Stretches PROVE Grow(mbs, j, T[j]) \in Stretches
      <4>1. j - 1 \in Nat /\ (j - 1) + 1 = j /\ T[j] \in Nat BY <1>1
      <4>2. \A i \in Nat : Grow(mbs, i + 1, T[j]) \in Stretches BY <4>1, GrowFills, Zenon
      <4> QED BY <4>1, <4>2, Zenon
    <3> QED BY <3>1 DEF Steps
  <2>2. \A j \in 1 .. n, mbs \in Stretches : op[<<j, mbs>>] = Grow(mbs, j, T[j]) OBVIOUS
  <2> HIDE DEF op
  <2>3. PICK f : Follows(f, n, Stretches, FirstStretch, op)
    <3>1. n \in Nat BY <1>1
    <3> QED BY <1>3, <2>1, <3>1, RecursionExists
  <2>4. f \in [0 .. n -> Stretches] /\ f[0] = FirstStretch /\ \A j \in 1 .. n : f[j] = op[<<j, f[j - 1]>>]
    BY <2>3 DEF Follows
  <2>5. ASSUME NEW j \in 0 .. n
        PROVE  f[j] = IF j = 0 THEN <<[from |-> 0, to |-> 0, len |-> 0]>> ELSE Grow(f[j - 1], j, Tallest(rows, c, j))
    <3>1. CASE j = 0 BY <2>4, <3>1 DEF FirstStretch
    <3>2. CASE j # 0
      <4>1. j \in 1 .. n /\ j - 1 \in 0 .. n BY <1>1, <3>2
      <4>2. f[j] = Grow(f[j - 1], j, T[j]) BY <2>2, <2>4, <4>1, Zenon
      <4>3. T[j] = Tallest(rows, c, j) BY <1>1, <4>1
      <4> QED BY <3>2, <4>2, <4>3
    <3> QED BY <3>1, <3>2
  <2>6. f = [j \in 0 .. n |-> f[j]] BY <2>4
  <2>7. f = [j \in 0 .. n |-> IF j = 0 THEN <<[from |-> 0, to |-> 0, len |-> 0]>>
                              ELSE Grow(f[j - 1], j, Tallest(rows, c, j))]
    BY <2>5, <2>6, Zenon
  <2> QED BY <1>1, <2>7
<1>5. Growing(b)
  <2> HIDE DEF Growing
  <2> QED BY <1>4
<1>6. b[0] = FirstStretch /\ \A j \in 1 .. n : b[j] = Grow(b[j - 1], j, T[j])
  <2> HIDE DEF b
  <2>1. \A j \in 0 .. n : b[j] = IF j = 0 THEN <<[from |-> 0, to |-> 0, len |-> 0]>> ELSE Grow(b[j - 1], j, Tallest(rows, c, j))
    BY <1>1, <1>5, Zenon
  <2> HIDE DEF Growing
  <2>2. b[0] = FirstStretch
    <3>1. 0 \in 0 .. n BY <1>1
    <3> QED BY <2>1, <3>1 DEF FirstStretch
  <2>3. ASSUME NEW j \in 1 .. n PROVE b[j] = Grow(b[j - 1], j, T[j])
    <3>1. j \in 0 .. n /\ j # 0 BY <1>1
    <3>2. b[j] = Grow(b[j - 1], j, Tallest(rows, c, j)) BY <2>1, <3>1
    <3> QED BY <1>1, <3>2
  <2> QED BY <2>2, <2>3
<1> HIDE DEF b, Growing
<1> DEFINE S == {j \in Nat : j <= n => Fills(b[j], j, T)}
<1>7. 0 \in S BY <1>3, <1>6
<1>8. ASSUME NEW j \in Nat, j \in S, j + 1 <= n PROVE Fills(b[j + 1], j + 1, T)
  <2>1. j + 1 \in 1 .. n /\ (j + 1) - 1 = j /\ j <= n BY <1>1, <1>8
  <2>2. Fills(b[j], j, T) BY <1>8, <2>1
  <2>3. b[j] \in Stretches BY <2>2 DEF Fills
  <2>4. T[j + 1] \in Nat /\ T[j + 1] <= MaxTokens BY <1>1, <2>1
  <2>5. b[j + 1] = Grow(b[j], j + 1, T[j + 1]) BY <1>6, <2>1
  <2>6. Fills(Grow(b[j], j + 1, T[j + 1]), j + 1, T) BY <2>2, <2>3, <2>4, GrowFills, Zenon
  <2> QED BY <2>5, <2>6
<1>9. \A j \in Nat : j \in S => j + 1 \in S BY <1>8
<1> HIDE DEF S
<1>10. Nat \subseteq S BY <1>7, <1>9, Induct, Zenon
<1>11. Fills(b[n], n, T) BY <1>1, <1>10 DEF S
<1> QED BY <1>1, <1>2, <1>11

(* The longest row that any shard has at a position: no row there is       *)
(* longer, and if it is too long so is a row.                              *)
LEMMA TallestIs ==
  ASSUME GoodCall, GoodFeed, NEW rows, NEW c, NEW j, \A d \in 0 .. DP - 1 : rows[d][(c - 1) * PerShard + j] \in 1 .. RowsFed
  PROVE  /\ Tallest(rows, c, j) \in Nat
         /\ \A d \in 0 .. DP - 1 : feed[rows[d][(c - 1) * PerShard + j]] <= Tallest(rows, c, j)
         /\ Tallest(rows, c, j) > MaxTokens => \E r \in DOMAIN feed : Padded(feed[r]) > MaxTokens
<1>1. /\ DP \in Nat \ {0} /\ RowsFed \in Nat \ {0} /\ DOMAIN feed = 1 .. RowsFed BY SizesAre
<1>2. feed \in [1 .. RowsFed -> Nat]
  <2>1. feed \in Seq(Nat) BY DEF GoodFeed
  <2> QED BY <1>1, <2>1
<1> DEFINE at_(d) == feed[rows[d][(c - 1) * PerShard + j]]
           longest == CHOOSE n \in {at_(d) : d \in Ranks} : \A d \in Ranks : at_(d) <= n
           widest == CHOOSE n \in Range(feed) : \A m \in Range(feed) : m <= n
<1>3. Ranks = 0 .. DP - 1 BY DEF Ranks
<1>4. \A d \in Ranks : at_(d) \in Nat BY <1>2, <1>3
<1>5. longest \in {at_(d) : d \in Ranks} /\ \A d \in Ranks : at_(d) <= longest
  <2> DEFINE f == [i \in 1 .. DP |-> at_(i - 1)]
  <2>1. \A i \in 1 .. DP : i - 1 \in Ranks BY <1>1, <1>3
  <2>2. f \in [1 .. DP -> Nat] BY <1>4, <2>1
  <2>3. \A i \in 1 .. DP : f[i] = at_(i - 1) OBVIOUS
  <2> HIDE DEF f, at_
  <2>4. PICK i \in 1 .. DP : \A k \in 1 .. DP : f[k] <= f[i] BY <1>1, <2>2, OneIsLongest, Zenon
  <2>5. ASSUME NEW d \in Ranks PROVE at_(d) <= f[i]
    <3>1. d + 1 \in 1 .. DP /\ (d + 1) - 1 = d BY <1>1, <1>3
    <3>2. f[d + 1] = at_(d) BY <2>3, <3>1
    <3> QED BY <2>4, <3>1, <3>2
  <2>6. f[i] \in {at_(d) : d \in Ranks} BY <2>1, <2>3
  <2>7. \E n \in {at_(d) : d \in Ranks} : \A d \in Ranks : at_(d) <= n BY <2>5, <2>6
  <2> QED BY <2>7
<1>6. widest \in Range(feed) /\ \A m \in Range(feed) : m <= widest
  <2>1. PICK i \in 1 .. RowsFed : \A k \in 1 .. RowsFed : feed[k] <= feed[i] BY <1>1, <1>2, OneIsLongest, Zenon
  <2>2. \E n \in Range(feed) : \A m \in Range(feed) : m <= n BY <1>1, <2>1, Zenon DEF Range
  <2> QED BY <2>2
<1>7. Tallest(rows, c, j) = IF Padded(longest) < Padded(widest) THEN Padded(longest) ELSE Padded(widest)
  BY DEF Tallest, Width
<1>8. \A d \in Ranks : at_(d) \in Range(feed) BY <1>1, <1>3 DEF Range
<1>9. \A m \in Range(feed) : m \in Nat /\ \E r \in DOMAIN feed : m = feed[r] BY <1>1, <1>2 DEF Range
<1> HIDE DEF longest, widest, at_
<1>10. longest \in Range(feed) BY <1>5, <1>8
<1>11. /\ Padded(longest) \in Nat /\ longest <= Padded(longest) /\ Padded(widest) \in Nat /\ widest <= Padded(widest)
       /\ longest \in Nat /\ widest \in Nat
  BY <1>6, <1>9, <1>10, PaddedUp
<1>12. Tallest(rows, c, j) \in Nat BY <1>7, <1>11
<1>13. ASSUME NEW d \in Ranks PROVE at_(d) <= Tallest(rows, c, j)
  <2>1. at_(d) \in Nat /\ at_(d) <= longest /\ at_(d) <= widest BY <1>4, <1>5, <1>6, <1>8
  <2> QED BY <1>7, <1>11, <2>1
<1>14. ASSUME Tallest(rows, c, j) > MaxTokens PROVE \E r \in DOMAIN feed : Padded(feed[r]) > MaxTokens
  <2>1. Padded(longest) > MaxTokens
    <3>1. MaxTokens \in Nat BY PolicyConstants
    <3> QED BY <1>7, <1>11, <1>14, <3>1
  <2>2. PICK r \in DOMAIN feed : longest = feed[r] BY <1>9, <1>10
  <2> QED BY <2>1, <2>2
<1> QED BY <1>3, <1>12, <1>13, <1>14 DEF at_

(* Where the microbatches end, they begin.                                 *)
StretchEnds(mbs) == [k \in 0 .. Len(mbs) |-> IF k = 0 THEN 0 ELSE mbs[k].to]
StretchesTo(mbs, m) ==
  /\ Len(mbs) \in Nat \ {0} /\ DOMAIN mbs = 1 .. Len(mbs) /\ EndsIn(StretchEnds(mbs), Len(mbs), m)
  /\ \A k \in 1 .. Len(mbs) : /\ mbs[k].from = StretchEnds(mbs)[k - 1] /\ mbs[k].to = StretchEnds(mbs)[k]
                              /\ mbs[k].from \in Nat /\ mbs[k].to \in Nat /\ mbs[k].to <= m

(* So the microbatches of dynamic batching, filled row by row, cut a part  *)
(* from its first row to its last.                                         *)
LEMMA StretchesEnd ==
  ASSUME NEW T, NEW m \in Nat, NEW mbs, Fills(mbs, m, T)
  PROVE  StretchesTo(mbs, m)
<1>0. PICK n, e : n = Len(mbs) /\ e = StretchEnds(mbs) BY Zenon
<1>1. mbs \in Seq(Stretch) /\ n \in Nat \ {0} BY <1>0 DEF Fills, Stretches
<1>2. DOMAIN mbs = 1 .. n /\ \A k \in 1 .. n : mbs[k] \in Stretch BY <1>0, <1>1
<1>3. \A k \in 1 .. n : mbs[k].from \in Nat /\ mbs[k].to \in Nat BY <1>2 DEF Stretch
<1>4. e = [k \in 0 .. n |-> IF k = 0 THEN 0 ELSE mbs[k].to] BY <1>0 DEF StretchEnds
<1>5. e[0] = 0 /\ \A k \in 1 .. n : e[k] = mbs[k].to
  <2>1. 0 \in 0 .. n /\ \A k \in 1 .. n : k \in 0 .. n /\ k # 0 BY <1>1
  <2> QED BY <1>4, <2>1
<1>6. e \in [0 .. n -> Nat]
  <2>1. \A k \in 0 .. n : k # 0 => k \in 1 .. n BY <1>1
  <2>2. \A k \in 0 .. n : (IF k = 0 THEN 0 ELSE mbs[k].to) \in Nat BY <1>3, <2>1
  <2> QED BY <1>4, <2>2
<1>7. ASSUME NEW k \in 1 .. n PROVE mbs[k].from = e[k - 1]
  <2>1. CASE k = 1
    <3>1. mbs[1].from = 0 BY DEF Fills
    <3> QED BY <1>5, <2>1, <3>1
  <2>2. CASE k # 1
    <3>1. k > 1 /\ k - 1 \in 1 .. n BY <1>1, <2>2
    <3>2. mbs[k].from = mbs[k - 1].to BY <1>0, <3>1 DEF Fills
    <3> QED BY <1>5, <3>1, <3>2
  <2> QED BY <2>1, <2>2
<1>8. e[n] = m
  <2>1. n \in 1 .. n BY <1>1
  <2>2. mbs[n].to = m BY <1>0 DEF Fills
  <2> QED BY <1>5, <2>1, <2>2
<1>9. ASSUME NEW k \in 1 .. n PROVE e[k - 1] <= e[k]
  <2>1. mbs[k].from <= mbs[k].to BY <1>0 DEF Fills, StretchFits
  <2> QED BY <1>5, <1>7, <2>1
<1>10. EndsIn(e, n, m) BY <1>5, <1>6, <1>8, <1>9 DEF EndsIn
<1>11. \A k \in 1 .. n : e[k] <= m
  <2>1. \A k \in 1 .. n : k \in 0 .. n BY <1>1
  <2> QED BY <1>1, <1>10, <2>1, EndsRise
<1> QED BY <1>0, <1>1, <1>2, <1>3, <1>5, <1>7, <1>10, <1>11 DEF StretchesTo

(* Sorted, dealt and filled up, the rows are planned, or one is too long.  *)
LEMMA DynamicSharded ==
  ASSUME GoodCall, GoodFeed, ShardDynamic
  PROVE  \/ phase' = "failed" /\ UNCHANGED <<call, feed>> /\ Batching = "dynamic"
            /\ \E r \in DOMAIN feed : Padded(feed[r]) > MaxTokens
         \/ phase' = "running" /\ UNCHANGED <<call, feed>> /\ \E p : Planned(p)' /\ AllStand(p)'
<1>1. /\ DP \in Nat \ {0} /\ PerShard \in Nat \ {0} /\ ChunksFed \in Nat \ {0} /\ RowsFed \in Nat
      /\ DOMAIN feed = 1 .. RowsFed /\ Chunks = 1 .. ChunksFed /\ Ranks = 0 .. DP - 1
  BY SizesAre DEF Ranks
<1>2. PICK order : order = FlattenSeq([c \in Chunks |-> Dealt(c)]) OBVIOUS
<1>3. ChunkWise(order) BY <1>2, DealtChunkWise
<1>4. PICK rows : rows = [d \in Ranks |-> RowsOfRank(order, d)] BY Zenon
<1>5. /\ UNCHANGED <<call, feed>> /\ Batching = "dynamic"
      /\ IF \E c \in Chunks, j \in 1 .. PerShard : Tallest(rows, c, j) > MaxTokens
           THEN phase' = "failed"
           ELSE /\ shard' = rows /\ perm' = order /\ Submit
                /\ micro' = [d \in Ranks |-> [c \in Chunks |-> MicroDynamic(rows, c)]]
  BY <1>2, <1>4 DEF ShardDynamic
<1>6. order \in Seq(1 .. RowsFed) /\ Len(order) = RowsFed BY <1>3 DEF ChunkWise
<1>7. ASSUME NEW g \in 1 .. ChunksFed, NEW d \in 0 .. DP - 1, NEW j \in 1 .. PerShard
      PROVE  /\ rows[d][(g - 1) * PerShard + j] = RankPart(order, g, d)[j]
             /\ rows[d][(g - 1) * PerShard + j] \in 1 .. RowsFed
  <2>1. rows[d] = RowsOfRank(order, d) BY <1>1, <1>4
  <2>2. RowsOfRank(order, d)[(g - 1) * PerShard + j] = RankPart(order, g, d)[j] BY <1>6, ShardIsCut
  <2>3. RankPart(order, g, d)[j] = order[PlaceIn(g, d * PerShard + j)] BY DEF RankPart
  <2>4. order[PlaceIn(g, d * PerShard + j)] \in RowsOfChunk(g)
    <3>1. d * PerShard + j \in 1 .. ChunkSize BY PlacesOfShards
    <3> QED BY <1>3, <3>1 DEF ChunkWise
  <2> QED BY <2>1, <2>2, <2>3, <2>4 DEF RowsOfChunk
<1>8. ASSUME NEW g \in 1 .. ChunksFed, NEW j \in 1 .. PerShard
      PROVE  /\ Tallest(rows, g, j) \in Nat
             /\ \A d \in 0 .. DP - 1 : feed[rows[d][(g - 1) * PerShard + j]] <= Tallest(rows, g, j)
             /\ Tallest(rows, g, j) > MaxTokens => \E r \in DOMAIN feed : Padded(feed[r]) > MaxTokens
  BY <1>7, TallestIs
<1>9. CASE \E c \in Chunks, j \in 1 .. PerShard : Tallest(rows, c, j) > MaxTokens
  <2>1. \E r \in DOMAIN feed : Padded(feed[r]) > MaxTokens BY <1>1, <1>8, <1>9, Zenon
  <2> QED BY <1>5, <1>9, <2>1
<1>10. CASE ~ \E c \in Chunks, j \in 1 .. PerShard : Tallest(rows, c, j) > MaxTokens
  <2>1. /\ shard' = [d \in Ranks |-> RowsOfRank(order, d)] /\ perm' = order /\ Submit
        /\ micro' = [d \in Ranks |-> [c \in Chunks |-> MicroDynamic(rows, c)]]
    BY <1>4, <1>5, <1>10
  <2>2. MaxTokens \in Nat BY PolicyConstants
  <2>3. ASSUME NEW g \in 1 .. ChunksFed
        PROVE  Fills(MicroDynamic(rows, g), PerShard, [j \in 1 .. PerShard |-> Tallest(rows, g, j)])
    <3>1. PICK T : T = [j \in 1 .. PerShard |-> Tallest(rows, g, j)] BY Zenon
    <3>2. T \in [1 .. PerShard -> Nat] BY <1>8, <3>1
    <3>3. \A j \in 1 .. PerShard : T[j] = Tallest(rows, g, j) /\ T[j] <= MaxTokens
      <4>1. \A j \in 1 .. PerShard : ~(Tallest(rows, g, j) > MaxTokens) BY <1>1, <1>10
      <4>2. \A j \in 1 .. PerShard : Tallest(rows, g, j) \in Nat BY <1>8
      <4>3. \A j \in 1 .. PerShard : Tallest(rows, g, j) <= MaxTokens BY <2>2, <4>1, <4>2
      <4> QED BY <3>1, <4>3
    <3>4. PerShard \in Nat BY <1>1
    <3>5. Fills(MicroDynamic(rows, g), PerShard, T) BY <2>2, <3>2, <3>3, <3>4, FilledUp
    <3> QED BY <3>1, <3>5
  <2>4. PICK mbs : mbs = [g \in 1 .. ChunksFed |-> MicroDynamic(rows, g)] BY Zenon
  <2>5. PICK T : T = [g \in 1 .. ChunksFed |-> [j \in 1 .. PerShard |-> Tallest(rows, g, j)]] BY Zenon
  <2>6. \A g \in 1 .. ChunksFed : Fills(mbs[g], PerShard, T[g]) BY <2>3, <2>4, <2>5
  <2>7. \A g \in 1 .. ChunksFed : \A j \in 1 .. PerShard : T[g][j] = Tallest(rows, g, j) BY <2>5
  <2>8. PICK p : p = [parts |-> EvenlyOf(order), offs |-> EvenlyAt, many |-> [g \in 1 .. ChunksFed |-> Len(mbs[g])],
                      ends |-> [g \in 1 .. ChunksFed |-> [i \in 1 .. DP |-> StretchEnds(mbs[g])]]]
    BY Zenon
  <2>9. /\ p.parts = EvenlyOf(order) /\ p.offs = EvenlyAt
        /\ \A g \in 1 .. ChunksFed : p.many[g] = Len(mbs[g]) /\ \A i \in 1 .. DP : p.ends[g][i] = StretchEnds(mbs[g])
    BY <2>8
  <2>10. /\ ShardsFollow(p)'
         /\ \A g \in 1 .. ChunksFed :
              /\ DealtOnce(p.parts[g], RowsOfChunk(g)) /\ Len(p.parts[g]) = DP
              /\ \A i \in 1 .. DP : p.parts[g][i] = RankPart(order, g, i - 1) /\ Len(p.parts[g][i]) = PerShard
    <3>1. Batching # "packed" BY <1>5
    <3> QED BY <1>3, <1>5, <2>1, <2>9, <3>1, EvenlySharded
  <2>11. ASSUME NEW g \in 1 .. ChunksFed
         PROVE  /\ Len(mbs[g]) \in Nat \ {0} /\ DOMAIN mbs[g] = 1 .. Len(mbs[g])
                /\ EndsIn(StretchEnds(mbs[g]), Len(mbs[g]), PerShard)
                /\ \A k \in 1 .. Len(mbs[g]) :
                     /\ mbs[g][k].from = StretchEnds(mbs[g])[k - 1] /\ mbs[g][k].to = StretchEnds(mbs[g])[k]
                     /\ mbs[g][k].from \in Nat /\ mbs[g][k].to \in Nat /\ mbs[g][k].to <= PerShard
    <3>1. StretchesTo(mbs[g], PerShard)
      <4> PICK b, t, m : b = mbs[g] /\ t = T[g] /\ m = PerShard OBVIOUS
      <4>1. Fills(b, m, t) /\ m \in Nat BY <1>1, <2>6
      <4>2. StretchesTo(b, m) BY <4>1, StretchesEnd
      <4> QED BY <4>2
    <3> QED BY <3>1 DEF StretchesTo
  <2>12. /\ Op' = Op /\ Batching' = Batching /\ DP' = DP /\ RowsFed' = RowsFed /\ ChunksFed' = ChunksFed
         /\ \A g : RowsOfChunk(g)' = RowsOfChunk(g)
    BY <1>5, SizesStay DEF SameSizes
  <2>13. (Unprepared' <=> Unprepared) /\ call' = call /\ feed' = feed BY <1>5, CalledStay
  <2>14. PlanMade(p)' BY <2>9, <2>10, <2>11, <2>12, <2>13 DEF PlanMade
  <2>15. ASSUME NEW g \in 1 .. ChunksFed, NEW i \in 1 .. DP
         PROVE  /\ micro'[i - 1][g] = mbs[g]
                /\ \A k \in 1 .. Len(mbs[g]) :
                     /\ mbs[g][k].len * (mbs[g][k].to - mbs[g][k].from) <= MaxTokens
                     /\ \A j \in mbs[g][k].from + 1 .. mbs[g][k].to : feed[p.parts[g][i][j]] <= mbs[g][k].len
    <3>1. i - 1 \in 0 .. DP - 1 /\ i - 1 \in Ranks BY <1>1
    <3>2. micro'[i - 1][g] = MicroDynamic(rows, g) BY <1>1, <2>1, <3>1
    <3>3. ASSUME NEW k \in 1 .. Len(mbs[g])
          PROVE  /\ mbs[g][k].len * (mbs[g][k].to - mbs[g][k].from) <= MaxTokens
                 /\ \A j \in mbs[g][k].from + 1 .. mbs[g][k].to : feed[p.parts[g][i][j]] <= mbs[g][k].len
      <4>1. PICK m : m = mbs[g][k] OBVIOUS
      <4>2. StretchFits(m, T[g]) BY <2>6, <4>1 DEF Fills
      <4>3. m.from \in Nat /\ m.to \in Nat /\ m.to <= PerShard BY <2>11, <4>1
      <4>4. m.len \in Nat
        <5>1. mbs[g] \in Seq(Stretch) BY <2>6 DEF Fills, Stretches
        <5>2. m \in Stretch BY <2>11, <4>1, <5>1
        <5> QED BY <5>2 DEF Stretch
      <4>5. ASSUME NEW j \in m.from + 1 .. m.to PROVE feed[p.parts[g][i][j]] <= m.len
        <5>1. j \in 1 .. PerShard BY <1>1, <4>3
        <5>2. T[g][j] <= m.len /\ T[g][j] \in Nat BY <4>2 DEF StretchFits
        <5>3. T[g][j] = Tallest(rows, g, j) BY <2>7, <5>1
        <5>4. PICK r : r = rows[i - 1][(g - 1) * PerShard + j] OBVIOUS
        <5>5. r = RankPart(order, g, i - 1)[j] /\ r \in 1 .. RowsFed BY <1>7, <3>1, <5>1, <5>4
        <5>6. r = p.parts[g][i][j] BY <2>10, <5>5, Zenon
        <5>7. feed[r] <= Tallest(rows, g, j) BY <1>8, <3>1, <5>1, <5>4
        <5>8. feed[r] \in Nat BY <1>1, <5>5 DEF GoodFeed
        <5> QED BY <4>4, <5>2, <5>3, <5>6, <5>7, <5>8
      <4> QED BY <4>1, <4>2, <4>5 DEF StretchFits
    <3> QED BY <2>4, <3>2, <3>3
  <2>16. MicroFollows(p)'
    <3>1. ASSUME NEW g \in 1 .. ChunksFed, NEW i \in 1 .. DP, NEW k \in 1 .. Len(mbs[g])
          PROVE  InBudget(micro[i - 1][g][k], p.parts[g][i])'
      <4>1. micro'[i - 1][g] = mbs[g] BY <2>15
      <4>2. /\ mbs[g][k].len * (mbs[g][k].to - mbs[g][k].from) <= MaxTokens
            /\ \A j \in mbs[g][k].from + 1 .. mbs[g][k].to : feed[p.parts[g][i][j]] <= mbs[g][k].len
        BY <2>15
      <4>3. Batching' = "dynamic" BY <1>5, <2>12
      <4> QED BY <2>13, <4>1, <4>2, <4>3 DEF InBudget
    <3>2. Batching' = "dynamic" BY <1>5, <2>12
    <3>3. ASSUME NEW g \in 1 .. ChunksFed, NEW i \in 1 .. DP
          PROVE  /\ DOMAIN micro'[i - 1][g] = 1 .. p.many[g] /\ Len(micro'[i - 1][g]) = p.many[g]
                 /\ \A k \in 1 .. p.many[g] :
                      /\ micro'[i - 1][g][k].from = p.ends[g][i][k - 1] /\ micro'[i - 1][g][k].to = p.ends[g][i][k]
                      /\ InBudget(micro[i - 1][g][k], p.parts[g][i])'
      <4>1. micro'[i - 1][g] = mbs[g] BY <2>15
      <4>2. p.many[g] = Len(mbs[g]) /\ p.ends[g][i] = StretchEnds(mbs[g]) BY <2>9
      <4>3. DOMAIN mbs[g] = 1 .. Len(mbs[g]) BY <2>11
      <4>4. \A k \in 1 .. Len(mbs[g]) : /\ mbs[g][k].from = StretchEnds(mbs[g])[k - 1]
                                        /\ mbs[g][k].to = StretchEnds(mbs[g])[k]
        BY <2>11
      <4>5. \A k \in 1 .. Len(mbs[g]) : InBudget(micro[i - 1][g][k], p.parts[g][i])' BY <3>1
      <4> QED BY <4>1, <4>2, <4>3, <4>4, <4>5
    <3> QED BY <2>12, <3>2, <3>3, Zenon DEF MicroFollows
  <2>17. AnswersFollow(p)'
    <3>1. ASSUME ~Op.trains PROVE order = FlattenSeq(p.parts[1])
      <4>1. 1 \in 1 .. ChunksFed BY <1>1
      <4>2. p.parts[1] = [i \in 1 .. DP |-> RankPart(order, 1, i - 1)] BY <2>9, <4>1 DEF EvenlyOf
      <4> QED BY <1>3, <3>1, <4>2, EvenWhole
    <3>2. order # Nothing
      <4>1. order \in Seq(Nat)
        <5>1. 1 .. RowsFed \subseteq Nat BY <1>1
        <5> PICK V : V = 1 .. RowsFed OBVIOUS
        <5>2. \A k \in 1 .. Len(order) : order[k] \in Nat BY <1>6, <5>1
        <5> QED BY <1>6, <5>2
      <4> QED BY <4>1, PolicyConstants
    <3> QED BY <1>5, <2>1, <2>12, <3>1, <3>2 DEF AnswersFollow
  <2>18. Planned(p)' BY <2>10, <2>14, <2>16, <2>17 DEF Planned
  <2>19. AllStand(p)' BY <1>5, <2>1, <2>18, StartsInStep
  <2>20. phase' = "running" BY <2>1 DEF Submit
  <2> QED BY <1>5, <2>18, <2>19, <2>20
<1> QED BY <1>9, <1>10

-----------------------------------------------------------------------------
(* Sequence packing: chunk by chunk                                        *)

(* What a packed chunk is: its rows in bins, each once, no bin over its    *)
(* capacity, and as many bins for one shard as for another.                *)
PaddedRows == [r \in 1 .. RowsFed |-> Padded(feed[r])]
BinFits(rows) == \E s : Adds(s, rows, PaddedRows) /\ s[Len(rows)] <= Capacity
PackedRight(bs, c) ==
  /\ DealtOnce(bs, RowsOfChunk(c)) /\ \A b \in 1 .. Len(bs) : BinFits(bs[b])
  /\ Len(bs) % DP = 0 /\ Len(bs) >= DP
NamedAfter(c) ==
  [b \in DOMAIN bins |-> [k \in DOMAIN bins[b].rows |-> RowsIn(c)[bins[b].rows[k]]]]
LengthsOf(c) == [i \in 1 .. ChunkSize |-> Padded(feed[RowsIn(c)[i]])]

(* The bins of the packer, the rows named after their places in the batch. *)
LEMMA ChunkIsPacked ==
  ASSUME GoodCall, GoodFeed, NEW c \in 1 .. ChunksFed, PackInv, stage = "packed", multiple = DP, lens = LengthsOf(c)
  PROVE  PackedRight(NamedAfter(c), c)
<1> DEFINE R == RowsOfChunk(c)
<1>0. PICK bs, a, k0, n : bs = NamedAfter(c) /\ a = (c - 1) * ChunkSize /\ k0 = ChunkSize /\ n = RowsFed OBVIOUS
<1>1. /\ a \in Nat /\ k0 \in Nat \ {0} /\ n \in Nat /\ DP \in Nat \ {0}
      /\ \A i \in 1 .. k0 : RowsIn(c)[i] = a + i /\ a + i \in R
      /\ \A r \in R : r - a \in 1 .. k0 /\ r \in Nat
      /\ \A r \in R : r \in 1 .. n
  <2>1. \A i \in 1 .. ChunkSize : RowsIn(c)[i] = (c - 1) * ChunkSize + i /\ RowsIn(c)[i] \in RowsOfChunk(c) BY RowsInChunk
  <2>2. \A r \in RowsOfChunk(c) : r - (c - 1) * ChunkSize \in 1 .. ChunkSize BY RowsInChunk
  <2>3. \A r \in R : r \in 1 .. n BY <1>0 DEF RowsOfChunk
  <2>4. a \in Nat /\ k0 \in Nat \ {0} /\ n \in Nat /\ DP \in Nat \ {0} BY <1>0, SizesAre, RowsInChunk
  <2>5. \A i \in 1 .. k0 : RowsIn(c)[i] = a + i /\ a + i \in R
    <3>1. \A i \in 1 .. k0 : RowsIn(c)[i] = a + i /\ RowsIn(c)[i] \in R BY <1>0, <2>1
    <3> QED BY <3>1
  <2>6. \A r \in R : r \in Nat BY <2>3, <2>4
  <2> QED BY <1>0, <2>2, <2>3, <2>4, <2>5, <2>6
<1> HIDE DEF R
<1>2. DOMAIN lens = 1 .. k0 /\ \A i \in 1 .. k0 : lens[i] = PaddedRows[a + i]
  <2>1. lens = [i \in 1 .. k0 |-> Padded(feed[RowsIn(c)[i]])] BY <1>0 DEF LengthsOf
  <2>2. \A i \in 1 .. k0 : a + i \in 1 .. n BY <1>1
  <2>3. \A r \in 1 .. n : PaddedRows[r] = Padded(feed[r]) BY <1>0 DEF PaddedRows
  <2> QED BY <1>1, <2>1, <2>2, <2>3, Zenon
<1>3. bins \in Seq(Bin) /\ Once(bins) /\ Within(bins) /\ spill = <<>> /\ todo = {} /\ EachOnce
      /\ Len(bins) % DP = 0 /\ Len(bins) >= DP
  BY DEF PackInv, Whole, ReadyToDeal
<1>4. PICK m : m = Len(bins) BY Zenon
<1>5. m \in Nat /\ DOMAIN bins = 1 .. m BY <1>3, <1>4
<1>6. ASSUME NEW b \in 1 .. m
      PROVE  /\ bins[b].rows \in Seq(1 .. k0) /\ Len(bins[b].rows) \in Nat /\ DOMAIN bins[b].rows = 1 .. Len(bins[b].rows)
             /\ \E s : Adds(s, bins[b].rows, lens) /\ s[Len(bins[b].rows)] <= Capacity
  <2>1. bins[b] \in Bin BY <1>3, <1>5
  <2>2. bins[b] \in RowsAndLoad /\ Weighed(bins[b]) BY <2>1 DEF Bin
  <2>3. bins[b].rows \in Seq(Packable) BY <2>2 DEF RowsAndLoad
  <2>4. PICK w : w = bins[b].rows OBVIOUS
  <2>5. Packable \subseteq 1 .. k0 BY <1>2 DEF Packable
  <2>6. w \in Seq(1 .. k0) BY <2>3, <2>4, <2>5, ListWithin, Zenon
  <2>7. Len(w) \in Nat /\ DOMAIN w = 1 .. Len(w) BY <2>6
  <2>8. PICK s : Adds(s, bins[b].rows, lens) /\ s[Len(bins[b].rows)] = bins[b].load BY <2>2 DEF Weighed
  <2>9. bins[b].load <= Capacity BY <1>3, <1>5 DEF Within
  <2> QED BY <2>4, <2>6, <2>7, <2>8, <2>9
<1>7. /\ DOMAIN bs = 1 .. m
      /\ \A b \in 1 .. m : bs[b] = [k \in 1 .. Len(bins[b].rows) |-> RowsIn(c)[bins[b].rows[k]]]
  BY <1>0, <1>5, <1>6 DEF NamedAfter
<1>8. ASSUME NEW b \in 1 .. m
      PROVE  /\ bs[b] \in Seq(R) /\ Len(bs[b]) = Len(bins[b].rows)
             /\ \A k \in 1 .. Len(bs[b]) : bins[b].rows[k] \in 1 .. k0 /\ bs[b][k] = a + bins[b].rows[k]
  <2>1. PICK w, l : w = bins[b].rows /\ l = Len(bins[b].rows) BY Zenon
  <2>2. w \in Seq(1 .. k0) /\ l \in Nat /\ l = Len(w) BY <1>6, <2>1
  <2>3. bs[b] = [k \in 1 .. l |-> RowsIn(c)[w[k]]] BY <1>7, <2>1
  <2>4. \A k \in 1 .. l : w[k] \in 1 .. k0
    <3>1. \A k \in 1 .. Len(w) : w[k] \in 1 .. k0 BY <2>2, ListWithin, Zenon
    <3> QED BY <2>2, <3>1
  <2>5. \A k \in 1 .. l : RowsIn(c)[w[k]] = a + w[k] /\ RowsIn(c)[w[k]] \in R BY <1>1, <2>4
  <2>6. bs[b] \in [1 .. l -> R] BY <2>3, <2>5
  <2>7. \A f \in [1 .. l -> R] : f \in Seq(R) /\ Len(f) = l BY <2>2
  <2>8. bs[b] \in Seq(R) /\ Len(bs[b]) = l BY <2>6, <2>7
  <2>9. \A k \in 1 .. l : bs[b][k] = a + w[k] BY <2>3, <2>5
  <2> QED BY <2>1, <2>4, <2>8, <2>9
<1>9. bs \in Parts(R) /\ Len(bs) = m
  <2>1. bs = [b \in DOMAIN bins |-> [k \in DOMAIN bins[b].rows |-> RowsIn(c)[bins[b].rows[k]]]] BY <1>0 DEF NamedAfter
  <2>2. bs = [b \in 1 .. m |-> bs[b]] BY <1>7, <2>1
  <2>3. bs \in [1 .. m -> Seq(R)] BY <1>8, <2>2
  <2>4. bs \in Seq(Seq(R)) /\ Len(bs) = m BY <1>5, <2>3
  <2> QED BY <2>4 DEF Parts
<1>10. ASSUME NEW r \in R PROVE \E b \in 1 .. Len(bs) : \E k \in 1 .. Len(bs[b]) : bs[b][k] = r
  <2>1. r - a \in DOMAIN lens BY <1>1, <1>2
  <2>2. In(bins, r - a)
    <3>1. ~In(spill, r - a) BY <1>3 DEF In
    <3> QED BY <1>3, <2>1, <3>1 DEF EachOnce
  <2>3. PICK b \in 1 .. m : \E k \in DOMAIN bins[b].rows : bins[b].rows[k] = r - a BY <1>5, <2>2 DEF In
  <2>4. PICK k \in 1 .. Len(bs[b]) : bins[b].rows[k] = r - a BY <1>6, <1>8, <2>3, Zenon
  <2>5. bs[b][k] = a + (r - a) BY <1>8, <2>4
  <2>6. a + (r - a) = r BY <1>1
  <2> QED BY <1>9, <2>4, <2>5, <2>6
<1>11. ASSUME NEW i \in 1 .. Len(bs), NEW j \in 1 .. Len(bs), NEW k \in 1 .. Len(bs[i]), NEW l \in 1 .. Len(bs[j]),
              bs[i][k] = bs[j][l]
       PROVE  i = j /\ k = l
  <2>1. i \in 1 .. m /\ j \in 1 .. m BY <1>9
  <2>2. PICK x, y : x = bins[i].rows[k] /\ y = bins[j].rows[l] OBVIOUS
  <2>3. x \in 1 .. k0 /\ y \in 1 .. k0 /\ a + x = a + y BY <1>8, <1>11, <2>1, <2>2
  <2>4. x = y BY <1>1, <2>3
  <2>5. k \in DOMAIN bins[i].rows /\ l \in DOMAIN bins[j].rows BY <1>6, <1>8, <2>1, Zenon
  <2>6. i \in DOMAIN bins /\ j \in DOMAIN bins BY <1>5, <2>1
  <2>7. bins[i].rows[k] = bins[j].rows[l] BY <2>2, <2>4
  <2>8. Once(bins) BY <1>3
  <2> QED BY <2>5, <2>6, <2>7, <2>8 DEF Once
<1>12. DealtOnce(bs, R) BY <1>9, <1>10, <1>11 DEF DealtOnce
<1>13. ASSUME NEW b \in 1 .. m PROVE BinFits(bs[b])
  <2>1. PICK s : Adds(s, bins[b].rows, lens) /\ s[Len(bins[b].rows)] <= Capacity BY <1>6
  <2>2. PICK w, t : w = bins[b].rows /\ t = bs[b] OBVIOUS
  <2>3. Len(t) = Len(w) /\ \A k \in 1 .. Len(t) : w[k] \in 1 .. k0 /\ t[k] = a + w[k] BY <1>8, <2>2
  <2>4. \A k \in 1 .. Len(t) : lens[w[k]] = PaddedRows[t[k]] BY <1>2, <2>3
  <2>5. s \in [0 .. Len(w) -> Nat] /\ s[0] = 0 /\ \A k \in 1 .. Len(w) : s[k] = s[k - 1] + lens[w[k]]
    BY <2>1, <2>2 DEF Adds
  <2>6. Adds(s, t, PaddedRows)
    <3>1. \A k \in 1 .. Len(t) : s[k] = s[k - 1] + PaddedRows[t[k]] BY <2>3, <2>4, <2>5
    <3> QED BY <2>3, <2>5, <3>1 DEF Adds
  <2>7. s[Len(t)] <= Capacity BY <2>1, <2>2, <2>3
  <2>8. BinFits(t) BY <2>6, <2>7 DEF BinFits
  <2> QED BY <2>2, <2>8
<1>14. PackedRight(bs, c) BY <1>3, <1>4, <1>9, <1>12, <1>13 DEF PackedRight, R
<1> QED BY <1>0, <1>14

(* The bins of a shard: every DP-th, so that each bin goes to one shard.   *)
OwnBins(c) == [d \in 0 .. DP - 1 |-> BinsOf(c, d)]
SharedOut(own, bs, n, m, q, R) ==
  /\ q \in Nat \ {0}
  /\ \A d \in 0 .. n - 1 :
       /\ own[d] \in Parts(R) /\ Len(own[d]) = q
       /\ \A k \in 1 .. q : (k - 1) * n + d + 1 \in 1 .. m /\ own[d][k] = bs[(k - 1) * n + d + 1]
  /\ \A b \in 1 .. m : \E d \in 0 .. n - 1, k \in 1 .. q : b = (k - 1) * n + d + 1
  /\ \A d, e \in 0 .. n - 1 : \A k, l \in 1 .. q :
       (k - 1) * n + d + 1 = (l - 1) * n + e + 1 => d = e /\ k = l

(* Dealing the bins of a chunk to the ranks gives each of them the same    *)
(* number, and each bin to one of them.                                    *)
LEMMA BinsShared ==
  ASSUME GoodCall, GoodFeed, NEW c \in 1 .. ChunksFed, PackedRight(packed[c], c)
  PROVE  SharedOut(OwnBins(c), packed[c], DP, Len(packed[c]), Len(packed[c]) \div DP, RowsOfChunk(c))
<1> DEFINE R == RowsOfChunk(c)
<1>0. PICK bs, n, m, q : bs = packed[c] /\ n = DP /\ m = Len(packed[c]) /\ q = Len(packed[c]) \div DP BY Zenon
<1>1. n \in Nat \ {0} BY <1>0, SizesAre
<1>2. bs \in Parts(R) /\ m % n = 0 /\ m >= n /\ m = Len(bs) BY <1>0 DEF PackedRight, DealtOnce
<1>3. m \in Nat /\ DOMAIN bs = 1 .. m /\ \A b \in 1 .. m : bs[b] \in Seq(R) BY <1>2, PartsAre
<1>4. q \in Nat \ {0} /\ m = q * n
  <2>1. q = m \div n BY <1>0
  <2>2. q \in Nat /\ m = n * q + (m % n)
    <3>1. \A x \in Nat : \A y \in Nat \ {0} : x \div y \in Nat /\ x = y * (x \div y) + (x % y) OBVIOUS
    <3>2. m \div n \in Nat /\ m = n * (m \div n) + (m % n) BY <1>1, <1>3, <3>1, Zenon
    <3> QED BY <2>1, <3>2
  <2>3. n * q = q * n /\ q * n \in Nat BY <1>1, <2>2
  <2>4. q # 0
    <3>1. 0 * n = 0 BY <1>1
    <3> QED BY <1>1, <1>2, <1>3, <2>2, <2>3, <3>1
  <2>5. m = n * q BY <1>1, <1>2, <1>3, <2>2, <2>3
  <2> QED BY <2>2, <2>3, <2>4, <2>5
<1>5. ASSUME NEW d \in 0 .. n - 1, NEW k \in 1 .. q PROVE (k - 1) * n + d + 1 \in 1 .. m
  <2>1. k - 1 \in 0 .. q - 1 BY <1>4
  <2>2. (k - 1) * n + d \in 0 .. q * n - 1 BY <1>1, <1>4, <2>1, PlacesFit
  <2>3. (k - 1) * n \in Nat /\ q * n \in Nat BY <1>1, <1>4, <2>1
  <2> QED BY <1>1, <1>4, <2>2, <2>3
<1>6. ASSUME NEW d \in 0 .. n - 1
      PROVE  /\ BinsOf(c, d) \in Parts(R) /\ Len(BinsOf(c, d)) = q
             /\ \A k \in 1 .. q : BinsOf(c, d)[k] = bs[(k - 1) * n + d + 1]
  <2>1. (m + n - 1 - d) \div n = q
    <3>1. n - 1 - d \in 0 .. n - 1 BY <1>1
    <3>2. (q * n + (n - 1 - d)) \div n = q BY <1>1, <1>4, <3>1, QuotientIs
    <3>3. q * n + (n - 1 - d) = m + n - 1 - d BY <1>1, <1>3, <1>4
    <3> QED BY <3>2, <3>3
  <2>2. BinsOf(c, d) = [k \in 1 .. q |-> bs[(k - 1) * n + d + 1]] BY <1>0, <2>1 DEF BinsOf
  <2>3. \A k \in 1 .. q : bs[(k - 1) * n + d + 1] \in Seq(R)
    <3>1. \A k \in 1 .. q : (k - 1) * n + d + 1 \in 1 .. m BY <1>5
    <3> HIDE DEF R
    <3> QED BY <1>3, <3>1
  <2>4. PICK own : own = [k \in 1 .. q |-> bs[(k - 1) * n + d + 1]] BY Zenon
  <2>5. own \in [1 .. q -> Seq(R)] BY <2>3, <2>4
  <2>6. own \in Seq(Seq(R)) /\ Len(own) = q BY <1>4, <2>5
  <2>7. own \in Parts(R) BY <2>6 DEF Parts
  <2>8. \A k \in 1 .. q : own[k] = bs[(k - 1) * n + d + 1] BY <2>4
  <2> QED BY <2>2, <2>4, <2>6, <2>7, <2>8, Zenon
<1>7. ASSUME NEW b \in 1 .. m PROVE \E d \in 0 .. n - 1, k \in 1 .. q : b = (k - 1) * n + d + 1
  <2>1. b - 1 \in 0 .. q * n - 1 BY <1>1, <1>3, <1>4
  <2> DEFINE x == (b - 1) \div n
             r == (b - 1) % n
  <2>2. x \in 0 .. q - 1 /\ r \in 0 .. n - 1 /\ b - 1 = x * n + r BY <1>1, <1>4, <2>1, PlaceOf, Zenon
  <2> HIDE DEF x, r
  <2>3. x * n \in Nat BY <1>1, <2>2
  <2>4. x + 1 \in 1 .. q /\ (x + 1) - 1 = x BY <1>4, <2>2
  <2>5. b = x * n + r + 1 BY <1>1, <1>3, <2>2, <2>3
  <2>6. b = ((x + 1) - 1) * n + r + 1 BY <2>4, <2>5
  <2> QED BY <2>2, <2>4, <2>6
<1>8. ASSUME NEW d \in 0 .. n - 1, NEW e \in 0 .. n - 1, NEW k \in 1 .. q, NEW l \in 1 .. q,
             (k - 1) * n + d + 1 = (l - 1) * n + e + 1
      PROVE  d = e /\ k = l
  <2>1. k - 1 \in Nat /\ l - 1 \in Nat BY <1>4
  <2>2. (k - 1) * n \in Nat /\ (l - 1) * n \in Nat BY <1>1, <2>1
  <2>3. (k - 1) * n + d = (l - 1) * n + e BY <1>1, <1>8, <2>2
  <2>4. k - 1 = l - 1 /\ d = e BY <1>1, <2>1, <2>3, OnePlace
  <2> QED BY <1>4, <2>4
<1> HIDE DEF R
<1>9. PICK own : own = OwnBins(c) OBVIOUS
<1>10. \A d \in 0 .. n - 1 : own[d] = BinsOf(c, d) BY <1>0, <1>9 DEF OwnBins
<1>11. \A d \in 0 .. n - 1 : own[d] \in Parts(R) /\ Len(own[d]) = q BY <1>6, <1>10
<1>12. \A d \in 0 .. n - 1 : \A k \in 1 .. q : (k - 1) * n + d + 1 \in 1 .. m /\ own[d][k] = bs[(k - 1) * n + d + 1]
  <2> SUFFICES ASSUME NEW d \in 0 .. n - 1, NEW k \in 1 .. q
               PROVE  (k - 1) * n + d + 1 \in 1 .. m /\ own[d][k] = bs[(k - 1) * n + d + 1]
    OBVIOUS
  <2>1. own[d] = BinsOf(c, d) BY <1>10
  <2>2. BinsOf(c, d)[k] = bs[(k - 1) * n + d + 1] BY <1>6
  <2> QED BY <1>5, <2>1, <2>2
<1>13. SharedOut(own, bs, n, m, q, R)
  <2>1. q \in Nat \ {0} BY <1>4
  <2> QED BY <1>7, <1>8, <1>11, <1>12, <2>1, Zenon DEF SharedOut
<1>14. SharedOut(own, bs, n, m, q, RowsOfChunk(c)) BY <1>13 DEF R
<1> QED BY <1>0, <1>9, <1>14

(* Joined for every shard, they have each row of the chunk once.           *)
SharesOf(c) == [i \in 1 .. DP |-> FlattenSeq(BinsOf(c, i - 1))]
JoinedAt(w, ob, e) ==
  /\ \A k \in 1 .. Len(ob) : \A l \in 1 .. Len(ob[k]) : e[k - 1] + l \in 1 .. Len(w) /\ w[e[k - 1] + l] = ob[k][l]
  /\ \A x \in 1 .. Len(w) : \E k \in 1 .. Len(ob) : \E l \in 1 .. Len(ob[k]) : x = e[k - 1] + l

(* A rank then has the rows of its bins, and the ranks together have each  *)
(* row of the chunk once.                                                  *)
LEMMA SharesDealt ==
  ASSUME GoodCall, GoodFeed, NEW c \in 1 .. ChunksFed, PackedRight(packed[c], c)
  PROVE  DealtOnce(SharesOf(c), RowsOfChunk(c)) /\ Len(SharesOf(c)) = DP
<1>0. PICK ss, own, bs, n, m, q, R :
        /\ ss = SharesOf(c) /\ own = OwnBins(c) /\ bs = packed[c] /\ n = DP /\ m = Len(packed[c])
        /\ q = Len(packed[c]) \div DP /\ R = RowsOfChunk(c)
  BY Zenon
<1>1. n \in Nat \ {0} BY <1>0, SizesAre
<1>2. SharedOut(own, bs, n, m, q, R) BY <1>0, BinsShared
<1>21. q \in Nat \ {0} /\ \A d \in 0 .. n - 1 : own[d] \in Parts(R) /\ Len(own[d]) = q BY <1>2 DEF SharedOut
<1>22. \A d \in 0 .. n - 1 : \A k \in 1 .. q :
         (k - 1) * n + d + 1 \in 1 .. m /\ own[d][k] = bs[(k - 1) * n + d + 1]
  BY <1>2 DEF SharedOut
<1>23. \A b \in 1 .. m : \E d \in 0 .. n - 1, k \in 1 .. q : b = (k - 1) * n + d + 1 BY <1>2 DEF SharedOut
<1>24. \A d, e \in 0 .. n - 1 : \A k, l \in 1 .. q :
         (k - 1) * n + d + 1 = (l - 1) * n + e + 1 => d = e /\ k = l
  BY <1>2, Zenon DEF SharedOut
<1>3. DealtOnce(bs, R) /\ m = Len(bs)
  <2>1. DealtOnce(packed[c], RowsOfChunk(c)) BY DEF PackedRight
  <2> QED BY <1>0, <2>1
<1>4. DOMAIN ss = 1 .. n /\ \A i \in 1 .. n : ss[i] = FlattenSeq(own[i - 1])
  <2>1. ss = [i \in 1 .. n |-> FlattenSeq(BinsOf(c, i - 1))] BY <1>0 DEF SharesOf
  <2>2. \A d \in 0 .. n - 1 : own[d] = BinsOf(c, d) BY <1>0 DEF OwnBins
  <2>3. \A i \in 1 .. n : i - 1 \in 0 .. n - 1 BY <1>1
  <2>4. \A i \in 1 .. n : own[i - 1] = BinsOf(c, i - 1) BY <2>2, <2>3
  <2>5. ASSUME NEW i \in 1 .. n PROVE ss[i] = FlattenSeq(own[i - 1])
    <3>1. ss[i] = FlattenSeq(BinsOf(c, i - 1)) BY <2>1
    <3> QED BY <2>4, <3>1
  <2> QED BY <2>1, <2>5
<1>5. ASSUME NEW i \in 1 .. n PROVE ss[i] \in Seq(R) /\ \E e : JoinedAt(ss[i], own[i - 1], e)
  <2>0. i - 1 \in 0 .. n - 1 BY <1>1
  <2>1. PICK ob, w : ob = own[i - 1] /\ w = ss[i] OBVIOUS
  <2>2. ob \in Parts(R) BY <1>21, <2>0, <2>1
  <2>3. PICK e : Parted(ob, e) BY <2>2, EndsExist
  <2>4. w = FlattenSeq(ob) BY <1>4, <2>1
  <2>5. Lies(ob, e, R, Len(ob), w) BY <2>2, <2>3, <2>4, PartsJoined
  <2>6. /\ w \in Seq(R) /\ Len(w) = e[Len(ob)]
        /\ \A k \in 1 .. Len(ob) : \A l \in 1 .. Len(ob[k]) : e[k - 1] + l \in 1 .. Len(w) /\ w[e[k - 1] + l] = ob[k][l]
    BY <2>2, <2>5 DEF Lies
  <2>7. ASSUME NEW x \in 1 .. Len(w) PROVE \E k \in 1 .. Len(ob) : \E l \in 1 .. Len(ob[k]) : x = e[k - 1] + l
    <3>1. x \in 1 .. e[Len(ob)] BY <2>6
    <3> QED BY <2>2, <2>3, <3>1, PartOfPlace
  <2>8. JoinedAt(w, ob, e) BY <2>6, <2>7, Zenon DEF JoinedAt
  <2> QED BY <2>1, <2>6, <2>8
<1>6. ss \in Parts(R) /\ Len(ss) = n
  <2>1. \A i \in 1 .. n : ss[i] \in Seq(R) BY <1>5
  <2>2. ss = [i \in 1 .. n |-> ss[i]]
    <3>1. ss = [i \in 1 .. n |-> FlattenSeq(BinsOf(c, i - 1))] BY <1>0 DEF SharesOf
    <3> QED BY <3>1
  <2>3. ss \in [1 .. n -> Seq(R)] BY <2>1, <2>2
  <2>4. ss \in Seq(Seq(R)) /\ Len(ss) = n BY <1>1, <2>3
  <2> QED BY <2>4 DEF Parts
<1>7. ASSUME NEW r \in R PROVE \E i \in 1 .. Len(ss) : \E x \in 1 .. Len(ss[i]) : ss[i][x] = r
  <2>1. PICK b \in 1 .. m : \E l \in 1 .. Len(bs[b]) : bs[b][l] = r BY <1>3 DEF DealtOnce
  <2>2. PICK l \in 1 .. Len(bs[b]) : bs[b][l] = r BY <2>1
  <2>3. PICK d \in 0 .. n - 1, k \in 1 .. q : b = (k - 1) * n + d + 1 BY <1>23
  <2>4. d + 1 \in 1 .. n /\ (d + 1) - 1 = d BY <1>1
  <2>5. PICK i : i = d + 1 OBVIOUS
  <2>6. i \in 1 .. n /\ b = (k - 1) * n + (i - 1) + 1 BY <2>3, <2>4, <2>5
  <2>7. PICK e : JoinedAt(ss[i], own[i - 1], e) BY <1>5, <2>6
  <2>8. PICK ob : ob = own[i - 1] OBVIOUS
  <2>9. Len(ob) = q /\ ob[k] = bs[b]
    <3>1. i - 1 \in 0 .. n - 1 BY <1>1, <2>6
    <3>2. ob[k] = bs[(k - 1) * n + (i - 1) + 1] BY <1>22, <2>8, <3>1
    <3> QED BY <1>21, <2>6, <2>8, <3>1, <3>2
  <2>10. JoinedAt(ss[i], ob, e) BY <2>7, <2>8
  <2>11. e[k - 1] + l \in 1 .. Len(ss[i]) /\ ss[i][e[k - 1] + l] = ob[k][l] BY <2>9, <2>10, Zenon DEF JoinedAt
  <2>12. ss[i][e[k - 1] + l] = r BY <2>2, <2>9, <2>11
  <2> QED BY <1>6, <2>6, <2>11, <2>12, Zenon
<1>8. ASSUME NEW i \in 1 .. Len(ss), NEW j \in 1 .. Len(ss), NEW x \in 1 .. Len(ss[i]), NEW y \in 1 .. Len(ss[j]),
             ss[i][x] = ss[j][y]
      PROVE  i = j /\ x = y
  <2>0. i \in 1 .. n /\ j \in 1 .. n /\ i - 1 \in 0 .. n - 1 /\ j - 1 \in 0 .. n - 1 BY <1>1, <1>6
  <2>1. PICK f : f = [t \in 1 .. n |-> CHOOSE e : JoinedAt(ss[t], own[t - 1], e)] BY Zenon
  <2>2. \A t \in 1 .. n : JoinedAt(ss[t], own[t - 1], f[t])
    <3> SUFFICES ASSUME NEW t \in 1 .. n PROVE JoinedAt(ss[t], own[t - 1], f[t]) OBVIOUS
    <3>1. \E e : JoinedAt(ss[t], own[t - 1], e) BY <1>5
    <3>2. JoinedAt(ss[t], own[t - 1], CHOOSE e : JoinedAt(ss[t], own[t - 1], e)) BY <3>1
    <3>3. f[t] = CHOOSE e : JoinedAt(ss[t], own[t - 1], e) BY <2>1
    <3> QED BY <3>2, <3>3
  <2>3. ASSUME NEW t \in 1 .. n, NEW z \in 1 .. Len(ss[t])
        PROVE  \E k \in 1 .. q : \E b \in 1 .. m : \E l \in 1 .. Len(bs[b]) :
                 b = (k - 1) * n + (t - 1) + 1 /\ z = f[t][k - 1] + l /\ ss[t][z] = bs[b][l]
    <3>1. PICK ob, e, w : ob = own[t - 1] /\ e = f[t] /\ w = ss[t] BY Zenon
    <3>2. JoinedAt(w, ob, e) BY <2>2, <3>1
    <3>3. t - 1 \in 0 .. n - 1 /\ z \in 1 .. Len(w) BY <1>1, <3>1
    <3>4. Len(ob) = q BY <1>21, <3>1, <3>3
    <3>5. PICK k \in 1 .. q : \E l \in 1 .. Len(ob[k]) : z = e[k - 1] + l BY <3>2, <3>3, <3>4, Zenon DEF JoinedAt
    <3>6. PICK l \in 1 .. Len(ob[k]) : z = e[k - 1] + l BY <3>5
    <3>7. w[e[k - 1] + l] = ob[k][l] BY <3>2, <3>4 DEF JoinedAt
    <3>8. w[z] = ob[k][l] BY <3>6, <3>7
    <3>9. PICK b : b = (k - 1) * n + (t - 1) + 1 OBVIOUS
    <3>10. b \in 1 .. m /\ ob[k] = bs[b] BY <1>22, <3>1, <3>3, <3>9, Zenon
    <3>11. l \in 1 .. Len(bs[b]) /\ w[z] = bs[b][l] BY <3>8, <3>10
    <3> QED BY <3>1, <3>6, <3>9, <3>10, <3>11, Zenon
  <2>4. PICK k \in 1 .. q : \E b \in 1 .. m : \E l \in 1 .. Len(bs[b]) :
               b = (k - 1) * n + (i - 1) + 1 /\ x = f[i][k - 1] + l /\ ss[i][x] = bs[b][l]
    BY <2>0, <2>3, Zenon
  <2>5. PICK b \in 1 .. m : \E l \in 1 .. Len(bs[b]) :
               b = (k - 1) * n + (i - 1) + 1 /\ x = f[i][k - 1] + l /\ ss[i][x] = bs[b][l]
    BY <2>4, Zenon
  <2>51. PICK l \in 1 .. Len(bs[b]) :
               b = (k - 1) * n + (i - 1) + 1 /\ x = f[i][k - 1] + l /\ ss[i][x] = bs[b][l]
    BY <2>5, Zenon
  <2>6. PICK h \in 1 .. q : \E a \in 1 .. m : \E o \in 1 .. Len(bs[a]) :
               a = (h - 1) * n + (j - 1) + 1 /\ y = f[j][h - 1] + o /\ ss[j][y] = bs[a][o]
    BY <2>0, <2>3, Zenon
  <2>7. PICK a \in 1 .. m : \E o \in 1 .. Len(bs[a]) :
               a = (h - 1) * n + (j - 1) + 1 /\ y = f[j][h - 1] + o /\ ss[j][y] = bs[a][o]
    BY <2>6, Zenon
  <2>71. PICK o \in 1 .. Len(bs[a]) :
               a = (h - 1) * n + (j - 1) + 1 /\ y = f[j][h - 1] + o /\ ss[j][y] = bs[a][o]
    BY <2>7, Zenon
  <2>8. bs[b][l] = bs[a][o] BY <1>8, <2>51, <2>71
  <2>9. b = a /\ l = o
    <3>1. \A u, v \in 1 .. m : \A s \in 1 .. Len(bs[u]) : \A r \in 1 .. Len(bs[v]) : bs[u][s] = bs[v][r] => u = v /\ s = r
      BY <1>3, Zenon DEF DealtOnce
    <3> QED BY <2>8, <3>1
  <2>10. (k - 1) * n + (i - 1) + 1 = (h - 1) * n + (j - 1) + 1 BY <2>51, <2>71, <2>9
  <2>11. i - 1 = j - 1 /\ k = h BY <1>24, <2>0, <2>10
  <2>12. i = j BY <1>1, <2>0, <2>11
  <2> QED BY <2>51, <2>71, <2>9, <2>11, <2>12
<1>9. DealtOnce(ss, R) BY <1>6, <1>7, <1>8 DEF DealtOnce
<1> QED BY <1>0, <1>6, <1>9

(* What runs from zero by given steps is one function.                     *)
RunsBy(f, n, h) == f = [b \in 0 .. n |-> f[b]] /\ f[0] = 0 /\ \A b \in 1 .. n : f[b] = f[b - 1] + h[b]

(* A recursive function over numbers is the only one that starts and goes  *)
(* on as it does.                                                          *)
LEMMA OneRun ==
  ASSUME NEW n \in Nat, NEW h, NEW e, NEW f, RunsBy(e, n, h), RunsBy(f, n, h)
  PROVE  e = f
<1> DEFINE S == {k \in Nat : k <= n => e[k] = f[k]}
<1>1. 0 \in S BY DEF RunsBy
<1>2. ASSUME NEW k \in Nat, k \in S, k + 1 <= n PROVE e[k + 1] = f[k + 1]
  <2>1. k + 1 \in 1 .. n /\ (k + 1) - 1 = k /\ k <= n BY <1>2
  <2>2. e[k + 1] = e[k] + h[k + 1] BY <2>1, Zenon DEF RunsBy
  <2>3. f[k + 1] = f[k] + h[k + 1] BY <2>1, Zenon DEF RunsBy
  <2> QED BY <1>2, <2>1, <2>2, <2>3
<1>3. \A k \in Nat : k \in S => k + 1 \in S BY <1>2
<1> HIDE DEF S
<1>4. Nat \subseteq S BY <1>1, <1>3, Induct
<1>5. \A k \in 0 .. n : e[k] = f[k] BY <1>4 DEF S
<1>6. e = [b \in 0 .. n |-> e[b]] /\ f = [b \in 0 .. n |-> f[b]] BY DEF RunsBy
<1> QED BY <1>5, <1>6

(* The microbatches of a shard are its bins, none over the capacity.       *)
Spans(v, n, e) ==
  /\ DOMAIN v = 1 .. n /\ Len(v) = n
  /\ \A k \in 1 .. n : v[k].from = e[k - 1] /\ v[k].to = e[k] /\ v[k].len <= Capacity

(* The sums that the code takes over the bins of a rank are the ends of its*)
(* microbatches, and what a microbatch holds fits.                         *)
LEMMA MicroPackedIs ==
  ASSUME GoodCall, GoodFeed, NEW c \in 1 .. ChunksFed, NEW d \in 0 .. DP - 1, NEW V, BinsOf(c, d) \in Parts(V),
         NEW e, Parted(BinsOf(c, d), e), \A b \in 1 .. Len(BinsOf(c, d)) : BinFits(BinsOf(c, d)[b]) /\ BinsOf(c, d)[b] \in Seq(1 .. RowsFed)
  PROVE  Spans(MicroPacked(c, d), Len(BinsOf(c, d)), e)
<1> DEFINE own == BinsOf(c, d)
           Adding(f) == f = [b \in 0 .. Len(own) |-> IF b = 0 THEN 0 ELSE f[b - 1] + Len(own[b])]
           Weighing(f, b) == f = [k \in 0 .. Len(own[b]) |-> IF k = 0 THEN 0 ELSE f[k - 1] + Padded(feed[own[b][k]])]
<1>1. MicroPacked(c, d) = [b \in DOMAIN own |-> [from |-> (CHOOSE f : Adding(f))[b - 1], to |-> (CHOOSE f : Adding(f))[b],
                                                 len |-> (CHOOSE f : Weighing(f, b))[Len(own[b])]]]
  BY DEF MicroPacked
<1> HIDE DEF own
<1>2. own \in Parts(V) /\ Parted(own, e) /\ \A b \in 1 .. Len(own) : BinFits(own[b]) /\ own[b] \in Seq(1 .. RowsFed)
  BY DEF own
<1>3. PICK n : n = Len(own) BY Zenon
<1>4. n \in Nat /\ DOMAIN own = 1 .. n /\ \A b \in 1 .. n : Len(own[b]) \in Nat BY <1>2, <1>3, PartsAre
<1>5. (CHOOSE f : Adding(f)) = e
  <2> DEFINE h == [b \in 1 .. n |-> Len(own[b])]
  <2>1. e \in [0 .. n -> Nat] /\ e[0] = 0 /\ \A b \in 1 .. n : e[b] = e[b - 1] + Len(own[b]) BY <1>2, <1>3 DEF Parted
  <2>2. e = [b \in 0 .. n |-> e[b]] BY <2>1
  <2>3. \A b \in 0 .. n : e[b] = IF b = 0 THEN 0 ELSE e[b - 1] + Len(own[b])
    <3> SUFFICES ASSUME NEW b \in 0 .. n PROVE e[b] = IF b = 0 THEN 0 ELSE e[b - 1] + Len(own[b]) OBVIOUS
    <3>1. b # 0 => b \in 1 .. n BY <1>4
    <3> QED BY <2>1, <3>1
  <2>4. e = [b \in 0 .. n |-> IF b = 0 THEN 0 ELSE e[b - 1] + Len(own[b])] BY <2>2, <2>3, Zenon
  <2>5. Adding(e) BY <1>3, <2>4, Zenon
  <2>6. PICK f : f = (CHOOSE g : Adding(g)) OBVIOUS
  <2>7. Adding(f)
    <3>1. \E g : Adding(g) BY <2>5, Zenon
    <3> HIDE DEF Adding
    <3> QED BY <2>6, <3>1
  <2>8. f = [b \in 0 .. n |-> IF b = 0 THEN 0 ELSE f[b - 1] + Len(own[b])] BY <1>3, <2>7, Zenon
  <2> HIDE DEF Adding
  <2>9. RunsBy(f, n, h)
    <3>1. \A b \in 0 .. n : f[b] = IF b = 0 THEN 0 ELSE f[b - 1] + Len(own[b]) BY <2>8, Zenon
    <3>2. f = [b \in 0 .. n |-> f[b]] BY <2>8, <3>1
    <3>3. f[0] = 0 BY <1>4, <3>1
    <3>4. ASSUME NEW b \in 1 .. n PROVE f[b] = f[b - 1] + h[b]
      <4>1. b \in 0 .. n /\ b # 0 BY <1>4
      <4> QED BY <3>1, <4>1
    <3> QED BY <3>2, <3>3, <3>4, Zenon DEF RunsBy
  <2>10. RunsBy(e, n, h)
    <3>1. \A b \in 1 .. n : e[b] = e[b - 1] + h[b] BY <2>1
    <3> QED BY <2>1, <2>2, <3>1, Zenon DEF RunsBy
  <2> HIDE DEF h
  <2>11. e = f BY <1>4, <2>9, <2>10, OneRun
  <2> QED BY <2>6, <2>11
<1>6. ASSUME NEW b \in 1 .. n PROVE (CHOOSE f : Weighing(f, b))[Len(own[b])] <= Capacity
  <2>1. PICK w, m : w = own[b] /\ m = Len(own[b]) BY Zenon
  <2>2. m \in Nat /\ m = Len(w) /\ w \in Seq(1 .. RowsFed) BY <1>2, <1>3, <1>4, <2>1
  <2>3. BinFits(w) BY <1>2, <1>3, <2>1
  <2>4. PICK e2 : Adds(e2, w, PaddedRows) /\ e2[m] <= Capacity BY <2>2, <2>3 DEF BinFits
  <2> DEFINE h == [k \in 1 .. m |-> PaddedRows[w[k]]]
  <2>5. e2 \in [0 .. m -> Nat] /\ e2[0] = 0 /\ \A k \in 1 .. m : e2[k] = e2[k - 1] + PaddedRows[w[k]]
    BY <2>2, <2>4 DEF Adds
  <2>6. e2 = [k \in 0 .. m |-> e2[k]] BY <2>5
  <2>7. \A k \in 1 .. m : PaddedRows[w[k]] = Padded(feed[w[k]])
    <3>0. PICK X : X = 1 .. RowsFed OBVIOUS
    <3>1. \A k \in 1 .. m : w[k] \in 1 .. RowsFed BY <2>2, <3>0, ListWithin, Zenon
    <3>2. \A r \in 1 .. RowsFed : PaddedRows[r] = Padded(feed[r]) BY DEF PaddedRows
    <3> QED BY <3>1, <3>2
  <2>8. \A k \in 0 .. m : e2[k] = IF k = 0 THEN 0 ELSE e2[k - 1] + Padded(feed[w[k]])
    <3> SUFFICES ASSUME NEW k \in 0 .. m PROVE e2[k] = IF k = 0 THEN 0 ELSE e2[k - 1] + Padded(feed[w[k]]) OBVIOUS
    <3>1. CASE k = 0 BY <2>5, <3>1
    <3>2. CASE k # 0
      <4>1. k \in 1 .. m BY <2>2, <3>2
      <4>2. e2[k] = e2[k - 1] + PaddedRows[w[k]] BY <2>5, <4>1
      <4>3. PaddedRows[w[k]] = Padded(feed[w[k]]) BY <2>7, <4>1
      <4> QED BY <3>2, <4>2, <4>3
    <3> QED BY <3>1, <3>2
  <2>9. e2 = [k \in 0 .. m |-> IF k = 0 THEN 0 ELSE e2[k - 1] + Padded(feed[w[k]])] BY <2>6, <2>8, Zenon
  <2>10. Weighing(e2, b) BY <2>1, <2>9, Zenon
  <2>11. PICK f : f = (CHOOSE g : Weighing(g, b)) OBVIOUS
  <2>12. Weighing(f, b)
    <3>1. \E g : Weighing(g, b) BY <2>10, Zenon
    <3> HIDE DEF Weighing
    <3> QED BY <2>11, <3>1
  <2>13. f = [k \in 0 .. m |-> IF k = 0 THEN 0 ELSE f[k - 1] + Padded(feed[w[k]])] BY <2>1, <2>12, Zenon
  <2> HIDE DEF Weighing
  <2>14. RunsBy(f, m, h)
    <3>1. \A k \in 0 .. m : f[k] = IF k = 0 THEN 0 ELSE f[k - 1] + Padded(feed[w[k]]) BY <2>13, Zenon
    <3>2. f = [k \in 0 .. m |-> f[k]] BY <2>13, <3>1
    <3>3. f[0] = 0 BY <2>2, <3>1
    <3>4. ASSUME NEW k \in 1 .. m PROVE f[k] = f[k - 1] + h[k]
      <4>1. k \in 0 .. m /\ k # 0 BY <2>2
      <4>2. f[k] = f[k - 1] + Padded(feed[w[k]]) BY <3>1, <4>1
      <4>3. h[k] = Padded(feed[w[k]]) BY <2>7
      <4> QED BY <4>2, <4>3
    <3> QED BY <3>2, <3>3, <3>4, Zenon DEF RunsBy
  <2>15. RunsBy(e2, m, h)
    <3>1. \A k \in 1 .. m : e2[k] = e2[k - 1] + h[k] BY <2>5
    <3> QED BY <2>5, <2>6, <3>1, Zenon DEF RunsBy
  <2> HIDE DEF h
  <2>16. e2 = f BY <2>2, <2>14, <2>15, OneRun
  <2> QED BY <2>1, <2>4, <2>11, <2>16
<1> HIDE DEF Adding, Weighing
<1>7. PICK v : v = MicroPacked(c, d) OBVIOUS
<1>8. DOMAIN v = 1 .. n /\ \A k \in 1 .. n : v[k].from = e[k - 1] /\ v[k].to = e[k] /\ v[k].len <= Capacity
  <2> DEFINE Weight(b) == (CHOOSE f : Weighing(f, b))[Len(own[b])]
  <2>1. PICK g : g = [b \in 1 .. n |-> Weight(b)] BY Zenon
  <2>2. \A b \in 1 .. n : g[b] = Weight(b) /\ g[b] <= Capacity BY <1>6, <2>1
  <2>3. PICK f : f = (CHOOSE h : Adding(h)) OBVIOUS
  <2>4. v = [b \in 1 .. n |-> [from |-> f[b - 1], to |-> f[b], len |-> Weight(b)]] BY <1>1, <1>4, <1>7, <2>3
  <2>5. f = e BY <1>5, <2>3
  <2> HIDE DEF Weight
  <2>6. v = [b \in 1 .. n |-> [from |-> e[b - 1], to |-> e[b], len |-> g[b]]] BY <2>2, <2>4, <2>5
  <2> QED BY <2>2, <2>6
<1>9. Len(v) = n
  <2>1. v = [b \in 1 .. n |-> v[b]] BY <1>1, <1>4, <1>7
  <2>2. PICK U : U = {v[b] : b \in 1 .. n} BY Zenon
  <2>3. v \in [1 .. n -> U] BY <2>1, <2>2
  <2> QED BY <1>4, <2>3
<1>10. Spans(v, n, e) BY <1>8, <1>9 DEF Spans
<1> QED BY <1>3, <1>7, <1>10 DEF own

(* The bins of a shard hold rows of the batch, none more than it may.      *)
LEMMA OwnBinsFit ==
  ASSUME GoodCall, GoodFeed, NEW c \in 1 .. ChunksFed, PackedRight(packed[c], c), NEW d \in 0 .. DP - 1
  PROVE  /\ BinsOf(c, d) \in Parts(RowsOfChunk(c)) /\ Len(BinsOf(c, d)) = Len(packed[c]) \div DP
         /\ Len(packed[c]) \div DP \in Nat \ {0}
         /\ \A b \in 1 .. Len(BinsOf(c, d)) : BinFits(BinsOf(c, d)[b]) /\ BinsOf(c, d)[b] \in Seq(1 .. RowsFed)
<1>0. PICK own, ob, bs, n, m, q, R :
        /\ own = OwnBins(c) /\ ob = BinsOf(c, d) /\ bs = packed[c] /\ n = DP /\ m = Len(packed[c])
        /\ q = Len(packed[c]) \div DP /\ R = RowsOfChunk(c)
  OBVIOUS
<1>1. SharedOut(own, bs, n, m, q, R) BY <1>0, BinsShared
<1>2. d \in 0 .. n - 1 BY <1>0
<1>3. own[d] = ob BY <1>0 DEF OwnBins
<1>4. q \in Nat \ {0} /\ ob \in Parts(R) /\ Len(ob) = q BY <1>1, <1>2, <1>3 DEF SharedOut
<1>5. \A k \in 1 .. q : (k - 1) * n + d + 1 \in 1 .. m /\ ob[k] = bs[(k - 1) * n + d + 1]
  BY <1>1, <1>2, <1>3, Zenon DEF SharedOut
<1>6. \A b \in 1 .. m : BinFits(bs[b]) BY <1>0 DEF PackedRight
<1>7. ASSUME NEW k \in 1 .. q PROVE BinFits(ob[k]) /\ ob[k] \in Seq(1 .. RowsFed)
  <2>1. PICK b : b = (k - 1) * n + d + 1 OBVIOUS
  <2>2. BinFits(ob[k]) BY <1>5, <1>6, <2>1
  <2>3. PICK U : U = 1 .. RowsFed OBVIOUS
  <2>4. R \subseteq U BY <1>0, <2>3 DEF RowsOfChunk
  <2>5. ob[k] \in Seq(R) BY <1>4, PartsAre
  <2>6. ob[k] \in Seq(U) BY <2>4, <2>5, ListWithin
  <2> QED BY <2>2, <2>3, <2>6
<1>8. \A b \in 1 .. Len(ob) : BinFits(ob[b]) /\ ob[b] \in Seq(1 .. RowsFed) BY <1>4, <1>7
<1> QED BY <1>0, <1>4, <1>8

(* Where the parts of a list end, its parts end.                           *)
LEMMA PartedEnds ==
  ASSUME NEW V, NEW ss \in Parts(V), NEW e, Parted(ss, e)
  PROVE  EndsIn(e, Len(ss), Len(FlattenSeq(ss)))
<1>1. Len(ss) \in Nat /\ \A i \in 1 .. Len(ss) : Len(ss[i]) \in Nat BY PartsAre
<1>2. e \in [0 .. Len(ss) -> Nat] /\ e[0] = 0 /\ \A i \in 1 .. Len(ss) : e[i] = e[i - 1] + Len(ss[i]) BY DEF Parted
<1>3. Lies(ss, e, V, Len(ss), FlattenSeq(ss)) BY PartsJoined
<1>4. e[Len(ss)] = Len(FlattenSeq(ss)) BY <1>3 DEF Lies
<1>5. ASSUME NEW k \in 1 .. Len(ss) PROVE e[k - 1] <= e[k]
  <2>1. e[k - 1] \in Nat /\ e[k] = e[k - 1] + Len(ss[k]) /\ Len(ss[k]) \in Nat BY <1>1, EndsAre
  <2> QED BY <2>1
<1> QED BY <1>2, <1>4, <1>5 DEF EndsIn

(* A list of one part is this part.                                        *)
LEMMA OnlyPart ==
  ASSUME NEW V, NEW ss \in Parts(V), Len(ss) = 1
  PROVE  FlattenSeq(ss) = ss[1]
<1>1. PICK e : Parted(ss, e) BY EndsExist
<1>2. e[0] = 0 BY <1>1 DEF Parted
<1>3. PICK w : w = FlattenSeq(ss) OBVIOUS
<1>4. w \in Seq(V) /\ Len(w) = e[1] BY <1>1, <1>3, PartsJoined, Zenon DEF Lies
<1>5. SubSeq(w, e[1 - 1] + 1, e[1]) = ss[1] BY <1>1, <1>3, PartsCut
<1>6. SubSeq(w, 1, Len(w)) = ss[1]
  <2>1. 1 - 1 = 0 /\ 0 + 1 = 1 OBVIOUS
  <2>2. e[1 - 1] + 1 = 1 BY <1>2, <2>1
  <2> QED BY <1>4, <1>5, <2>2, Zenon
<1>7. SubSeq(w, 1, Len(w)) = w BY <1>4
<1> QED BY <1>3, <1>6, <1>7

(* Packed and dealt, the rows are planned.                                 *)
PartsOfRank(i) == [c \in 1 .. ChunksFed |-> FlattenSeq(BinsOf(c, i - 1))]

(* A batch that was packed right is sharded into a plan that every worker  *)
(* stands at the beginning of.                                             *)
LEMMA PackedSharded ==
  ASSUME GoodCall, GoodFeed, \A c \in 1 .. ChunksFed : PackedRight(packed[c], c), ShardPacked
  PROVE  phase' = "running" /\ UNCHANGED <<call, feed>> /\ \E p : Planned(p)' /\ AllStand(p)'
<1>1. /\ DP \in Nat \ {0} /\ PerShard \in Nat \ {0} /\ ChunksFed \in Nat \ {0} /\ RowsFed \in Nat
      /\ DOMAIN feed = 1 .. RowsFed /\ Chunks = 1 .. ChunksFed /\ Ranks = 0 .. DP - 1
      /\ (~Op.trains => ChunksFed = 1)
  BY SizesAre DEF Ranks
<1>2. PICK rows : rows = [d \in Ranks |-> FlattenSeq([c \in Chunks |-> FlattenSeq(BinsOf(c, d))])] BY Zenon
<1>3. /\ UNCHANGED <<call, feed>> /\ Batching = "packed" /\ shard' = rows /\ Submit
      /\ perm' = FlattenSeq([d \in 1 .. DP |-> rows[d - 1]])
      /\ micro' = [d \in Ranks |-> [c \in Chunks |-> MicroPacked(c, d)]]
  BY <1>2 DEF ShardPacked
<1>4. PICK p : p = [parts |-> [g \in 1 .. ChunksFed |-> SharesOf(g)],
                    offs |-> [i \in 1 .. DP |-> CHOOSE e : Parted(PartsOfRank(i), e)],
                    many |-> [g \in 1 .. ChunksFed |-> Len(packed[g]) \div DP],
                    ends |-> [g \in 1 .. ChunksFed |-> [i \in 1 .. DP |-> CHOOSE e : Parted(BinsOf(g, i - 1), e)]]]
  BY Zenon
<1>5. /\ \A g \in 1 .. ChunksFed : p.parts[g] = SharesOf(g) /\ p.many[g] = Len(packed[g]) \div DP
      /\ \A g \in 1 .. ChunksFed : \A i \in 1 .. DP : p.ends[g][i] = CHOOSE e : Parted(BinsOf(g, i - 1), e)
      /\ \A i \in 1 .. DP : p.offs[i] = CHOOSE e : Parted(PartsOfRank(i), e)
  BY <1>4
<1>6. \A i \in 1 .. DP : i - 1 \in 0 .. DP - 1 /\ i - 1 \in Ranks BY <1>1
<1>7. ASSUME NEW g \in 1 .. ChunksFed
      PROVE  /\ DealtOnce(p.parts[g], RowsOfChunk(g)) /\ Len(p.parts[g]) = DP
             /\ \A i \in 1 .. DP : p.parts[g][i] = FlattenSeq(BinsOf(g, i - 1))
  <2>1. DealtOnce(SharesOf(g), RowsOfChunk(g)) /\ Len(SharesOf(g)) = DP BY SharesDealt
  <2> QED BY <1>5, <2>1, Zenon DEF SharesOf
<1>8. ASSUME NEW g \in 1 .. ChunksFed, NEW i \in 1 .. DP
      PROVE  /\ p.many[g] \in Nat \ {0} /\ EndsIn(p.ends[g][i], p.many[g], Len(p.parts[g][i]))
             /\ Spans(micro'[i - 1][g], p.many[g], p.ends[g][i])
  <2>1. PICK ob, e : ob = BinsOf(g, i - 1) /\ e = p.ends[g][i] OBVIOUS
  <2>2. /\ ob \in Parts(RowsOfChunk(g)) /\ Len(ob) = p.many[g] /\ p.many[g] \in Nat \ {0}
        /\ \A b \in 1 .. Len(ob) : BinFits(ob[b]) /\ ob[b] \in Seq(1 .. RowsFed)
    BY <1>5, <1>6, <2>1, OwnBinsFit
  <2>3. Parted(ob, e)
    <3>1. \E f : Parted(ob, f) BY <2>2, EndsExist
    <3>2. e = CHOOSE f : Parted(ob, f) BY <1>5, <2>1
    <3> QED BY <3>1, <3>2
  <2>4. EndsIn(e, Len(ob), Len(FlattenSeq(ob))) BY <2>2, <2>3, PartedEnds
  <2>5. FlattenSeq(ob) = p.parts[g][i] BY <1>7, <2>1
  <2>6. Spans(MicroPacked(g, i - 1), Len(ob), e) BY <1>6, <2>1, <2>2, <2>3, MicroPackedIs, Zenon
  <2>7. micro'[i - 1][g] = MicroPacked(g, i - 1) BY <1>1, <1>3, <1>6
  <2>8. EndsIn(e, p.many[g], Len(p.parts[g][i])) BY <2>2, <2>4, <2>5
  <2>9. Spans(micro'[i - 1][g], p.many[g], e) BY <2>2, <2>6, <2>7
  <2> QED BY <2>1, <2>2, <2>8, <2>9
<1>9. /\ Op' = Op /\ Batching' = Batching /\ DP' = DP /\ RowsFed' = RowsFed /\ ChunksFed' = ChunksFed
      /\ PerShard' = PerShard /\ \A g : RowsOfChunk(g)' = RowsOfChunk(g)
  BY <1>3, SizesStay DEF SameSizes
<1>10. Unprepared' <=> Unprepared BY <1>3, CalledStay
<1>19. \A g \in 1 .. ChunksFed : p.many[g] \in Nat \ {0}
  <2>1. 1 \in 1 .. DP BY <1>1
  <2> QED BY <1>8, <2>1
<1>11. PlanMade(p)' BY <1>7, <1>8, <1>9, <1>10, <1>19 DEF PlanMade
<1>18. ASSUME NEW i \in 1 .. DP
       PROVE  /\ PartsOfRank(i) \in Parts(1 .. RowsFed) /\ Len(PartsOfRank(i)) = ChunksFed
              /\ \A g \in 1 .. ChunksFed : PartsOfRank(i)[g] = p.parts[g][i]
              /\ rows[i - 1] = FlattenSeq(PartsOfRank(i))
  <2>0. PICK U, n : U = 1 .. RowsFed /\ n = ChunksFed OBVIOUS
  <2>1. PICK ss : ss = PartsOfRank(i) OBVIOUS
  <2>2. ss = [c \in 1 .. n |-> FlattenSeq(BinsOf(c, i - 1))] BY <2>0, <2>1 DEF PartsOfRank
  <2>3. \A g \in 1 .. n : ss[g] = p.parts[g][i] BY <1>7, <2>0, <2>2
  <2>4. ASSUME NEW g \in 1 .. n PROVE ss[g] \in Seq(U)
    <3>1. g \in 1 .. ChunksFed BY <2>0
    <3>2. p.parts[g] \in Parts(RowsOfChunk(g)) /\ i \in 1 .. Len(p.parts[g]) BY <1>7, <3>1 DEF DealtOnce
    <3>3. p.parts[g][i] \in Seq(RowsOfChunk(g)) BY <3>2, PartsAre
    <3>4. RowsOfChunk(g) \subseteq U BY <2>0 DEF RowsOfChunk
    <3>5. p.parts[g][i] \in Seq(U) BY <3>3, <3>4, ListWithin
    <3> QED BY <2>3, <3>5
  <2>5. ss \in Parts(U) /\ Len(ss) = n
    <3>1. ss = [c \in 1 .. n |-> ss[c]] BY <2>2
    <3>2. ss \in [1 .. n -> Seq(U)] BY <2>4, <3>1
    <3>3. n \in Nat BY <1>1, <2>0
    <3>4. ss \in Seq(Seq(U)) /\ Len(ss) = n BY <3>2, <3>3
    <3> QED BY <3>4 DEF Parts
  <2>6. rows[i - 1] = FlattenSeq([c \in Chunks |-> FlattenSeq(BinsOf(c, i - 1))]) BY <1>2, <1>6
  <2>7. rows[i - 1] = FlattenSeq(ss) BY <1>1, <2>0, <2>2, <2>6
  <2> QED BY <2>0, <2>1, <2>3, <2>5, <2>7
<1>12. ASSUME NEW i \in 1 .. DP
       PROVE  /\ p.offs[i] \in [0 .. ChunksFed -> Nat] /\ p.offs[i][0] = 0
              /\ \A g \in 1 .. ChunksFed :
                   /\ p.offs[i][g] = p.offs[i][g - 1] + Len(p.parts[g][i])
                   /\ SubSeq(shard'[i - 1], p.offs[i][g - 1] + 1, p.offs[i][g]) = p.parts[g][i]
  <2>1. PICK U, n, ss, e : U = 1 .. RowsFed /\ n = ChunksFed /\ ss = PartsOfRank(i) /\ e = p.offs[i] OBVIOUS
  <2>5. ss \in Parts(U) /\ Len(ss) = n /\ \A g \in 1 .. n : ss[g] = p.parts[g][i] BY <1>18, <2>1
  <2>6. Parted(ss, e)
    <3>1. \E f : Parted(ss, f) BY <2>5, EndsExist
    <3>2. e = CHOOSE f : Parted(ss, f) BY <1>5, <2>1
    <3> QED BY <3>1, <3>2
  <2>7. e \in [0 .. n -> Nat] /\ e[0] = 0 /\ \A g \in 1 .. n : e[g] = e[g - 1] + Len(ss[g]) BY <2>5, <2>6 DEF Parted
  <2>8. shard'[i - 1] = FlattenSeq(ss) BY <1>3, <1>18, <2>1
  <2>9. \A g \in 1 .. n : SubSeq(FlattenSeq(ss), e[g - 1] + 1, e[g]) = ss[g] BY <2>5, <2>6, PartsCut
  <2>10. \A g \in 1 .. n : /\ e[g] = e[g - 1] + Len(p.parts[g][i])
                           /\ SubSeq(shard'[i - 1], e[g - 1] + 1, e[g]) = p.parts[g][i]
    <3> SUFFICES ASSUME NEW g \in 1 .. n
                 PROVE  /\ e[g] = e[g - 1] + Len(p.parts[g][i])
                        /\ SubSeq(shard'[i - 1], e[g - 1] + 1, e[g]) = p.parts[g][i]
      OBVIOUS
    <3>1. ss[g] = p.parts[g][i] BY <2>5
    <3>2. e[g] = e[g - 1] + Len(ss[g]) BY <2>7
    <3>3. SubSeq(FlattenSeq(ss), e[g - 1] + 1, e[g]) = ss[g] BY <2>9
    <3> QED BY <2>8, <3>1, <3>2, <3>3
  <2> QED BY <2>1, <2>7, <2>10
<1>13. ShardsFollow(p)' BY <1>3, <1>9, <1>12 DEF ShardsFollow
<1>14. MicroFollows(p)'
  <2>1. Batching' = "packed" BY <1>3, <1>9
  <2>2. ASSUME NEW g \in 1 .. ChunksFed, NEW i \in 1 .. DP
        PROVE  /\ DOMAIN micro'[i - 1][g] = 1 .. p.many[g] /\ Len(micro'[i - 1][g]) = p.many[g]
               /\ \A k \in 1 .. p.many[g] :
                    /\ micro'[i - 1][g][k].from = p.ends[g][i][k - 1] /\ micro'[i - 1][g][k].to = p.ends[g][i][k]
                    /\ InBudget(micro[i - 1][g][k], p.parts[g][i])'
    <3>1. Spans(micro'[i - 1][g], p.many[g], p.ends[g][i]) BY <1>8
    <3>2. \A k \in 1 .. p.many[g] : micro'[i - 1][g][k].len <= Capacity BY <3>1 DEF Spans
    <3>3. \A k \in 1 .. p.many[g] : InBudget(micro[i - 1][g][k], p.parts[g][i])' BY <2>1, <3>2 DEF InBudget
    <3> QED BY <3>1, <3>3 DEF Spans
  <2> QED BY <1>9, <2>1, <2>2, Zenon DEF MicroFollows
<1>15. AnswersFollow(p)'
  <2>1. ASSUME ~Op.trains PROVE perm' = FlattenSeq(p.parts[1]) /\ perm' # Nothing
    <3>1. ChunksFed = 1 /\ 1 \in 1 .. ChunksFed BY <1>1, <2>1
    <3>2. ASSUME NEW i \in 1 .. DP PROVE rows[i - 1] = p.parts[1][i]
      <4>1. PICK U, ss : U = 1 .. RowsFed /\ ss = PartsOfRank(i) OBVIOUS
      <4>2. ss \in Parts(U) /\ Len(ss) = 1 BY <1>18, <3>1, <4>1
      <4>3. ss[1] = p.parts[1][i] /\ rows[i - 1] = FlattenSeq(ss) BY <1>18, <3>1, <4>1
      <4> QED BY <4>2, <4>3, OnlyPart
    <3>3. [d \in 1 .. DP |-> rows[d - 1]] = p.parts[1]
      <4>1. p.parts[1] = SharesOf(1) BY <1>5, <3>1
      <4>2. p.parts[1] = [i \in 1 .. DP |-> p.parts[1][i]] BY <4>1 DEF SharesOf
      <4> QED BY <3>2, <4>2
    <3>4. perm' = FlattenSeq(p.parts[1]) BY <1>3, <3>3
    <3>5. FlattenSeq(p.parts[1]) \in Seq(RowsOfChunk(1)) BY <1>7, <3>1, JoinedOnce
    <3>6. RowsOfChunk(1) \subseteq Nat BY <1>1 DEF RowsOfChunk
    <3>7. FlattenSeq(p.parts[1]) \in Seq(Nat) BY <3>5, <3>6, ListWithin
    <3> QED BY <3>4, <3>7, PolicyConstants
  <2> QED BY <1>3, <1>9, <2>1 DEF AnswersFollow
<1>16. Planned(p)' BY <1>11, <1>13, <1>14, <1>15 DEF Planned
<1>17. AllStand(p)' BY <1>3, <1>16, StartsInStep
<1> QED BY <1>3, <1>16, <1>17 DEF Submit

-----------------------------------------------------------------------------
(* A call of the policy from its batch to its answer                       *)

PackedSoFar == (\E V : packed \in Seq(V)) /\ \A c \in 1 .. Len(packed) : PackedRight(packed[c], c)
Unsharded == micro = Nothing /\ perm = Nothing
Prepared == GoodCall /\ GoodFeed /\ (call.op = "get_full_logits_ipc" => call.batching = "plain")
BeingPacked ==
  /\ Batching = "packed" /\ Len(packed) < ChunksFed /\ PackedSoFar /\ Unsharded
  /\ stage # "idle" => multiple = DP /\ lens = LengthsOf(Len(packed) + 1)
ToBeSharded ==
  stage = "idle" /\ Unsharded /\ (Batching = "packed" => PackedSoFar /\ Len(packed) = ChunksFed)
BeingServed == stage = "idle" /\ \E p : Planned(p) /\ AllStand(p)
FailedRightly ==
  \/ Batching = "packed" /\ \E r \in DOMAIN feed : feed[r] = 0
  \/ \E r \in DOMAIN feed : Padded(feed[r]) > IF Batching = "packed" THEN Capacity ELSE MaxTokens
  \/ Unprepared
PolicyInv ==
  /\ PackInv /\ RefusedRightly
  /\ phase \in {"idle", "packing", "sharding", "running", "answered", "failed"}
  /\ phase = "idle" => stage = "idle" /\ packed = <<>> /\ Unsharded
  /\ phase # "idle" => Prepared
  /\ phase = "packing" => BeingPacked
  /\ phase = "sharding" => ToBeSharded
  /\ phase \in {"running", "answered"} => BeingServed
  /\ ResultsInPlace
  /\ phase = "failed" => FailedRightly

(* What stays as long as the batch and the plan do.                        *)
LEMMA StandStays ==
  ASSUME GoodCall, UNCHANGED <<call, feed, rank>>, NEW p, AllStand(p)
  PROVE  AllStand(p)'
<1>1. /\ Called' = Called /\ \A v \in Called : RankOf(v)' = RankOf(v)
      /\ (Unprepared' <=> Unprepared) /\ ChunksFed' = ChunksFed
  BY CalledStay, RankOfCalled, SizesStay DEF SameSizes
<1>2. rank' = rank OBVIOUS
<1>3. \A v \in Called : Stands(p, RankOf(v) + 1, rank[v]) BY DEF AllStand
<1>4. ASSUME NEW i, NEW r, Stands(p, i, r) PROVE Stands(p, i, r)' BY <1>1, <1>4 DEF Stands
<1>5. ASSUME NEW v \in Called PROVE Stands(p, RankOf(v) + 1, rank[v])'
  <2>1. PICK i, r : i = RankOf(v) + 1 /\ r = rank[v] OBVIOUS
  <2>2. Stands(p, i, r)' BY <1>3, <1>4, <2>1
  <2>3. RankOf(v)' + 1 = i /\ rank'[v] = r BY <1>1, <1>2, <2>1
  <2> QED BY <2>2, <2>3 DEF Stands
<1>6. \A u, v \in Called : InStep(p, rank[u], rank[v]) BY DEF AllStand
<1>7. \A u, v \in Called : InStep(p, rank[u], rank[v])' BY <1>1, <1>2, <1>6 DEF InStep
<1>8. DOMAIN rank' = Called /\ rank' = [v \in Called |-> rank'[v]] BY <1>2 DEF AllStand
<1> QED BY <1>1, <1>5, <1>7, <1>8 DEF AllStand

(* A chunk that was packed right stays so as long as the batch does.       *)
LEMMA PackedRightStays ==
  ASSUME UNCHANGED <<call, feed>>
  PROVE  /\ \A bs, c : PackedRight(bs, c) => PackedRight(bs, c)'
         /\ \A c : LengthsOf(c)' = LengthsOf(c)
<1>1. call' = call /\ feed' = feed OBVIOUS
<1>2. DP' = DP /\ RowsFed' = RowsFed /\ ChunkSize' = ChunkSize /\ \A g : RowsOfChunk(g)' = RowsOfChunk(g)
  BY SizesStay DEF SameSizes
<1>3. PaddedRows' = PaddedRows BY <1>1, <1>2 DEF PaddedRows, Padded
<1>4. \A rows : BinFits(rows)' <=> BinFits(rows) BY <1>3 DEF BinFits
<1>5. \A c : RowsIn(c)' = RowsIn(c) BY <1>2 DEF RowsIn
<1>6. \A c : LengthsOf(c)' = LengthsOf(c) BY <1>1, <1>2, <1>5 DEF LengthsOf, Padded
<1>7. ASSUME NEW bs, NEW c, PackedRight(bs, c) PROVE PackedRight(bs, c)' BY <1>2, <1>4, <1>7 DEF PackedRight
<1> QED BY <1>6, <1>7

(* A call that was accepted stays so, and a reason to fail stays one.      *)
LEMMA PreparedStays ==
  ASSUME UNCHANGED <<call, feed>>, Prepared
  PROVE  Prepared' /\ Batching' = Batching /\ ChunksFed' = ChunksFed /\ DP' = DP /\ (FailedRightly => FailedRightly')
<1>1. call' = call /\ feed' = feed OBVIOUS
<1>2. GoodCall' /\ GoodFeed' /\ Batching' = Batching /\ ChunksFed' = ChunksFed /\ DP' = DP
  BY SizesStay DEF SameSizes, Prepared
<1>3. Unprepared' <=> Unprepared BY CalledStay DEF Prepared
<1> QED BY <1>1, <1>2, <1>3 DEF Prepared, FailedRightly, Padded

(* An answer that is in place stays in place.                              *)
LEMMA AnswerStays ==
  ASSUME GoodCall, UNCHANGED <<call, feed, phase, answer>>, ResultsInPlace
  PROVE  ResultsInPlace'
<1>1. call' = call /\ feed' = feed /\ phase' = phase /\ answer' = answer OBVIOUS
<1>2. RowsFed' = RowsFed /\ DP' = DP BY SizesStay DEF SameSizes
<1>3. Workers' = Workers BY CalledStay
<1>4. Extent("pipeline_parallel")' = Extent("pipeline_parallel") BY <1>1 DEF Extent
<1> QED BY <1>1, <1>2, <1>3, <1>4 DEF ResultsInPlace

(* Workers that stand at the plan stay there while nobody works.           *)
LEMMA BeingServedStays ==
  ASSUME GoodCall, UNCHANGED <<call, feed, shard, micro, perm, rank, stage>>, BeingServed
  PROVE  BeingServed'
<1>1. PICK p : Planned(p) /\ AllStand(p) BY DEF BeingServed
<1>2. Planned(p)' BY <1>1, PlanStays
<1>3. AllStand(p)' BY <1>1, StandStays
<1> QED BY <1>2, <1>3 DEF BeingServed

(* And so do the chunks that have been packed.                             *)
LEMMA PackedSoFarStays ==
  ASSUME UNCHANGED <<call, feed, packed>>, PackedSoFar
  PROVE  PackedSoFar'
<1>1. packed' = packed OBVIOUS
<1>2. \A c \in 1 .. Len(packed) : PackedRight(packed[c], c) BY DEF PackedSoFar
<1>3. ASSUME NEW c \in 1 .. Len(packed) PROVE PackedRight(packed[c], c)'
  <2>1. PICK bs : bs = packed[c] OBVIOUS
  <2>2. PackedRight(bs, c)' BY <1>2, <2>1, PackedRightStays
  <2>3. packed'[c] = bs BY <1>1, <2>1
  <2> QED BY <2>2, <2>3 DEF PackedRight
<1> QED BY <1>1, <1>3 DEF PackedSoFar

(* There are chunks to pack.                                               *)
LEMMA ChunksAre == GoodCall /\ GoodFeed => ChunksFed \in Nat \ {0}
BY SizesAre

(* A batch comes in.                                                       *)
LEMMA CallComes ==
  ASSUME PolicyInv, NEW c, NEW l \in Seq(Nat), Call(c, l),
         c.op \in DOMAIN Operations, c.batching \in {"plain", "dynamic", "packed"}, c.alg \in Algorithms,
         c.gbs \in Nat \ {0}, c.mbs \in Nat \ {0}, c.axes \in [Range(Axes) -> Nat \ {0}]
  PROVE  PolicyInv'
<1>1. /\ phase = "idle" /\ call' = c /\ feed' = l /\ Accepts(c, Len(l))
      /\ phase' = IF c.batching = "packed" /\ Operations[c.op].balanced THEN "packing" ELSE "sharding"
      /\ c.op = "get_full_logits_ipc" => c.batching = "plain"
      /\ UNCHANGED <<packed, shard, micro, perm, rank, answer, packVars>>
  BY DEF Call
<1>2. /\ PackInv /\ RefusedRightly /\ stage = "idle" /\ packed = <<>> /\ micro = Nothing /\ perm = Nothing
  BY <1>1 DEF PolicyInv, Unsharded
<1>3. Prepared' BY <1>1 DEF Prepared, GoodCall, GoodFeed
<1>4. stage' = "idle" /\ packed' = <<>> /\ micro' = Nothing /\ perm' = Nothing BY <1>1, <1>2 DEF packVars
<1>5. PackInv' /\ RefusedRightly' BY <1>1, <1>2, <1>4, PackStays DEF RefusedRightly
<1>6. (GoodCall /\ GoodFeed => ChunksFed \in Nat \ {0})' BY ChunksAre, PTL
<1>7. ChunksFed' \in Nat \ {0} BY <1>3, <1>6 DEF Prepared
<1>8. Batching' = IF Operations[c.op].balanced THEN c.batching ELSE "plain" BY <1>1 DEF Batching, Op
<1>9. Unsharded' BY <1>4 DEF Unsharded
<1>10. CASE phase' = "packing"
  <2>1. Batching' = "packed" BY <1>1, <1>8, <1>10
  <2>2. PackedSoFar'
    <3>1. <<>> \in Seq(Nat) /\ Len(<<>>) = 0 OBVIOUS
    <3>2. \A i : i \notin 1 .. 0 OBVIOUS
    <3>3. \E V : packed' \in Seq(V) BY <1>4, <3>1
    <3>4. Len(packed') = 0 BY <1>4, <3>1
    <3> QED BY <3>2, <3>3, <3>4 DEF PackedSoFar
  <2>3. Len(packed') < ChunksFed'
    <3>1. Len(<<>>) = 0 OBVIOUS
    <3> QED BY <1>4, <1>7, <3>1
  <2>4. BeingPacked' BY <1>4, <1>9, <2>1, <2>2, <2>3 DEF BeingPacked
  <2> QED BY <1>3, <1>5, <1>10, <2>4 DEF PolicyInv, ResultsInPlace
<1>11. CASE phase' = "sharding"
  <2>1. Batching' # "packed" BY <1>1, <1>8, <1>11
  <2>2. ToBeSharded' BY <1>4, <1>9, <2>1 DEF ToBeSharded
  <2> QED BY <1>3, <1>5, <1>11, <2>2 DEF PolicyInv, ResultsInPlace
<1> QED BY <1>1, <1>10, <1>11

(* The packer is given a chunk.                                            *)
LEMMA ChunkGoesIn == ASSUME PolicyInv, PackChunk PROVE PolicyInv'
<1>1. PICK c : c = Len(packed) + 1 OBVIOUS
<1>2. /\ phase = "packing" /\ stage = "idle" /\ StartPack(call.alg, DP, LengthsOf(c)) /\ UNCHANGED policyVars
  BY <1>1 DEF PackChunk, LengthsOf
<1>3. /\ Prepared /\ BeingPacked /\ PackInv /\ RefusedRightly BY <1>2 DEF PolicyInv
<1>4. c \in 1 .. ChunksFed
  <2>1. PICK V : packed \in Seq(V) BY <1>3 DEF BeingPacked, PackedSoFar
  <2>2. Len(packed) \in Nat BY <2>1
  <2>3. ChunksFed \in Nat BY <1>3, ChunksAre DEF Prepared
  <2>4. Len(packed) < ChunksFed BY <1>3 DEF BeingPacked
  <2> QED BY <1>1, <2>2, <2>3, <2>4
<1>5. LengthsOf(c) \in Seq(Nat)
  <2>1. ChunkSize \in Nat /\ DOMAIN feed = 1 .. RowsFed BY <1>3, SizesAre DEF Prepared
  <2>2. ASSUME NEW i \in 1 .. ChunkSize PROVE Padded(feed[RowsIn(c)[i]]) \in Nat
    <3>1. RowsIn(c)[i] \in RowsOfChunk(c) BY <1>3, <1>4, RowsInChunk DEF Prepared
    <3>2. RowsIn(c)[i] \in DOMAIN feed BY <2>1, <3>1 DEF RowsOfChunk
    <3>3. feed[RowsIn(c)[i]] \in Nat BY <1>3, <3>2 DEF Prepared, GoodFeed
    <3> QED BY <3>3, PaddedUp
  <2>3. LengthsOf(c) \in [1 .. ChunkSize -> Nat] BY <2>2 DEF LengthsOf
  <2> QED BY <2>1, <2>3
<1>6. call.alg \in Algorithms /\ DP \in Nat \ {0} BY <1>3, SizesAre DEF Prepared, GoodCall
<1>7. \E a \in Algorithms, m \in Nat \ {0}, l \in Seq(Nat) : StartPack(a, m, l) BY <1>2, <1>5, <1>6
<1>8. PackInv' /\ RefusedRightly' BY <1>3, <1>7, StartKeeps, RefusesRightly
<1>9. multiple' = DP /\ lens' = LengthsOf(c) BY <1>2 DEF StartPack
<1>10. UNCHANGED <<call, feed, phase, packed, micro, perm, answer>> BY <1>2 DEF policyVars
<1>11. Prepared' /\ Batching' = Batching /\ ChunksFed' = ChunksFed /\ DP' = DP BY <1>3, <1>10, PreparedStays
<1>12. PackedSoFar' BY <1>3, <1>10, PackedSoFarStays DEF BeingPacked
<1>13. LengthsOf(c)' = LengthsOf(c) BY <1>10, PackedRightStays
<1>14. BeingPacked'
  <2>1. Unsharded' BY <1>3, <1>10 DEF BeingPacked, Unsharded
  <2>2. multiple' = DP' /\ lens' = LengthsOf(Len(packed) + 1)'
    <3>1. lens' = LengthsOf(c)' BY <1>9, <1>13
    <3>2. Len(packed') + 1 = c BY <1>1, <1>10
    <3> QED BY <1>9, <1>11, <3>1, <3>2, Zenon DEF LengthsOf
  <2>3. Len(packed') < ChunksFed' /\ Batching' = "packed" BY <1>3, <1>10, <1>11 DEF BeingPacked
  <2> QED BY <1>12, <2>1, <2>2, <2>3 DEF BeingPacked
<1>15. phase' = "packing" BY <1>2, <1>10
<1> QED BY <1>8, <1>11, <1>14, <1>15 DEF PolicyInv, ResultsInPlace

(* The packer packs, as long as there is something to pack.                *)
LEMMA PackerGoesOn == ASSUME PolicyInv, PackStep, UNCHANGED policyVars PROVE PolicyInv'
<1>1. PackInv /\ RefusedRightly BY DEF PolicyInv
<1>2. PackInv' /\ UNCHANGED Given /\ stage # "idle" BY <1>1, PackStepKeeps
<1>3. RefusedRightly' BY <1>1, RefusesRightly
<1>4. UNCHANGED <<call, feed, phase, packed, micro, perm, answer>> BY DEF policyVars
<1>5. phase \in {"packing", "failed"} BY <1>2 DEF PolicyInv, ToBeSharded, BeingServed
<1>6. Prepared BY <1>5 DEF PolicyInv
<1>7. /\ Prepared' /\ Batching' = Batching /\ ChunksFed' = ChunksFed /\ DP' = DP
      /\ (FailedRightly => FailedRightly')
  BY <1>4, <1>6, PreparedStays
<1>8. CASE phase = "packing"
  <2>1. BeingPacked BY <1>8 DEF PolicyInv
  <2>2. PackedSoFar' BY <1>4, <2>1, PackedSoFarStays DEF BeingPacked
  <2>3. PICK c : c = Len(packed) + 1 OBVIOUS
  <2>4. multiple = DP /\ lens = LengthsOf(c) BY <1>2, <2>1, <2>3 DEF BeingPacked
  <2>5. multiple' = multiple /\ lens' = lens BY <1>2 DEF Given
  <2>6. LengthsOf(c)' = LengthsOf(c) BY <1>4, PackedRightStays
  <2>7. multiple' = DP' /\ lens' = LengthsOf(Len(packed) + 1)'
    <3>1. Len(packed') + 1 = c BY <1>4, <2>3
    <3>2. lens' = LengthsOf(c)' BY <2>4, <2>5, <2>6
    <3> QED BY <1>7, <2>4, <2>5, <3>1, <3>2, Zenon DEF LengthsOf
  <2>8. Unsharded' BY <1>4, <2>1 DEF BeingPacked, Unsharded
  <2>9. BeingPacked' BY <1>4, <1>7, <2>1, <2>2, <2>7, <2>8 DEF BeingPacked
  <2> QED BY <1>2, <1>3, <1>4, <1>7, <1>8, <2>9 DEF PolicyInv, ResultsInPlace
<1>9. CASE phase = "failed"
  <2>1. FailedRightly' BY <1>7, <1>9 DEF PolicyInv
  <2> QED BY <1>2, <1>3, <1>4, <1>7, <1>9, <2>1 DEF PolicyInv, ResultsInPlace
<1> QED BY <1>5, <1>8, <1>9

(* The bins of a chunk come out.                                           *)
LEMMA ChunkComesOut == ASSUME PolicyInv, ChunkPacked PROVE PolicyInv'
<1>1. PICK c, bs : c = Len(packed) + 1 /\ bs = NamedAfter(c) OBVIOUS
<1>2. /\ phase = "packing" /\ stage = "packed" /\ packed' = Append(packed, bs) /\ ClearPacker
      /\ phase' = IF Len(packed') = Cardinality(Chunks) THEN "sharding" ELSE "packing"
      /\ UNCHANGED <<call, feed, shard, micro, perm, rank, answer>>
  BY <1>1 DEF ChunkPacked, NamedAfter
<1>3. Prepared /\ BeingPacked /\ PackInv /\ RefusedRightly BY <1>2 DEF PolicyInv
<1>4. PICK V : packed \in Seq(V) BY <1>3 DEF BeingPacked, PackedSoFar
<1>5. PICK n : n = Len(packed) BY Zenon
<1>6. ChunksFed \in Nat /\ n \in Nat /\ n < ChunksFed /\ c = n + 1 /\ c \in 1 .. ChunksFed
  <2>1. ChunksFed \in Nat BY <1>3, ChunksAre DEF Prepared
  <2>2. n \in Nat BY <1>4, <1>5
  <2>3. n < ChunksFed BY <1>3, <1>5 DEF BeingPacked
  <2> QED BY <1>1, <1>5, <2>1, <2>2, <2>3
<1>7. PackedRight(bs, c)
  <2>1. multiple = DP /\ lens = LengthsOf(c) BY <1>1, <1>2, <1>3 DEF BeingPacked
  <2> QED BY <1>1, <1>2, <1>3, <1>6, <2>1, ChunkIsPacked DEF Prepared
<1>8. /\ \E U : packed' \in Seq(U)
      /\ Len(packed') = c /\ packed'[c] = bs /\ \A k \in 1 .. n : packed'[k] = packed[k]
  <2>1. PICK U : U = V \cup {bs} BY Zenon
  <2>2. packed \in Seq(U) /\ bs \in U BY <1>4, <2>1, ListWithin
  <2>3. Append(packed, bs) \in Seq(U) BY <2>2
  <2>4. /\ Len(Append(packed, bs)) = n + 1 /\ Append(packed, bs)[n + 1] = bs
        /\ \A k \in 1 .. n : Append(packed, bs)[k] = packed[k]
    BY <1>4, <1>5
  <2> QED BY <1>2, <1>6, <2>3, <2>4
<1>9. PackInv' /\ RefusedRightly' BY <1>2, <1>3, StartKeeps, RefusesRightly
<1>10. stage' = "idle" BY <1>2 DEF ClearPacker
<1>11. Prepared' /\ Batching' = Batching /\ ChunksFed' = ChunksFed BY <1>2, <1>3, PreparedStays
<1>12. PackedSoFar'
  <2>1. \A k \in 1 .. n : PackedRight(packed[k], k) BY <1>3, <1>5 DEF BeingPacked, PackedSoFar
  <2>2. ASSUME NEW k \in 1 .. c PROVE PackedRight(packed[k], k)'
    <3>1. PICK b : b = packed'[k] OBVIOUS
    <3>2. PackedRight(b, k)
      <4>1. CASE k = c BY <1>7, <1>8, <3>1, <4>1
      <4>2. CASE k # c
        <5>1. k \in 1 .. n BY <1>6, <4>2
        <5> QED BY <1>8, <2>1, <3>1, <5>1
      <4> QED BY <4>1, <4>2
    <3>3. PackedRight(b, k)' BY <1>2, <3>2, PackedRightStays
    <3> QED BY <3>1, <3>3 DEF PackedRight
  <2> QED BY <1>8, <2>2 DEF PackedSoFar
<1>13. Unsharded' BY <1>2, <1>3 DEF BeingPacked, Unsharded
<1>14. Cardinality(Chunks) = ChunksFed
  <2>1. Chunks = 1 .. ChunksFed BY <1>3, SizesAre DEF Prepared
  <2> PICK m : m = ChunksFed OBVIOUS
  <2>2. m \in Int /\ 1 \in Int BY <1>6
  <2>3. Cardinality(1 .. m) = IF 1 > m THEN 0 ELSE m - 1 + 1 BY <2>2, FS_Interval
  <2> QED BY <1>6, <2>1, <2>3
<1>15. Batching' = "packed" BY <1>3, <1>11 DEF BeingPacked
<1>16. CASE c = ChunksFed
  <2>1. phase' = "sharding" BY <1>2, <1>8, <1>14, <1>16
  <2>2. ToBeSharded' BY <1>8, <1>10, <1>11, <1>12, <1>13, <1>16 DEF ToBeSharded
  <2> QED BY <1>9, <1>11, <2>1, <2>2 DEF PolicyInv, ResultsInPlace
<1>17. CASE c # ChunksFed
  <2>1. phase' = "packing" BY <1>2, <1>8, <1>14, <1>17
  <2>2. Len(packed') < ChunksFed' BY <1>6, <1>8, <1>11, <1>17
  <2>3. BeingPacked' BY <1>10, <1>12, <1>13, <1>15, <2>2 DEF BeingPacked
  <2> QED BY <1>9, <1>11, <2>1, <2>3 DEF PolicyInv, ResultsInPlace
<1> QED BY <1>16, <1>17

(* The packer refuses a chunk, for a row that is too long or empty.        *)
LEMMA ChunkRefused == ASSUME PolicyInv, PackerRefuses PROVE PolicyInv'
<1>1. /\ phase = "packing" /\ stage = "refused" /\ phase' = "failed"
      /\ UNCHANGED <<call, feed, packed, shard, micro, perm, rank, answer, packVars>>
  BY DEF PackerRefuses
<1>2. Prepared /\ BeingPacked /\ PackInv /\ RefusedRightly BY <1>1 DEF PolicyInv
<1>3. PICK c : c = Len(packed) + 1 OBVIOUS
<1>4. c \in 1 .. ChunksFed
  <2>1. PICK V : packed \in Seq(V) BY <1>2 DEF BeingPacked, PackedSoFar
  <2>2. Len(packed) \in Nat BY <2>1
  <2>3. ChunksFed \in Nat BY <1>2, ChunksAre DEF Prepared
  <2>4. Len(packed) < ChunksFed BY <1>2 DEF BeingPacked
  <2> QED BY <1>3, <2>2, <2>3, <2>4
<1>5. multiple = DP /\ lens = LengthsOf(c) BY <1>1, <1>2, <1>3 DEF BeingPacked
<1>6. /\ DP \in Nat \ {0} /\ PerShard \in Nat \ {0} /\ ChunkSize \in Nat \ {0} /\ ChunkSize = DP * PerShard
      /\ DOMAIN feed = 1 .. RowsFed
  BY <1>2, SizesAre DEF Prepared
<1>7. DOMAIN lens = 1 .. ChunkSize /\ \A i \in 1 .. ChunkSize : lens[i] = Padded(feed[RowsIn(c)[i]])
  BY <1>5 DEF LengthsOf
<1>8. Len(lens) = ChunkSize
  <2>1. lens \in Seq(Nat) BY <1>2 DEF PackInv
  <2>2. DOMAIN lens = 1 .. Len(lens) /\ Len(lens) \in Nat BY <2>1
  <2> QED BY <1>6, <1>7, <2>2
<1>9. multiple <= Len(lens) /\ Len(lens) % multiple = 0
  <2> PICK n, q, m : n = DP /\ q = PerShard /\ m = ChunkSize OBVIOUS
  <2>1. n \in Nat \ {0} /\ q \in Nat \ {0} /\ m \in Nat /\ m = n * q BY <1>6
  <2>2. (q * n + 0) % n = 0
    <3>1. 0 \in 0 .. n - 1 BY <2>1
    <3> QED BY <2>1, <3>1, QuotientIs
  <2>3. n * q = q * n /\ q * n \in Nat BY <2>1
  <2>4. m % n = 0
    <3>1. q * n + 0 = m BY <2>1, <2>3
    <3> QED BY <2>2, <3>1
  <2>5. n <= m
    <3>1. q - 1 \in Nat /\ q * n = (q - 1) * n + n /\ (q - 1) * n \in Nat BY <2>1
    <3> QED BY <2>1, <2>3, <3>1
  <2> QED BY <1>5, <1>8, <2>4, <2>5
<1>10. PICK i \in 1 .. ChunkSize : lens[i] > Capacity \/ lens[i] = 0 BY <1>1, <1>2, <1>7, <1>9 DEF RefusedRightly
<1>11. FailedRightly
  <2>1. RowsIn(c)[i] \in RowsOfChunk(c) BY <1>2, <1>4, RowsInChunk DEF Prepared
  <2>2. RowsIn(c)[i] \in DOMAIN feed BY <1>6, <2>1 DEF RowsOfChunk
  <2>3. Padded(feed[RowsIn(c)[i]]) > Capacity \/ feed[RowsIn(c)[i]] = 0
    <3>1. feed[RowsIn(c)[i]] \in Nat BY <1>2, <2>2 DEF Prepared, GoodFeed
    <3> QED BY <1>7, <1>10, <3>1, PaddedUp
  <2>4. Batching = "packed" BY <1>2 DEF BeingPacked
  <2> QED BY <2>2, <2>3, <2>4 DEF FailedRightly
<1>12. Prepared' /\ FailedRightly' BY <1>1, <1>2, <1>11, PreparedStays
<1>13. PackInv' /\ RefusedRightly' BY <1>1, <1>2, PackStays DEF RefusedRightly, packVars
<1> QED BY <1>1, <1>12, <1>13 DEF PolicyInv, ResultsInPlace

(* The batch is sharded.                                                   *)
LEMMA BatchShards ==
  ASSUME PolicyInv, ShardPlain \/ ShardDynamic \/ ShardPacked PROVE PolicyInv'
<1>1. phase = "sharding" /\ UNCHANGED <<call, feed, packVars>> BY DEF ShardPlain, ShardDynamic, ShardPacked
<1>2. Prepared /\ ToBeSharded /\ PackInv /\ RefusedRightly BY <1>1 DEF PolicyInv
<1>3. /\ Prepared' /\ Batching' = Batching /\ (FailedRightly => FailedRightly') BY <1>1, <1>2, PreparedStays
<1>4. PackInv' /\ RefusedRightly' /\ stage' = "idle"
  BY <1>1, <1>2, PackStays DEF RefusedRightly, packVars, ToBeSharded
<1>5. \/ phase' = "failed" /\ FailedRightly
      \/ phase' = "running" /\ \E p : Planned(p)' /\ AllStand(p)'
  <2>1. CASE ShardPlain
    <3>1. \E p : Planned(p)' /\ AllStand(p)' BY <1>2, <2>1, PlainSharded DEF Prepared, ToBeSharded, Unsharded
    <3>2. phase' = "running" BY <2>1 DEF ShardPlain, Submit
    <3> QED BY <3>1, <3>2
  <2>2. CASE ShardDynamic
    <3>1. \/ phase' = "failed" /\ Batching = "dynamic" /\ \E r \in DOMAIN feed : Padded(feed[r]) > MaxTokens
          \/ phase' = "running" /\ \E p : Planned(p)' /\ AllStand(p)'
      BY <1>2, <2>2, DynamicSharded DEF Prepared
    <3> QED BY <3>1 DEF FailedRightly
  <2>3. CASE ShardPacked
    <3>1. Batching = "packed" BY <2>3 DEF ShardPacked
    <3>2. \A c \in 1 .. ChunksFed : PackedRight(packed[c], c) BY <1>2, <3>1 DEF ToBeSharded, PackedSoFar
    <3> QED BY <1>2, <2>3, <3>2, PackedSharded DEF Prepared
  <2> QED BY <2>1, <2>2, <2>3
<1>6. CASE phase' = "failed" /\ FailedRightly BY <1>3, <1>4, <1>6 DEF PolicyInv, ResultsInPlace
<1>7. CASE phase' = "running" /\ \E p : Planned(p)' /\ AllStand(p)'
  <2>1. BeingServed' BY <1>4, <1>7 DEF BeingServed
  <2> QED BY <1>3, <1>4, <1>7, <2>1 DEF PolicyInv, ResultsInPlace
<1> QED BY <1>5, <1>6, <1>7

(* A worker works.                                                         *)
LEMMA WorkerWorks ==
  ASSUME PolicyInv, phase = "running", NEW w \in Called, WorkerStep(w) PROVE PolicyInv'
<1>1. Prepared /\ BeingServed /\ PackInv /\ RefusedRightly BY DEF PolicyInv
<1>2. PICK p : Planned(p) /\ AllStand(p) BY <1>1 DEF BeingServed
<1>3. Planned(p)' /\ AllStand(p)' /\ UNCHANGED <<call, feed, phase, packed, answer, packVars>>
  BY <1>1, <1>2, WorkersStand DEF Prepared
<1>4. PackInv' /\ RefusedRightly' /\ stage' = "idle"
  BY <1>1, <1>3, PackStays DEF RefusedRightly, packVars, BeingServed
<1>5. Prepared' BY <1>1, <1>3, PreparedStays
<1>6. BeingServed' BY <1>3, <1>4 DEF BeingServed
<1> QED BY <1>3, <1>4, <1>5, <1>6 DEF PolicyInv, ResultsInPlace

(* A worker finds no microbatches.                                         *)
LEMMA WorkerFails == ASSUME PolicyInv, NoMicroBatches PROVE PolicyInv'
<1>1. phase = "running" /\ Unprepared /\ phase' = "failed" /\ UNCHANGED <<call, feed, packVars>> BY DEF NoMicroBatches
<1>2. Prepared /\ PackInv /\ RefusedRightly BY <1>1 DEF PolicyInv
<1>3. Prepared' /\ FailedRightly' BY <1>1, <1>2, PreparedStays DEF FailedRightly
<1>4. PackInv' /\ RefusedRightly' BY <1>1, <1>2, PackStays DEF RefusedRightly, packVars
<1> QED BY <1>1, <1>3, <1>4 DEF PolicyInv, ResultsInPlace

(* The driver puts the answer together.                                    *)
LEMMA AnswerComes == ASSUME PolicyInv, Gather PROVE PolicyInv'
<1>1. phase = "running" /\ phase' = "answered" /\ UNCHANGED <<call, feed, packed, shard, micro, perm, rank, packVars>>
  BY DEF Gather
<1>2. Prepared /\ BeingServed /\ PackInv /\ RefusedRightly BY <1>1 DEF PolicyInv
<1>3. PICK p : Planned(p) /\ AllStand(p) BY <1>2 DEF BeingServed
<1>4. ResultsInPlace' BY <1>2, <1>3, AnswersRight DEF Prepared
<1>5. Prepared' BY <1>1, <1>2, PreparedStays
<1>6. PackInv' /\ RefusedRightly' BY <1>1, <1>2, PackStays DEF RefusedRightly, packVars
<1>7. UNCHANGED stage BY <1>1 DEF packVars
<1>8. BeingServed' BY <1>1, <1>2, <1>7, BeingServedStays DEF Prepared
<1> QED BY <1>1, <1>4, <1>5, <1>6, <1>8 DEF PolicyInv

(* Nothing is done to the batch.                                           *)
LEMMA CallStays == ASSUME PolicyInv, UNCHANGED callVars PROVE PolicyInv'
<1>1. UNCHANGED <<call, feed, phase, packed, shard, micro, perm, rank, answer, packVars, stage, multiple, lens>>
  BY DEF callVars, policyVars, packVars
<1>2. PackInv' /\ RefusedRightly' BY <1>1, PackStays DEF RefusedRightly, packVars, PolicyInv
<1>3. CASE phase = "idle"
  BY <1>1, <1>2, <1>3 DEF PolicyInv, ResultsInPlace, Unsharded
<1>4. CASE phase # "idle"
  <2>1. Prepared BY <1>4 DEF PolicyInv
  <2>2. /\ Prepared' /\ Batching' = Batching /\ ChunksFed' = ChunksFed /\ DP' = DP
        /\ (FailedRightly => FailedRightly')
    BY <1>1, <2>1, PreparedStays
  <2>3. ResultsInPlace' BY <1>1, <2>1, AnswerStays DEF PolicyInv, Prepared
  <2>4. BeingServed => BeingServed' BY <1>1, <2>1, BeingServedStays DEF Prepared
  <2>5. PackedSoFar => PackedSoFar' BY <1>1, PackedSoFarStays
  <2>6. Unsharded => Unsharded' BY <1>1 DEF Unsharded
  <2>7. BeingPacked => BeingPacked'
    <3> SUFFICES ASSUME BeingPacked PROVE BeingPacked' OBVIOUS
    <3>1. PICK c : c = Len(packed) + 1 OBVIOUS
    <3>2. LengthsOf(c)' = LengthsOf(c) BY <1>1, PackedRightStays
    <3>3. Len(packed') + 1 = c BY <1>1, <3>1
    <3>4. stage # "idle" => lens = LengthsOf(c) BY <3>1 DEF BeingPacked
    <3>5. stage' # "idle" => lens' = LengthsOf(Len(packed) + 1)'
      <4>1. stage' # "idle" => lens' = LengthsOf(c)' BY <1>1, <3>2, <3>4
      <4> QED BY <3>3, <4>1 DEF LengthsOf
    <3> QED BY <1>1, <2>2, <2>5, <2>6, <3>5 DEF BeingPacked
  <2>8. ToBeSharded => ToBeSharded' BY <1>1, <2>2, <2>5, <2>6 DEF ToBeSharded
  <2> QED BY <1>1, <1>2, <1>4, <2>2, <2>3, <2>4, <2>7, <2>8 DEF PolicyInv
<1> QED BY <1>3, <1>4

(* A step of a call, whatever it is.                                       *)
LEMMA CallGoesOn == ASSUME PolicyInv, PolicyStep PROVE PolicyInv'
BY BatchShards, ChunkGoesIn, PackerGoesOn, ChunkComesOut, ChunkRefused, WorkerFails, WorkerWorks, AnswerComes DEF PolicyStep

(* What the invariant is for.                                              *)
LEMMA CallsAnswered == PolicyInv => RowsServed /\ RanksInStep
<1> SUFFICES ASSUME PolicyInv PROVE RowsServed /\ RanksInStep OBVIOUS
<1>1. ResultsInPlace BY DEF PolicyInv
<1>2. CASE phase \notin {"running", "answered"}
  <2>1. phase = "failed" => FailedRightly BY DEF PolicyInv
  <2> QED BY <1>1, <1>2, <2>1 DEF RowsServed, BatchesTrained, RanksInStep, FailedRightly
<1>3. CASE phase \in {"running", "answered"}
  <2>1. Prepared /\ BeingServed BY <1>3 DEF PolicyInv
  <2>2. PICK p : Planned(p) /\ AllStand(p) BY <2>1 DEF BeingServed
  <2>3. BatchesTrained BY <2>1, <2>2, TrainedWhole DEF Prepared
  <2>4. \A v, w \in Called : rank[v].step = rank[w].step => rank[v].gb = rank[w].gb /\ rank[v].mb = rank[w].mb
    BY <2>2 DEF AllStand, InStep
  <2>5. ASSUME micro # Nothing, NEW d \in Ranks, NEW g \in Chunks, NEW k \in DOMAIN micro[d][g]
        PROVE  LET m == micro[d][g][k]
                   rows == MicroBatches(d, g)[k]
               IN  IF Batching = "packed" THEN m.len <= Capacity
                   ELSE /\ m.len * Len(rows) <= MaxTokens
                        /\ \A r \in Range(rows) : feed[r] <= m.len
    BY <2>1, <2>2, <2>5, BudgetsKept DEF Prepared
  <2>6. phase # "failed" BY <1>3
  <2> QED BY <1>1, <2>3, <2>4, <2>5, <2>6 DEF RowsServed, RanksInStep
<1> QED BY <1>2, <1>3

-----------------------------------------------------------------------------
(* Offsets and sizes.                                                      *)

(* A sum of the first n numbers is the sum of one less and the last.       *)
LEMMA SumSteps ==
  ASSUME NEW n \in Nat, NEW a, \A k \in 1 .. n : a[k] \in Nat
  PROVE  /\ SumTo(a, 0) = 0
         /\ \A k \in 0 .. n : SumTo(a, k) \in Nat
         /\ \A k \in 1 .. n : SumTo(a, k) = SumTo(a, k - 1) + a[k]
<1> DEFINE op == [x \in (1 .. n) \X Nat |-> x[2] + a[x[1]]]
<1>1. op \in Steps(n, Nat) /\ \A k \in 1 .. n, v \in Nat : op[<<k, v>>] = v + a[k] BY DEF Steps
<1> HIDE DEF op
<1>2. PICK f : Follows(f, n, Nat, 0, op) BY <1>1, RecursionExists, Zenon
<1>3. f \in [0 .. n -> Nat] /\ f[0] = 0 /\ \A k \in 1 .. n : f[k] = f[k - 1] + a[k]
  <2>1. f \in [0 .. n -> Nat] /\ f[0] = 0 /\ \A k \in 1 .. n : f[k] = op[<<k, f[k - 1]>>] BY <1>2, Zenon DEF Follows
  <2>2. \A k \in 1 .. n : f[k - 1] \in Nat BY <2>1
  <2> QED BY <1>1, <2>1, <2>2, Zenon
<1>4. ASSUME NEW m \in 0 .. n PROVE SumTo(a, m) = f[m]
  <2> DEFINE G(g) == g = [i \in 0 .. m |-> IF i = 0 THEN 0 ELSE g[i - 1] + a[i]]
             r == [i \in 0 .. m |-> f[i]]
             h == CHOOSE g : G(g)
  <2>1. \A i \in 0 .. m : r[i] = IF i = 0 THEN 0 ELSE r[i - 1] + a[i]
    <3>1. \A i \in 0 .. m : r[i] = f[i] OBVIOUS
    <3>2. \A i \in 0 .. m : i # 0 => i \in 1 .. n /\ i - 1 \in 0 .. m OBVIOUS
    <3> HIDE DEF r
    <3> QED BY <1>3, <3>1, <3>2
  <2>2. G(r)
    <3>1. r = [i \in 0 .. m |-> r[i]] OBVIOUS
    <3> HIDE DEF r
    <3> QED BY <2>1, <3>1, Zenon
  <2> HIDE DEF G
  <2>3. G(h) BY <2>2
  <2>4. SumTo(a, m) = h[m] BY DEF SumTo, G
  <2> HIDE DEF h
  <2>5. h[0] = 0 /\ \A k \in 1 .. m : h[k] = h[k - 1] + a[k]
    <3>1. h = [i \in 0 .. m |-> IF i = 0 THEN 0 ELSE h[i - 1] + a[i]] BY <2>3 DEF G
    <3>2. \A i \in 0 .. m : h[i] = IF i = 0 THEN 0 ELSE h[i - 1] + a[i] BY <3>1
    <3> QED BY <3>2
  <2>6. Follows(r, m, Nat, 0, op)
    <3>1. r \in [0 .. m -> Nat] /\ r[0] = 0 BY <1>3
    <3>2. \A k \in 1 .. m : r[k] = op[<<k, r[k - 1]>>]
      <4>1. \A k \in 1 .. m : k \in 1 .. n /\ r[k] = f[k] /\ r[k - 1] = f[k - 1] OBVIOUS
      <4>2. \A k \in 1 .. n : f[k] = op[<<k, f[k - 1]>>] BY <1>2 DEF Follows
      <4> HIDE DEF r
      <4> QED BY <4>1, <4>2
    <3> QED BY <3>1, <3>2, Zenon DEF Follows
  <2>7. r[m] = f[m] OBVIOUS
  <2>8. \A k \in 1 .. m : h[k - 1] \in Nat => h[k] = op[<<k, h[k - 1]>>] BY <1>1, <2>5
  <2> HIDE DEF r
  <2>9. m \in Nat /\ m \in 0 .. m OBVIOUS
  <2>10. h[0] = 0 BY <2>5
  <2>11. \A k \in 0 .. m : h[k] = r[k] BY <2>6, <2>8, <2>9, <2>10, SameLoop
  <2> QED BY <2>4, <2>7, <2>9, <2>11
<1>5. \A k \in 1 .. n : k \in 0 .. n /\ k - 1 \in 0 .. n OBVIOUS
<1> QED BY <1>3, <1>4, <1>5

(* Only the first n numbers count.                                         *)
LEMMA SameSums ==
  ASSUME NEW n \in Nat, NEW a, NEW b, \A k \in 1 .. n : a[k] \in Nat /\ b[k] = a[k]
  PROVE  SumTo(b, n) = SumTo(a, n)
<1>1. /\ SumTo(a, 0) = 0 /\ SumTo(b, 0) = 0
      /\ \A k \in 1 .. n : SumTo(a, k) = SumTo(a, k - 1) + a[k]
      /\ \A k \in 1 .. n : SumTo(b, k) = SumTo(b, k - 1) + b[k]
  BY SumSteps
<1> DEFINE S == {k \in Nat : k <= n => SumTo(b, k) = SumTo(a, k)}
<1>2. 0 \in S BY <1>1
<1>3. \A k \in Nat : k \in S => k + 1 \in S
  <2> SUFFICES ASSUME NEW k \in Nat, k \in S, k + 1 <= n PROVE SumTo(b, k + 1) = SumTo(a, k + 1) OBVIOUS
  <2>1. k + 1 \in 1 .. n /\ k + 1 - 1 = k /\ SumTo(b, k) = SumTo(a, k) OBVIOUS
  <2> QED BY <1>1, <2>1
<1> HIDE DEF S
<1>4. n \in S BY <1>2, <1>3, Induct
<1> QED BY <1>4 DEF S

(* Sums of positive numbers grow.                                          *)
LEMMA SumsGrow ==
  ASSUME NEW n \in Nat, NEW a, \A k \in 1 .. n : a[k] \in Nat \ {0}, NEW j \in 0 .. n
  PROVE  \A k \in 0 .. n : j < k => SumTo(a, j) < SumTo(a, k)
<1>1. /\ \A k \in 0 .. n : SumTo(a, k) \in Nat
      /\ \A k \in 1 .. n : SumTo(a, k) = SumTo(a, k - 1) + a[k]
  BY SumSteps
<1> DEFINE S == {k \in Nat : k <= n /\ j < k => SumTo(a, j) < SumTo(a, k)}
<1>2. 0 \in S OBVIOUS
<1>3. \A k \in Nat : k \in S => k + 1 \in S
  <2> SUFFICES ASSUME NEW k \in Nat, k \in S, k + 1 <= n, j < k + 1 PROVE SumTo(a, j) < SumTo(a, k + 1) OBVIOUS
  <2>1. k + 1 \in 1 .. n /\ k + 1 - 1 = k /\ k \in 0 .. n OBVIOUS
  <2>2. SumTo(a, k + 1) = SumTo(a, k) + a[k + 1] /\ a[k + 1] \in Nat \ {0} /\ SumTo(a, k) \in Nat BY <1>1, <2>1
  <2>3. SumTo(a, j) <= SumTo(a, k)
    <3>1. CASE j = k BY <1>1, <3>1
    <3>2. CASE j < k
      <4>1. SumTo(a, j) < SumTo(a, k) BY <2>1, <3>2
      <4> QED BY <1>1, <2>1, <4>1
    <3> QED BY <3>1, <3>2
  <2>4. SumTo(a, j) \in Nat BY <1>1
  <2> QED BY <2>2, <2>3, <2>4
<1> HIDE DEF S
<1>4. Nat \subseteq S BY <1>2, <1>3, Induct
<1> QED BY <1>4 DEF S

(* A transfer that the configuration allows.                               *)
GoodTransfer ==
  /\ xfer.path \in {"ipc", "http", "collective"} /\ xfer.room \in Nat /\ xfer.sizes \in Seq(Nat \ {0})
  /\ xfer.tp \in 1 .. Gpus /\ Gpus % xfer.tp = 0

(* What the assumptions on the constants say of the transfer under way.    *)
LEMMA TransfersAreGood ==
  ASSUME xfer \in Transfers
  PROVE  GoodTransfer
BY TransferConstants DEF GoodTransfer

(* Alignment rounds up.                                                    *)
LEMMA AlignedCovers ==
  ASSUME NEW n \in Nat \ {0}
  PROVE  Aligned(n) \in Nat /\ n <= Aligned(n)
<1> DEFINE A == AlignTo
           q == (n + A - 1) \div A
           r == (n + A - 1) % A
<1>1. A \in Nat \ {0} BY TransferConstants
<1> HIDE DEF A
<1>2. q \in Nat /\ r \in 0 .. A - 1 /\ n + A - 1 = A * q + r BY <1>1
<1>3. Aligned(n) = q * A BY DEF Aligned, A
<1> HIDE DEF q, r
<1>4. q * A = A * q /\ q * A \in Nat BY <1>1, <1>2
<1>5. A * q = n + A - 1 - r /\ r <= A - 1 BY <1>1, <1>2, <1>4
<1> QED BY <1>1, <1>2, <1>3, <1>4, <1>5

(* In a group of tensors each begins where the one before it ends, or      *)
(* later.                                                                  *)
LEMMA OffsetSteps ==
  ASSUME GoodTransfer, NEW names \in Seq(1 .. Count)
  PROVE  /\ Offset(names, 1) = 0
         /\ \A k \in 1 .. Len(names) + 1 : Offset(names, k) \in Nat
         /\ \A k \in 1 .. Len(names) : Offset(names, k + 1) = Offset(names, k) + Aligned(xfer.sizes[names[k]])
         /\ \A k \in 1 .. Len(names), m \in 1 .. Len(names) + 1 :
              k < m => Offset(names, k) + xfer.sizes[names[k]] <= Offset(names, m)
<1> DEFINE n == Len(names)
           a == [i \in DOMAIN names |-> Aligned(xfer.sizes[names[i]])]
<1>1. n \in Nat /\ DOMAIN names = 1 .. n /\ \A k \in 1 .. n : names[k] \in 1 .. Count
  <2> Count \in Nat BY DEF GoodTransfer, Count
  <2> QED OBVIOUS
<1>2. \A k \in 1 .. n : xfer.sizes[names[k]] \in Nat \ {0} BY <1>1 DEF GoodTransfer, Count
<1>3. \A k \in 1 .. n : a[k] \in Nat \ {0} /\ xfer.sizes[names[k]] <= a[k]
  <2> SUFFICES ASSUME NEW k \in 1 .. n PROVE a[k] \in Nat \ {0} /\ xfer.sizes[names[k]] <= a[k] OBVIOUS
  <2>1. a[k] = Aligned(xfer.sizes[names[k]]) BY <1>1
  <2>2. a[k] \in Nat /\ xfer.sizes[names[k]] <= a[k] BY <1>2, <2>1, AlignedCovers, Zenon
  <2> QED BY <1>2, <2>2
<1>4. \A k : Offset(names, k) = SumTo(a, k - 1) BY DEF Offset
<1>5. \A k \in 1 .. n : a[k] = Aligned(xfer.sizes[names[k]]) BY <1>1
<1> HIDE DEF a, n
<1>6. /\ SumTo(a, 0) = 0
      /\ \A k \in 0 .. n : SumTo(a, k) \in Nat
      /\ \A k \in 1 .. n : SumTo(a, k) = SumTo(a, k - 1) + a[k]
  BY <1>1, <1>3, SumSteps, Zenon
<1>7. \A k \in 1 .. n + 1 : k - 1 \in 0 .. n BY <1>1
<1>8. \A k \in 1 .. n : Offset(names, k + 1) = Offset(names, k) + Aligned(xfer.sizes[names[k]])
  <2> SUFFICES ASSUME NEW k \in 1 .. n PROVE SumTo(a, k) = SumTo(a, k - 1) + a[k] BY <1>1, <1>4, <1>5
  <2> QED BY <1>6
<1>9. ASSUME NEW k \in 1 .. n, NEW m \in 1 .. n + 1, k < m
      PROVE  Offset(names, k) + xfer.sizes[names[k]] <= Offset(names, m)
  <2>1. k \in 0 .. n /\ m - 1 \in 0 .. n /\ k <= m - 1 BY <1>1, <1>9
  <2>2. SumTo(a, k) <= SumTo(a, m - 1)
    <3>1. CASE k = m - 1 BY <1>6, <2>1, <3>1
    <3>2. CASE k < m - 1
      <4>1. SumTo(a, k) < SumTo(a, m - 1) BY <1>1, <1>3, <2>1, <3>2, SumsGrow, Zenon
      <4> QED BY <1>6, <2>1, <4>1
    <3> QED BY <2>1, <3>1, <3>2
  <2>3. SumTo(a, k) = SumTo(a, k - 1) + a[k] /\ SumTo(a, k - 1) \in Nat BY <1>1, <1>6, <1>7
  <2>4. xfer.sizes[names[k]] <= a[k] /\ a[k] \in Nat /\ xfer.sizes[names[k]] \in Nat BY <1>2, <1>3
  <2>5. SumTo(a, m - 1) \in Nat BY <1>6, <2>1
  <2>6. Offset(names, k) = SumTo(a, k - 1) /\ Offset(names, m) = SumTo(a, m - 1) BY <1>4
  <2> QED BY <2>2, <2>3, <2>4, <2>5, <2>6
<1> QED BY <1>1, <1>4, <1>6, <1>7, <1>8, <1>9 DEF n

(* What is in a group already stays where it is.                           *)
LEMMA OffsetKept ==
  ASSUME GoodTransfer, NEW names \in Seq(1 .. Count), NEW p \in 1 .. Count
  PROVE  \A k \in 1 .. Len(names) + 1 : Offset(Append(names, p), k) = Offset(names, k)
<1> DEFINE w == Append(names, p)
           a == [i \in DOMAIN names |-> Aligned(xfer.sizes[names[i]])]
           b == [i \in DOMAIN w |-> Aligned(xfer.sizes[w[i]])]
<1> SUFFICES ASSUME NEW k \in 1 .. Len(names) + 1 PROVE SumTo(b, k - 1) = SumTo(a, k - 1) BY DEF Offset
<1>1. /\ DOMAIN names = 1 .. Len(names) /\ DOMAIN w = 1 .. Len(names) + 1 /\ Len(names) \in Nat
      /\ \A i \in 1 .. Len(names) : w[i] = names[i] /\ names[i] \in 1 .. Count
  <2>1. Count \in Nat BY DEF GoodTransfer, Count
  <2>2. \A i \in 1 .. Len(names) : names[i] \in 1 .. Count BY <2>1
  <2> HIDE DEF a, b
  <2> QED BY <2>1, <2>2, AppendProperties
<1> HIDE DEF w
<1>2. ASSUME NEW i \in 1 .. k - 1 PROVE a[i] \in Nat /\ b[i] = a[i]
  <2>1. i \in DOMAIN names /\ i \in DOMAIN w /\ w[i] = names[i] /\ names[i] \in 1 .. Count BY <1>1
  <2>2. xfer.sizes[names[i]] \in Nat \ {0} BY <2>1 DEF GoodTransfer, Count
  <2>3. Aligned(xfer.sizes[names[i]]) \in Nat BY <2>2, AlignedCovers, Zenon
  <2> QED BY <2>1, <2>3
<1>3. k - 1 \in Nat BY <1>1
<1> HIDE DEF a, b
<1> QED BY <1>2, <1>3, SameSums, Zenon

-----------------------------------------------------------------------------
(* Consecutive tensors.                                                    *)

Run(a, b) == [i \in 1 .. b - a + 1 |-> a + i - 1]
First(n) == {<<p, p>> : p \in 1 .. n}     \* each under its own name

(* One more tensor of a window that starts after place l.                  *)
LEMMA OneFurther ==
  ASSUME NEW l \in Nat, NEW k \in Nat, k >= 1, NEW k2, k2 = k + 1
  PROVE  l + k - 1 \in Nat /\ l + k - 1 + 1 = l + k /\ l + k - 1 + 1 = l + k2 - 1
OBVIOUS

(* The next of m things done, when it is one of d that wait.               *)
LEMMA NextOne ==
  ASSUME NEW d \in Nat, NEW m \in 0 .. d, m + 1 <= d, NEW len \in Nat, d <= len
  PROVE  m + 1 \in 1 .. d /\ m + 1 \in Nat \ {0} /\ m + 1 - 1 = m /\ m + 1 <= len
OBVIOUS

(* The tensors from a to b, as a list of their numbers: its elements, and  *)
(* one more.                                                               *)
LEMMA Runs ==
  ASSUME NEW a \in Nat \ {0}, NEW b \in Nat, a <= b + 1
  PROVE  /\ Run(a, b) \in Seq(Nat) /\ Len(Run(a, b)) = b - a + 1
         /\ \A k \in 1 .. b - a + 1 : Run(a, b)[k] = a + k - 1
         /\ Run(a, b) = <<>> <=> b = a - 1
         /\ Append(Run(a, b), b + 1) = Run(a, b + 1)
         /\ \A n \in Nat : b <= n => Run(a, b) \in Seq(1 .. n)
<1> DEFINE r == Run(a, b)
           n == b - a + 1
<1>1. n \in Nat OBVIOUS
<1>2. r = [i \in 1 .. n |-> a + i - 1] BY DEF Run
<1> HIDE DEF r
<1>3. r \in Seq(Nat) /\ Len(r) = n /\ \A k \in 1 .. n : r[k] = a + k - 1
  <2>1. \A i \in 1 .. n : a + i - 1 \in Nat BY <1>1
  <2> HIDE DEF n
  <2> QED BY <1>1, <1>2, <2>1
<1>4. r = <<>> <=> b = a - 1
  <2>1. r = <<>> <=> Len(r) = 0 BY <1>3
  <2> QED BY <1>3, <2>1
<1>5. Append(r, b + 1) = Run(a, b + 1)
  <2> DEFINE w == Append(r, b + 1)
  <2>1. w = [i \in 1 .. n + 1 |-> IF i = n + 1 THEN b + 1 ELSE r[i]]
    <3> HIDE DEF n
    <3> QED BY <1>1, <1>3
  <2>2. \A i \in 1 .. n + 1 : (IF i = n + 1 THEN b + 1 ELSE r[i]) = a + i - 1
    <3> SUFFICES ASSUME NEW i \in 1 .. n + 1 PROVE (IF i = n + 1 THEN b + 1 ELSE r[i]) = a + i - 1 OBVIOUS
    <3>1. CASE i = n + 1 BY <3>1
    <3>2. CASE i # n + 1
      <4>1. i \in 1 .. n BY <3>2
      <4> QED BY <1>3, <3>2, <4>1
    <3> QED BY <3>1, <3>2
  <2>3. w = [i \in 1 .. n + 1 |-> a + i - 1] BY <2>1, <2>2
  <2>4. n + 1 = (b + 1) - a + 1 OBVIOUS
  <2> HIDE DEF n, w
  <2>5. w = Run(a, b + 1) BY <2>3, <2>4 DEF Run
  <2> QED BY <2>5 DEF w
<1>6. ASSUME NEW m \in Nat, b <= m PROVE r \in Seq(1 .. m)
  <2>1. \A i \in 1 .. n : r[i] \in 1 .. m BY <1>3, <1>6
  <2> HIDE DEF n
  <2>2. r = [i \in 1 .. n |-> r[i]] BY <1>2
  <2> QED BY <1>1, <2>1, <2>2
<1> QED BY <1>3, <1>4, <1>5, <1>6, Zenon DEF r

(* There are no places from c + 1 to c.                                    *)
LEMMA NoRun ==
  ASSUME NEW c \in Nat
  PROVE  Run(c + 1, c) = <<>>
<1>1. c + 1 \in Nat \ {0} /\ c + 1 <= c + 1 /\ c = c + 1 - 1 OBVIOUS
<1> QED BY <1>1, Runs

(* The first n tensors, each loaded from its own bytes, and the next ones. *)
LEMMA FirstGrows ==
  ASSUME NEW n \in Nat
  PROVE  /\ First(n) \cup {<<n + 1, n + 1>>} = First(n + 1) /\ First(n) \subseteq Nat \X Nat
         /\ \A m \in Nat : n <= m => First(n) \cup {<<p, p>> : p \in n + 1 .. m} = First(m)
         /\ First(0) = {} /\ \A pair \in First(n) : pair[1] = pair[2]
<1>1. 1 .. n + 1 = (1 .. n) \cup {n + 1} OBVIOUS
<1>2. First(n) \cup {<<n + 1, n + 1>>} = First(n + 1) BY <1>1 DEF First
<1>3. ASSUME NEW m \in Nat, n <= m PROVE First(n) \cup {<<p, p>> : p \in n + 1 .. m} = First(m)
  <2>1. 1 .. m = (1 .. n) \cup (n + 1 .. m) BY <1>3
  <2> QED BY <2>1 DEF First
<1>4. First(n) \subseteq Nat \X Nat /\ \A pair \in First(n) : pair[1] = pair[2] BY DEF First
<1>5. First(0) = {}
  <2>1. 1 .. 0 = {} OBVIOUS
  <2> QED BY <2>1 DEF First
<1> QED BY <1>2, <1>3, <1>4, <1>5

(* A half of the buffer has these tensors where their views will look.     *)
Placed(h, names) ==
  \A k \in 1 .. Len(names) : Offset(names, k) \in DOMAIN h /\ h[Offset(names, k)] = names[k]

(* Copying the next tensor of a group overwrites none of the group.        *)
LEMMA FillKeeps ==
  ASSUME GoodTransfer, NEW names \in Seq(1 .. Count), NEW p \in 1 .. Count,
         NEW h, Placed(h, names)
  PROVE  /\ Placed(Fill(h, Offset(names, Len(names) + 1), p), Append(names, p))
         /\ Offset(Append(names, p), Len(names) + 2) = Offset(names, Len(names) + 1) + Aligned(xfer.sizes[p])
<1> DEFINE n == Len(names)
           w == Append(names, p)
           off == Offset(names, n + 1)
           g == Fill(h, off, p)
           spoilt == {o \in DOMAIN h : o < off + xfer.sizes[p] /\ off < o + xfer.sizes[h[o]]}
<1>1. Count \in Nat BY DEF GoodTransfer, Count
<1>2. /\ n \in Nat /\ w \in Seq(1 .. Count) /\ Len(w) = n + 1 /\ w[n + 1] = p
      /\ \A k \in 1 .. n : w[k] = names[k] /\ names[k] \in 1 .. Count
  BY <1>1, AppendProperties
<1> HIDE DEF w
<1>3. /\ \A k \in 1 .. n + 1 : Offset(names, k) \in Nat
      /\ \A k \in 1 .. n : Offset(names, k) + xfer.sizes[names[k]] <= off
  <2>1. \A k \in 1 .. n : k \in 1 .. Len(names) /\ n + 1 \in 1 .. Len(names) + 1 /\ k < n + 1 BY <1>2
  <2> QED BY <2>1, OffsetSteps
<1>4. \A k \in 1 .. n + 1 : Offset(w, k) = Offset(names, k) BY OffsetKept DEF w
<1>5. \A i \in 1 .. Count : xfer.sizes[i] \in Nat \ {0} BY DEF GoodTransfer, Count
<1>6. DOMAIN g = (DOMAIN h \ spoilt) \cup {off} /\ \A o \in DOMAIN g : g[o] = IF o = off THEN p ELSE h[o]
  BY DEF Fill
<1>7. ASSUME NEW k \in 1 .. n PROVE Offset(w, k) \in DOMAIN g /\ g[Offset(w, k)] = w[k]
  <2> DEFINE o == Offset(names, k)
             z == xfer.sizes[names[k]]
  <2>1. o \in DOMAIN h /\ h[o] = names[k] BY DEF Placed
  <2>2. o \in Nat /\ off \in Nat /\ z \in Nat \ {0} /\ o + z <= off BY <1>2, <1>3, <1>5
  <2>3. xfer.sizes[h[o]] = z BY <2>1
  <2> HIDE DEF o, z, off
  <2>4. o # off /\ ~(off < o + z) BY <2>2
  <2>5. o \notin spoilt BY <2>3, <2>4
  <2>6. o \in DOMAIN g /\ g[o] = names[k]
    <3> HIDE DEF spoilt, g
    <3> QED BY <1>6, <2>1, <2>4, <2>5
  <2> QED BY <1>2, <1>4, <2>6 DEF o
<1>8. Offset(w, n + 1) \in DOMAIN g /\ g[Offset(w, n + 1)] = w[n + 1]
  <2>1. Offset(w, n + 1) = off BY <1>2, <1>4
  <2> HIDE DEF g, off, spoilt
  <2> QED BY <1>2, <1>6, <2>1
<1>9. Placed(g, w)
  <2>1. \A k \in 1 .. n + 1 : k \in 1 .. n \/ k = n + 1 BY <1>2
  <2> HIDE DEF g, off
  <2> QED BY <1>2, <1>7, <1>8, <2>1 DEF Placed
<1>10. Offset(w, n + 2) = Offset(w, n + 1) + Aligned(xfer.sizes[w[n + 1]])
  <2>1. \A k \in 1 .. Len(w) : Offset(w, k + 1) = Offset(w, k) + Aligned(xfer.sizes[w[k]]) BY <1>2, OffsetSteps, Zenon
  <2>2. n + 1 \in 1 .. Len(w) /\ n + 1 + 1 = n + 2 BY <1>2
  <2> QED BY <2>1, <2>2
<1>11. Offset(w, n + 1) = off BY <1>2, <1>4
<1> QED BY <1>2, <1>9, <1>10, <1>11 DEF w

-----------------------------------------------------------------------------
(* What a step finds.                                                      *)

SenderFields == {"pc", "at", "used", "names", "cur", "await", "groups"}
ReceiverFields == {"pc", "names", "cur", "k", "loaded", "good", "groups", "loads"}
Shaped ==
  /\ DOMAIN tx = Gpu /\ DOMAIN half = Gpu /\ DOMAIN sock = Gpu /\ DOMAIN rx = Gpu /\ DOMAIN box = Gpu
  /\ \A w \in Gpu :
       /\ DOMAIN tx[w] = SenderFields /\ DOMAIN rx[w] = ReceiverFields
       /\ DOMAIN half[w] = {"a", "b"} /\ DOMAIN sock[w] = {"req", "rep"}

-----------------------------------------------------------------------------
(* ZMQ.  Of the tensors a worker has packed, the last few are in the half  *)
(* of its buffer that it is filling, and those before them, up to sent,    *)
(* have been offered: what is loaded is all of these or, while a group is  *)
(* offered or loaded from the other half, all before that group.           *)

OffsetOf(sizes, names, k) == SumTo([i \in DOMAIN names |-> Aligned(sizes[names[i]])], k - 1)
PlacedOf(sizes, h, names) ==
  \A k \in 1 .. Len(names) : OffsetOf(sizes, names, k) \in DOMAIN h /\ h[OffsetOf(sizes, names, k)] = names[k]

Filling(sizes, sent, t, h) ==
  /\ t.at \in sent + 1 .. Len(sizes) + 1 /\ t.names = Run(sent + 1, t.at - 1)
  /\ t.used = OffsetOf(sizes, t.names, Len(t.names) + 1) /\ PlacedOf(sizes, h[t.cur], t.names)
  /\ t.cur \in {"a", "b"} /\ t.pc \in {"stream", "closing", "done", "raised"}
  /\ t.pc \in {"closing", "done"} => sent = Len(sizes)

Streams(t) == t.pc \in {"stream", "raised"}
Closes(t) == t.pc \in {"closing", "raised"}
Settled(sent, t, q, r) ==
  r.pc = "recv" /\ q.req = Silent /\ Streams(t) /\ r.loaded = First(sent)
Offered(sizes, sent, t, h, q, r) ==
  /\ r.pc = "recv" /\ q.rep = Silent /\ t.await /\ Streams(t)
  /\ \E l \in 0 .. sent - 1 :
       /\ q.req = [names |-> Run(l + 1, sent), cur |-> Other(t.cur),
                   used |-> OffsetOf(sizes, Run(l + 1, sent), sent - l + 1)]
       /\ PlacedOf(sizes, h[Other(t.cur)], Run(l + 1, sent)) /\ r.loaded = First(l)
Loading(sizes, sent, t, h, q, r) ==
  /\ r.pc = "load" /\ q.req = Silent /\ q.rep = Silent /\ t.await /\ Streams(t) /\ r.cur = Other(t.cur)
  /\ \E l \in 0 .. sent - 1 :
       /\ r.names = Run(l + 1, sent) /\ PlacedOf(sizes, h[Other(t.cur)], Run(l + 1, sent))
       /\ r.k \in 1 .. sent - l + 1 /\ r.loaded = First(l + r.k - 1)
LastOffered(sizes, sent, t, q, r) ==
  /\ r.pc = "recv" /\ q.rep = Silent /\ Closes(t) /\ sent = Len(sizes)
  /\ q.req = [names |-> <<>>, cur |-> "a", used |-> 0] /\ r.loaded = First(sent)
Finishing(sizes, sent, t, q, r) ==
  /\ r.pc = "finish" /\ q.req = Silent /\ q.rep = Silent /\ Closes(t)
  /\ sent = Len(sizes) /\ r.loaded = First(sent)
AllLoaded(sizes, sent, t, r) ==
  /\ r.pc \in {"loaded", "done", "failed"} /\ t.pc \in {"closing", "done", "raised"}
  /\ sent = Len(sizes) /\ r.loaded = First(sent)
Lost(sizes, t, q, r) ==
  /\ r.pc = "failed" /\ t.pc # "done" /\ (t.pc = "closing" => q.rep = Silent)
  /\ \E n \in 0 .. Len(sizes) : r.loaded = First(n)
Exchange(sizes, sent, t, h, q, r) ==
  \/ Settled(sent, t, q, r) \/ Offered(sizes, sent, t, h, q, r) \/ Loading(sizes, sent, t, h, q, r)
  \/ LastOffered(sizes, sent, t, q, r) \/ Finishing(sizes, sent, t, q, r) \/ AllLoaded(sizes, sent, t, r)
  \/ Lost(sizes, t, q, r)
Ipc(sizes, t, h, q, r) ==
  /\ r.groups = <<>> /\ r.loads = 0
  /\ \E sent \in 0 .. Len(sizes) : Filling(sizes, sent, t, h) /\ Exchange(sizes, sent, t, h, q, r)

(* OffsetOf and PlacedOf are Offset and Placed of the transfer under way.    *)
LEMMA SameOffsets ==
  /\ \A names, k : Offset(names, k) = OffsetOf(xfer.sizes, names, k)
  /\ \A h, names : Placed(h, names) <=> PlacedOf(xfer.sizes, h, names)
BY DEF Offset, OffsetOf, Placed, PlacedOf

(* Packing a tensor adds it to the half being filled and touches nothing   *)
(* that has been offered.                                                  *)
LEMMA IpcPacks ==
  ASSUME GoodTransfer, Shaped, NEW w \in Gpu,
         Ipc(xfer.sizes, tx[w], half[w], sock[w], rx[w]), PackTensor(w)
  PROVE  Ipc(xfer.sizes, tx[w], half[w], sock[w], rx[w])'
<1> DEFINE t == tx[w]
           h == half[w]
           q == sock[w]
           r == rx[w]
           z == xfer.sizes
<1>1. PICK s \in 0 .. Len(z) : Filling(z, s, t, h) /\ Exchange(z, s, t, h, q, r) BY DEF Ipc
<1>2. /\ tx'[w] = [t EXCEPT !.names = Append(@, t.at), !.used = @ + Aligned(z[t.at]), !.at = @ + 1]
      /\ half'[w] = [h EXCEPT ![t.cur] = Fill(@, t.used, t.at)]
      /\ sock'[w] = q /\ rx'[w] = r /\ xfer' = xfer /\ t.at <= Len(z)
  BY DEF PackTensor, NextTensor, OnlyTx, Shaped, Count
<1> DEFINE t2 == tx'[w]
           h2 == half'[w]
<1>3. DOMAIN t = SenderFields /\ DOMAIN h = {"a", "b"} BY DEF Shaped
<1> HIDE DEF t, h, q, r, z
<1>4. /\ t2.pc = t.pc /\ t2.cur = t.cur /\ t2.await = t.await /\ t2.at = t.at + 1
      /\ t2.names = Append(t.names, t.at) /\ t2.used = t.used + Aligned(z[t.at])
  BY <1>2, <1>3 DEF SenderFields
<1>5. h2[t.cur] = Fill(h[t.cur], t.used, t.at) /\ h2[Other(t.cur)] = h[Other(t.cur)]
  BY <1>1, <1>2, <1>3 DEF Filling, Other
<1> HIDE DEF t2, h2
<1>6. z = xfer.sizes /\ Len(z) \in Nat /\ Count = Len(z) BY DEF GoodTransfer, Count, z
<1>7. /\ t.at \in 1 .. Count /\ s + 1 <= t.at /\ s \in Nat /\ t.names = Run(s + 1, t.at - 1)
      /\ t.used = Offset(t.names, Len(t.names) + 1) /\ Placed(h[t.cur], t.names)
  BY <1>1, <1>2, <1>6, SameOffsets DEF Filling
<1>8. t.names \in Seq(1 .. Count) /\ Append(t.names, t.at) = Run(s + 1, t.at)
  <2> DEFINE b == t.at - 1
  <2>1. s + 1 \in Nat \ {0} /\ b \in Nat /\ s + 1 <= b + 1 /\ b <= Count /\ b + 1 = t.at /\ Count \in Nat BY <1>6, <1>7
  <2> HIDE DEF b
  <2>2. Append(Run(s + 1, b), b + 1) = Run(s + 1, b + 1) /\ Run(s + 1, b) \in Seq(1 .. Count) BY <2>1, Runs, Zenon
  <2> QED BY <1>7, <2>1, <2>2, Zenon DEF b
<1>9. /\ Placed(h2[t.cur], t2.names)
      /\ Offset(t2.names, Len(t.names) + 2) = t.used + Aligned(z[t.at])
      /\ Len(t2.names) = Len(t.names) + 1 /\ Len(t.names) \in Nat
  <2>1. /\ Placed(Fill(h[t.cur], t.used, t.at), Append(t.names, t.at))
        /\ Offset(Append(t.names, t.at), Len(t.names) + 2) = t.used + Aligned(z[t.at])
    BY <1>6, <1>7, <1>8, FillKeeps
  <2>2. Len(Append(t.names, t.at)) = Len(t.names) + 1 /\ Len(t.names) \in Nat BY <1>6, <1>8
  <2> QED BY <1>4, <1>5, <2>1, <2>2
<1>10. Filling(z, s, t2, h2)
  <2>1. t2.at \in s + 1 .. Len(z) + 1 /\ t2.names = Run(s + 1, t2.at - 1)
    <3>1. t2.at - 1 = t.at /\ t2.at \in s + 1 .. Len(z) + 1 BY <1>4, <1>6, <1>7
    <3> QED BY <1>4, <1>8, <3>1
  <2>2. t2.used = OffsetOf(z, t2.names, Len(t2.names) + 1)
    <3>1. Len(t2.names) + 1 = Len(t.names) + 2 BY <1>9
    <3> QED BY <1>4, <1>6, <1>9, <3>1, SameOffsets
  <2>3. PlacedOf(z, h2[t2.cur], t2.names) BY <1>4, <1>6, <1>9, SameOffsets
  <2> QED BY <1>1, <1>4, <2>1, <2>2, <2>3, Zenon DEF Filling
<1>11. Exchange(z, s, t2, h2, q, r)
  BY <1>1, <1>4, <1>5, Zenon DEF Exchange, Settled, Offered, Loading, LastOffered, Finishing, AllLoaded, Lost, Streams, Closes
<1>12. r.groups = <<>> /\ r.loads = 0 BY DEF Ipc, r
<1>13. Ipc(z, t2, h2, q, r) BY <1>1, <1>10, <1>11, <1>12 DEF Ipc
<1> QED BY <1>2, <1>13 DEF z, t2, h2, q, r

(* A sender that has an answer, or needs none, offers its group and goes   *)
(* on in the other half, which nobody reads any more.                      *)
LEMMA IpcOffers ==
  ASSUME GoodTransfer, Shaped, NEW w \in Gpu,
         Ipc(xfer.sizes, tx[w], half[w], sock[w], rx[w]), SendGroup(w)
  PROVE  Ipc(xfer.sizes, tx[w], half[w], sock[w], rx[w])'
<1> DEFINE t == tx[w]
           h == half[w]
           q == sock[w]
           r == rx[w]
           z == xfer.sizes
<1>1. PICK s \in 0 .. Len(z) : Filling(z, s, t, h) /\ Exchange(z, s, t, h, q, r) BY DEF Ipc
<1>2. /\ tx'[w] = [t EXCEPT !.await = TRUE, !.cur = Other(@), !.used = 0, !.names = <<>>]
      /\ sock'[w] = [req |-> [names |-> t.names, cur |-> t.cur, used |-> t.used], rep |-> Silent]
      /\ half'[w] = h /\ rx'[w] = r /\ xfer' = xfer
      /\ t.pc = "stream" /\ (t.await => q.rep # Silent)
  BY DEF SendGroup, OnlyTx, Shaped, Answered
<1>3. t.names # <<>>
  <2>1. GroupFull(w) BY DEF SendGroup
  <2>2. CASE t.at > Count BY <2>1, <2>2 DEF GroupFull
  <2>3. CASE ~(t.at > Count)
    <3> DEFINE size == Aligned(xfer.sizes[t.at])
    <3>1. size <= HalfRoom /\ t.used + size > HalfRoom /\ t.at <= Count BY <2>1, <2>3 DEF GroupFull, NextTensor
    <3>2. t.at \in 1 .. Count BY <1>1, <3>1 DEF Filling, GoodTransfer, Count
    <3>3. size \in Nat /\ HalfRoom \in Int
      <4>1. \A i \in 1 .. Count : xfer.sizes[i] \in Nat \ {0} BY DEF GoodTransfer, Count
      <4>2. size \in Nat
        <5> HIDE DEF t
        <5> QED BY <3>2, <4>1, AlignedCovers, Zenon
      <4>3. HalfRoom \in Int
        <5>1. xfer.room \in Nat BY DEF GoodTransfer
        <5> QED BY <5>1 DEF HalfRoom
      <4> QED BY <4>2, <4>3
    <3> SUFFICES ASSUME t.names = <<>> PROVE FALSE OBVIOUS
    <3>4. t.used = Offset(<<>>, 1)
      <4>1. t.used = OffsetOf(z, t.names, Len(t.names) + 1) BY <1>1 DEF Filling
      <4> QED BY <4>1, SameOffsets
    <3>5. t.used = 0
      <4>1. <<>> \in Seq(1 .. Count) OBVIOUS
      <4> QED BY <3>4, <4>1, OffsetSteps, Zenon
    <3> HIDE DEF size
    <3> QED BY <3>1, <3>3, <3>5
  <2> QED BY <2>2, <2>3
<1> DEFINE t2 == tx'[w]
           q2 == sock'[w]
           m == t.at - 1
<1>4. DOMAIN t = SenderFields BY DEF Shaped
<1> HIDE DEF t, h, q, r, z
<1>5. /\ t2.pc = "stream" /\ t2.await = TRUE /\ t2.cur = Other(t.cur) /\ t2.used = 0 /\ t2.names = <<>>
      /\ t2.at = t.at /\ Other(Other(t.cur)) = t.cur /\ Other(t.cur) \in {"a", "b"}
  BY <1>1, <1>2, <1>4 DEF SenderFields, Filling, Other
<1> HIDE DEF t2
<1>6. z = xfer.sizes /\ Len(z) \in Nat BY DEF GoodTransfer, z
<1>7. m \in s .. Len(z) /\ t.names = Run(s + 1, m) /\ t.at = m + 1 /\ m \in 0 .. Len(z) /\ s \in Nat
  BY <1>1, <1>6 DEF Filling
<1> HIDE DEF m
<1>8. s < m /\ Len(t.names) = m - s
  <2> DEFINE a == s + 1
  <2>1. a \in Nat \ {0} /\ m \in Nat /\ a <= m + 1 BY <1>6, <1>7
  <2> HIDE DEF a
  <2>2. Len(Run(a, m)) = m - a + 1 /\ (m = a - 1 => Run(a, m) = <<>>) BY <2>1, Runs, Zenon
  <2> QED BY <1>3, <1>6, <1>7, <2>1, <2>2 DEF a
<1>9. Filling(z, m, t2, h)
  <2>1. <<>> = Run(m + 1, m)
    <3>1. m + 1 \in Nat \ {0} /\ m \in Nat /\ m + 1 <= m + 1 /\ m = m + 1 - 1 BY <1>6, <1>7
    <3> QED BY <3>1, Runs
  <2>2. OffsetOf(z, <<>>, 1) = 0
    <3>1. <<>> \in Seq(1 .. Count) OBVIOUS
    <3> QED BY <1>6, <3>1, OffsetSteps, SameOffsets, Zenon
  <2>3. PlacedOf(z, h[t2.cur], <<>>) BY DEF PlacedOf
  <2>4. t2.at \in m + 1 .. Len(z) + 1 /\ t2.at - 1 = m BY <1>5, <1>6, <1>7
  <2>5. Len(<<>>) + 1 = 1 OBVIOUS
  <2> QED BY <1>5, <2>1, <2>2, <2>3, <2>4, <2>5 DEF Filling
<1>10. Exchange(z, m, t2, h, q2, r)
  <2>1. Settled(s, t, q, r) \/ Lost(z, t, q, r)
    BY <1>1, <1>2 DEF Exchange, Settled, Offered, Loading, LastOffered, Finishing, AllLoaded, Lost, Streams, Closes
  <2>2. CASE Settled(s, t, q, r)
    <3>1. r.pc = "recv" /\ r.loaded = First(s) BY <2>2 DEF Settled
    <3>2. q2.rep = Silent /\ Streams(t2) BY <1>2, <1>5 DEF Streams
    <3>3. s \in 0 .. m - 1 BY <1>6, <1>7, <1>8
    <3>4. PlacedOf(z, h[Other(t2.cur)], Run(s + 1, m)) BY <1>1, <1>5, <1>7 DEF Filling
    <3>5. q2.req = [names |-> Run(s + 1, m), cur |-> Other(t2.cur), used |-> OffsetOf(z, Run(s + 1, m), m - s + 1)]
      <4>1. t.used = OffsetOf(z, Run(s + 1, m), m - s + 1) BY <1>1, <1>7, <1>8, Zenon DEF Filling
      <4> QED BY <1>2, <1>5, <1>7, <4>1
    <3>6. Offered(z, m, t2, h, q2, r)
      <4> HIDE DEF q2
      <4> QED BY <1>5, <3>1, <3>2, <3>3, <3>4, <3>5, Zenon DEF Offered
    <3> QED BY <3>6 DEF Exchange
  <2>3. CASE Lost(z, t, q, r)
    <3>1. Lost(z, t2, q2, r) BY <1>2, <1>5, <2>3 DEF Lost
    <3> QED BY <3>1 DEF Exchange
  <2> QED BY <2>1, <2>2, <2>3
<1>11. r.groups = <<>> /\ r.loads = 0 BY DEF Ipc, r
<1>12. Ipc(z, t2, h, q2, r)
  <2> HIDE DEF q2
  <2> QED BY <1>7, <1>9, <1>10, <1>11 DEF Ipc
<1> QED BY <1>2, <1>12 DEF z, t2, h, q2, r

(* A sender that ends, well or not.                                        *)
LEMMA IpcEnds ==
  ASSUME GoodTransfer, Shaped, NEW w \in Gpu,
         Ipc(xfer.sizes, tx[w], half[w], sock[w], rx[w]),
         TooLarge(w) \/ Complete(w) \/ Closed(w) \/ SenderTimesOut(w)
  PROVE  Ipc(xfer.sizes, tx[w], half[w], sock[w], rx[w])'
<1> DEFINE t == tx[w]
           h == half[w]
           q == sock[w]
           r == rx[w]
           z == xfer.sizes
           t2 == tx'[w]
           q2 == sock'[w]
<1>1. PICK s \in 0 .. Len(z) : Filling(z, s, t, h) /\ Exchange(z, s, t, h, q, r) BY DEF Ipc
<1>2. /\ DOMAIN t = SenderFields /\ DOMAIN q = {"req", "rep"} /\ DOMAIN tx = Gpu /\ DOMAIN sock = Gpu
      /\ r.groups = <<>> /\ r.loads = 0
  BY DEF Shaped, Ipc
<1>3. half'[w] = h /\ rx'[w] = r /\ xfer' = xfer BY DEF TooLarge, Complete, Closed, SenderTimesOut
<1>4. /\ t2.at = t.at /\ t2.names = t.names /\ t2.used = t.used /\ t2.cur = t.cur /\ t2.await = t.await
      /\ \/ t.pc = "stream" /\ t2.pc = "raised" /\ q2 = q
         \/ t.pc = "closing" /\ t2.pc = "raised" /\ q2 = q
         \/ /\ t.pc = "stream" /\ t2.pc = "closing" /\ t.at > Len(z) /\ t.names = <<>> /\ (t.await => q.rep # Silent)
            /\ q2.req = [names |-> <<>>, cur |-> "a", used |-> 0] /\ q2.rep = Silent
         \/ t.pc = "closing" /\ t2.pc = "done" /\ q.rep # Silent /\ q2.req = q.req
  <2>1. CASE TooLarge(w) BY <1>2, <2>1 DEF TooLarge, OnlyTx, NextTensor, SenderFields
  <2>2. CASE Complete(w) BY <1>2, <2>2 DEF Complete, OnlyTx, SenderFields, Count, Answered
  <2>3. CASE Closed(w) BY <1>2, <2>3 DEF Closed, OnlyTx, SenderFields
  <2>4. CASE SenderTimesOut(w) BY <1>2, <2>4 DEF SenderTimesOut, OnlyTx, SenderFields
  <2> QED BY <2>1, <2>2, <2>3, <2>4
<1> HIDE DEF t, h, q, r, z, t2, q2
<1>5. Len(z) \in Nat BY DEF GoodTransfer, z
<1>6. t2.pc \in {"closing", "done"} => s = Len(z)
  <2>1. ASSUME t.at > Len(z), t.names = <<>> PROVE s = Len(z)
    <3>1. t.at = Len(z) + 1 /\ s \in Nat /\ s <= Len(z) /\ t.names = Run(s + 1, Len(z)) BY <1>1, <1>5, <2>1 DEF Filling
    <3> DEFINE a == s + 1
    <3>2. a \in Nat \ {0} /\ a <= Len(z) + 1 BY <1>5, <3>1
    <3> HIDE DEF a
    <3>3. Run(a, Len(z)) = <<>> => Len(z) = a - 1 BY <1>5, <3>2, Runs, Zenon
    <3> QED BY <1>5, <2>1, <3>1, <3>3 DEF a
  <2> QED BY <1>1, <1>4, <2>1 DEF Filling
<1>7. Filling(z, s, t2, h) BY <1>1, <1>4, <1>6 DEF Filling
<1>8. Exchange(z, s, t2, h, q2, r)
  <2> USE <1>4, <1>6 DEF Exchange, Streams, Closes
  <2>1. CASE Settled(s, t, q, r)
    <3>1. CASE t2.pc = "closing" BY <2>1, <3>1 DEF Settled, LastOffered
    <3>2. CASE t2.pc # "closing" BY <2>1, <3>2 DEF Settled
    <3> QED BY <3>1, <3>2
  <2>2. CASE Offered(z, s, t, h, q, r) BY <2>2, Zenon DEF Offered
  <2>3. CASE Loading(z, s, t, h, q, r) BY <2>3 DEF Loading
  <2>4. CASE LastOffered(z, s, t, q, r) BY <2>4 DEF LastOffered
  <2>5. CASE Finishing(z, s, t, q, r) BY <2>5 DEF Finishing
  <2>6. CASE AllLoaded(z, s, t, r) BY <2>6 DEF AllLoaded
  <2>7. CASE Lost(z, t, q, r) BY <2>7 DEF Lost
  <2> QED BY <1>1, <2>1, <2>2, <2>3, <2>4, <2>5, <2>6, <2>7 DEF Exchange
<1>9. Ipc(z, t2, h, q2, r) BY <1>1, <1>2, <1>7, <1>8 DEF Ipc
<1> QED BY <1>3, <1>9 DEF z, t2, h, q2, r



(* A receiver takes up what is offered.                                    *)
LEMMA IpcReceives ==
  ASSUME GoodTransfer, Shaped, NEW w \in Gpu,
         Ipc(xfer.sizes, tx[w], half[w], sock[w], rx[w]), Receive(w)
  PROVE  Ipc(xfer.sizes, tx[w], half[w], sock[w], rx[w])'
<1> DEFINE t == tx[w]
           h == half[w]
           q == sock[w]
           r == rx[w]
           z == xfer.sizes
           r2 == rx'[w]
           q2 == sock'[w]
           names == q.req.names
<1>1. PICK s \in 0 .. Len(z) : Filling(z, s, t, h) /\ Exchange(z, s, t, h, q, r) BY DEF Ipc
<1>2. /\ DOMAIN r = ReceiverFields /\ DOMAIN q = {"req", "rep"} /\ DOMAIN rx = Gpu /\ DOMAIN sock = Gpu
      /\ r.groups = <<>> /\ r.loads = 0
  BY DEF Shaped, Ipc
<1>3. /\ half'[w] = h /\ tx'[w] = t /\ xfer' = xfer /\ q.req # Silent /\ r.pc = "recv"
      /\ q2.req = Silent /\ q2.rep = q.rep
      /\ r2.groups = r.groups /\ r2.loads = r.loads /\ r2.loaded = r.loaded /\ r2.k = 1
      /\ r2.names = names /\ r2.cur = q.req.cur
      /\ r2.pc = IF names = <<>> THEN "finish"
                 ELSE IF OffsetOf(z, names, Len(names) + 1) = q.req.used THEN "load" ELSE "failed"
  BY <1>2, SameOffsets DEF Receive, OnlyRx, ReceiverFields
<1> HIDE DEF t, h, q, r, z, r2, q2, names
<1>4. Len(z) \in Nat BY DEF GoodTransfer, z
<1>5. Exchange(z, s, t, h, q2, r2)
  <2>1. Offered(z, s, t, h, q, r) \/ LastOffered(z, s, t, q, r)
    BY <1>1, <1>3, Zenon DEF Exchange, Settled, Offered, Loading, LastOffered, Finishing, AllLoaded, Lost
  <2>2. CASE Offered(z, s, t, h, q, r)
    <3>1. PICK l \in 0 .. s - 1 :
            /\ q.req = [names |-> Run(l + 1, s), cur |-> Other(t.cur),
                        used |-> OffsetOf(z, Run(l + 1, s), s - l + 1)]
            /\ PlacedOf(z, h[Other(t.cur)], Run(l + 1, s)) /\ r.loaded = First(l)
      BY <2>2 DEF Offered
    <3>2. names = Run(l + 1, s) /\ q.req.cur = Other(t.cur) /\ q.req.used = OffsetOf(z, names, s - l + 1)
      BY <3>1 DEF names
    <3>3. names # <<>> /\ Len(names) = s - l
      <4> DEFINE a == l + 1
      <4>1. a \in Nat \ {0} /\ s \in Nat /\ a <= s + 1 /\ s # a - 1 /\ s - a + 1 = s - l BY <1>4
      <4> HIDE DEF a
      <4>2. Len(Run(a, s)) = s - a + 1 /\ (Run(a, s) = <<>> => s = a - 1) BY <4>1, Runs, Zenon
      <4> QED BY <3>2, <4>1, <4>2 DEF a
    <3>4. r2.pc = "load" BY <1>3, <3>2, <3>3
    <3>5. r2.k \in 1 .. s - l + 1 /\ l + r2.k - 1 = l BY <1>3, <1>4
    <3>6. Loading(z, s, t, h, q2, r2)
      <4>1. r2.names = Run(l + 1, s) /\ r2.loaded = First(l + r2.k - 1) /\ r2.cur = Other(t.cur)
        BY <1>3, <3>1, <3>2, <3>5
      <4> QED BY <1>3, <2>2, <3>1, <3>4, <3>5, <4>1 DEF Loading, Offered
    <3> QED BY <3>6 DEF Exchange
  <2>3. CASE LastOffered(z, s, t, q, r)
    <3>1. names = <<>> BY <2>3 DEF LastOffered, names
    <3>2. Finishing(z, s, t, q2, r2) BY <1>3, <2>3, <3>1 DEF LastOffered, Finishing
    <3> QED BY <3>2 DEF Exchange
  <2> QED BY <2>1, <2>2, <2>3
<1>6. Ipc(z, t, h, q2, r2) BY <1>1, <1>2, <1>3, <1>5 DEF Ipc
<1> QED BY <1>3, <1>6 DEF z, t, h, q2, r2

(* What a view of a group being loaded shows.                              *)
LEMMA IpcViews ==
  ASSUME GoodTransfer, NEW w \in Gpu,
         Ipc(xfer.sizes, tx[w], half[w], sock[w], rx[w]), rx[w].pc = "load"
  PROVE  \A k \in rx[w].k .. Len(rx[w].names) : View(w, k) = rx[w].names[k]
<1> DEFINE t == tx[w]
           h == half[w]
           q == sock[w]
           r == rx[w]
           z == xfer.sizes
<1>1. PICK s \in 0 .. Len(z) : Filling(z, s, t, h) /\ Exchange(z, s, t, h, q, r) BY DEF Ipc
<1>2. Loading(z, s, t, h, q, r)
  <2> HIDE DEF t, h, q, z
  <2> QED BY <1>1 DEF Exchange, Settled, Offered, Loading, LastOffered, Finishing, AllLoaded, Lost
<1>3. PICK l \in 0 .. s - 1 :
        /\ r.names = Run(l + 1, s) /\ PlacedOf(z, h[Other(t.cur)], Run(l + 1, s))
        /\ r.k \in 1 .. s - l + 1 /\ r.loaded = First(l + r.k - 1)
  BY <1>2 DEF Loading
<1>4. Placed(h[r.cur], r.names)
  <2>1. r.cur = Other(t.cur) BY <1>2 DEF Loading
  <2> QED BY <1>3, <2>1, SameOffsets
<1>5. \A k \in 1 .. Len(r.names) : View(w, k) = r.names[k]
  BY <1>4 DEF Placed, View
<1>6. r.k >= 1 /\ r.k \in Int
  <2> HIDE DEF r
  <2>1. Len(z) \in Nat BY DEF GoodTransfer
  <2> QED BY <1>3, <2>1
<1> QED BY <1>5, <1>6

(* It loads the group tensor by tensor, answers when it has them all and   *)
(* may give up in between.                                                 *)
LEMMA IpcLoads ==
  ASSUME GoodTransfer, Shaped, NEW w \in Gpu,
         Ipc(xfer.sizes, tx[w], half[w], sock[w], rx[w]),
         LoadTensor(w) \/ Acknowledge(w) \/ LoadFails(w) \/ ReceiverTimesOut(w) \/ Loaded(w)
  PROVE  Ipc(xfer.sizes, tx[w], half[w], sock[w], rx[w])'
<1> DEFINE t == tx[w]
           h == half[w]
           q == sock[w]
           r == rx[w]
           z == xfer.sizes
           r2 == rx'[w]
           q2 == sock'[w]
<1>1. PICK s \in 0 .. Len(z) : Filling(z, s, t, h) /\ Exchange(z, s, t, h, q, r) BY DEF Ipc
<1>2. /\ DOMAIN r = ReceiverFields /\ DOMAIN q = {"req", "rep"} /\ DOMAIN rx = Gpu /\ DOMAIN sock = Gpu
      /\ r.groups = <<>> /\ r.loads = 0
  BY DEF Shaped, Ipc
<1>3. half'[w] = h /\ tx'[w] = t /\ xfer' = xfer
  BY DEF LoadTensor, Acknowledge, LoadFails, ReceiverTimesOut, Loaded
<1>4. \A k \in r.k .. Len(r.names) : r.pc = "load" => View(w, k) = r.names[k] BY IpcViews
<1>5. /\ r2.groups = r.groups /\ r2.loads = r.loads /\ r2.names = r.names /\ r2.cur = r.cur /\ q2.req = q.req
      /\ \/ /\ r.pc = "load" /\ r2.pc = "load" /\ r.k <= Len(r.names) /\ r2.k = r.k + 1 /\ q2.rep = q.rep
            /\ r2.loaded = r.loaded \cup {<<r.names[r.k], View(w, r.k)>>}
         \/ /\ r.pc = "load" /\ r.k > Len(r.names) /\ r2.pc = "recv" /\ r2.loaded = r.loaded
         \/ r.pc = "finish" /\ r2.pc = "loaded" /\ r2.loaded = r.loaded
         \/ r.pc \in {"load", "finish", "loaded"} /\ r2.pc = "failed" /\ r2.loaded = r.loaded /\ q2.rep = q.rep
         \/ r.pc = "recv" /\ q.req = Silent /\ r2.pc = "failed" /\ r2.loaded = r.loaded /\ q2.rep = q.rep
         \/ r.pc = "loaded" /\ r2.pc = "done" /\ r2.loaded = r.loaded
  <2>1. CASE LoadTensor(w) BY <1>2, <2>1 DEF LoadTensor, OnlyRx, ReceiverFields
  <2>2. CASE Acknowledge(w)
    <3>1. AckReady(w) /\ q2.rep = "ack" /\ q2.req = q.req BY <1>2, <2>2 DEF Acknowledge
    <3>2. r2 = [r EXCEPT !.pc = IF @ = "finish" THEN "loaded" ELSE "recv"] BY <1>2, <2>2 DEF Acknowledge, OnlyRx
    <3> QED BY <1>2, <3>1, <3>2 DEF AckReady, ReceiverFields
  <2>3. CASE LoadFails(w) BY <1>2, <2>3 DEF LoadFails, OnlyRx, ReceiverFields
  <2>4. CASE ReceiverTimesOut(w) BY <1>2, <2>4 DEF ReceiverTimesOut, OnlyRx, ReceiverFields
  <2>5. CASE Loaded(w) BY <1>2, <2>5 DEF Loaded, OnlyRx, ReceiverFields
  <2> QED BY <2>1, <2>2, <2>3, <2>4, <2>5
<1> HIDE DEF t, h, q, r, z, r2, q2
<1>6. Len(z) \in Nat BY DEF GoodTransfer, z
<1>7. Exchange(z, s, t, h, q2, r2)
  <2>1. CASE Settled(s, t, q, r)
    <3>1. r2.pc = "failed" /\ r2.loaded = First(s) /\ t.pc # "done" /\ t.pc # "closing" BY <1>5, <2>1 DEF Settled, Streams
    <3>2. Lost(z, t, q2, r2) BY <3>1 DEF Lost
    <3> QED BY <3>2 DEF Exchange
  <2>2. CASE Offered(z, s, t, h, q, r)
    <3>1. r2.pc = "failed" /\ t.pc # "done" /\ t.pc # "closing" /\ \E l \in 0 .. s - 1 : r2.loaded = First(l)
      BY <1>5, <2>2 DEF Offered, Streams
    <3>2. \A l \in 0 .. s - 1 : l \in 0 .. Len(z) BY <1>6
    <3>3. Lost(z, t, q2, r2) BY <3>1, <3>2 DEF Lost
    <3> QED BY <3>3 DEF Exchange
  <2>3. CASE Loading(z, s, t, h, q, r)
    <3>1. PICK l \in 0 .. s - 1 :
            /\ r.names = Run(l + 1, s) /\ PlacedOf(z, h[Other(t.cur)], Run(l + 1, s))
            /\ r.k \in 1 .. s - l + 1 /\ r.loaded = First(l + r.k - 1)
      BY <2>3 DEF Loading
    <3>2. Len(r.names) = s - l /\ \A k \in 1 .. s - l : r.names[k] = l + k
      <4> DEFINE a == l + 1
      <4>1. a \in Nat \ {0} /\ s \in Nat /\ a <= s + 1 /\ s - a + 1 = s - l BY <1>6
      <4>2. \A k \in 1 .. s - l : a + k - 1 = l + k OBVIOUS
      <4> HIDE DEF a
      <4>3. Len(Run(a, s)) = s - a + 1 /\ \A k \in 1 .. s - a + 1 : Run(a, s)[k] = a + k - 1 BY <4>1, Runs, Zenon
      <4> QED BY <3>1, <4>1, <4>2, <4>3 DEF a
    <3>3. r.pc = "load" /\ q.req = Silent /\ Streams(t) BY <2>3 DEF Loading
    <3> l \in Nat /\ s \in Nat /\ r.k \in Nat BY <1>6, <3>1
    <3>4. CASE r.k <= Len(r.names) /\ r2.pc = "load"
      <4>1. r.k \in 1 .. s - l /\ r.k + 1 \in 1 .. s - l + 1 BY <1>6, <3>1, <3>2, <3>4
      <4>2. View(w, r.k) = r.names[r.k] /\ r.names[r.k] = l + r.k
        <5>1. r.k \in r.k .. Len(r.names) BY <3>2, <4>1
        <5> QED BY <1>4, <3>2, <3>3, <4>1, <5>1, Zenon
      <4>3. r2.k = r.k + 1 /\ r2.loaded = r.loaded \cup {<<l + r.k, l + r.k>>} /\ q2.rep = q.rep
        BY <1>5, <3>3, <3>4, <4>2
      <4>4. r2.loaded = First(l + r2.k - 1)
        <5> DEFINE n == l + r.k - 1
        <5>1. n \in Nat /\ n + 1 = l + r.k /\ n + 1 = l + r2.k - 1
          <6>1. l \in Nat /\ r.k \in Nat /\ r.k >= 1 /\ r2.k = r.k + 1 BY <4>1, <4>3
          <6>2. l \in Nat /\ r.k \in Nat BY <6>1
          <6>3. r.k >= 1 BY <6>1
          <6>4. r2.k = r.k + 1 BY <6>1
          <6> QED BY <6>2, <6>3, <6>4, OneFurther
        <5> HIDE DEF n
        <5>2. First(n) \cup {<<n + 1, n + 1>>} = First(n + 1) BY <5>1, FirstGrows, Zenon
        <5> QED BY <3>1, <4>3, <5>1, <5>2, Zenon DEF n
      <4>5. Loading(z, s, t, h, q2, r2) BY <1>5, <2>3, <3>1, <3>4, <4>1, <4>3, <4>4, Zenon DEF Loading
      <4> QED BY <4>5 DEF Exchange
    <3>5. CASE r.k > Len(r.names) /\ r2.pc = "recv"
      <4>1. l + r.k - 1 = s
        <5>1. r.k <= s - l + 1 /\ r.k > s - l BY <3>1, <3>2, <3>5
        <5> QED BY <5>1
      <4>2. r2.loaded = First(s) BY <1>5, <3>1, <3>3, <3>5, <4>1
      <4>3. Settled(s, t, q2, r2) BY <1>5, <3>3, <3>5, <4>2 DEF Settled
      <4> QED BY <4>3 DEF Exchange
    <3>6. CASE r2.pc = "failed"
      <4>1. l + r.k - 1 \in 0 .. Len(z) BY <1>6, <3>1
      <4>2. r2.loaded = First(l + r.k - 1) BY <1>5, <3>1, <3>3, <3>6
      <4>3. Lost(z, t, q2, r2) BY <3>3, <3>6, <4>1, <4>2 DEF Lost, Streams
      <4> QED BY <4>3 DEF Exchange
    <3> QED BY <1>5, <3>3, <3>4, <3>5, <3>6
  <2>4. CASE LastOffered(z, s, t, q, r)
    <3>1. r2.pc = "failed" /\ r2.loaded = First(s) /\ q2.rep = Silent BY <1>5, <2>4 DEF LastOffered
    <3>2. Lost(z, t, q2, r2) BY <2>4, <3>1 DEF Lost, LastOffered, Closes
    <3> QED BY <3>2 DEF Exchange
  <2>5. CASE Finishing(z, s, t, q, r)
    <3>1. AllLoaded(z, s, t, r2) BY <1>5, <2>5 DEF AllLoaded, Finishing, Closes
    <3> QED BY <3>1 DEF Exchange
  <2>6. CASE AllLoaded(z, s, t, r)
    <3>1. AllLoaded(z, s, t, r2) BY <1>5, <2>6 DEF AllLoaded
    <3> QED BY <3>1 DEF Exchange
  <2>7. CASE Lost(z, t, q, r) BY <1>5, <2>7 DEF Lost
  <2> QED BY <1>1, <2>1, <2>2, <2>3, <2>4, <2>5, <2>6, <2>7 DEF Exchange
<1>8. Ipc(z, t, h, q2, r2) BY <1>1, <1>2, <1>5, <1>7 DEF Ipc
<1> QED BY <1>3, <1>8 DEF z, t, h, q2, r2

-----------------------------------------------------------------------------
(* Buckets and broadcasts.  Both ways cut the list of tensors by a rule    *)
(* that every worker applies by itself, so the cuts are the same for all.  *)

(* A set of numbers that is not empty has a least one.                     *)
LEMMA LeastExists ==
  ASSUME NEW S \in SUBSET Nat, S # {}
  PROVE  \E m \in S : \A k \in S : m <= k
<1> SUFFICES ASSUME \A m \in S : \E k \in S : k < m PROVE FALSE
  <2>1. ASSUME NEW m \in S, NEW k \in S, ~(m <= k) PROVE k < m BY <2>1
  <2> QED BY <2>1
<1> DEFINE T == {n \in Nat : \A k \in 0 .. n : k \notin S}
<1>1. 0 \in T
  <2> SUFFICES ASSUME 0 \in S PROVE FALSE OBVIOUS
  <2>1. PICK k \in S : k < 0 OBVIOUS
  <2> QED BY <2>1
<1>2. \A n \in Nat : n \in T => n + 1 \in T
  <2> SUFFICES ASSUME NEW n \in Nat, n \in T, NEW k \in 0 .. n + 1, k \in S PROVE FALSE OBVIOUS
  <2>1. k = n + 1
    <3>1. k \notin 0 .. n OBVIOUS
    <3> QED BY <3>1
  <2>2. PICK j \in S : j < n + 1 BY <2>1
  <2>3. j \in 0 .. n BY <2>2
  <2> QED BY <2>3
<1> HIDE DEF T
<1>3. Nat \subseteq T BY <1>1, <1>2, Induct
<1>4. PICK s \in S : TRUE BY Zenon
<1>5. s \in Nat /\ s \in 0 .. s OBVIOUS
<1> QED BY <1>3, <1>5 DEF T

(* Where the part that begins with a may end; it ends at the first of them.*)
MayEnd(x, a) ==
  {b \in a .. Len(x.sizes) :
     \/ b = Len(x.sizes)
     \/ /\ x.path = "http"
        /\ SumTo(x.sizes, b) - SumTo(x.sizes, a - 1) + x.sizes[b + 1] >= x.room
     \/ /\ x.path = "collective"
        /\ SumTo(x.sizes, b) - SumTo(x.sizes, a - 1) > x.room}
EndsAt(x, a, b) == b \in MayEnd(x, a) /\ \A c \in MayEnd(x, a) : b <= c
Cuts(x, e) ==
  /\ e \in [0 .. Len(x.sizes) + 1 -> 0 .. Len(x.sizes)] /\ e[0] = 0
  /\ \A n \in 0 .. Len(x.sizes) :
       IF e[n] = Len(x.sizes) THEN e[n + 1] = Len(x.sizes) ELSE EndsAt(x, e[n] + 1, e[n + 1])

(* Whatever a part begins with, there is a place where it ends.            *)
LEMMA EndExists ==
  ASSUME NEW x, NEW a \in Nat, Len(x.sizes) \in Nat, a <= Len(x.sizes)
  PROVE  \E b \in 0 .. Len(x.sizes) : EndsAt(x, a, b)
<1>1. MayEnd(x, a) \in SUBSET Nat BY DEF MayEnd
<1>2. Len(x.sizes) \in MayEnd(x, a) BY DEF MayEnd
<1>3. PICK b \in MayEnd(x, a) : \A c \in MayEnd(x, a) : b <= c BY <1>1, <1>2, LeastExists, Zenon
<1>4. b \in 0 .. Len(x.sizes) BY <1>3 DEF MayEnd
<1> QED BY <1>3, <1>4 DEF EndsAt

(* There is a list of cuts that follows the rule from the first tensor to  *)
(* the last: what every worker comes to by itself.                         *)
LEMMA CutsExist ==
  ASSUME NEW x, Len(x.sizes) \in Nat
  PROVE  \E e : Cuts(x, e)
<1> DEFINE N == Len(x.sizes)
           next == [p \in 0 .. N |-> IF p = N THEN N ELSE CHOOSE b \in 0 .. N : EndsAt(x, p + 1, b)]
           op == [y \in (1 .. N + 1) \X (0 .. N) |-> next[y[2]]]
<1>1. N \in Nat OBVIOUS
<1> HIDE DEF N
<1>2. \A p \in 0 .. N : next[p] \in 0 .. N /\ IF p = N THEN next[p] = N ELSE EndsAt(x, p + 1, next[p])
  <2> SUFFICES ASSUME NEW p \in 0 .. N, p # N PROVE next[p] \in 0 .. N /\ EndsAt(x, p + 1, next[p]) BY <1>1
  <2>1. p + 1 \in Nat /\ p + 1 <= N BY <1>1
  <2>2. \E b \in 0 .. N : EndsAt(x, p + 1, b) BY <1>1, <2>1, EndExists, Zenon DEF N
  <2> QED BY <2>2
<1> HIDE DEF next
<1>3. op \in Steps(N + 1, 0 .. N) /\ \A k \in 1 .. N + 1, v \in 0 .. N : op[<<k, v>>] = next[v]
  <2>1. \A v \in 0 .. N : next[v] \in 0 .. N BY <1>2
  <2> QED BY <2>1 DEF Steps
<1> HIDE DEF op
<1>4. PICK f : Follows(f, N + 1, 0 .. N, 0, op)
  <2>1. N + 1 \in Nat /\ 0 \in 0 .. N BY <1>1
  <2> QED BY <1>3, <2>1, RecursionExists, Zenon
<1>5. f \in [0 .. N + 1 -> 0 .. N] /\ f[0] = 0 /\ \A k \in 1 .. N + 1 : f[k] = op[<<k, f[k - 1]>>] BY <1>4 DEF Follows
<1>6. \A n \in 0 .. N : IF f[n] = N THEN f[n + 1] = N ELSE EndsAt(x, f[n] + 1, f[n + 1])
  <2> SUFFICES ASSUME NEW n \in 0 .. N PROVE IF f[n] = N THEN f[n + 1] = N ELSE EndsAt(x, f[n] + 1, f[n + 1]) OBVIOUS
  <2>1. n + 1 \in 1 .. N + 1 /\ n + 1 - 1 = n /\ n \in 0 .. N + 1 BY <1>1
  <2>2. f[n] \in 0 .. N BY <1>5, <2>1
  <2>3. f[n + 1] = op[<<n + 1, f[n]>>]
    <3>1. \A k \in 1 .. N + 1 : f[k] = op[<<k, f[k - 1]>>] BY <1>5
    <3> QED BY <2>1, <3>1
  <2>4. f[n + 1] = next[f[n]] BY <1>3, <2>1, <2>2, <2>3
  <2> QED BY <1>2, <2>2, <2>4
<1> QED BY <1>5, <1>6, Zenon DEF Cuts, N

(* No part is empty, so there are no more parts than tensors.              *)
LEMMA CutsGrow ==
  ASSUME NEW x, Len(x.sizes) \in Nat, NEW e, Cuts(x, e)
  PROVE  /\ \A n \in 0 .. Len(x.sizes) : e[n] <= e[n + 1]
         /\ \A n \in 0 .. Len(x.sizes) : e[n] # Len(x.sizes) => n <= e[n] /\ n < Len(x.sizes) /\ e[n] < e[n + 1]
         /\ \A m, n \in 0 .. Len(x.sizes) + 1 : m <= n => e[m] <= e[n]
<1> DEFINE N == Len(x.sizes)
<1>1. N \in Nat /\ e \in [0 .. N + 1 -> 0 .. N] /\ e[0] = 0 BY DEF Cuts
<1>2. ASSUME NEW n \in 0 .. N
      PROVE  e[n] \in 0 .. N /\ e[n + 1] \in 0 .. N /\ (e[n] # N => e[n] < e[n + 1]) /\ (e[n] = N => e[n + 1] = N)
  <2>1. e[n] \in 0 .. N /\ e[n + 1] \in 0 .. N BY <1>1
  <2>2. IF e[n] = N THEN e[n + 1] = N ELSE EndsAt(x, e[n] + 1, e[n + 1]) BY DEF Cuts
  <2>3. CASE e[n] = N BY <2>1, <2>2, <2>3
  <2>4. CASE e[n] # N
    <3>1. e[n + 1] \in MayEnd(x, e[n] + 1) BY <2>2, <2>4 DEF EndsAt
    <3>2. e[n + 1] >= e[n] + 1 BY <3>1 DEF MayEnd
    <3> HIDE DEF N
    <3> QED BY <1>1, <2>1, <2>4, <3>2
  <2> QED BY <2>3, <2>4
<1> HIDE DEF N
<1>3. \A n \in 0 .. N : e[n] <= e[n + 1]
  <2> SUFFICES ASSUME NEW n \in 0 .. N PROVE e[n] <= e[n + 1] OBVIOUS
  <2>1. e[n] \in 0 .. N /\ e[n + 1] \in 0 .. N BY <1>2
  <2>2. CASE e[n] = N
    <3>1. e[n + 1] = N BY <1>2, <2>2
    <3> QED BY <1>1, <2>2, <3>1
  <2>3. CASE e[n] # N
    <3>1. e[n] < e[n + 1] BY <1>2, <2>3
    <3> QED BY <1>1, <2>1, <3>1
  <2> QED BY <2>2, <2>3
<1>4. \A n \in Nat : n <= N /\ e[n] # N => n <= e[n]
  <2> DEFINE S == {n \in Nat : n <= N /\ e[n] # N => n <= e[n]}
  <2>1. 0 \in S BY <1>1
  <2>2. \A n \in Nat : n \in S => n + 1 \in S
    <3> SUFFICES ASSUME NEW n \in Nat, n \in S, n + 1 <= N, e[n + 1] # N PROVE n + 1 <= e[n + 1] OBVIOUS
    <3>1. n \in 0 .. N BY <1>1
    <3>2. e[n] \in 0 .. N /\ e[n + 1] \in 0 .. N /\ e[n] # N /\ e[n] < e[n + 1] BY <1>2, <3>1
    <3>3. n <= e[n] BY <1>1, <3>1, <3>2
    <3> QED BY <1>1, <3>2, <3>3
  <2> HIDE DEF S
  <2>3. Nat \subseteq S BY <2>1, <2>2, Induct
  <2> QED BY <2>3 DEF S
<1>5. \A n \in 0 .. N : e[n] # N => n <= e[n] /\ n < N /\ e[n] < e[n + 1]
  <2> SUFFICES ASSUME NEW n \in 0 .. N, e[n] # N PROVE n <= e[n] /\ n < N /\ e[n] < e[n + 1] OBVIOUS
  <2>1. e[n] \in 0 .. N /\ n <= e[n] /\ e[n] < e[n + 1] BY <1>1, <1>2, <1>4
  <2> QED BY <1>1, <2>1
<1>6. ASSUME NEW m \in 0 .. N + 1 PROVE \A n \in 0 .. N + 1 : m <= n => e[m] <= e[n]
  <2> DEFINE S == {n \in Nat : n <= N + 1 /\ m <= n => e[m] <= e[n]}
  <2>1. 0 \in S BY <1>1
  <2>2. \A n \in Nat : n \in S => n + 1 \in S
    <3> SUFFICES ASSUME NEW n \in Nat, n \in S, n + 1 <= N + 1, m <= n + 1 PROVE e[m] <= e[n + 1] OBVIOUS
    <3>1. n \in 0 .. N /\ e[m] \in 0 .. N /\ e[n + 1] \in 0 .. N /\ e[n] \in 0 .. N BY <1>1
    <3>2. CASE m = n + 1 BY <3>1, <3>2
    <3>3. CASE m # n + 1
      <4>1. m <= n BY <1>1, <3>3
      <4>2. e[m] <= e[n] /\ e[n] <= e[n + 1] BY <1>1, <1>3, <3>1, <4>1
      <4> QED BY <3>1, <4>2
    <3> QED BY <3>2, <3>3
  <2> HIDE DEF S
  <2>3. Nat \subseteq S BY <2>1, <2>2, Induct, Zenon
  <2> QED BY <1>1, <2>3 DEF S
<1> QED BY <1>3, <1>5, <1>6 DEF N

(* HTTP.  An engine has loaded the parts before the p-th cut; a rank of it *)
(* has given as many parts after that as are in its box, and is filling    *)
(* the next.                                                               *)
LeaderOf(x, w) == (w \div x.tp) * x.tp
Bucket(sizes, n, e, t) ==
  /\ n \in 0 .. Len(sizes) /\ t.at \in Nat /\ t.at - 1 \in e[n] .. e[n + 1] /\ t.names = Run(e[n] + 1, t.at - 1)
  /\ t.at <= Len(sizes) => t.used = SumTo(sizes, t.at - 1) - SumTo(sizes, e[n])
  /\ t.pc = "done" => e[n] = Len(sizes)
Http(x, e, p, w, t, b, r) ==
  /\ r.pc = "recv" /\ r.groups = <<>> /\ r.loads = 0 /\ r.loaded = First(e[p])
  /\ b \in Seq(Seq(Nat)) /\ \A j \in 1 .. Len(b) : b[j] = Run(e[p + j - 1] + 1, e[p + j])
  /\ Bucket(x.sizes, p + Len(b), e, t)
  /\ w = LeaderOf(x, w) /\ t.pc # "raised" => Len(b) = IF t.pc = "gather" THEN 1 ELSE 0
  /\ t.pc = "gather" => w = LeaderOf(x, w)

(* A tensor goes into the bucket only if the bucket does not end before it.*)
LEMMA HttpFills ==
  ASSUME GoodTransfer, Shaped, NEW w \in Gpu, NEW e, Cuts(xfer, e), NEW p \in Nat,
         Http(xfer, e, p, w, tx[w], box[w], rx[w]), AddToBucket(w)
  PROVE  Http(xfer, e, p, w, tx[w], box[w], rx[w])'
<1> DEFINE t == tx[w]
           b == box[w]
           z == xfer.sizes
           N == Len(z)
           n == p + Len(b)
           t2 == tx'[w]
<1>1. /\ t2 = [t EXCEPT !.names = Append(@, t.at), !.used = @ + z[t.at], !.at = @ + 1]
      /\ box'[w] = b /\ rx'[w] = rx[w] /\ xfer' = xfer /\ t.at <= N /\ t.pc = "stream" /\ xfer.path = "http"
      /\ t.names = <<>> \/ t.used + z[t.at] < xfer.room
  BY DEF AddToBucket, NextTensor, OnlyTx, Shaped, Count, GoesOn, By
<1>2. DOMAIN t = SenderFields BY DEF Shaped
<1>3. /\ n \in 0 .. N /\ t.at \in Nat /\ t.at - 1 \in e[n] .. e[n + 1] /\ t.names = Run(e[n] + 1, t.at - 1)
      /\ t.used = SumTo(z, t.at - 1) - SumTo(z, e[n])
  BY <1>1 DEF Http, Bucket
<1>4. N \in Nat /\ (\A k \in 1 .. N : z[k] \in Nat \ {0}) BY DEF GoodTransfer
<1>5. /\ e[n] \in 0 .. N /\ e[n + 1] \in 0 .. N
      /\ IF e[n] = N THEN e[n + 1] = N ELSE EndsAt(xfer, e[n] + 1, e[n + 1])
  <2>1. n \in 0 .. N + 1 /\ n + 1 \in 0 .. N + 1 BY <1>3, <1>4
  <2> QED BY <1>3, <2>1, Zenon DEF Cuts
<1> HIDE DEF t, t2
<1>6. /\ t2.pc = t.pc /\ t2.at = t.at + 1 /\ t2.names = Append(t.names, t.at) /\ t2.used = t.used + z[t.at]
  BY <1>1, <1>2 DEF SenderFields
<1> HIDE DEF z, N, n
<1>7. z = xfer.sizes /\ N = Len(xfer.sizes) BY DEF z, N
<1>8. t.at \in 1 .. N /\ e[n] # N BY <1>1, <1>3, <1>4, <1>5
<1>9. EndsAt(xfer, e[n] + 1, e[n + 1]) BY <1>5, <1>8
<1>10. t.at <= e[n + 1]
  <2>1. e[n + 1] \in MayEnd(xfer, e[n] + 1) BY <1>9 DEF EndsAt
  <2>2. e[n + 1] >= e[n] + 1 BY <2>1 DEF MayEnd
  <2>3. CASE t.names = <<>>
    <3> DEFINE a == e[n] + 1
               m == t.at - 1
    <3>1. a \in Nat \ {0} /\ m \in Nat /\ a <= m + 1 BY <1>3, <1>5, <1>8
    <3>2. t.names = Run(a, m) BY <1>3
    <3> HIDE DEF a, m
    <3>3. m = a - 1 BY <2>3, <3>1, <3>2, Runs, Zenon
    <3>4. t.at = e[n] + 1 BY <1>5, <1>8, <3>3 DEF a, m
    <3> QED BY <2>2, <3>4
  <2>4. CASE t.names # <<>>
    <3> SUFFICES ASSUME ~(t.at <= e[n + 1]) PROVE FALSE OBVIOUS
    <3>1. t.at - 1 = e[n + 1] /\ t.at - 1 # N BY <1>3, <1>5, <1>8
    <3>2. SumTo(z, t.at - 1) - SumTo(z, e[n]) + z[t.at] >= xfer.room
      <4> DEFINE a == e[n] + 1
                 c == t.at - 1
      <4>1. c \in MayEnd(xfer, a) /\ c # N /\ xfer.path = "http" BY <1>1, <2>1, <3>1
      <4>2. a - 1 = e[n] /\ c + 1 = t.at BY <1>5, <1>8
      <4> HIDE DEF a, c
      <4>3. SumTo(z, c) - SumTo(z, a - 1) + z[c + 1] >= xfer.room BY <1>7, <4>1 DEF MayEnd
      <4> QED BY <4>2, <4>3 DEF c
    <3>4. t.used + z[t.at] >= xfer.room BY <1>3, <3>2
    <3>5. t.used + z[t.at] < xfer.room BY <1>1, <2>4
    <3>6. t.used + z[t.at] \in Int /\ xfer.room \in Int
      <4>1. SumTo(z, t.at - 1) \in Nat /\ SumTo(z, e[n]) \in Nat
        <5>1. \A k \in 0 .. N : SumTo(z, k) \in Nat BY <1>4, SumSteps
        <5>2. t.at - 1 \in 0 .. N BY <1>4, <1>8
        <5> QED BY <1>5, <5>1, <5>2
      <4>2. z[t.at] \in Nat BY <1>4, <1>8
      <4>3. xfer.room \in Nat BY DEF GoodTransfer
      <4> QED BY <1>3, <4>1, <4>2, <4>3
    <3> QED BY <3>4, <3>5, <3>6
  <2> QED BY <2>3, <2>4
<1>11. Append(t.names, t.at) = Run(e[n] + 1, t.at)
  <2> DEFINE a == e[n] + 1
             m == t.at - 1
  <2>1. a \in Nat \ {0} /\ m \in Nat /\ a <= m + 1 /\ m + 1 = t.at BY <1>3, <1>5, <1>8
  <2>2. t.names = Run(a, m) BY <1>3
  <2> HIDE DEF a, m
  <2>3. Append(Run(a, m), m + 1) = Run(a, m + 1) BY <2>1, Runs, Zenon
  <2> QED BY <2>1, <2>2, <2>3 DEF a
<1>12. t2.at <= N => t2.used = SumTo(z, t2.at - 1) - SumTo(z, e[n])
  <2>1. t2.at - 1 = t.at BY <1>6, <1>8
  <2>2. SumTo(z, t.at) = SumTo(z, t.at - 1) + z[t.at] BY <1>4, <1>8, SumSteps
  <2>3. SumTo(z, t.at - 1) \in Nat /\ SumTo(z, e[n]) \in Nat /\ z[t.at] \in Nat
    <3>1. \A k \in 0 .. N : SumTo(z, k) \in Nat BY <1>4, SumSteps, Zenon
    <3>2. t.at - 1 \in 0 .. N BY <1>4, <1>8
    <3> QED BY <1>4, <1>5, <1>8, <3>1, <3>2
  <2> QED BY <1>3, <1>6, <2>1, <2>2, <2>3
<1>13. t2.at \in Nat /\ t2.at - 1 = t.at /\ t.at \in e[n] .. e[n + 1] BY <1>3, <1>5, <1>6, <1>8, <1>10
<1>14. Bucket(z, n, e, t2)
  <2>1. t2.names = Run(e[n] + 1, t2.at - 1) BY <1>6, <1>11, <1>13
  <2> QED BY <1>1, <1>3, <1>6, <1>7, <1>12, <1>13, <2>1, Zenon DEF Bucket
<1>15. Http(xfer, e, p, w, t2, b, rx[w]) BY <1>6, <1>7, <1>14 DEF Http, n, t
<1> QED BY <1>1, <1>15 DEF t2

(* A bucket is given to the gather where, and only where, a part ends.     *)
LEMMA HttpFlushes ==
  ASSUME GoodTransfer, Shaped, NEW w \in Gpu, NEW e, Cuts(xfer, e), NEW p \in Nat,
         Http(xfer, e, p, w, tx[w], box[w], rx[w]), FlushBucket(w)
  PROVE  Http(xfer, e, p, w, tx[w], box[w], rx[w])'
<1> DEFINE t == tx[w]
           b == box[w]
           z == xfer.sizes
           N == Len(z)
           n == p + Len(b)
           t2 == tx'[w]
           b2 == box'[w]
           first == w = LeaderOf(xfer, w)
<1>1. /\ t2 = [t EXCEPT !.names = <<>>, !.used = 0, !.pc = IF first THEN "gather" ELSE @]
      /\ b2 = Append(b, t.names) /\ rx'[w] = rx[w] /\ xfer' = xfer /\ t.pc = "stream" /\ xfer.path = "http"
      /\ t.names # <<>> /\ (t.at <= N => t.used + z[t.at] >= xfer.room)
  <2>1. /\ t2 = [t EXCEPT !.names = <<>>, !.used = 0, !.pc = IF first THEN "gather" ELSE @]
        /\ b2 = Append(b, t.names) /\ rx'[w] = rx[w] /\ xfer' = xfer /\ t.pc = "stream" /\ xfer.path = "http"
    BY DEF FlushBucket, OnlyTx, Shaped, By, FirstOfEngine, LeaderOf
  <2>2. IF t.at > N THEN t.names # <<>> ELSE ~GoesOn(w) BY DEF FlushBucket, Count
  <2>3. t.names # <<>> BY <2>2 DEF GoesOn
  <2>4. ASSUME t.at <= N PROVE t.used + z[t.at] >= xfer.room
    <3>1. N \in Nat /\ t.at \in Nat /\ xfer.room \in Nat BY DEF GoodTransfer, Http, Bucket
    <3>2. ~(t.used + z[t.at] < xfer.room) BY <2>2, <2>4, <3>1 DEF GoesOn
    <3>3. t.used + z[t.at] \in Int
      <4>1. \A k \in 1 .. N : z[k] \in Nat \ {0} BY DEF GoodTransfer
      <4>2. \A k \in 0 .. N : SumTo(z, k) \in Nat BY <3>1, <4>1, SumSteps, Zenon
      <4>3. /\ n \in 0 .. N /\ t.at - 1 \in e[n] .. e[n + 1]
            /\ t.used = SumTo(z, t.at - 1) - SumTo(z, e[n])
        BY <2>4 DEF Http, Bucket
      <4>4. e[n] \in 0 .. N /\ e[n + 1] \in 0 .. N
        <5>1. n \in 0 .. N + 1 /\ n + 1 \in 0 .. N + 1 BY <3>1, <4>3
        <5> QED BY <5>1, Zenon DEF Cuts
      <4>5. t.at \in 1 .. N /\ t.at - 1 \in 0 .. N
        <5> HIDE DEF t, N, n
        <5> QED BY <2>4, <3>1, <4>3, <4>4
      <4> HIDE DEF t, z, n, N
      <4>6. SumTo(z, t.at - 1) \in Nat /\ SumTo(z, e[n]) \in Nat /\ z[t.at] \in Nat
        BY <3>1, <4>1, <4>2, <4>4, <4>5
      <4> QED BY <4>3, <4>6
    <3> HIDE DEF t, z
    <3> QED BY <3>1, <3>2, <3>3
  <2> QED BY <2>1, <2>3, <2>4
<1>2. DOMAIN t = SenderFields BY DEF Shaped
<1>3. /\ n \in 0 .. N /\ t.at \in Nat /\ t.at - 1 \in e[n] .. e[n + 1] /\ t.names = Run(e[n] + 1, t.at - 1)
      /\ t.at <= N => t.used = SumTo(z, t.at - 1) - SumTo(z, e[n])
  BY DEF Http, Bucket
<1>4. N \in Nat /\ (\A k \in 1 .. N : z[k] \in Nat \ {0}) BY DEF GoodTransfer
<1>5. e[n] \in 0 .. N /\ e[n + 1] \in 0 .. N
  <2>1. n \in 0 .. N + 1 /\ n + 1 \in 0 .. N + 1 BY <1>3, <1>4
  <2> QED BY <2>1, Zenon DEF Cuts
<1>6. IF e[n] = N THEN e[n + 1] = N ELSE EndsAt(xfer, e[n] + 1, e[n + 1]) BY <1>3, Zenon DEF Cuts
<1>7. b \in Seq(Seq(Nat)) /\ Len(b) \in Nat /\ \A j \in 1 .. Len(b) : b[j] = Run(e[p + j - 1] + 1, e[p + j])
  <2>1. b \in Seq(Seq(Nat)) /\ \A j \in 1 .. Len(b) : b[j] = Run(e[p + j - 1] + 1, e[p + j]) BY Zenon DEF Http
  <2> HIDE DEF b
  <2>2. Len(b) \in Nat BY <2>1
  <2> QED BY <2>1, <2>2
<1>8. n = p + Len(b) OBVIOUS
<1> HIDE DEF t, t2, z, N, n, b, b2, first
<1>9. /\ t2.pc = IF first THEN "gather" ELSE "stream"
      /\ t2.at = t.at /\ t2.names = <<>> /\ t2.used = 0
  BY <1>1, <1>2 DEF SenderFields
<1>10. z = xfer.sizes /\ N = Len(xfer.sizes) BY DEF z, N
<1>11. t.at - 1 \in Nat /\ e[n] < t.at - 1 /\ t.at - 1 <= N /\ e[n] # N /\ t.names \in Seq(Nat)
  <2> DEFINE a == e[n] + 1
             m == t.at - 1
  <2>1. a \in Nat \ {0} /\ m \in Nat /\ a <= m + 1 /\ m <= N
    <3>1. t.at \in Nat /\ t.at - 1 \in e[n] .. e[n + 1] BY <1>3
    <3>2. e[n] \in Nat /\ e[n + 1] \in Nat /\ e[n + 1] <= N BY <1>4, <1>5
    <3> QED BY <1>4, <3>1, <3>2
  <2>2. t.names = Run(a, m) BY <1>3
  <2> HIDE DEF a, m
  <2>3. m # a - 1 /\ Run(a, m) \in Seq(Nat) BY <1>1, <2>1, <2>2, Runs
  <2> QED BY <1>3, <1>5, <2>1, <2>2, <2>3 DEF a, m
<1>12. EndsAt(xfer, e[n] + 1, e[n + 1]) BY <1>6, <1>11
<1>13. t.at - 1 = e[n + 1]
  <2>1. CASE t.at <= N
    <3> DEFINE a == e[n] + 1
               c == t.at - 1
    <3>1. a - 1 = e[n] /\ c + 1 = t.at /\ c \in a .. N BY <1>3, <1>4, <1>5, <1>11, <2>1
    <3>2. SumTo(z, c) - SumTo(z, a - 1) + z[c + 1] >= xfer.room
      <4>1. SumTo(z, t.at - 1) - SumTo(z, e[n]) + z[t.at] >= xfer.room BY <1>1, <1>3, <2>1
      <4> QED BY <3>1, <4>1
    <3> HIDE DEF a, c
    <3>3. c \in MayEnd(xfer, a) BY <1>1, <1>10, <3>1, <3>2 DEF MayEnd
    <3>4. e[n + 1] <= c BY <1>12, <3>3 DEF EndsAt, a
    <3> QED BY <1>3, <1>5, <1>11, <3>4 DEF c
  <2>2. CASE ~(t.at <= N) BY <1>3, <1>4, <1>5, <1>11, <2>2
  <2> QED BY <2>1, <2>2
<1>14. n + 1 \in 0 .. N /\ e[n + 1] <= e[n + 1 + 1] /\ e[n + 1 + 1] \in 0 .. N
  <2>1. n < N BY <1>3, <1>4, <1>10, <1>11, CutsGrow
  <2>2. n + 1 \in 0 .. N /\ n + 1 + 1 \in 0 .. N + 1 BY <1>3, <1>4, <2>1
  <2>3. \A k \in 0 .. N : e[k] <= e[k + 1] BY <1>4, <1>10, CutsGrow
  <2>4. e[n + 1 + 1] \in 0 .. N BY <1>10, <2>2 DEF Cuts
  <2> QED BY <2>2, <2>3, <2>4
<1>15. Len(b2) = Len(b) + 1 /\ b2 \in Seq(Seq(Nat)) /\ \A j \in 1 .. Len(b2) : b2[j] = Run(e[p + j - 1] + 1, e[p + j])
  <2>1. /\ Len(b2) = Len(b) + 1 /\ b2 \in Seq(Seq(Nat)) /\ b2[Len(b) + 1] = t.names
        /\ \A j \in 1 .. Len(b) : b2[j] = b[j]
    BY <1>1, <1>7, <1>11, AppendProperties
  <2>2. t.names = Run(e[n] + 1, e[n + 1]) BY <1>3, <1>13
  <2>3. n = p + (Len(b) + 1) - 1 /\ n + 1 = p + (Len(b) + 1) BY <1>7, <1>8
  <2>4. \A j \in 1 .. Len(b) + 1 : j \in 1 .. Len(b) \/ j = Len(b) + 1 BY <1>7
  <2> QED BY <1>7, <2>1, <2>2, <2>3, <2>4, Zenon
<1>16. Bucket(z, p + Len(b2), e, t2)
  <2>1. p + Len(b2) = n + 1 BY <1>7, <1>8, <1>15
  <2>2. t2.names = Run(e[n + 1] + 1, e[n + 1])
    <3> DEFINE c == e[n + 1]
    <3>1. c \in Nat BY <1>5
    <3> HIDE DEF c
    <3>2. Run(c + 1, c) = <<>> BY <3>1, NoRun
    <3> QED BY <1>9, <3>2 DEF c
  <2>3. t2.at - 1 = e[n + 1] /\ t2.at - 1 \in e[n + 1] .. e[n + 1 + 1] BY <1>5, <1>9, <1>13, <1>14
  <2>4. t2.used = SumTo(z, t2.at - 1) - SumTo(z, e[n + 1])
    <3>1. SumTo(z, e[n + 1]) \in Nat
      <4>1. \A k \in 0 .. N : SumTo(z, k) \in Nat BY <1>4, SumSteps, Zenon
      <4> QED BY <1>5, <4>1
    <3> QED BY <1>9, <2>3, <3>1
  <2>5. t2.at \in Nat /\ t2.pc # "done" BY <1>3, <1>9
  <2> QED BY <1>10, <1>14, <2>1, <2>2, <2>3, <2>4, <2>5 DEF Bucket
<1>17. first => Len(b) = 0 BY <1>1 DEF Http, first, t, b
<1>18. Http(xfer, e, p, w, t2, b2, rx[w])
  <2>1. first => Len(b2) = 1 BY <1>7, <1>15, <1>17
  <2> QED BY <1>9, <1>10, <1>15, <1>16, <2>1 DEF Http, first
<1> QED BY <1>1, <1>18 DEF t2, b2

(* A rank that is told that its post failed, or that asks the engine to    *)
(* flush its cache once all is given.                                      *)
LEMMA HttpEnds ==
  ASSUME GoodTransfer, Shaped, NEW w \in Gpu, NEW e, Cuts(xfer, e), NEW p \in Nat,
         Http(xfer, e, p, w, tx[w], box[w], rx[w]), PostFails(w) \/ FlushCache(w)
  PROVE  Http(xfer, e, p, w, tx[w], box[w], rx[w])'
<1> DEFINE t == tx[w]
           b == box[w]
           r == rx[w]
           z == xfer.sizes
           N == Len(z)
           n == p + Len(b)
           t2 == tx'[w]
           r2 == rx'[w]
<1>1. /\ DOMAIN t = SenderFields /\ DOMAIN r = ReceiverFields /\ DOMAIN tx = Gpu /\ DOMAIN rx = Gpu BY DEF Shaped
<1>2. box'[w] = b /\ xfer' = xfer BY DEF PostFails, FlushCache
<1>3. /\ t2.at = t.at /\ t2.names = t.names
      /\ r2.pc = r.pc /\ r2.groups = r.groups /\ r2.loads = r.loads /\ r2.loaded = r.loaded
      /\ \/ t.pc = "gather" /\ t2.pc = "raised" /\ t2.used = t.used
         \/ t.pc = "stream" /\ t2.pc \in {"stream", "done", "raised"} /\ t.at > N /\ t.names = <<>>
  <2>1. CASE PostFails(w) BY <1>1, <2>1 DEF PostFails, OnlyTx, SenderFields
  <2>2. CASE FlushCache(w)
    <3>1. t.pc = "stream" /\ t.at > N /\ t.names = <<>> BY <2>2 DEF FlushCache, Streamed, Count
    <3>2. \/ t2 = [t EXCEPT !.pc = "done"] /\ (r2 = r \/ r2 = [r EXCEPT !.good = TRUE])
          \/ t2 = [t EXCEPT !.used = @ + 1, !.pc = IF t.used + 1 = FlushTries THEN "raised" ELSE @] /\ r2 = r
      BY <1>1, <2>2, Zenon DEF FlushCache, OnlyTx
    <3> HIDE DEF t, t2, r, r2, N
    <3> QED BY <1>1, <3>1, <3>2, Zenon DEF SenderFields, ReceiverFields
  <2> QED BY <2>1, <2>2
<1>4. Bucket(z, n, e, t) BY DEF Http
<1>5. N \in Nat BY DEF GoodTransfer
<1>6. IF t.at > N THEN t.at - 1 = N ELSE TRUE
  <2>1. n \in 0 .. N /\ t.at \in Nat /\ t.at - 1 \in e[n] .. e[n + 1] BY <1>4 DEF Bucket
  <2>2. e[n] \in 0 .. N /\ e[n + 1] \in 0 .. N
    <3>1. n \in 0 .. N + 1 /\ n + 1 \in 0 .. N + 1 BY <1>5, <2>1
    <3> QED BY <3>1, Zenon DEF Cuts
  <2> HIDE DEF t, N, n
  <2> QED BY <1>5, <2>1, <2>2
<1>7. Http(xfer, e, p, w, t, b, r) OBVIOUS
<1>8. N = Len(z) /\ z = xfer.sizes /\ n = p + Len(b) OBVIOUS
<1> HIDE DEF t, b, r, z, N, n, t2, r2
<1>9. t2.pc = "done" => e[n] = N
  <2> SUFFICES ASSUME t2.pc = "done" PROVE e[n] = N OBVIOUS
  <2>1. t.at > N /\ t.names = <<>> /\ t.at - 1 = N BY <1>3, <1>6
  <2>2. n \in 0 .. N /\ t.names = Run(e[n] + 1, N) /\ N \in e[n] .. e[n + 1] BY <1>4, <1>8, <2>1 DEF Bucket
  <2>3. e[n] \in 0 .. N
    <3>1. n \in 0 .. N + 1 BY <1>5, <2>2
    <3> QED BY <1>8, <3>1 DEF Cuts
  <2> DEFINE a == e[n] + 1
  <2>4. a \in Nat \ {0} /\ a <= N + 1 /\ Run(a, N) = <<>> BY <1>5, <2>1, <2>2, <2>3
  <2> HIDE DEF a
  <2>5. N = a - 1 BY <1>5, <2>4, Runs, Zenon
  <2> QED BY <1>5, <2>3, <2>5 DEF a
<1>10. Bucket(z, n, e, t2)
  <2>1. t2.at <= N => t2.used = t.used
    <3>1. t.at \in Nat BY <1>4 DEF Bucket
    <3> QED BY <1>3, <1>5, <3>1
  <2> QED BY <1>3, <1>4, <1>8, <1>9, <2>1 DEF Bucket
<1>11. Http(xfer, e, p, w, t2, b, r2) BY <1>3, <1>7, <1>8, <1>10 DEF Http
<1> QED BY <1>2, <1>11 DEF t2, r2

(* A greater multiple is greater by as much at least.                      *)
LEMMA TimesGrows ==
  ASSUME NEW m \in Nat \ {0}, NEW a \in Nat, NEW b \in Nat, a < b
  PROVE  m * a + m <= m * b
<1>1. b - a - 1 \in Nat /\ b = a + 1 + (b - a - 1) OBVIOUS
<1> DEFINE d == b - a - 1
<1>2. d \in Nat /\ b = a + 1 + d BY <1>1
<1> HIDE DEF d
<1>3. m * b = m * a + m + m * d BY <1>2
<1>4. m * d \in Nat /\ m * a \in Nat BY <1>2
<1> QED BY <1>3, <1>4

(* Quotient and remainder.                                                 *)
LEMMA Divides ==
  ASSUME NEW m \in Nat \ {0}, NEW a \in Nat
  PROVE  a \div m \in Nat /\ a % m \in 0 .. m - 1 /\ a = m * (a \div m) + (a % m)
OBVIOUS

(* The first rank of an engine is its own first rank.                      *)
LEMMA LeadersLead ==
  ASSUME NEW x, x.tp \in 1 .. Gpus, NEW w \in Gpu
  PROVE  LeaderOf(x, w) \in Gpu /\ LeaderOf(x, LeaderOf(x, w)) = LeaderOf(x, w)
<1> DEFINE m == x.tp
           q == w \div m
           r == w % m
<1>1. m \in Nat \ {0} /\ Gpus \in Nat /\ w \in Nat /\ w <= Gpus - 1
  <2>1. Gpus \in Nat \ {0} BY TransferConstants
  <2> QED BY <2>1 DEF Gpu
<1> HIDE DEF m
<1>2. q \in Nat /\ r \in 0 .. m - 1 /\ w = m * q + r BY <1>1, Divides, Zenon
<1> HIDE DEF q, r
<1> DEFINE l == q * m
<1>3. l \in Nat /\ l = m * q /\ l <= w BY <1>1, <1>2
<1>4. LeaderOf(x, w) = l BY DEF LeaderOf, q, m
<1> HIDE DEF l
<1> DEFINE d == l \div m
           s == l % m
<1>5. d \in Nat /\ s \in 0 .. m - 1 /\ l = m * d + s BY <1>1, <1>3, Divides, Zenon
<1> HIDE DEF d, s
<1>6. d = q
  <2>1. m * d \in Nat /\ m * q \in Nat BY <1>1, <1>2, <1>5
  <2>2. CASE d < q
    <3>1. m * d + m <= m * q BY <1>1, <1>2, <1>5, <2>2, TimesGrows
    <3> QED BY <1>1, <1>3, <1>5, <2>1, <3>1
  <2>3. CASE q < d
    <3>1. m * q + m <= m * d BY <1>1, <1>2, <1>5, <2>3, TimesGrows
    <3> QED BY <1>1, <1>3, <1>5, <2>1, <3>1
  <2> QED BY <1>2, <1>5, <2>2, <2>3
<1>7. LeaderOf(x, l) = d * m BY DEF LeaderOf, d, m
<1>8. l \in Gpu BY <1>1, <1>3 DEF Gpu
<1> QED BY <1>4, <1>6, <1>7, <1>8 DEF l

HttpAll(e, posts) ==
  \A v \in Gpu :
    /\ posts[v] = posts[LeaderOf(xfer, v)]
    /\ Http(xfer, e, posts[v], v, tx[v], box[v], rx[v])

(* What an engine loads is one part from all its ranks.                    *)
LEMMA HttpPosts ==
  ASSUME GoodTransfer, Shaped, NEW w \in Gpu, NEW e, Cuts(xfer, e),
         NEW posts \in [Gpu -> Nat], HttpAll(e, posts), Post(w)
  PROVE  \E now \in [Gpu -> Nat] : HttpAll(e, now)'
<1> DEFINE N == Len(xfer.sizes)
           mates == EngineOf(w)
           now == [v \in Gpu |-> IF v \in mates THEN posts[v] + 1 ELSE posts[v]]
           p == posts[w]
<1>1. /\ tx[w].pc = "gather" /\ \A v \in mates : box[v] # <<>>
      /\ rx' = [v \in Gpu |->
                  IF v \in mates
                    THEN [rx[v] EXCEPT !.loaded = @ \cup {<<box[w][1][k], box[v][1][k]>> : k \in DOMAIN box[w][1]}]
                    ELSE rx[v]]
      /\ box' = [v \in Gpu |-> IF v \in mates THEN Tail(box[v]) ELSE box[v]]
      /\ tx' = [tx EXCEPT ![w] = [tx[w] EXCEPT !.pc = "stream"]] /\ xfer' = xfer
  BY DEF Post, OnlyTx
<1>2. w = LeaderOf(xfer, w) BY <1>1 DEF HttpAll, Http
<1>3. /\ mates \subseteq Gpu /\ w \in mates
      /\ \A v \in Gpu : v \in mates <=> LeaderOf(xfer, v) = w
  BY <1>2 DEF EngineOf, FirstOfEngine, LeaderOf
<1>4. N \in Nat BY DEF GoodTransfer
<1> HIDE DEF mates, N
<1>5. now \in [Gpu -> Nat] /\ \A v \in Gpu : now[v] = now[LeaderOf(xfer, v)]
  <2>1. \A v \in Gpu : v \in mates <=> LeaderOf(xfer, v) \in mates
    <3>1. \A v \in Gpu : LeaderOf(xfer, v) \in Gpu /\ LeaderOf(xfer, LeaderOf(xfer, v)) = LeaderOf(xfer, v)
      BY LeadersLead DEF GoodTransfer
    <3> QED BY <1>3, <3>1
  <2>2. \A v \in Gpu : LeaderOf(xfer, v) \in Gpu BY LeadersLead DEF GoodTransfer
  <2>3. \A v \in Gpu : posts[v] = posts[LeaderOf(xfer, v)] BY DEF HttpAll
  <2> QED BY <2>1, <2>2, <2>3
<1>6. \A v \in Gpu : v \notin mates => now[v] = posts[v] /\ tx'[v] = tx[v] /\ box'[v] = box[v] /\ rx'[v] = rx[v]
  BY <1>1, <1>3 DEF Shaped
<1>7. \A v \in mates : posts[v] = p /\ now[v] = p + 1 BY <1>3 DEF HttpAll
<1>8. p \in Nat BY <1>3
<1> HIDE DEF now, p
<1>9. ASSUME NEW v \in mates
      PROVE  /\ box[v] \in Seq(Seq(Nat)) /\ Len(box[v]) \in Nat \ {0}
             /\ \A j \in 1 .. Len(box[v]) : box[v][j] = Run(e[p + j - 1] + 1, e[p + j])
             /\ rx[v].loaded = First(e[p]) /\ p + Len(box[v]) \in 0 .. N
  <2>1. Http(xfer, e, p, v, tx[v], box[v], rx[v]) BY <1>3, <1>7 DEF HttpAll
  <2>2. box[v] # <<>> /\ box[v] \in Seq(Seq(Nat)) BY <1>1, <2>1 DEF Http
  <2>3. Len(box[v]) \in Nat \ {0} BY <2>2
  <2> QED BY <2>1, <2>2, <2>3 DEF Http, Bucket, N
<1>10. p < N /\ e[p] \in 0 .. N /\ e[p + 1] \in 0 .. N /\ e[p] <= e[p + 1]
  <2>1. Len(box[w]) \in Nat \ {0} /\ p + Len(box[w]) \in 0 .. N BY <1>3, <1>9
  <2>2. p \in 0 .. N /\ p + 1 \in 0 .. N + 1 /\ p \in 0 .. N + 1 /\ p < N BY <1>4, <1>8, <2>1
  <2>3. e \in [0 .. N + 1 -> 0 .. N] BY DEF Cuts, N
  <2>4. \A n \in 0 .. N : e[n] <= e[n + 1] BY <1>4, CutsGrow DEF N
  <2> QED BY <2>2, <2>3, <2>4
<1>11. ASSUME NEW v \in mates PROVE rx'[v].loaded = First(e[p + 1])
  <2> DEFINE a == e[p] + 1
             c == e[p + 1]
  <2>1. box[v][1] = Run(a, c) /\ box[w][1] = Run(a, c)
    <3>1. p + 1 - 1 = p BY <1>8
    <3>2. 1 \in 1 .. Len(box[v]) BY <1>9
    <3>3. 1 \in 1 .. Len(box[w]) BY <1>3, <1>9
    <3> QED BY <1>3, <1>9, <3>1, <3>2, <3>3, Zenon
  <2>2. a \in Nat \ {0} /\ c \in Nat /\ a <= c + 1 /\ a - 1 \in Nat /\ a - 1 <= c /\ a - 1 + 1 = a /\ a - 1 = e[p]
    BY <1>4, <1>10
  <2>3. rx[v].loaded = First(e[p]) BY <1>9
  <2>4. v \in Gpu /\ DOMAIN rx[v] = ReceiverFields BY <1>3 DEF Shaped
  <2> HIDE DEF a, c
  <2>5. DOMAIN Run(a, c) = 1 .. c - a + 1 /\ \A k \in 1 .. c - a + 1 : Run(a, c)[k] = a + k - 1
    <3>1. c - a + 1 \in Nat BY <2>2
    <3> QED BY <3>1 DEF Run
  <2>6. {<<Run(a, c)[k], Run(a, c)[k]>> : k \in DOMAIN Run(a, c)} = {<<i, i>> : i \in a .. c}
    <3>1. \A k \in 1 .. c - a + 1 : a + k - 1 \in a .. c BY <2>2
    <3>2. \A i \in a .. c : i - a + 1 \in 1 .. c - a + 1 /\ a + (i - a + 1) - 1 = i BY <2>2
    <3> QED BY <2>5, <3>1, <3>2
  <2>7. rx'[v].loaded = rx[v].loaded \cup {<<Run(a, c)[k], Run(a, c)[k]>> : k \in DOMAIN Run(a, c)}
    BY <1>1, <2>1, <2>4 DEF ReceiverFields
  <2>8. First(a - 1) \cup {<<i, i>> : i \in a - 1 + 1 .. c} = First(c) BY <2>2, FirstGrows
  <2> QED BY <2>2, <2>3, <2>6, <2>7, <2>8 DEF c
<1>12. ASSUME NEW v \in mates PROVE Http(xfer, e, p + 1, v, tx'[v], box'[v], rx'[v])
  <2>1. Http(xfer, e, p, v, tx[v], box[v], rx[v]) BY <1>3, <1>7 DEF HttpAll
  <2>2. /\ v \in Gpu /\ DOMAIN rx[v] = ReceiverFields /\ DOMAIN tx[v] = SenderFields /\ DOMAIN tx = Gpu
    BY <1>3 DEF Shaped
  <2>3. rx'[v].pc = "recv" /\ rx'[v].groups = <<>> /\ rx'[v].loads = 0
    <3>1. rx[v].pc = "recv" /\ rx[v].groups = <<>> /\ rx[v].loads = 0 BY <2>1 DEF Http
    <3>2. rx'[v].pc = rx[v].pc /\ rx'[v].groups = rx[v].groups /\ rx'[v].loads = rx[v].loads
      BY <1>1, <2>2, Zenon DEF ReceiverFields
    <3> QED BY <3>1, <3>2
  <2> DEFINE b == box[v]
             b2 == box'[v]
  <2>4. b2 = Tail(b) BY <1>1, <2>2
  <2>5. /\ b \in Seq(Seq(Nat)) /\ Len(b) \in Nat \ {0}
        /\ \A j \in 1 .. Len(b) : b[j] = Run(e[p + j - 1] + 1, e[p + j])
    BY <1>9
  <2> HIDE DEF b, b2
  <2>6. b2 \in Seq(Seq(Nat)) /\ Len(b2) = Len(b) - 1 /\ \A j \in 1 .. Len(b) - 1 : b2[j] = b[j + 1]
    <3>1. b # <<>> BY <2>5
    <3> QED BY <2>4, <2>5, <3>1, HeadTailProperties
  <2>7. \A j \in 1 .. Len(b2) : b2[j] = Run(e[p + 1 + j - 1] + 1, e[p + 1 + j])
    <3> SUFFICES ASSUME NEW j \in 1 .. Len(b) - 1 PROVE b2[j] = Run(e[p + 1 + j - 1] + 1, e[p + 1 + j]) BY <2>6
    <3>1. j + 1 \in 1 .. Len(b) /\ p + (j + 1) - 1 = p + 1 + j - 1 /\ p + (j + 1) = p + 1 + j BY <1>8, <2>5
    <3>2. b[j + 1] = Run(e[p + (j + 1) - 1] + 1, e[p + (j + 1)]) BY <2>5, <3>1
    <3> QED BY <2>6, <3>1, <3>2, Zenon
  <2>8. p + 1 + Len(b2) = p + Len(b) BY <1>8, <2>5, <2>6
  <2>9. /\ tx'[v].at = tx[v].at /\ tx'[v].names = tx[v].names /\ tx'[v].used = tx[v].used
        /\ tx'[v].pc = IF v = w THEN "stream" ELSE tx[v].pc
    BY <1>1, <2>2 DEF SenderFields
  <2>10. Bucket(xfer.sizes, p + 1 + Len(b2), e, tx'[v])
    <3>1. Bucket(xfer.sizes, p + Len(b), e, tx[v]) BY <2>1 DEF Http, b
    <3>2. tx'[v].pc = "done" => tx[v].pc = "done" BY <2>9
    <3> QED BY <2>8, <2>9, <3>1, <3>2 DEF Bucket
  <2>11. v = LeaderOf(xfer, v) <=> v = w BY <1>2, <1>3
  <2>12. v = w => Len(b2) = 0
    <3> SUFFICES ASSUME v = w PROVE Len(b2) = 0 OBVIOUS
    <3>1. Len(b) = 1 BY <1>1, <1>2, <2>1 DEF Http, b
    <3> QED BY <2>6, <3>1
  <2>13. v # w => tx'[v].pc # "gather" BY <2>1, <2>9, <2>11 DEF Http
  <2>14. rx'[v].loaded = First(e[p + 1]) BY <1>11
  <2>15. Http(xfer, e, p + 1, v, tx'[v], b2, rx'[v])
    BY <2>3, <2>6, <2>7, <2>9, <2>10, <2>11, <2>12, <2>13, <2>14 DEF Http
  <2> QED BY <2>15 DEF b2
<1>13. ASSUME NEW v \in Gpu PROVE Http(xfer, e, now[v], v, tx'[v], box'[v], rx'[v])
  <2>1. CASE v \in mates BY <1>7, <1>12, <2>1
  <2>2. CASE v \notin mates
    <3>1. Http(xfer, e, posts[v], v, tx[v], box[v], rx[v]) BY DEF HttpAll
    <3> QED BY <1>6, <2>2, <3>1
  <2> QED BY <2>1, <2>2
<1>14. PICK new \in [Gpu -> Nat] : new = now BY <1>5
<1>15. HttpAll(e, new)'
  <2>1. \A v \in Gpu : new[v] = new[LeaderOf(xfer, v)] BY <1>5, <1>14
  <2>2. \A v \in Gpu : Http(xfer, e, new[v], v, tx'[v], box'[v], rx'[v]) BY <1>13, <1>14
  <2> QED BY <1>1, <2>1, <2>2, Zenon DEF HttpAll
<1> QED BY <1>15

(* Broadcasts.  Producer and consumer cut off the same group.              *)
GroupAt(e, n) == [from |-> e[n - 1] + 1, to |-> e[n]]
Chain(x, e, gs) ==
  /\ gs \in Seq([from : Nat, to : Nat]) /\ Len(gs) \in 0 .. Len(x.sizes)
  /\ \A j \in 1 .. Len(gs) : gs[j] = GroupAt(e, j)
  /\ Len(gs) # 0 => e[Len(gs) - 1] # Len(x.sizes)

(* Producer and consumer, each by itself, cut the next group where the     *)
(* list of cuts says.                                                      *)
LEMMA GroupsAgree ==
  ASSUME GoodTransfer, xfer.path = "collective", NEW e, Cuts(xfer, e),
         NEW n \in 0 .. Count, e[n] # Count
  PROVE  ProducerGroup(e[n] + 1) = GroupAt(e, n + 1) /\ ConsumerGroup(e[n] + 1) = GroupAt(e, n + 1)
<1> DEFINE N == Count
           a == e[n] + 1
           c == e[n + 1]
           Past(i) == SumTo(xfer.sizes, i) - SumTo(xfer.sizes, a - 1) > xfer.room
           Fit(g) == (g.to = N \/ Past(g.to)) /\ \A i \in a .. g.to - 1 : ~Past(i)
           G == [from : {a}, to : a .. N]
<1>1. N \in Nat /\ N = Len(xfer.sizes) BY DEF GoodTransfer, Count
<1>2. e[n] \in 0 .. N /\ EndsAt(xfer, a, c)
  <2>1. n \in 0 .. N + 1 /\ n \in 0 .. Len(xfer.sizes) BY <1>1
  <2> QED BY <1>1, <2>1 DEF Cuts
<1>3. /\ ProducerGroup(a) = CHOOSE g \in G : Fit(g)
      /\ ConsumerGroup(a) = CHOOSE g \in G : Fit(g)
  BY DEF ProducerGroup, ConsumerGroup, ProducerCloses, ConsumerCloses, Bytes
<1> HIDE DEF N
<1>4. a \in Nat BY <1>1, <1>2
<1> HIDE DEF a, c
<1>5. \A i : i \in MayEnd(xfer, a) <=> (i \in a .. N /\ (i = N \/ Past(i))) BY <1>1 DEF MayEnd
<1> HIDE DEF Past
<1>6. /\ c \in a .. N /\ (c = N \/ Past(c))
      /\ \A i \in a .. N : i = N \/ Past(i) => c <= i
  BY <1>2, <1>5 DEF EndsAt
<1>7. [from |-> a, to |-> c] \in G /\ Fit([from |-> a, to |-> c])
  <2>1. \A i \in a .. c - 1 : ~Past(i)
    <3> SUFFICES ASSUME NEW i \in a .. c - 1, Past(i) PROVE FALSE OBVIOUS
    <3>1. i \in a .. N /\ i < c BY <1>1, <1>4, <1>6
    <3> QED BY <1>1, <1>4, <1>6, <3>1
  <2> QED BY <1>6, <2>1
<1>8. \A g \in G : Fit(g) => g = [from |-> a, to |-> c]
  <2> SUFFICES ASSUME NEW g \in G, Fit(g) PROVE g = [from |-> a, to |-> c] OBVIOUS
  <2>1. g = [from |-> a, to |-> g.to] /\ g.to \in a .. N OBVIOUS
  <2>2. c <= g.to BY <1>6, <2>1
  <2>3. ~(c < g.to)
    <3> SUFFICES ASSUME c < g.to PROVE FALSE OBVIOUS
    <3>1. c \in a .. g.to - 1 /\ c # N BY <1>1, <1>4, <1>6, <2>1
    <3> QED BY <1>6, <3>1
  <2>4. g.to = c BY <1>1, <1>4, <1>6, <2>1, <2>2, <2>3
  <2> QED BY <2>1, <2>4
<1> HIDE DEF Fit, G
<1>9. (CHOOSE g \in G : Fit(g)) = [from |-> a, to |-> c] BY <1>7, <1>8
<1>10. GroupAt(e, n + 1) = [from |-> a, to |-> c]
  <2>1. n + 1 - 1 = n OBVIOUS
  <2> QED BY <2>1 DEF GroupAt, a, c
<1> QED BY <1>3, <1>9, <1>10, Zenon DEF a

(* A worker that cuts off the next group still has the common ones.        *)
LEMMA ChainGrows ==
  ASSUME GoodTransfer, xfer.path = "collective", NEW e, Cuts(xfer, e), NEW gs, Chain(xfer, e, gs)
  PROVE  /\ Upto(gs) = e[Len(gs)] /\ Upto(gs) \in 0 .. Count
         /\ Upto(gs) + 1 <= Count =>
              /\ Chain(xfer, e, Append(gs, ProducerGroup(Upto(gs) + 1)))
              /\ Chain(xfer, e, Append(gs, ConsumerGroup(Upto(gs) + 1)))
              /\ Len(Append(gs, ProducerGroup(Upto(gs) + 1))) = Len(gs) + 1
              /\ Len(Append(gs, ConsumerGroup(Upto(gs) + 1))) = Len(gs) + 1
<1> DEFINE N == Count
           n == Len(gs)
           Part == [from : Nat, to : Nat]
<1>1. N \in Nat /\ N = Len(xfer.sizes) BY DEF GoodTransfer, Count
<1>2. gs \in Seq(Part) /\ n \in 0 .. N /\ (\A j \in 1 .. n : gs[j] = GroupAt(e, j)) BY <1>1 DEF Chain
<1>3. n \in 0 .. N + 1 /\ n + 1 \in 0 .. N + 1 BY <1>1, <1>2
<1>4. e[n] \in 0 .. N /\ e[n + 1] \in 0 .. N /\ e[0] = 0 BY <1>1, <1>3 DEF Cuts
<1>5. Upto(gs) = e[n]
  <2>1. CASE gs = <<>>
    <3>1. n = 0 BY <2>1
    <3> QED BY <1>4, <2>1, <3>1 DEF Upto
  <2>2. CASE gs # <<>>
    <3>1. n \in 1 .. n BY <1>2, <2>2
    <3>2. gs[n] = GroupAt(e, n) BY <1>2, <3>1
    <3>3. GroupAt(e, n).to = e[n] BY DEF GroupAt
    <3> QED BY <2>2, <3>2, <3>3 DEF Upto
  <2> QED BY <2>1, <2>2
<1>6. ASSUME e[n] + 1 <= N
      PROVE  Chain(xfer, e, Append(gs, GroupAt(e, n + 1))) /\ Len(Append(gs, GroupAt(e, n + 1))) = n + 1
  <2> DEFINE g == GroupAt(e, n + 1)
             ws == Append(gs, g)
  <2>1. g \in Part
    <3>1. n + 1 - 1 = n BY <1>2
    <3>2. e[n] + 1 \in Nat /\ e[n + 1] \in Nat BY <1>4
    <3> QED BY <3>1, <3>2 DEF GroupAt
  <2> HIDE DEF g
  <2>2. /\ ws \in Seq(Part) /\ Len(ws) = n + 1 /\ ws[n + 1] = g /\ \A j \in 1 .. n : ws[j] = gs[j]
    <3> HIDE DEF Part
    <3> QED BY <1>2, <2>1, AppendProperties
  <2> HIDE DEF ws
  <2>3. \A j \in 1 .. n + 1 : ws[j] = GroupAt(e, j)
    <3>1. \A j \in 1 .. n + 1 : j \in 1 .. n \/ j = n + 1 BY <1>2
    <3> QED BY <1>2, <2>2, <3>1, Zenon DEF g
  <2>4. e[n] # N BY <1>1, <1>4, <1>6
  <2>5. n + 1 \in 0 .. N
    <3>1. n < N BY <1>1, <1>2, <2>4, CutsGrow
    <3> QED BY <1>1, <1>2, <3>1
  <2>6. n + 1 - 1 = n BY <1>2
  <2>7. Chain(xfer, e, ws) BY <1>1, <2>2, <2>3, <2>4, <2>5, <2>6 DEF Chain
  <2> QED BY <2>2, <2>7 DEF ws, g
<1>7. e[n] + 1 <= N => ProducerGroup(e[n] + 1) = GroupAt(e, n + 1) /\ ConsumerGroup(e[n] + 1) = GroupAt(e, n + 1)
  <2> SUFFICES ASSUME e[n] + 1 <= N
               PROVE  ProducerGroup(e[n] + 1) = GroupAt(e, n + 1) /\ ConsumerGroup(e[n] + 1) = GroupAt(e, n + 1)
    OBVIOUS
  <2>1. e[n] # Count BY <1>1, <1>4
  <2> QED BY <1>2, <2>1, GroupsAgree
<1> QED BY <1>4, <1>5, <1>6, <1>7

Broadcasts(x, e, d, t, r) ==
  /\ Chain(x, e, t.groups) /\ Chain(x, e, r.groups)
  /\ d \in Nat /\ d <= Len(t.groups) /\ d <= Len(r.groups) /\ Len(t.groups) - d <= NumBuffers
  /\ t.pc \in {"stream", "done"} /\ (t.pc = "done" => e[Len(t.groups)] = Len(x.sizes))
  /\ r.pc \in {"recv", "failed", "done"} /\ (r.pc = "done" => e[Len(r.groups)] = Len(x.sizes))
  /\ r.good \in BOOLEAN /\ (r.good => r.pc = "done")
  /\ r.loads \in 0 .. d /\ r.loaded = First(e[r.loads])
BroadcastsAll(e) == \A w \in Gpu : Broadcasts(xfer, e, done, tx[w], rx[w])

(* A consumer finds each tensor of a broadcast where the producer put it.  *)
LEMMA UnpacksAll ==
  ASSUME GoodTransfer, NEW e, Cuts(xfer, e), NEW w \in Gpu, BroadcastsAll(e),
         NEW n \in Nat \ {0}, n <= Len(tx[0].groups), n <= Len(rx[w].groups)
  PROVE  Unpacked(w, n) = {<<p, p>> : p \in e[n - 1] + 1 .. e[n]}
<1> DEFINE z == xfer.sizes
           N == Len(z)
           g == GroupAt(e, n)
           Found(p) == {q \in g.from .. g.to : Bytes(g.from, q - 1) = Bytes(g.from, p - 1) /\ z[q] = z[p]}
<1>1. 0 \in Gpu
  <2>1. Gpus \in Nat \ {0} BY TransferConstants
  <2> QED BY <2>1 DEF Gpu
<1>2. tx[0].groups[n] = g /\ rx[w].groups[n] = g /\ n \in 0 .. N
  <2>1. Chain(xfer, e, tx[0].groups) /\ Chain(xfer, e, rx[w].groups) BY <1>1 DEF BroadcastsAll, Broadcasts
  <2>2. Len(tx[0].groups) \in 0 .. N BY <2>1 DEF Chain
  <2>3. Len(rx[w].groups) \in 0 .. N BY <2>1 DEF Chain
  <2>4. N \in Nat BY DEF GoodTransfer
  <2> HIDE DEF N
  <2>5. n \in 1 .. Len(tx[0].groups) /\ n \in 1 .. Len(rx[w].groups) /\ n \in 0 .. N BY <2>2, <2>3, <2>4
  <2> QED BY <2>1, <2>5 DEF Chain
<1>3. Unpacked(w, n) = {<<p, IF Found(p) = {} THEN Silent ELSE CHOOSE q \in Found(p) : TRUE>> : p \in g.from .. g.to}
  <2> HIDE DEF g
  <2> QED BY <1>2 DEF Unpacked
<1>4. N \in Nat /\ \A k \in 1 .. N : z[k] \in Nat \ {0} BY DEF GoodTransfer
<1>5. g.from = e[n - 1] + 1 /\ g.to = e[n] /\ e[n - 1] \in 0 .. N /\ e[n] \in 0 .. N
  <2>1. n - 1 \in 0 .. N + 1 /\ n \in 0 .. N + 1 BY <1>2, <1>4
  <2> QED BY <2>1, Zenon DEF Cuts, GroupAt
<1> HIDE DEF g, N
<1>6. ASSUME NEW p \in g.from .. g.to PROVE Found(p) = {p}
  <2>1. p \in 1 .. N /\ p - 1 \in 0 .. N BY <1>4, <1>5
  <2>2. ASSUME NEW q \in g.from .. g.to, Bytes(g.from, q - 1) = Bytes(g.from, p - 1) PROVE q = p
    <3>1. q \in 1 .. N /\ q - 1 \in 0 .. N BY <1>4, <1>5
    <3>2. \A k \in 0 .. N : SumTo(z, k) \in Nat BY <1>4, SumSteps, Zenon
    <3>3. SumTo(z, q - 1) = SumTo(z, p - 1)
      <4>1. SumTo(z, q - 1) \in Nat /\ SumTo(z, p - 1) \in Nat /\ SumTo(z, g.from - 1) \in Nat
        <5>1. g.from - 1 \in 0 .. N BY <1>4, <1>5
        <5> QED BY <2>1, <3>1, <3>2, <5>1, Zenon
      <4> QED BY <2>2, <4>1 DEF Bytes
    <3>4. CASE q < p
      <4>1. q - 1 < p - 1 BY <2>1, <3>1, <3>4
      <4>2. SumTo(z, q - 1) < SumTo(z, p - 1) BY <1>4, <2>1, <3>1, <4>1, SumsGrow, Zenon
      <4> QED BY <2>1, <3>2, <3>3, <4>2
    <3>5. CASE p < q
      <4>1. p - 1 < q - 1 BY <2>1, <3>1, <3>5
      <4>2. SumTo(z, p - 1) < SumTo(z, q - 1) BY <1>4, <2>1, <3>1, <4>1, SumsGrow, Zenon
      <4> QED BY <2>1, <3>2, <3>3, <4>2
    <3> QED BY <2>1, <3>1, <3>4, <3>5
  <2> QED BY <2>2
<1> HIDE DEF Found
<1>7. \A p \in g.from .. g.to : (IF Found(p) = {} THEN Silent ELSE CHOOSE q \in Found(p) : TRUE) = p BY <1>6
<1>8. Unpacked(w, n) = {<<p, p>> : p \in g.from .. g.to} BY <1>3, <1>7, Zenon
<1> QED BY <1>5, <1>8

(* Each step keeps to the common groups.                                   *)
LEMMA BroadcastsStep ==
  ASSUME GoodTransfer, Shaped, NEW w \in Gpu, NEW e, Cuts(xfer, e), BroadcastsAll(e),
         \/ ProducerIssues(w) \/ ProducerReturns(w) \/ ConsumerIssues(w) \/ ConsumerReturns(w) \/ StreamLoads(w)
  PROVE  BroadcastsAll(e)'
<1> DEFINE t == tx[w]
           r == rx[w]
           N == Len(xfer.sizes)
           t2 == tx'[w]
           r2 == rx'[w]
           d == done
<1>1. DOMAIN t = SenderFields /\ DOMAIN r = ReceiverFields /\ DOMAIN tx = Gpu /\ DOMAIN rx = Gpu BY DEF Shaped
<1>2. /\ \A v \in Gpu \ {w} : tx'[v] = tx[v] /\ rx'[v] = rx[v]
      /\ xfer' = xfer /\ xfer.path = "collective" /\ done' = d
  BY <1>1 DEF ProducerIssues, ProducerReturns, ConsumerIssues, ConsumerReturns, StreamLoads, OnlyTx, OnlyRx, By
<1>3. Broadcasts(xfer, e, d, t, r) BY DEF BroadcastsAll
<1>4. N \in Nat /\ Count = N BY DEF GoodTransfer, Count
<1>5. e \in [0 .. N + 1 -> 0 .. N] BY DEF Cuts
<1>6. /\ Chain(xfer, e, t.groups) /\ Chain(xfer, e, r.groups)
      /\ Len(t.groups) \in 0 .. N /\ Len(r.groups) \in 0 .. N /\ d \in Nat /\ r.loads \in 0 .. d
      /\ d <= Len(t.groups) /\ d <= Len(r.groups) /\ Len(t.groups) - d <= NumBuffers
  BY <1>3 DEF Broadcasts, Chain
<1>7. Broadcasts(xfer, e, d, t2, r2)
  <2>1. CASE ProducerIssues(w)
    <3> DEFINE gs == Append(t.groups, ProducerGroup(Upto(t.groups) + 1))
    <3>1. r2 = r /\ t.pc = "stream" /\ Upto(t.groups) + 1 <= N /\ Len(t.groups) - d < NumBuffers
          /\ t2 = [t EXCEPT !.groups = gs]
      BY <1>1, <1>4, <2>1 DEF ProducerIssues, OnlyTx
    <3>2. Chain(xfer, e, gs) /\ Len(gs) = Len(t.groups) + 1 BY <1>2, <1>4, <1>6, <3>1, ChainGrows
    <3> HIDE DEF gs, t, r, t2, r2, N, d
    <3>3. t2.groups = gs /\ t2.pc = "stream" BY <1>1, <3>1 DEF SenderFields
    <3>4. NumBuffers \in Nat BY TransferConstants
    <3>5. d <= Len(gs) /\ Len(gs) - d <= NumBuffers BY <1>4, <1>6, <3>1, <3>2, <3>4
    <3> QED BY <1>3, <3>1, <3>2, <3>3, <3>5 DEF Broadcasts
  <2>2. CASE ProducerReturns(w)
    <3>1. r2 = r /\ Upto(t.groups) = N /\ t2 = [t EXCEPT !.pc = "done"]
      BY <1>1, <1>4, <2>2 DEF ProducerReturns, OnlyTx
    <3>2. e[Len(t.groups)] = N BY <1>2, <1>6, <3>1, ChainGrows
    <3> HIDE DEF t, r, t2, r2, d
    <3>3. t2.groups = t.groups /\ t2.pc = "done" BY <1>1, <3>1 DEF SenderFields
    <3> QED BY <1>3, <3>1, <3>2, <3>3 DEF Broadcasts
  <2>3. CASE ConsumerIssues(w)
    <3> DEFINE gs == Append(r.groups, ConsumerGroup(Upto(r.groups) + 1))
    <3>1. t2 = t /\ r.pc = "recv" /\ Upto(r.groups) + 1 <= N
          /\ (r2 = [r EXCEPT !.groups = gs] \/ r2 = [r EXCEPT !.pc = "failed", !.groups = gs])
      BY <1>1, <1>4, <2>3 DEF ConsumerIssues, OnlyRx
    <3>2. Chain(xfer, e, gs) /\ Len(gs) = Len(r.groups) + 1 BY <1>2, <1>4, <1>6, <3>1, ChainGrows
    <3> HIDE DEF gs, t, r, t2, r2, N, d
    <3>3. /\ r2.groups = gs /\ r2.pc \in {"recv", "failed"} /\ r2.good = r.good /\ r2.loads = r.loads
          /\ r2.loaded = r.loaded
      BY <1>1, <3>1, Zenon DEF ReceiverFields
    <3>4. d <= Len(gs) BY <1>4, <1>6, <3>2
    <3> QED BY <1>3, <3>1, <3>2, <3>3, <3>4 DEF Broadcasts
  <2>4. CASE ConsumerReturns(w)
    <3>1. t2 = t /\ Upto(r.groups) = N /\ r2 = [r EXCEPT !.pc = "done", !.good = TRUE]
      BY <1>1, <1>4, <2>4 DEF ConsumerReturns, OnlyRx
    <3>2. e[Len(r.groups)] = N BY <1>2, <1>6, <3>1, ChainGrows
    <3> HIDE DEF t, r, t2, r2, d
    <3>3. r2.groups = r.groups /\ r2.pc = "done" /\ r2.good = TRUE /\ r2.loads = r.loads /\ r2.loaded = r.loaded
      BY <1>1, <3>1 DEF ReceiverFields
    <3> QED BY <1>3, <3>1, <3>2, <3>3 DEF Broadcasts
  <2>5. CASE StreamLoads(w)
    <3> DEFINE n == r.loads + 1
    <3>1. t2 = t /\ n \in Queued(w) /\ n <= d
          /\ r2 = [r EXCEPT !.loads = n, !.loaded = @ \cup Unpacked(w, n)]
      BY <1>1, <2>5 DEF StreamLoads, OnlyRx
    <3>2. n \in 1 .. d /\ n \in Nat \ {0} /\ n - 1 = r.loads /\ n <= Len(r.groups)
      <4> HIDE DEF t, r, d
      <4>1. r.loads \in 0 .. d /\ d \in Nat /\ d <= Len(r.groups) /\ Len(r.groups) \in 0 .. N BY <1>6
      <4>2. r.loads + 1 <= d BY <3>1
      <4>3. Len(r.groups) \in Nat BY <1>4, <4>1
      <4> QED BY <4>1, <4>2, <4>3, NextOne
    <3>3. n <= Len(tx[0].groups)
      <4>1. 0 \in Gpu
        <5>1. Gpus \in Nat \ {0} BY TransferConstants
        <5> QED BY <5>1 DEF Gpu
      <4>2. d <= Len(tx[0].groups) /\ Len(tx[0].groups) \in 0 .. N BY <4>1 DEF BroadcastsAll, Broadcasts, Chain
      <4> HIDE DEF r, N, d
      <4> QED BY <1>4, <1>6, <3>1, <3>2, <4>2
    <3>4. Unpacked(w, n) = {<<p, p>> : p \in e[n - 1] + 1 .. e[n]} BY <3>2, <3>3, UnpacksAll
    <3> HIDE DEF t, r, t2, r2, d, n
    <3>5. /\ r2.groups = r.groups /\ r2.pc = r.pc /\ r2.good = r.good /\ r2.loads = n
          /\ r2.loaded = r.loaded \cup Unpacked(w, n)
      BY <1>1, <3>1 DEF ReceiverFields
    <3>6. r2.loaded = First(e[n])
      <4> DEFINE a == e[n - 1]
                 c == e[n]
      <4>1. a \in Nat /\ c \in Nat /\ a <= c
        <5> HIDE DEF N
        <5>1. n \in 1 .. N /\ n - 1 \in 0 .. N /\ n - 1 + 1 = n /\ n \in 0 .. N + 1 /\ n - 1 \in 0 .. N + 1
          BY <1>4, <1>6, <3>2
        <5>2. \A k \in 0 .. N : e[k] <= e[k + 1] BY <1>4, CutsGrow DEF N
        <5>3. e[n - 1] <= e[n] BY <5>1, <5>2
        <5>4. e[n - 1] \in 0 .. N /\ e[n] \in 0 .. N BY <1>5, <5>1
        <5> QED BY <1>4, <5>3, <5>4
      <4>2. r.loaded = First(a) BY <1>3, <3>2 DEF Broadcasts
      <4>3. r2.loaded = First(a) \cup {<<p, p>> : p \in a + 1 .. c} BY <3>4, <3>5, <4>2
      <4> HIDE DEF a, c
      <4> QED BY <4>1, <4>3, FirstGrows DEF c
    <3>7. n \in 0 .. d BY <1>6, <3>2
    <3> QED BY <1>3, <3>1, <3>5, <3>6, <3>7 DEF Broadcasts
  <2> QED BY <2>1, <2>2, <2>3, <2>4, <2>5
<1>8. ASSUME NEW v \in Gpu \ {w} PROVE Broadcasts(xfer, e, d, tx'[v], rx'[v])
  BY <1>2, <1>8 DEF BroadcastsAll
<1> QED BY <1>2, <1>7, <1>8 DEF BroadcastsAll

=============================================================================
