--------------------------- MODULE DataPathProofs ---------------------------
(***************************************************************************)
(* Proofs about the data path: the rollouts, for any number of prompts,    *)
(* generations, turns and tokens, the generation engines that answer       *)
(* prompts, and with WorkerCallProofs the calls of the policy, the bins    *)
(* they pack and the transfer of weights, whole when the driver believes   *)
(* so, whatever the driver does first.                                     *)
(***************************************************************************)
EXTENDS DataPath, WorkerCallProofs

-----------------------------------------------------------------------------
(* Counting the messages of a log and their tokens.                        *)

Messages ==
  [role : {"user", "assistant", "environment"}, len : Nat, by : Nat \cup {None}]

(* The token counters of a rollout are running sums over its log.          *)
LEMMA TokensSum ==
  ASSUME NEW l \in Seq(Messages), NEW R
  PROVE  \E f \in [0 .. Len(l) -> Nat] :
           /\ f[0] = 0 /\ Tokens(l, R) = f[Len(l)]
           /\ \A k \in 1 .. Len(l) : f[k] = f[k - 1] + (IF l[k].role \in R THEN l[k].len ELSE 0)
<1> DEFINE Add(k) == IF l[k].role \in R THEN l[k].len ELSE 0
           op == [x \in (1 .. Len(l)) \X Nat |-> x[2] + Add(x[1])]
           G(g) == g = [k \in 0 .. Len(l) |-> IF k = 0 THEN 0 ELSE g[k - 1] + (IF l[k].role \in R THEN l[k].len ELSE 0)]
<1>1. Len(l) \in Nat OBVIOUS
<1>2. \A k \in 1 .. Len(l) : Add(k) \in Nat
  <2> SUFFICES ASSUME NEW k \in 1 .. Len(l) PROVE Add(k) \in Nat OBVIOUS
  <2>1. l[k] \in Messages BY ElementOfSeq
  <2> QED BY <2>1 DEF Messages
<1>3. op \in [(1 .. Len(l)) \X Nat -> Nat]
  <2> HIDE DEF Add
  <2> QED BY <1>2
<1>4. \A k \in 1 .. Len(l), v \in Nat : op[<<k, v>>] = v + Add(k)
  <2> HIDE DEF Add
  <2> QED OBVIOUS
<1>5. PICK f \in [0 .. Len(l) -> Nat] : f[0] = 0 /\ \A k \in 1 .. Len(l) : f[k] = op[<<k, f[k - 1]>>]
  <2>1. op \in Steps(Len(l), Nat) BY <1>3 DEF Steps
  <2> HIDE DEF op
  <2>2. \E f : Follows(f, Len(l), Nat, 0, op) BY <1>1, <2>1, RecursionExists, Zenon
  <2> QED BY <2>2, Zenon DEF Follows
<1>6. \A k \in 1 .. Len(l) : f[k] = f[k - 1] + Add(k)
  <2> HIDE DEF op, Add
  <2>1. \A k \in 1 .. Len(l) : f[k - 1] \in Nat BY <1>1, <1>5
  <2> QED BY <1>4, <1>5, <2>1, Zenon
<1>7. G(f)
  <2>1. DOMAIN f = 0 .. Len(l) BY <1>5
  <2>2. f = [k \in 0 .. Len(l) |-> f[k]] BY <1>5
  <2>3. \A k \in 0 .. Len(l) : f[k] = IF k = 0 THEN 0 ELSE f[k - 1] + Add(k) BY <1>5, <1>6
  <2> QED BY <2>2, <2>3
<1> HIDE DEF G
<1>8. G(CHOOSE g : G(g)) BY <1>7
<1>9. Tokens(l, R) = (CHOOSE g : G(g))[Len(l)] BY DEF Tokens, G
<1> DEFINE h == CHOOSE g : G(g)
<1>10. h = [k \in 0 .. Len(l) |-> IF k = 0 THEN 0 ELSE h[k - 1] + Add(k)]
  <2> HIDE DEF h
  <2> QED BY <1>8, Zenon DEF G, h
<1> HIDE DEF h, Add
<1>11. h[0] = 0 /\ \A k \in 1 .. Len(l) : h[k] = h[k - 1] + Add(k) BY <1>1, <1>10
<1>12. \A k \in 1 .. Len(l) : h[k - 1] \in Nat => h[k] = op[<<k, h[k - 1]>>]
  <2> HIDE DEF op
  <2> QED BY <1>4, <1>11
<1>14. h[Len(l)] = f[Len(l)]
  <2> HIDE DEF op
  <2>0. Follows(f, Len(l), Nat, 0, op) BY <1>5, Zenon DEF Follows
  <2>1. \A k \in 0 .. Len(l) : h[k] = f[k] BY <1>1, <1>11, <1>12, <2>0, SameLoop
  <2> QED BY <1>1, <2>1
<1>15. Tokens(l, R) = f[Len(l)] BY <1>9, <1>14 DEF h
<1> QED BY <1>5, <1>6, <1>15 DEF Add
(* A sum over a log is a number of tokens.                                 *)
LEMMA TokensNat ==
  ASSUME NEW l \in Seq(Messages), NEW R PROVE Tokens(l, R) \in Nat
<1>1. PICK f \in [0 .. Len(l) -> Nat] :
        /\ f[0] = 0 /\ Tokens(l, R) = f[Len(l)]
        /\ \A k \in 1 .. Len(l) : f[k] = f[k - 1] + (IF l[k].role \in R THEN l[k].len ELSE 0)
  BY TokensSum
<1>2. Len(l) \in 0 .. Len(l) OBVIOUS
<1> QED BY <1>1, <1>2

(* Another message adds its tokens to the sums over its own role, and to   *)
(* no other: the counters that the code keeps by role and in all stay      *)
(* those of the log.                                                       *)
LEMMA TokensAppend ==
  ASSUME NEW l \in Seq(Messages), NEW m \in Messages, NEW R
  PROVE  /\ Tokens(l, R) \in Nat
         /\ Tokens(Append(l, m), R) = Tokens(l, R) + (IF m.role \in R THEN m.len ELSE 0)
<1> DEFINE w == Append(l, m)
           Add(x) == IF x.role \in R THEN x.len ELSE 0
<1>1. w \in Seq(Messages) /\ Len(w) = Len(l) + 1 /\ Len(l) \in Nat /\ w[Len(l) + 1] = m
  BY AppendProperties
<1>2. \A k \in 1 .. Len(l) : w[k] = l[k] BY AppendProperties
<1>3. PICK f \in [0 .. Len(l) -> Nat] :
        /\ f[0] = 0 /\ Tokens(l, R) = f[Len(l)]
        /\ \A k \in 1 .. Len(l) : f[k] = f[k - 1] + Add(l[k])
  BY TokensSum
<1> HIDE DEF w
<1>4. PICK h \in [0 .. Len(w) -> Nat] :
        /\ h[0] = 0 /\ Tokens(w, R) = h[Len(w)]
        /\ \A k \in 1 .. Len(w) : h[k] = h[k - 1] + Add(w[k])
  BY <1>1, TokensSum
<1> HIDE DEF Add
<1> DEFINE S == {k \in Nat : k <= Len(l) => h[k] = f[k]}
<1>5. 0 \in S BY <1>3, <1>4
<1>6. \A k \in Nat : k \in S => k + 1 \in S
  <2> SUFFICES ASSUME NEW k \in Nat, k \in S, k + 1 <= Len(l) PROVE h[k + 1] = f[k + 1] OBVIOUS
  <2>1. k + 1 \in 1 .. Len(l) /\ k + 1 \in 1 .. Len(w) /\ k + 1 - 1 = k BY <1>1
  <2>2. h[k + 1] = h[k] + Add(w[k + 1]) BY <1>4, <2>1
  <2>3. f[k + 1] = f[k] + Add(l[k + 1]) BY <1>3, <2>1
  <2>4. h[k] = f[k] /\ w[k + 1] = l[k + 1] BY <1>2, <2>1
  <2> QED BY <2>2, <2>3, <2>4
<1>7. h[Len(l)] = f[Len(l)]
  <2> HIDE DEF S
  <2>1. Len(l) \in S BY <1>1, <1>5, <1>6, Induct, Zenon
  <2> QED BY <2>1 DEF S
<1>8. h[Len(w)] = h[Len(l)] + Add(m)
  <2>1. Len(w) \in 1 .. Len(w) /\ Len(w) - 1 = Len(l) BY <1>1
  <2> QED BY <1>1, <1>4, <2>1, Zenon
<1>9. Tokens(l, R) \in Nat BY <1>1, <1>3
<1> QED BY <1>3, <1>4, <1>7, <1>8, <1>9 DEF Add, w

(* The log of a prompt alone.                                              *)
LEMMA TokensOfPrompt ==
  ASSUME NEW m \in Messages, NEW R
  PROVE  Tokens(<<m>>, R) = IF m.role \in R THEN m.len ELSE 0
<1> DEFINE l == <<>>
<1>0. l \in Seq(Messages) OBVIOUS
<1>1. <<m>> = Append(l, m) /\ Len(l) = 0 OBVIOUS
<1> HIDE DEF l
<1>2. Tokens(l, R) = 0
  <2>1. PICK f \in [0 .. Len(l) -> Nat] :
          /\ f[0] = 0 /\ Tokens(l, R) = f[Len(l)]
          /\ \A k \in 1 .. Len(l) : f[k] = f[k - 1] + (IF l[k].role \in R THEN l[k].len ELSE 0)
    BY <1>0, TokensSum
  <2> QED BY <1>1, <2>1
<1>3. Tokens(Append(l, m), R) = Tokens(l, R) + (IF m.role \in R THEN m.len ELSE 0) BY <1>0, TokensAppend
<1>4. m.len \in Nat BY DEF Messages
<1> QED BY <1>1, <1>2, <1>3, <1>4

(* Another message counts for its role.                                    *)
LEMMA CountAppend ==
  ASSUME NEW l \in Seq(Messages), NEW m \in Messages, NEW role
  PROVE  /\ CountOf(l, role) \in Nat
         /\ CountOf(Append(l, m), role) = CountOf(l, role) + (IF m.role = role THEN 1 ELSE 0)
<1> DEFINE w == Append(l, m)
           D == {k \in DOMAIN l : l[k].role = role}
           E == {k \in DOMAIN w : w[k].role = role}
<1>1. /\ w \in Seq(Messages) /\ Len(w) = Len(l) + 1 /\ Len(l) \in Nat /\ w[Len(l) + 1] = m
      /\ DOMAIN l = 1 .. Len(l) /\ DOMAIN w = 1 .. Len(w)
  BY AppendProperties
<1>2. \A k \in 1 .. Len(l) : w[k] = l[k] BY AppendProperties
<1> HIDE DEF w
<1>3. IsFiniteSet(D) /\ Cardinality(D) \in Nat
  <2>1. IsFiniteSet(1 .. Len(l)) BY <1>1, FS_Interval
  <2>2. D \subseteq 1 .. Len(l) BY <1>1
  <2> HIDE DEF D
  <2> QED BY <2>1, <2>2, FS_Subset, FS_CardinalityType, Zenon
<1>4. Len(l) + 1 \notin D BY <1>1
<1>5. CASE m.role = role
  <2>1. E = D \cup {Len(l) + 1} BY <1>1, <1>2, <1>5
  <2> HIDE DEF D, E
  <2>2. Cardinality(E) = Cardinality(D) + 1 BY <1>3, <1>4, <2>1, FS_AddElement, Zenon
  <2> QED BY <1>3, <1>5, <2>2, Zenon DEF CountOf, D, E, w
<1>6. CASE m.role # role
  <2>1. E = D BY <1>1, <1>2, <1>6
  <2>2. CountOf(l, role) = Cardinality(D) /\ CountOf(Append(l, m), role) = Cardinality(E) BY DEF CountOf, w
  <2> HIDE DEF D, E
  <2> QED BY <1>3, <1>6, <2>1, <2>2
<1> QED BY <1>5, <1>6

(* In the log of a prompt there is one message, and it is not a reply.     *)
LEMMA CountOfPrompt ==
  ASSUME NEW m \in Messages, NEW role
  PROVE  CountOf(<<m>>, role) = IF m.role = role THEN 1 ELSE 0
<1> DEFINE l == <<>>
<1>0. l \in Seq(Messages) OBVIOUS
<1>1. <<m>> = Append(l, m) /\ DOMAIN l = {} OBVIOUS
<1>2. CountOf(l, role) = 0
  <2>1. {k \in DOMAIN l : l[k].role = role} = {} BY <1>1
  <2> QED BY <2>1, FS_EmptySet DEF CountOf
<1> HIDE DEF l
<1>3. CountOf(Append(l, m), role) = CountOf(l, role) + (IF m.role = role THEN 1 ELSE 0)
  BY <1>0, CountAppend
<1> QED BY <1>1, <1>2, <1>3

-----------------------------------------------------------------------------
(* Rows in their order.                                                    *)

(* The rows that a loop over all of them keeps are the ones it looks for,  *)
(* none left out: select_indices and the grouping by task lose no sample.  *)
LEMMA AscendingKeeps ==
  ASSUME NEW n \in Nat, NEW T
  PROVE  /\ Ascending(T, n) \in Seq(Nat)
         /\ Range(Ascending(T, n)) = {k \in 0 .. n - 1 : k \in T}
<1> DEFINE Next1(k, v) == IF k - 1 \in T THEN Append(v, k - 1) ELSE v
           op == [x \in (1 .. n) \X Seq(Nat) |-> Next1(x[1], x[2])]
           G(g) == g = [k \in 0 .. n |-> IF k = 0 THEN <<>>
                         ELSE IF k - 1 \in T THEN Append(g[k - 1], k - 1) ELSE g[k - 1]]
           e == <<>>
<1>1. \A k \in 1 .. n, v \in Seq(Nat) : Next1(k, v) \in Seq(Nat) BY AppendProperties
<1>2. op \in Steps(n, Seq(Nat))
  <2> HIDE DEF Next1
  <2> QED BY <1>1 DEF Steps
<1>3. \A k \in 1 .. n, v \in Seq(Nat) : op[<<k, v>>] = Next1(k, v)
  <2> HIDE DEF Next1
  <2> QED OBVIOUS
<1>4. e \in Seq(Nat) OBVIOUS
<1>5. PICK f : Follows(f, n, Seq(Nat), e, op)
  <2> HIDE DEF op, e
  <2> QED BY <1>2, <1>4, RecursionExists
<1>6. f \in [0 .. n -> Seq(Nat)] /\ f[0] = e /\ \A k \in 1 .. n : f[k] = Next1(k, f[k - 1])
  <2> HIDE DEF op, e, Next1
  <2>1. \A k \in 1 .. n : k - 1 \in 0 .. n OBVIOUS
  <2> QED BY <1>3, <1>5, <2>1, Zenon DEF Follows
<1>7. G(f)
  <2>1. f = [k \in 0 .. n |-> f[k]] BY <1>6
  <2> HIDE DEF e, Next1
  <2>2. \A k \in 0 .. n : f[k] = IF k = 0 THEN e ELSE Next1(k, f[k - 1]) BY <1>6
  <2>3. f = [k \in 0 .. n |-> IF k = 0 THEN e ELSE Next1(k, f[k - 1])] BY <2>1, <2>2, Zenon
  <2> QED BY <2>3, Zenon DEF e, Next1
<1> DEFINE h == CHOOSE g : G(g)
<1>8. G(h)
  <2> HIDE DEF G
  <2> QED BY <1>7
<1>9. Ascending(T, n) = h[n] BY DEF Ascending
<1>10. h = [k \in 0 .. n |-> IF k = 0 THEN e ELSE Next1(k, h[k - 1])]
  <2> HIDE DEF h
  <2> QED BY <1>8, Zenon
<1> HIDE DEF h, G, Next1, e
<1>11. h[0] = e /\ \A k \in 1 .. n : h[k - 1] \in Seq(Nat) => h[k] = op[<<k, h[k - 1]>>]
  <2> HIDE DEF op
  <2>1. h[0] = e /\ \A k \in 1 .. n : h[k] = Next1(k, h[k - 1]) BY <1>10
  <2> QED BY <1>3, <2>1
<1>12. Ascending(T, n) = f[n]
  <2> HIDE DEF op
  <2>1. \A k \in 0 .. n : h[k] = f[k] BY <1>5, <1>11, SameLoop
  <2> QED BY <1>9, <2>1
<1> DEFINE Kept(k) == {i \in 0 .. k - 1 : i \in T}
           S == {k \in Nat : k <= n => Range(f[k]) = Kept(k)}
<1>13. 0 \in S BY <1>6 DEF e, Range
<1>14. \A k \in Nat : k \in S => k + 1 \in S
  <2> SUFFICES ASSUME NEW k \in Nat, k \in S, k + 1 <= n PROVE Range(f[k + 1]) = Kept(k + 1) OBVIOUS
  <2>1. k + 1 \in 1 .. n /\ k + 1 - 1 = k /\ k \in 0 .. n OBVIOUS
  <2>2. f[k + 1] = IF k \in T THEN Append(f[k], k) ELSE f[k] BY <1>6, <2>1 DEF Next1
  <2>3. f[k] \in Seq(Nat) /\ Range(f[k]) = Kept(k) BY <1>6, <2>1
  <2>4. Range(Append(f[k], k)) = Range(f[k]) \cup {k}
    <3> DEFINE q == f[k]
               w == Append(q, k)
    <3>1. q \in Seq(Nat) BY <2>3
    <3> HIDE DEF q
    <3>2. /\ Len(q) \in Nat /\ DOMAIN q = 1 .. Len(q) /\ DOMAIN w = 1 .. Len(q) + 1
          /\ w[Len(q) + 1] = k /\ \A i \in 1 .. Len(q) : w[i] = q[i]
      BY <3>1, AppendProperties
    <3> HIDE DEF w
    <3>3. Range(w) = Range(q) \cup {k} BY <3>2 DEF Range
    <3> QED BY <3>3 DEF q, w
  <2>5. Kept(k + 1) = IF k \in T THEN Kept(k) \cup {k} ELSE Kept(k) OBVIOUS
  <2> HIDE DEF Kept
  <2> QED BY <2>2, <2>3, <2>4, <2>5, Zenon
<1>15. Range(f[n]) = Kept(n)
  <2> HIDE DEF S
  <2>1. n \in S BY <1>13, <1>14, Induct
  <2> QED BY <2>1 DEF S
<1> QED BY <1>6, <1>12, <1>15

-----------------------------------------------------------------------------
(* One sample.                                                             *)

Convs ==
  [pc : {"top", "env", "out"}, input : Nat, gen : Nat, turns : Nat, reward : Nat,
   stop : {None} \cup (Nat \X Nat), info : {None} \cup (Nat \X Nat),
   terminated : BOOLEAN, truncated : BOOLEAN, maxTurns : BOOLEAN,
   tok : [all : Nat, gen : Nat, env : Nat]]
EnvAnswer == [obs : Nat, term : BOOLEAN, next : BOOLEAN, by : Nat \cup {None}, turn : Nat]

(* The conversation of a sample whose log is l and whose state is c: a     *)
(* reply waits for its answer, whose room is known, just when the sample   *)
(* is at its environment, and everything in it is its own.                 *)
Alternates(c, l) ==
  /\ l # <<>> /\ l[1].role = "user"
  /\ c.pc = "env" <=> l[Len(l)].role = "assistant"
  /\ CountOf(l, "assistant") = CountOf(l, "environment") + (IF c.pc = "env" THEN 1 ELSE 0)
  /\ c.pc = "env" \/ (LoopIs("batch") /\ c.pc = "top") => ~c.terminated
OwnOnly(s, c, l) ==
  /\ \A k \in 2 .. Len(l) : l[k].by = s
  /\ c.reward = Worth(s) * CountOf(l, "environment")
  /\ {c.stop, c.info} \subseteq {None} \cup ({s} \X (1 .. CountOf(l, "environment")))
InContext(c, l) ==
  /\ Size(l) <= MaxSeqLen
  /\ c.pc = "env" => c.input + c.gen = Size(l)
  /\ c.tok.gen = Tokens(l, {"assistant"}) /\ c.tok.env = Tokens(l, {"environment"})
  /\ c.tok.all = c.tok.gen + c.tok.env
  /\ LoopIs("batch") /\ c.pc = "top" => Size(l) < MaxSeqLen
Sample(s, c, l) ==
  l \in Seq(Messages) /\ c \in Convs /\ Alternates(c, l) /\ OwnOnly(s, c, l) /\ InContext(c, l)

(* A reply is no longer than what is left of the context.                  *)
LEMMA RepliesFit ==
  ASSUME NEW s \in Nat, Sample(s, conv[s], log[s]), MaxSeqLen \in Nat, MaxNewTokens \in Nat,
         NEW r \in Replies(s)
  PROVE  r.len \in Nat /\ r.cut \in BOOLEAN /\ Size(log[s]) + r.len <= MaxSeqLen
<1> DEFINE l == log[s]
<1>0. l \in Seq(Messages) BY DEF Sample
<1>1. Size(l) \in Nat /\ Size(l) <= MaxSeqLen
  BY <1>0, TokensNat DEF Size, Sample, InContext
<1>2. r.len \in Nat /\ r.cut \in BOOLEAN /\ Size(l) + r.len <= MaxSeqLen
  <2> DEFINE top == Lesser(MaxNewTokens, MaxSeqLen - Size(l))
  <2>1. top \in Int /\ top <= MaxSeqLen - Size(l) BY <1>1 DEF Lesser
  <2> HIDE DEF top
  <2>2. r \in IF top <= 0 THEN {[len |-> 0, cut |-> FALSE]}
             ELSE {[len |-> n, cut |-> FALSE] : n \in 1 .. top} \cup {[len |-> top, cut |-> TRUE]}
    BY DEF Replies, top
  <2>3. CASE r = [len |-> 0, cut |-> FALSE] BY <1>1, <2>3
  <2>4. CASE top > 0 /\ \E n \in 1 .. top : r = [len |-> n, cut |-> FALSE] BY <1>1, <2>1, <2>4
  <2>5. CASE top > 0 /\ r = [len |-> top, cut |-> TRUE] BY <1>1, <2>1, <2>5
  <2> QED BY <2>1, <2>2, <2>3, <2>4, <2>5
<1> QED BY <1>2

(* A reply, and its place in the log, of the length the engine may give.   *)
LEMMA SpeaksWell ==
  ASSUME NEW s \in Nat, Sample(s, conv[s], log[s]), conv[s].pc = "top", ~conv[s].terminated,
         MaxSeqLen \in Nat, MaxNewTokens \in Nat,
         NEW r \in Replies(s), NEW turns \in Nat
  PROVE  Sample(s, [Spoken(s, r) EXCEPT !.turns = turns], Append(log[s], Message("assistant", r.len, s)))
<1> DEFINE l == log[s]
           m == Message("assistant", r.len, s)
           w == Append(l, m)
           c == conv[s]
           d == [Spoken(s, r) EXCEPT !.turns = turns]
<1>0. l \in Seq(Messages) /\ c \in Convs /\ l # <<>> BY DEF Sample, Alternates
<1>1. Size(l) \in Nat /\ Size(l) <= MaxSeqLen BY <1>0, TokensNat DEF Size, Sample, InContext
<1>2. r.len \in Nat /\ r.cut \in BOOLEAN /\ Size(l) + r.len <= MaxSeqLen BY RepliesFit
<1>3. m \in Messages /\ m.role = "assistant" /\ m.len = r.len /\ m.by = s BY <1>2 DEF m, Message, Messages
<1> HIDE DEF m
<1>4. /\ w \in Seq(Messages) /\ Len(w) = Len(l) + 1 /\ Len(l) \in Nat \ {0} /\ w[Len(w)] = m
      /\ \A k \in 1 .. Len(l) : w[k] = l[k]
  BY <1>0, <1>3, AppendProperties
<1>5. \A R : Tokens(w, R) = Tokens(l, R) + (IF "assistant" \in R THEN r.len ELSE 0) BY <1>0, <1>3, TokensAppend
<1>6. \A role : CountOf(w, role) = CountOf(l, role) + (IF "assistant" = role THEN 1 ELSE 0) BY <1>0, <1>3, CountAppend
<1>7. \A R : Tokens(l, R) \in Nat BY <1>0, <1>3, TokensAppend
<1>8. \A role : CountOf(l, role) \in Nat BY <1>0, <1>3, CountAppend
<1>9. /\ d \in Convs /\ d.pc = "env" /\ d.input = Size(l) /\ d.gen = r.len
      /\ d.reward = c.reward /\ d.stop = c.stop /\ d.info = c.info /\ d.terminated = c.terminated
      /\ d.tok.all = c.tok.all + r.len /\ d.tok.gen = c.tok.gen + r.len /\ d.tok.env = c.tok.env
  <2>1. c.tok \in [all : Nat, gen : Nat, env : Nat] BY <1>0 DEF Convs
  <2>2. c.truncated \in BOOLEAN BY <1>0 DEF Convs
  <2> DEFINE tok == [all |-> c.tok.all + r.len, gen |-> c.tok.gen + r.len, env |-> c.tok.env]
             cut == c.truncated \/ r.cut
  <2>3. cut \in BOOLEAN OBVIOUS
  <2>4. /\ tok \in [all : Nat, gen : Nat, env : Nat]
        /\ tok.all = c.tok.all + r.len /\ tok.gen = c.tok.gen + r.len /\ tok.env = c.tok.env
    BY <1>2, <2>1
  <2>5. d = [c EXCEPT !.pc = "env", !.input = Size(l), !.gen = r.len, !.truncated = cut, !.tok = tok, !.turns = turns]
    BY DEF Spoken
  <2> HIDE DEF tok, cut
  <2> QED BY <1>0, <1>1, <1>2, <2>3, <2>4, <2>5, Zenon DEF Convs
<1> HIDE DEF w, d
<1>10. Size(w) = Size(l) + r.len BY <1>5 DEF Size
<1>11. Alternates(d, w)
  <2>1. w # <<>> /\ w[1] = l[1] BY <1>4
  <2>2. CountOf(w, "assistant") = CountOf(w, "environment") + 1 BY <1>6, <1>8 DEF Sample, Alternates
  <2> QED BY <1>3, <1>4, <1>9, <2>1, <2>2 DEF Sample, Alternates
<1>12. OwnOnly(s, d, w)
  <2>1. \A k \in 2 .. Len(w) : w[k].by = s BY <1>3, <1>4 DEF Sample, OwnOnly
  <2>2. CountOf(w, "environment") = CountOf(l, "environment") BY <1>6, <1>8
  <2> QED BY <1>9, <2>1, <2>2 DEF Sample, OwnOnly
<1>13. InContext(d, w)
  <2>1. /\ Tokens(w, {"assistant"}) = Tokens(l, {"assistant"}) + r.len
        /\ Tokens(w, {"environment"}) = Tokens(l, {"environment"})
    BY <1>5, <1>7
  <2>2. /\ c.tok.gen = Tokens(l, {"assistant"}) /\ c.tok.env = Tokens(l, {"environment"})
        /\ c.tok.all = c.tok.gen + c.tok.env
    BY DEF Sample, InContext
  <2>3. d.tok.all = d.tok.gen + d.tok.env BY <1>2, <1>7, <1>9, <2>2
  <2> QED BY <1>1, <1>2, <1>9, <1>10, <2>1, <2>2, <2>3 DEF InContext
<1> QED BY <1>4, <1>9, <1>11, <1>12, <1>13 DEF Sample, w, d, m

(* What hearing the answer a makes of a sample, whichever loop it is in:   *)
(* the observation in its log and its counters, a reward, stop strings and *)
(* metadata that it had or that come with the answer.                      *)
AfterAnswer(s, a, d) ==
  /\ d \in Convs /\ d.pc \in {"top", "out"}
  /\ d.reward = conv[s].reward + Worth(s)
  /\ {d.stop, d.info} \subseteq {conv[s].stop, conv[s].info, None, <<s, a.turn>>}
  /\ d.tok = [all |-> conv[s].tok.all + Observation(s, a), gen |-> conv[s].tok.gen,
              env |-> conv[s].tok.env + Observation(s, a)]
  /\ LoopIs("batch") /\ d.pc = "top" => ~Overflows(s, a) /\ ~d.terminated

(* The observation fits into the context, and fills it when it is cut.     *)
LEMMA ObservationFits ==
  ASSUME NEW s \in Nat, Sample(s, conv[s], log[s]), conv[s].pc = "env", MaxSeqLen \in Nat,
         NEW a \in EnvAnswer
  PROVE  /\ Observation(s, a) \in Nat
         /\ Size(log[s]) + Observation(s, a) <= MaxSeqLen
         /\ ~Overflows(s, a) => Size(log[s]) + Observation(s, a) < MaxSeqLen
<1>1. conv[s].input + conv[s].gen = Size(log[s]) /\ Size(log[s]) <= MaxSeqLen BY DEF Sample, InContext
<1>2. Size(log[s]) \in Nat BY TokensNat DEF Size, Sample
<1>3. a.obs \in Nat BY DEF EnvAnswer
<1> QED BY <1>1, <1>2, <1>3 DEF Observation, Overflows, Greater

(* An answer about the last reply leaves a sample well.                    *)
LEMMA HearsWell ==
  ASSUME NEW s \in Nat, Sample(s, conv[s], log[s]), conv[s].pc = "env", MaxSeqLen \in Nat,
         NEW a \in EnvAnswer, a.by = s, a.turn = Replied(log[s]),
         NEW d, AfterAnswer(s, a, d)
  PROVE  Sample(s, d, Append(log[s], Heard(s, a)))
<1> DEFINE l == log[s]
           m == Heard(s, a)
           w == Append(l, m)
           c == conv[s]
           n == Observation(s, a)
<1>0. l \in Seq(Messages) /\ c \in Convs /\ l # <<>> BY DEF Sample, Alternates
<1>1. Size(l) \in Nat BY <1>0, TokensNat DEF Size
<1>2. n \in Nat /\ Size(l) + n <= MaxSeqLen /\ (~Overflows(s, a) => Size(l) + n < MaxSeqLen) BY ObservationFits
<1>3. m \in Messages /\ m.role = "environment" /\ m.len = n /\ m.by = s BY <1>2 DEF Heard, Message, Messages
<1> HIDE DEF m, n
<1>4. /\ w \in Seq(Messages) /\ Len(w) = Len(l) + 1 /\ Len(l) \in Nat \ {0} /\ w[Len(w)] = m
      /\ \A k \in 1 .. Len(l) : w[k] = l[k]
  BY <1>0, <1>3, AppendProperties
<1>5. \A R : Tokens(w, R) = Tokens(l, R) + (IF "environment" \in R THEN n ELSE 0) BY <1>0, <1>3, TokensAppend
<1>6. \A role : CountOf(w, role) = CountOf(l, role) + (IF "environment" = role THEN 1 ELSE 0) BY <1>0, <1>3, CountAppend
<1>7. \A R : Tokens(l, R) \in Nat BY <1>0, TokensNat
<1>8. \A role : CountOf(l, role) \in Nat BY <1>0, <1>3, CountAppend
<1>9. /\ d \in Convs /\ d.pc \in {"top", "out"}
      /\ d.reward = c.reward + Worth(s)
      /\ {d.stop, d.info} \subseteq {c.stop, c.info, None, <<s, Replied(l)>>}
      /\ d.tok.all = c.tok.all + n /\ d.tok.gen = c.tok.gen /\ d.tok.env = c.tok.env + n
      /\ LoopIs("batch") /\ d.pc = "top" => ~Overflows(s, a) /\ ~d.terminated
  BY DEF AfterAnswer, n
<1> HIDE DEF w
<1>10. Size(w) = Size(l) + n BY <1>5 DEF Size
<1>11. CountOf(w, "environment") = CountOf(l, "environment") + 1 /\ CountOf(w, "assistant") = CountOf(l, "assistant")
  BY <1>6, <1>8
<1>12. CountOf(l, "assistant") = CountOf(l, "environment") + 1 BY DEF Sample, Alternates
<1>13. Alternates(d, w)
  <2>1. w # <<>> /\ w[1] = l[1] BY <1>4
  <2> QED BY <1>3, <1>4, <1>8, <1>9, <1>11, <1>12, <2>1 DEF Sample, Alternates
<1>14. OwnOnly(s, d, w)
  <2>1. \A k \in 2 .. Len(w) : w[k].by = s
    <3>1. \A k \in 2 .. Len(l) : l[k].by = s BY DEF Sample, OwnOnly
    <3>2. \A k \in 2 .. Len(w) : k \in 2 .. Len(l) \/ k = Len(w) BY <1>4
    <3>3. \A k \in 2 .. Len(l) : w[k] = l[k] BY <1>4
    <3> QED BY <1>3, <1>4, <3>1, <3>2, <3>3
  <2>2. d.reward = Worth(s) * CountOf(w, "environment")
    <3>1. c.reward = Worth(s) * CountOf(l, "environment") BY DEF Sample, OwnOnly
    <3>2. Worth(s) \in Nat BY DEF Worth
    <3> QED BY <1>8, <1>9, <1>11, <3>1, <3>2
  <2>3. Replied(l) \in 1 .. CountOf(w, "environment") BY <1>8, <1>11, <1>12 DEF Replied
  <2>4. {c.stop, c.info} \subseteq {None} \cup ({s} \X (1 .. CountOf(w, "environment")))
    <3>1. 1 .. CountOf(l, "environment") \subseteq 1 .. CountOf(w, "environment") BY <1>8, <1>11
    <3> QED BY <3>1 DEF Sample, OwnOnly
  <2> QED BY <1>9, <2>1, <2>2, <2>3, <2>4 DEF OwnOnly
<1>15. InContext(d, w)
  <2>1. /\ Tokens(w, {"assistant"}) = Tokens(l, {"assistant"})
        /\ Tokens(w, {"environment"}) = Tokens(l, {"environment"}) + n
    BY <1>5, <1>7
  <2>2. /\ c.tok.gen = Tokens(l, {"assistant"}) /\ c.tok.env = Tokens(l, {"environment"})
        /\ c.tok.all = c.tok.gen + c.tok.env
    BY DEF Sample, InContext
  <2>3. d.tok.all = d.tok.gen + d.tok.env BY <1>2, <1>7, <1>9, <2>2
  <2> QED BY <1>1, <1>2, <1>9, <1>10, <2>1, <2>2, <2>3 DEF InContext
<1> QED BY <1>4, <1>9, <1>13, <1>14, <1>15 DEF Sample, w, m

(* The batch loop and the coroutines hear in that way.                     *)
LEMMA BatchTurnHears ==
  ASSUME NEW s \in Nat, Sample(s, conv[s], log[s]), conv[s].pc = "env", MaxSeqLen \in Nat,
         NEW a \in EnvAnswer, a.by = s, a.turn \in Nat
  PROVE  /\ AfterAnswer(s, a, BatchTurn(s, a))
         /\ BatchTurn(s, a).pc = "top" => ~BatchTurn(s, a).terminated
<1> DEFINE c == conv[s]
           n == Observation(s, a)
           ended == Overflows(s, a) \/ a.term
           tok == [all |-> c.tok.all + n, gen |-> c.tok.gen, env |-> c.tok.env + n]
           cut == c.truncated \/ Overflows(s, a)
           over == c.terminated \/ ended
           e == [c EXCEPT !.reward = @ + Worth(a.by), !.tok = tok, !.turns = @ + 1,
                   !.truncated = cut, !.terminated = over]
           d == BatchTurn(s, a)
<1>0. c \in Convs /\ ~c.terminated BY DEF Sample, Alternates
<1>1. n \in Nat BY ObservationFits
<1>2. tok \in [all : Nat, gen : Nat, env : Nat] /\ cut \in BOOLEAN /\ over \in BOOLEAN BY <1>0, <1>1 DEF Convs
<1>3. Worth(s) \in Nat BY DEF Worth
<1>4. d = IF ended THEN [e EXCEPT !.pc = "out"]
          ELSE [e EXCEPT !.pc = "top",
                  !.stop = IF a.next THEN <<a.by, a.turn>> ELSE None,
                  !.info = IF a.next THEN <<a.by, a.turn>> ELSE @]
  BY DEF BatchTurn, Rewarded
<1>5. over <=> ended BY <1>0
<1> HIDE DEF tok, cut, over, n
<1>6. /\ e \in Convs /\ e.reward = c.reward + Worth(s) /\ e.tok = tok /\ e.terminated = over
      /\ e.stop = c.stop /\ e.info = c.info
  <2> DEFINE reward == c.reward + Worth(a.by)
             turns == c.turns + 1
  <2>1. reward \in Nat /\ reward = c.reward + Worth(s) /\ turns \in Nat BY <1>0, <1>3 DEF Convs
  <2>2. e = [c EXCEPT !.reward = reward, !.tok = tok, !.turns = turns, !.truncated = cut, !.terminated = over]
    OBVIOUS
  <2> HIDE DEF reward, turns, e
  <2> QED BY <1>0, <1>2, <2>1, <2>2, Zenon DEF Convs
<1> HIDE DEF e, d
<1>7. CASE ended
  <2>1. /\ d = [e EXCEPT !.pc = "out"] BY <1>4, <1>7
  <2>2. /\ d \in Convs /\ d.pc = "out" /\ d.reward = e.reward /\ d.tok = e.tok /\ d.stop = e.stop /\ d.info = e.info
    BY <1>6, <2>1 DEF Convs
  <2> QED BY <1>6, <2>2 DEF AfterAnswer, tok, n, d
<1>8. CASE ~ended
  <2> DEFINE x == IF a.next THEN <<a.by, a.turn>> ELSE None
             y == IF a.next THEN <<a.by, a.turn>> ELSE e.info
  <2>1. d = [e EXCEPT !.pc = "top", !.stop = x, !.info = y] BY <1>4, <1>8
  <2>2. x \in {None, <<s, a.turn>>} /\ y \in {c.info, <<s, a.turn>>} BY <1>6
  <2>3. x \in {None} \cup (Nat \X Nat) /\ y \in {None} \cup (Nat \X Nat) BY <1>0, <2>2 DEF Convs
  <2> HIDE DEF x, y
  <2>4. /\ d \in Convs /\ d.pc = "top" /\ d.reward = e.reward /\ d.tok = e.tok /\ d.stop = x /\ d.info = y
        /\ d.terminated = e.terminated
    BY <1>6, <2>1, <2>3, Zenon DEF Convs
  <2> QED BY <1>5, <1>6, <1>8, <2>2, <2>4 DEF AfterAnswer, tok, n, d
<1> QED BY <1>7, <1>8

(* Likewise for one sample's coroutine.                                    *)
LEMMA SampleTurnHears ==
  ASSUME NEW s \in Nat, Sample(s, conv[s], log[s]), conv[s].pc = "env", MaxSeqLen \in Nat,
         NEW a \in EnvAnswer, a.by = s, a.turn \in Nat, ~LoopIs("batch")
  PROVE  AfterAnswer(s, a, SampleTurn(s, a))
<1> DEFINE c == conv[s]
           n == Observation(s, a)
           tok == [all |-> c.tok.all + n, gen |-> c.tok.gen, env |-> c.tok.env + n]
           cut == c.truncated \/ Overflows(s, a)
           e == [c EXCEPT !.reward = @ + Worth(a.by), !.tok = tok, !.pc = "top",
                   !.truncated = cut, !.terminated = a.term]
           d == SampleTurn(s, a)
<1>0. c \in Convs BY DEF Sample
<1>1. n \in Nat BY ObservationFits
<1>2. tok \in [all : Nat, gen : Nat, env : Nat] /\ cut \in BOOLEAN /\ a.term \in BOOLEAN
  BY <1>0, <1>1 DEF Convs, EnvAnswer
<1>3. Worth(s) \in Nat BY DEF Worth
<1>4. d = IF a.term \/ cut \/ ~a.next THEN e
          ELSE [e EXCEPT !.stop = <<a.by, a.turn>>, !.info = <<a.by, a.turn>>]
  BY DEF SampleTurn, Rewarded
<1> HIDE DEF tok, cut, n
<1>6. /\ e \in Convs /\ e.reward = c.reward + Worth(s) /\ e.tok = tok /\ e.pc = "top"
      /\ e.stop = c.stop /\ e.info = c.info
  <2> DEFINE reward == c.reward + Worth(a.by)
             term == a.term
  <2>1. reward \in Nat /\ reward = c.reward + Worth(s) /\ term \in BOOLEAN BY <1>0, <1>2, <1>3 DEF Convs
  <2>2. e = [c EXCEPT !.reward = reward, !.tok = tok, !.pc = "top", !.truncated = cut, !.terminated = term]
    OBVIOUS
  <2> HIDE DEF reward, term, e
  <2> QED BY <1>0, <1>2, <2>1, <2>2, Zenon DEF Convs
<1> HIDE DEF e, d
<1>7. CASE d = e BY <1>6, <1>7 DEF AfterAnswer, tok, n, d
<1>8. CASE d = [e EXCEPT !.stop = <<a.by, a.turn>>, !.info = <<a.by, a.turn>>]
  <2>1. /\ d \in Convs /\ d.pc = "top" /\ d.reward = e.reward /\ d.tok = e.tok
        /\ d.stop = <<s, a.turn>> /\ d.info = <<s, a.turn>>
    BY <1>6, <1>8, Zenon DEF Convs
  <2> QED BY <1>6, <2>1 DEF AfterAnswer, tok, n, d
<1> QED BY <1>4, <1>7, <1>8

-----------------------------------------------------------------------------
(* The rows of a batch.                                                    *)

GoodJob ==
  /\ job.gens \in Nat \ {0} /\ job.tasks \in Seq(Range(job.tasks))
  /\ Len(job.tasks) * job.gens <= MaxSamples
Open == {s \in Samples : conv[s].pc # "out"}
AnswersRow(i, a) == a \in EnvAnswer /\ a.by = Active[i] /\ a.turn = Replied(log[Active[i]])
AnsweredRows(t) ==
  DOMAIN ret[t] = DOMAIN Group(t) /\ \A k \in DOMAIN Group(t) : AnswersRow(Group(t)[k], ret[t][k])

(* Samples are numbered from 0, generation after generation of a prompt.   *)
LEMMA SampleOfPrompt ==
  ASSUME GoodJob, NEW s \in Samples
  PROVE  s \in Nat /\ s \div job.gens + 1 \in 1 .. Len(job.tasks)
<1> DEFINE L == Len(job.tasks)
           g == job.gens
           q == s \div g
           r == s % g
<1>1. L \in Nat /\ g \in Nat \ {0} BY DEF GoodJob
<1> HIDE DEF L, g
<1>2. L * g \in Nat BY <1>1
<1>3. s \in Nat /\ s < L * g BY <1>2 DEF Samples, L, g
<1>4. q \in Int /\ r \in 0 .. g - 1 /\ s = g * q + r BY <1>1, <1>3
<1> HIDE DEF q, r
<1>5. q >= 0
  <2>1. CASE q <= -1
    <3>1. g * q <= g * (-1) BY <1>1, <1>4, <2>1
    <3> QED BY <1>1, <1>3, <1>4, <3>1
  <2> QED BY <1>4, <2>1
<1>6. q < L
  <2>1. CASE q >= L
    <3>1. g * q >= g * L BY <1>1, <1>4, <2>1
    <3>2. g * L = L * g BY <1>1
    <3> QED BY <1>1, <1>3, <1>4, <3>1, <3>2
  <2> QED BY <1>1, <1>4, <2>1
<1>7. q + 1 \in 1 .. L BY <1>1, <1>4, <1>5, <1>6
<1> QED BY <1>3, <1>7 DEF q, g, L

(* A sample has the task of its prompt.                                    *)
LEMMA SamplesAreNumbers ==
  ASSUME GoodJob
  PROVE  /\ Len(job.tasks) * job.gens \in Nat
         /\ \A s \in Samples : s \in Nat /\ TaskOf(s) \in Tasks
<1>1. Len(job.tasks) \in Nat /\ job.gens \in Nat /\ DOMAIN job.tasks = 1 .. Len(job.tasks) BY DEF GoodJob
<1>2. ASSUME NEW s \in Samples PROVE s \in Nat /\ TaskOf(s) \in Tasks
  <2>1. s \in Nat /\ s \div job.gens + 1 \in DOMAIN job.tasks BY <1>1, SampleOfPrompt
  <2> QED BY <2>1 DEF TaskOf, Tasks, Range
<1>3. Len(job.tasks) * job.gens \in Nat BY <1>1
<1> QED BY <1>2, <1>3

(* The active rows are the samples that have not left the loop.            *)
LEMMA ActiveIsOpen ==
  ASSUME GoodJob
  PROVE  /\ Active \in Seq(Nat) /\ Range(Active) = Open
         /\ Active # <<>> <=> Open # {}
         /\ \A pc : AllAt(pc) <=> \A s \in Open : conv[s].pc = pc
         /\ \A i \in Rows : Active[i] \in Open
         /\ \A s \in Open : \E i \in Rows : Active[i] = s
<1>1. Active \in Seq(Nat) /\ Range(Active) = {k \in 0 .. Len(job.tasks) * job.gens - 1 : k \in {s \in Samples : conv[s].pc # "out"}}
  BY SamplesAreNumbers, AscendingKeeps DEF Active
<1>2. Range(Active) = Open BY <1>1 DEF Open, Samples
<1>3. (\A i \in Rows : Active[i] \in Open) /\ \A s \in Open : \E i \in Rows : Active[i] = s
  BY <1>2 DEF Range, Rows
<1>4. Active # <<>> <=> Open # {}
  <2>1. Active = <<>> <=> Len(Active) = 0 BY <1>1, EmptySeq
  <2>2. Len(Active) \in Nat /\ DOMAIN Active = 1 .. Len(Active) BY <1>1
  <2>3. Active # <<>> <=> DOMAIN Active # {} BY <2>1, <2>2
  <2> QED BY <1>2, <2>3, Zenon DEF Range
<1>5. \A pc : AllAt(pc) <=> \A s \in Open : conv[s].pc = pc BY <1>3 DEF AllAt, Rows
<1> QED BY <1>1, <1>2, <1>3, <1>4, <1>5

(* The group of a task is its rows.                                        *)
LEMMA GroupIsTask ==
  ASSUME GoodJob, NEW t
  PROVE  Group(t) \in Seq(Nat) /\ Range(Group(t)) = {i \in Rows : RowTask(i) = t}
<1>1. Active \in Seq(Nat) /\ Rows = 1 .. Len(Active) /\ Len(Active) + 1 \in Nat BY ActiveIsOpen DEF Rows
<1>2. /\ Group(t) \in Seq(Nat)
      /\ Range(Group(t)) = {k \in 0 .. Len(Active) + 1 - 1 : k \in {i \in Rows : RowTask(i) = t}}
  BY <1>1, AscendingKeeps DEF Group
<1> QED BY <1>1, <1>2

(* Every task of a row is called for: its first row is among the first.    *)
LEMMA FirstOfEveryTask ==
  ASSUME GoodJob
  PROVE  /\ FirstOfTask \in Seq(Nat) /\ Range(FirstOfTask) \subseteq Rows
         /\ \A i \in Rows : \E k \in DOMAIN FirstOfTask : RowTask(FirstOfTask[k]) = RowTask(i)
<1> DEFINE FirstRow == {i \in Rows : \A j \in 1 .. i - 1 : RowTask(j) # RowTask(i)}
<1>1. Active \in Seq(Nat) /\ Rows = 1 .. Len(Active) /\ Len(Active) + 1 \in Nat BY ActiveIsOpen DEF Rows
<1>2. FirstOfTask \in Seq(Nat) /\ Range(FirstOfTask) = {k \in 0 .. Len(Active) + 1 - 1 : k \in FirstRow}
  BY <1>1, AscendingKeeps DEF FirstOfTask
<1>3. Range(FirstOfTask) = FirstRow BY <1>1, <1>2
<1> DEFINE Led(i) == \E j \in FirstRow : RowTask(j) = RowTask(i)
           S == {n \in Nat : \A i \in Rows : i <= n => Led(i)}
<1>4. 0 \in S BY <1>1
<1>5. \A n \in Nat : n \in S => n + 1 \in S
  <2> SUFFICES ASSUME NEW n \in Nat, n \in S PROVE n + 1 \in S OBVIOUS
  <2>1. ASSUME n + 1 \in Rows PROVE Led(n + 1)
    <3>1. CASE n + 1 \in FirstRow BY <3>1
    <3>2. CASE n + 1 \notin FirstRow
      <4>1. PICK j \in 1 .. n : RowTask(j) = RowTask(n + 1) BY <2>1, <3>2
      <4>2. j \in Rows /\ j <= n BY <1>1, <2>1
      <4>3. Led(j) BY <4>2
      <4> QED BY <4>1, <4>3
    <3> QED BY <3>1, <3>2
  <2>2. \A i \in Rows : i <= n + 1 => i <= n \/ i = n + 1 BY <1>1
  <2> HIDE DEF Led
  <2> QED BY <2>1, <2>2
<1> HIDE DEF S, Led
<1>6. \A i \in Rows : Led(i)
  <2>1. Nat \subseteq S BY <1>4, <1>5, Induct
  <2>2. \A i \in Rows : i \in S /\ i <= i BY <1>1, <2>1
  <2> QED BY <2>2 DEF S
<1>7. \A i \in Rows : \E k \in DOMAIN FirstOfTask : RowTask(FirstOfTask[k]) = RowTask(i)
  BY <1>3, <1>6 DEF Range, Led
<1> QED BY <1>2, <1>3, <1>7

(* A result that says which row it is for says it of that row's sample.    *)
Entries ==
  {x \in [row : Rows, answer : EnvAnswer] : AnswersRow(x.row, x.answer)}

(* When every environment has returned, there is a result for every row,   *)
(* and each is about the row it is filed under: the loop over the futures  *)
(* mixes nothing up, whatever the tasks and however few rows are left.     *)
LEMMA ResultsComplete ==
  ASSUME GoodJob, \A t \in Tasks : Group(t) # <<>> => AnsweredRows(t)
  PROVE  /\ TaskResults \in Seq(Entries)
         /\ \A i \in Rows : \E k \in DOMAIN TaskResults : TaskResults[k].row = i
<1> DEFINE first == FirstOfTask
           n == Len(first)
           V == Seq(Entries)
           Next1(k, v) == v \o Returned(RowTask(first[k]))
           op == [x \in (1 .. n) \X V |-> Next1(x[1], x[2])]
           e == <<>>
           G(g) == g = [k \in 0 .. n |-> IF k = 0 THEN e ELSE Next1(k, g[k - 1])]
<1>1. first \in Seq(Nat) /\ Range(first) \subseteq Rows /\ n \in Nat /\ DOMAIN first = 1 .. n
  BY FirstOfEveryTask
<1>2. ASSUME NEW k \in 1 .. n
      PROVE  /\ Returned(RowTask(first[k])) \in V
             /\ \A i \in Rows : RowTask(i) = RowTask(first[k]) =>
                  \E y \in DOMAIN Returned(RowTask(first[k])) : Returned(RowTask(first[k]))[y].row = i
  <2> DEFINE t == RowTask(first[k])
             grp == Group(t)
             rows == Returned(t)
  <2>1. first[k] \in Rows BY <1>1 DEF Range
  <2>2. t \in Tasks
    <3>1. Active[first[k]] \in Samples BY <2>1, ActiveIsOpen DEF Open
    <3> QED BY <3>1, SamplesAreNumbers DEF RowTask
  <2>3. grp \in Seq(Nat) /\ Range(grp) = {i \in Rows : RowTask(i) = t} BY GroupIsTask
  <2>4. DOMAIN grp = 1 .. Len(grp) /\ Len(grp) \in Nat BY <2>3
  <2>5. grp # <<>> /\ \A y \in DOMAIN grp : grp[y] \in Rows
    <3>1. first[k] \in Range(grp) BY <2>1, <2>3
    <3>2. DOMAIN grp # {} BY <3>1 DEF Range
    <3>3. \A y \in DOMAIN grp : grp[y] \in Range(grp) BY DEF Range
    <3> QED BY <2>3, <3>2, <3>3
  <2>6. AnsweredRows(t) BY <2>2, <2>5
  <2>7. /\ DOMAIN rows = DOMAIN grp
        /\ \A y \in DOMAIN grp : rows[y] = [row |-> grp[y], answer |-> ret[t][y]]
        /\ rows = [y \in DOMAIN grp |-> rows[y]]
    BY DEF Returned
  <2> HIDE DEF t, grp, rows
  <2>8. \A y \in DOMAIN grp : rows[y] \in Entries
    <3> SUFFICES ASSUME NEW y \in DOMAIN grp PROVE rows[y] \in Entries OBVIOUS
    <3>1. AnswersRow(grp[y], ret[t][y]) BY <2>6 DEF AnsweredRows, grp
    <3>2. grp[y] \in Rows /\ ret[t][y] \in EnvAnswer BY <2>5, <3>1 DEF AnswersRow
    <3> QED BY <2>7, <3>1, <3>2 DEF Entries
  <2>9. rows \in V BY <2>4, <2>7, <2>8, IsASeq
  <2>10. \A i \in Rows : RowTask(i) = t => \E y \in DOMAIN rows : rows[y].row = i
    <3> SUFFICES ASSUME NEW i \in Rows, RowTask(i) = t PROVE \E y \in DOMAIN rows : rows[y].row = i OBVIOUS
    <3>1. i \in Range(grp) BY <2>3
    <3>2. PICK y \in DOMAIN grp : grp[y] = i BY <3>1 DEF Range
    <3> QED BY <2>7, <3>2
  <2> QED BY <2>9, <2>10 DEF t, rows
<1>3. \A k \in 1 .. n, v \in V : Next1(k, v) \in V BY <1>2, ConcatProperties
<1>4. e \in V OBVIOUS
<1> HIDE DEF V
<1>5. op \in Steps(n, V)
  <2> HIDE DEF Next1, n
  <2> QED BY <1>3 DEF Steps
<1>6. \A k \in 1 .. n, v \in V : op[<<k, v>>] = Next1(k, v)
  <2> HIDE DEF Next1, n
  <2> QED OBVIOUS
<1>7. PICK f : Follows(f, n, V, e, op)
  <2> HIDE DEF op, e, n
  <2> QED BY <1>1, <1>4, <1>5, RecursionExists
<1>8. f \in [0 .. n -> V] /\ f[0] = e /\ \A k \in 1 .. n : f[k] = Next1(k, f[k - 1])
  <2> HIDE DEF op, e, Next1, n
  <2>1. \A k \in 1 .. n : k - 1 \in 0 .. n BY <1>1
  <2> QED BY <1>6, <1>7, <2>1, Zenon DEF Follows
<1>9. G(f)
  <2> HIDE DEF n, e, Next1
  <2>1. f = [k \in 0 .. n |-> f[k]] BY <1>8
  <2>2. \A k \in 0 .. n : f[k] = IF k = 0 THEN e ELSE Next1(k, f[k - 1]) BY <1>1, <1>8
  <2> QED BY <2>1, <2>2, Zenon
<1> DEFINE h == CHOOSE g : G(g)
<1>10. G(h)
  <2> HIDE DEF G
  <2> QED BY <1>9
<1>11. TaskResults = h[n] BY DEF TaskResults
<1> HIDE DEF h
<1>12. h[0] = e /\ \A k \in 1 .. n : h[k - 1] \in V => h[k] = op[<<k, h[k - 1]>>]
  <2> HIDE DEF op, n, Next1, e
  <2>1. h[0] = e /\ \A k \in 1 .. n : h[k] = Next1(k, h[k - 1]) BY <1>1, <1>10
  <2> QED BY <1>6, <2>1
<1> HIDE DEF G
<1>13. TaskResults = f[n]
  <2> HIDE DEF op, n, e
  <2>1. \A k \in 0 .. n : h[k] = f[k] BY <1>1, <1>7, <1>12, SameLoop
  <2> QED BY <1>1, <1>11, <2>1
<1> DEFINE Has(k, j) == \A i \in Rows : RowTask(i) = RowTask(first[j]) => \E y \in DOMAIN f[k] : f[k][y].row = i
           S == {k \in Nat : k <= n => \A j \in 1 .. k : Has(k, j)}
<1>14. 0 \in S OBVIOUS
<1>15. \A k \in Nat : k \in S => k + 1 \in S
  <2> SUFFICES ASSUME NEW k \in Nat, k \in S, k + 1 <= n, NEW j \in 1 .. k + 1 PROVE Has(k + 1, j) OBVIOUS
  <2> DEFINE last == Returned(RowTask(first[k + 1]))
  <2>1. k + 1 \in 1 .. n /\ k + 1 - 1 = k /\ k \in 0 .. n BY <1>1
  <2>2. f[k] \in Seq(Entries) /\ last \in Seq(Entries) /\ f[k + 1] = f[k] \o last
    <3>1. last \in V BY <1>2, <2>1
    <3>2. f[k + 1] = f[k] \o last /\ f[k] \in V
      <4>1. f[k + 1] = Next1(k + 1, f[k + 1 - 1]) /\ f[k] \in V
        <5> HIDE DEF Next1
        <5> QED BY <1>8, <2>1
      <4> QED BY <2>1, <4>1
    <3> HIDE DEF last
    <3> QED BY <3>1, <3>2 DEF V
  <2> HIDE DEF last
  <2>3. \A y \in DOMAIN f[k] : y \in DOMAIN f[k + 1] /\ f[k + 1][y] = f[k][y] BY <2>2, ConcatProperties
  <2>4. \A y \in DOMAIN last : Len(f[k]) + y \in DOMAIN f[k + 1] /\ f[k + 1][Len(f[k]) + y] = last[y]
    BY <2>2, ConcatProperties
  <2>5. CASE j \in 1 .. k
    <3>1. Has(k, j) BY <2>1, <2>5
    <3> QED BY <2>3, <3>1
  <2>6. CASE j = k + 1 BY <1>2, <2>1, <2>4, <2>6 DEF last
  <2> QED BY <2>5, <2>6
<1>16. \A j \in 1 .. n : Has(n, j)
  <2> HIDE DEF S, Has
  <2>1. n \in S BY <1>1, <1>14, <1>15, Induct, Zenon
  <2> QED BY <1>1, <2>1 DEF S
<1>17. \A i \in Rows : \E y \in DOMAIN f[n] : f[n][y].row = i
  <2> SUFFICES ASSUME NEW i \in Rows PROVE \E y \in DOMAIN f[n] : f[n][y].row = i OBVIOUS
  <2>1. PICK j \in DOMAIN first : RowTask(first[j]) = RowTask(i) BY FirstOfEveryTask
  <2> QED BY <1>1, <1>16, <2>1
<1>18. f[n] \in Seq(Entries) BY <1>1, <1>8 DEF V
<1> QED BY <1>13, <1>17, <1>18

(* Back in the order of the rows, each row has its own answer.             *)
LEMMA RowAnswersOwn ==
  ASSUME GoodJob, \A t \in Tasks : Group(t) # <<>> => AnsweredRows(t)
  PROVE  DOMAIN RowAnswers = Rows /\ \A i \in Rows : AnswersRow(i, RowAnswers[i])
<1> DEFINE all == TaskResults
<1>1. DOMAIN RowAnswers = Rows BY DEF RowAnswers
<1>2. ASSUME NEW i \in Rows PROVE AnswersRow(i, RowAnswers[i])
  <2> DEFINE k == CHOOSE k \in DOMAIN all : all[k].row = i
  <2>1. k \in DOMAIN all /\ all[k].row = i
    <3> HIDE DEF all
    <3>1. \E y \in DOMAIN all : all[y].row = i BY ResultsComplete DEF all
    <3> QED BY <3>1
  <2>2. RowAnswers[i] = all[k].answer BY DEF RowAnswers
  <2>3. all[k] \in Entries
    <3>1. all \in Seq(Entries) BY ResultsComplete
    <3> HIDE DEF all, k
    <3> QED BY <2>1, <3>1
  <2> HIDE DEF all, k
  <2> QED BY <2>1, <2>2, <2>3 DEF Entries
<1> QED BY <1>1, <1>2

(* What an environment returns about a conversation is about its last      *)
(* reply.                                                                  *)
LEMMA AnswersItself ==
  ASSUME NEW s \in Nat, Sample(s, conv[s], log[s]), conv[s].pc = "env", NEW b \in Answers,
         RolloutConstants
  PROVE  /\ AnswerTo(log[s], b) \in EnvAnswer /\ AnswerTo(log[s], b).by = s
         /\ AnswerTo(log[s], b).turn = Replied(log[s])
<1> DEFINE l == log[s]
<1>1. l \in Seq(Messages) /\ l # <<>> /\ l[1].role = "user" /\ l[Len(l)].role = "assistant"
  BY DEF Sample, Alternates
<1>2. Len(l) \in 2 .. Len(l)
  <2>1. Len(l) \in Nat \ {0} BY <1>1, EmptySeq
  <2> QED BY <1>1, <2>1
<1>3. l[Len(l)].by = s BY <1>2 DEF Sample, OwnOnly
<1>4. b \in [obs : Nat, term : BOOLEAN, next : BOOLEAN] BY DEF RolloutConstants
<1>5. Replied(l) \in Nat
  <2>1. [role |-> "user", len |-> 0, by |-> None] \in Messages BY DEF Messages
  <2> QED BY <1>1, <2>1, CountAppend DEF Replied
<1> QED BY <1>3, <1>4, <1>5 DEF AnswerTo, EnvAnswer

-----------------------------------------------------------------------------
(* The invariant of the rollouts, and what a step does to a sample.        *)

(* An environment has returned only while the whole batch waits for them.  *)
ReturnsAwaited ==
  \A t \in Tasks : ret[t] # <<>> =>
    LoopIs("batch") /\ Open # {} /\ (\A s \in Open : conv[s].pc = "env") /\ AnsweredRows(t)
RolloutInv ==
  /\ GoodJob /\ status \in {"running", "done", "raised"}
  /\ DOMAIN log = Samples /\ DOMAIN conv = Samples /\ ret = [t \in Tasks |-> ret[t]]
  /\ \A s \in Samples : Sample(s, conv[s], log[s])
  /\ ReturnsAwaited

Stays(s) ==
  /\ log'[s] = log[s] /\ conv'[s].reward = conv[s].reward
  /\ conv'[s].terminated = conv[s].terminated /\ (conv'[s].pc = "out" <=> conv[s].pc = "out")
Talks(s) ==
  /\ conv[s].pc = "top" /\ conv'[s].pc = "env"
  /\ ~conv[s].terminated /\ ~conv'[s].terminated /\ conv'[s].reward = conv[s].reward
  /\ \E m \in Messages : m.role = "assistant" /\ log'[s] = Append(log[s], m)
Listens(s) ==
  /\ conv[s].pc = "env" /\ conv'[s].reward = conv[s].reward + Worth(s)
  /\ \E m \in Messages : m.role = "environment" /\ log'[s] = Append(log[s], m)
Leaves(s) ==
  /\ conv[s].pc = "top" /\ conv'[s].pc = "out" /\ log'[s] = log[s]
  /\ conv'[s].reward = conv[s].reward /\ conv'[s].terminated = conv[s].terminated
Goes(s) ==
  Sample(s, conv'[s], log'[s]) /\ (Stays(s) \/ Talks(s) \/ Listens(s) \/ Leaves(s))

(* The loop that a job runs stays the same, so what is well after a step   *)
(* is what is well by the rules of the job that took it.                   *)
LEMMA GoesWell ==
  ASSUME RolloutInv, job' = job, \A s \in Samples : Goes(s),
         DOMAIN log' = Samples, DOMAIN conv' = Samples, ret' = [t \in Tasks |-> ret'[t]],
         status' \in {"running", "done", "raised"}, ReturnsAwaited'
  PROVE  RolloutInv'
<1>1. Samples' = Samples /\ Tasks' = Tasks BY DEF Samples, Tasks
<1>2. GoodJob' BY DEF RolloutInv, GoodJob
<1>3. \A s \in Samples : Sample(s, conv[s], log[s])'
  BY DEF Goes, Sample, Alternates, OwnOnly, InContext, LoopIs
<1> QED BY <1>1, <1>2, <1>3 DEF RolloutInv

(* Where nothing was returned nothing has to be.                           *)
LEMMA NothingReturned ==
  ASSUME job' = job, \A t \in Tasks : ret'[t] = <<>>
  PROVE  ReturnsAwaited'
<1>1. Tasks' = Tasks BY DEF Tasks
<1> QED BY <1>1 DEF ReturnsAwaited

-----------------------------------------------------------------------------
(* The batch loop.                                                         *)

(* While the batch is at its engine no environment has returned.           *)
LEMMA NoReturnsAtTop ==
  ASSUME RolloutInv, AllAt("top")
  PROVE  \A t \in Tasks : ret[t] = <<>>
<1>1. \A s \in Open : conv[s].pc = "top" BY ActiveIsOpen DEF RolloutInv
<1> SUFFICES ASSUME NEW t \in Tasks, ret[t] # <<>> PROVE FALSE OBVIOUS
<1>2. PICK s \in Open : conv[s].pc = "env" BY DEF RolloutInv, ReturnsAwaited
<1> QED BY <1>1, <1>2

(* Every active sample gets its reply, of the length its context allows.   *)
LEMMA BatchSpeaksWell ==
  ASSUME RolloutInv, RolloutConstants, BatchSpeaks
  PROVE  RolloutInv' /\ \A s \in Samples : Goes(s)
<1>1. LoopIs("batch") /\ AllAt("top") /\ UNCHANGED <<job, status, ret, faults>> BY DEF BatchSpeaks
<1>2. Range(Active) = Open /\ \A s \in Open : conv[s].pc = "top" BY <1>1, ActiveIsOpen DEF RolloutInv
<1>3. PICK r : /\ r \in [Range(Active) -> UNION {Replies(s) : s \in Range(Active)}]
               /\ \A s \in Range(Active) : r[s] \in Replies(s)
               /\ log' = Write(Range(Active), [s \in DOMAIN r |-> Message("assistant", r[s].len, s)])
               /\ conv' = [s \in Samples |-> IF conv[s].pc = "out" THEN conv[s] ELSE Spoken(s, r[s])]
  BY Zenon DEF BatchSpeaks
<1>4. DOMAIN r = Open BY <1>2, <1>3
<1>5. DOMAIN log' = Samples /\ DOMAIN conv' = Samples BY <1>3 DEF Write
<1>6. ASSUME NEW s \in Samples PROVE Goes(s)
  <2>1. Sample(s, conv[s], log[s]) /\ s \in Nat BY SamplesAreNumbers DEF RolloutInv
  <2>2. CASE conv[s].pc = "out"
    <3>1. s \notin Open BY <2>2 DEF Open
    <3>2. log'[s] = log[s] /\ conv'[s] = conv[s] BY <1>2, <1>3, <2>2, <3>1 DEF Write
    <3> QED BY <2>1, <3>2 DEF Goes, Stays
  <2>3. CASE conv[s].pc # "out"
    <3>1. s \in Open /\ conv[s].pc = "top" BY <1>2, <2>3 DEF Open
    <3> DEFINE m == Message("assistant", r[s].len, s)
               msgs == [x \in DOMAIN r |-> Message("assistant", r[x].len, x)]
    <3>2. msgs[s] = m BY <1>4, <3>1
    <3>3. log'[s] = Append(log[s], m)
      <4> HIDE DEF m, msgs
      <4>1. log' = Write(Range(Active), msgs) BY <1>3 DEF msgs
      <4> QED BY <1>2, <3>1, <3>2, <4>1 DEF Write
    <3>4. conv'[s] = Spoken(s, r[s]) BY <1>3, <2>3
    <3>5. conv[s] \in Convs BY <2>1 DEF Sample
    <3>6. /\ conv[s].turns \in Nat /\ Spoken(s, r[s]) = [Spoken(s, r[s]) EXCEPT !.turns = conv[s].turns]
          /\ Spoken(s, r[s]).pc = "env" /\ Spoken(s, r[s]).terminated = conv[s].terminated
          /\ Spoken(s, r[s]).reward = conv[s].reward
      BY <3>5, Zenon DEF Spoken, Convs
    <3>7. ~conv[s].terminated BY <1>1, <2>1, <3>1 DEF Sample, Alternates
    <3>8. r[s] \in Replies(s) /\ MaxSeqLen \in Nat /\ MaxNewTokens \in Nat BY <1>2, <1>3, <3>1 DEF RolloutConstants
    <3>9. Sample(s, conv'[s], log'[s])
      <4>1. Sample(s, [Spoken(s, r[s]) EXCEPT !.turns = conv[s].turns], Append(log[s], Message("assistant", r[s].len, s)))
        BY <2>1, <3>1, <3>6, <3>7, <3>8, SpeaksWell
      <4> QED BY <3>3, <3>4, <3>6, <4>1
    <3>10. Talks(s)
      <4>1. m \in Messages /\ m.role = "assistant"
        <5>1. Append(log[s], m) \in Seq(Messages) /\ log[s] \in Seq(Messages) BY <2>1, <3>3, <3>9 DEF Sample
        <5>2. r[s].len \in Nat BY <2>1, <3>8, RepliesFit
        <5> QED BY <2>1, <5>2 DEF Message, Messages
      <4> QED BY <3>1, <3>3, <3>4, <3>6, <3>7, <4>1 DEF Talks
    <3> QED BY <3>9, <3>10 DEF Goes
  <2> QED BY <2>2, <2>3
<1>7. ReturnsAwaited' BY <1>1, NoReturnsAtTop, NothingReturned
<1>8. ret' = [t \in Tasks |-> ret'[t]] /\ status' \in {"running", "done", "raised"} BY <1>1 DEF RolloutInv
<1> QED BY <1>1, <1>5, <1>6, <1>7, <1>8, GoesWell

(* Rows are made of the samples alone.                                     *)
LEMMA RowsStay ==
  ASSUME job' = job, log' = log, conv' = conv
  PROVE  /\ Samples' = Samples /\ Tasks' = Tasks /\ Open' = Open
         /\ \A t \in Tasks : Group(t)' = Group(t)
         /\ \A t \in Tasks : ret'[t] = ret[t] => (AnsweredRows(t)' <=> AnsweredRows(t))
<1>1. Samples' = Samples /\ Tasks' = Tasks BY DEF Samples, Tasks
<1>2. Active' = Active BY DEF Active, Samples
<1>3. Open' = Open BY <1>1 DEF Open
<1>4. ASSUME NEW t \in Tasks PROVE Group(t)' = Group(t)
  BY <1>2 DEF Group, Rows, RowTask, TaskOf
<1>5. \A i, a : AnswersRow(i, a)' <=> AnswersRow(i, a) BY <1>2 DEF AnswersRow
<1>6. ASSUME NEW t \in Tasks, ret'[t] = ret[t] PROVE AnsweredRows(t)' <=> AnsweredRows(t)
  BY <1>4, <1>5, <1>6 DEF AnsweredRows
<1> QED BY <1>1, <1>3, <1>4, <1>6

(* What an environment returns is about the rows it was given.             *)
LEMMA EnvAnswersWell ==
  ASSUME RolloutInv, RolloutConstants, NEW t \in Tasks, EnvAnswers(t)
  PROVE  RolloutInv' /\ \A s \in Samples : Goes(s)
<1>1. LoopIs("batch") /\ AllAt("env") /\ Active # <<>> /\ UNCHANGED <<job, status, log, conv, faults>> BY DEF EnvAnswers
<1>2. Open # {} /\ (\A s \in Open : conv[s].pc = "env") /\ \A i \in Rows : Active[i] \in Open
  BY <1>1, ActiveIsOpen DEF RolloutInv
<1>3. PICK a \in [DOMAIN Group(t) -> Answers] :
        ret' = [ret EXCEPT ![t] = [k \in DOMAIN Group(t) |-> AnswerTo(log[Active[Group(t)[k]]], a[k])]]
  BY Zenon DEF EnvAnswers
<1>4. ret = [u \in Tasks |-> ret[u]] BY DEF RolloutInv
<1>5. /\ \A u \in Tasks : u # t => ret'[u] = ret[u]
      /\ ret'[t] = [k \in DOMAIN Group(t) |-> AnswerTo(log[Active[Group(t)[k]]], a[k])]
      /\ ret' = [u \in Tasks |-> ret'[u]]
  BY <1>3, <1>4, Zenon
<1>6. \A s \in Samples : Goes(s) BY <1>1 DEF RolloutInv, Goes, Stays
<1>7. ASSUME NEW k \in DOMAIN Group(t) PROVE AnswersRow(Group(t)[k], ret'[t][k])
  <2>1. Group(t)[k] \in Rows
    <3>1. Group(t)[k] \in Range(Group(t)) BY DEF Range
    <3> QED BY <3>1, GroupIsTask DEF RolloutInv
  <2> DEFINE s == Active[Group(t)[k]]
  <2>2. s \in Samples /\ conv[s].pc = "env" BY <1>2, <2>1 DEF Open
  <2>3. s \in Nat /\ Sample(s, conv[s], log[s]) BY <2>2, SamplesAreNumbers DEF RolloutInv
  <2>4. a[k] \in Answers BY <1>3
  <2>5. ret'[t][k] = AnswerTo(log[s], a[k]) BY <1>5
  <2> HIDE DEF s
  <2>6. ret'[t][k] \in EnvAnswer /\ ret'[t][k].by = s /\ ret'[t][k].turn = Replied(log[s])
    BY <2>2, <2>3, <2>4, <2>5, AnswersItself
  <2> QED BY <2>6 DEF AnswersRow, s
<1>8. AnsweredRows(t)'
  <2>1. DOMAIN ret'[t] = DOMAIN Group(t) BY <1>5
  <2>2. Group(t)' = Group(t) BY <1>1, RowsStay
  <2>3. Active' = Active BY <1>1 DEF Active, Samples
  <2>4. \A i, x : AnswersRow(i, x)' <=> AnswersRow(i, x) BY <1>1, <2>3 DEF AnswersRow
  <2> QED BY <1>7, <2>1, <2>2, <2>4 DEF AnsweredRows
<1>9. ReturnsAwaited'
  <2>1. Tasks' = Tasks /\ Open' = Open /\ conv' = conv /\ LoopIs("batch")' BY <1>1, RowsStay DEF LoopIs
  <2>2. ASSUME NEW u \in Tasks, ret'[u] # <<>> PROVE AnsweredRows(u)'
    <3>1. CASE u = t BY <1>8, <3>1
    <3>2. CASE u # t
      <4>1. ret'[u] = ret[u] BY <1>5, <3>2
      <4>2. AnsweredRows(u) BY <2>2, <4>1 DEF RolloutInv, ReturnsAwaited
      <4> QED BY <1>1, <4>1, <4>2, RowsStay
    <3> QED BY <3>1, <3>2
  <2> QED BY <1>2, <2>1, <2>2 DEF ReturnsAwaited
<1> QED BY <1>1, <1>5, <1>6, <1>9, GoesWell DEF RolloutInv

(* A sample whose answer was heard has it in its log, with its reward.     *)
LEMMA HearingListens ==
  ASSUME NEW s \in Nat, Sample(s, conv[s], log[s]), conv[s].pc = "env", MaxSeqLen \in Nat,
         NEW a \in EnvAnswer, a.by = s, a.turn = Replied(log[s]),
         AfterAnswer(s, a, conv'[s]), log'[s] = Append(log[s], Heard(s, a))
  PROVE  Goes(s)
<1>1. Sample(s, conv'[s], log'[s])
  <2> DEFINE d == conv'[s]
  <2> HIDE DEF d
  <2>1. AfterAnswer(s, a, d) BY DEF d
  <2>2. Sample(s, d, Append(log[s], Heard(s, a))) BY <2>1, HearsWell
  <2> QED BY <2>2 DEF d
<1>2. Heard(s, a) \in Messages /\ Heard(s, a).role = "environment"
  BY ObservationFits DEF Heard, Message, Messages, EnvAnswer
<1>3. conv'[s].reward = conv[s].reward + Worth(s) BY DEF AfterAnswer
<1> QED BY <1>1, <1>2, <1>3 DEF Goes, Listens

(* All active samples hear their own answers.                              *)
LEMMA BatchHearsWell ==
  ASSUME RolloutInv, RolloutConstants, BatchHears
  PROVE  RolloutInv' /\ \A s \in Samples : Goes(s)
<1>1. /\ LoopIs("batch") /\ AllAt("env") /\ UNCHANGED <<job, status, faults>>
      /\ ret' = [t \in Tasks |-> <<>>]
      /\ \A t \in Tasks : Group(t) # <<>> => ret[t] # <<>>
  BY DEF BatchHears
<1>2. /\ Range(Active) = Open /\ \A s \in Open : conv[s].pc = "env"
      /\ \A s \in Open : \E i \in Rows : Active[i] = s
  BY <1>1, ActiveIsOpen DEF RolloutInv
<1> DEFINE rows == RowAnswers
           theirs == [s \in Range(Active) |-> rows[CHOOSE i \in DOMAIN rows : Active[i] = s]]
           msgs == [s \in DOMAIN theirs |-> Heard(s, theirs[s])]
<1>3. /\ log' = Write(Range(Active), msgs)
      /\ conv' = [s \in Samples |-> IF conv[s].pc = "out" THEN conv[s] ELSE BatchTurn(s, theirs[s])]
  BY DEF BatchHears
<1>4. DOMAIN log' = Samples /\ DOMAIN conv' = Samples BY <1>3 DEF Write
<1>5. DOMAIN rows = Rows /\ \A i \in Rows : AnswersRow(i, rows[i])
  <2>1. \A t \in Tasks : Group(t) # <<>> => AnsweredRows(t) BY <1>1 DEF RolloutInv, ReturnsAwaited
  <2> QED BY <2>1, RowAnswersOwn DEF RolloutInv
<1>6. ASSUME NEW s \in Open
      PROVE  theirs[s] \in EnvAnswer /\ theirs[s].by = s /\ theirs[s].turn = Replied(log[s]) /\ msgs[s] = Heard(s, theirs[s])
  <2> DEFINE i == CHOOSE i \in DOMAIN rows : Active[i] = s
  <2>1. theirs[s] = rows[i] /\ msgs[s] = Heard(s, theirs[s]) BY <1>2
  <2>2. i \in Rows /\ Active[i] = s
    <3> HIDE DEF rows
    <3> QED BY <1>2, <1>5
  <2> HIDE DEF i, rows, theirs, msgs
  <2> QED BY <1>5, <2>1, <2>2 DEF AnswersRow
<1> HIDE DEF rows, theirs, msgs
<1>7. ASSUME NEW s \in Samples PROVE Goes(s)
  <2>1. Sample(s, conv[s], log[s]) /\ s \in Nat BY SamplesAreNumbers DEF RolloutInv
  <2>2. CASE conv[s].pc = "out"
    <3>1. s \notin Open BY <2>2 DEF Open
    <3>2. log'[s] = log[s] /\ conv'[s] = conv[s] BY <1>2, <1>3, <2>2, <3>1 DEF Write
    <3> QED BY <2>1, <3>2 DEF Goes, Stays
  <2>3. CASE conv[s].pc # "out"
    <3>1. s \in Open /\ conv[s].pc = "env" BY <1>2, <2>3 DEF Open
    <3>2. log'[s] = Append(log[s], Heard(s, theirs[s])) BY <1>2, <1>3, <1>6, <3>1 DEF Write
    <3>3. conv'[s] = BatchTurn(s, theirs[s]) BY <1>3, <2>3
    <3>4. MaxSeqLen \in Nat BY DEF RolloutConstants
    <3>5. theirs[s].turn \in Nat BY <1>6, <3>1 DEF EnvAnswer
    <3>6. AfterAnswer(s, theirs[s], BatchTurn(s, theirs[s])) BY <1>6, <2>1, <3>1, <3>4, <3>5, BatchTurnHears
    <3>7. AfterAnswer(s, theirs[s], conv'[s]) BY <3>3, <3>6
    <3> QED BY <1>6, <2>1, <3>1, <3>2, <3>4, <3>7, HearingListens, Zenon
  <2> QED BY <2>2, <2>3
<1>8. ReturnsAwaited'
  <2>1. \A t \in Tasks : ret'[t] = <<>> BY <1>1
  <2> QED BY <1>1, <2>1, NothingReturned
<1>9. ret' = [t \in Tasks |-> ret'[t]] /\ status' \in {"running", "done", "raised"} BY <1>1 DEF RolloutInv
<1> QED BY <1>1, <1>4, <1>7, <1>8, <1>9, GoesWell

(* A sample that leaves its loop keeps what it has.                        *)
LEMMA LeavesWell ==
  ASSUME NEW s, Sample(s, conv[s], log[s]), conv[s].pc = "top", log'[s] = log[s],
         NEW turns \in Nat, NEW max \in BOOLEAN,
         conv'[s] = [conv[s] EXCEPT !.pc = "out", !.turns = turns, !.maxTurns = max]
  PROVE  Goes(s)
<1> DEFINE c == conv[s]
           d == conv'[s]
<1>1. c \in Convs BY DEF Sample
<1>2. /\ d \in Convs /\ d.pc = "out" /\ d.reward = c.reward /\ d.terminated = c.terminated
      /\ d.stop = c.stop /\ d.info = c.info /\ d.tok = c.tok
  BY <1>1, Zenon DEF Convs
<1> HIDE DEF d
<1>3. Sample(s, d, log[s]) BY <1>2 DEF Sample, Alternates, OwnOnly, InContext
<1> QED BY <1>2, <1>3 DEF Goes, Leaves, d

(* The batch loop ends: whoever was still active leaves it.                *)
LEMMA BatchEndsWell ==
  ASSUME RolloutInv, BatchEnds
  PROVE  RolloutInv' /\ \A s \in Samples : Goes(s)
<1>1. /\ AllAt("top") /\ UNCHANGED <<job, log, ret, faults>> /\ status' = "done"
      /\ conv' = [s \in Samples |->
                    IF conv[s].pc = "out" THEN conv[s]
                    ELSE [conv[s] EXCEPT !.pc = "out", !.maxTurns = TRUE]]
  BY Zenon DEF BatchEnds
<1>2. \A s \in Open : conv[s].pc = "top" BY <1>1, ActiveIsOpen, Zenon DEF RolloutInv
<1>3. ASSUME NEW s \in Samples PROVE Goes(s)
  <2>1. Sample(s, conv[s], log[s]) BY DEF RolloutInv
  <2>2. CASE conv[s].pc = "out"
    <3>1. log'[s] = log[s] /\ conv'[s] = conv[s] BY <1>1, <2>2, Zenon
    <3> QED BY <2>1, <3>1 DEF Goes, Stays
  <2>3. CASE conv[s].pc # "out"
    <3>1. conv[s].pc = "top" /\ log'[s] = log[s] BY <1>1, <1>2, <2>3, Zenon DEF Open
    <3>2. conv[s] \in Convs BY <2>1 DEF Sample
    <3>3. /\ conv'[s] = [conv[s] EXCEPT !.pc = "out", !.turns = conv[s].turns, !.maxTurns = TRUE]
          /\ conv[s].turns \in Nat
      BY <1>1, <2>3, <3>2, Zenon DEF Convs
    <3> QED BY <2>1, <3>1, <3>3, LeavesWell, Zenon
  <2> QED BY <2>2, <2>3
<1>4. ReturnsAwaited' BY <1>1, NoReturnsAtTop, NothingReturned, Zenon
<1> QED BY <1>1, <1>3, <1>4, GoesWell, Zenon DEF RolloutInv

-----------------------------------------------------------------------------
(* The coroutines.                                                         *)

(* A coroutine touches its own sample only.                                *)
LEMMA OthersStay ==
  ASSUME RolloutInv, ~LoopIs("batch"), UNCHANGED <<job, status, ret>>,
         NEW s \in Samples, Goes(s), DOMAIN log' = Samples, DOMAIN conv' = Samples,
         \A x \in Samples \ {s} : log'[x] = log[x] /\ conv'[x] = conv[x]
  PROVE  RolloutInv' /\ \A x \in Samples : Goes(x)
<1>1. \A x \in Samples : Goes(x)
  <2> SUFFICES ASSUME NEW x \in Samples, x # s PROVE Goes(x) OBVIOUS
  <2> QED BY DEF RolloutInv, Goes, Stays
<1>2. \A t \in Tasks : ret'[t] = <<>> BY DEF RolloutInv, ReturnsAwaited
<1>3. ReturnsAwaited' BY <1>2, NothingReturned
<1> QED BY <1>1, <1>3, GoesWell DEF RolloutInv

(* A coroutine gets its reply.                                             *)
LEMMA SampleSpeaksWell ==
  ASSUME RolloutInv, RolloutConstants, NEW s \in Samples, SampleSpeaks(s)
  PROVE  RolloutInv' /\ \A x \in Samples : Goes(x)
<1>1. /\ ~LoopIs("batch") /\ conv[s].pc = "top" /\ ~conv[s].terminated /\ UNCHANGED <<job, status, ret, faults>>
  BY DEF SampleSpeaks, Running, Ends
<1>2. PICK r \in Replies(s) :
        /\ log' = Write({s}, [x \in {s} |-> Message("assistant", r.len, x)])
        /\ conv' = [conv EXCEPT ![s] = [Spoken(s, r) EXCEPT !.turns = @ + 1]]
  BY Zenon DEF SampleSpeaks
<1>3. Sample(s, conv[s], log[s]) /\ s \in Nat BY SamplesAreNumbers DEF RolloutInv
<1> DEFINE m == Message("assistant", r.len, s)
<1>4. DOMAIN log' = Samples /\ log'[s] = Append(log[s], m) /\ \A x \in Samples \ {s} : log'[x] = log[x]
  BY <1>2 DEF Write
<1>5. /\ DOMAIN conv' = Samples /\ conv'[s] = [Spoken(s, r) EXCEPT !.turns = @ + 1]
      /\ \A x \in Samples \ {s} : conv'[x] = conv[x]
  BY <1>2 DEF RolloutInv
<1>6. MaxSeqLen \in Nat /\ MaxNewTokens \in Nat BY DEF RolloutConstants
<1>7. conv[s] \in Convs /\ conv[s].turns + 1 \in Nat BY <1>3 DEF Sample, Convs
<1>8. conv'[s] = [Spoken(s, r) EXCEPT !.turns = conv[s].turns + 1]
  <2>1. Spoken(s, r).turns = conv[s].turns BY <1>7 DEF Spoken, Convs
  <2> QED BY <1>5, <2>1
<1>9. /\ conv'[s].pc = "env" /\ conv'[s].terminated = conv[s].terminated /\ conv'[s].reward = conv[s].reward
  BY <1>7, <1>8 DEF Spoken, Convs
<1>10. Sample(s, conv'[s], log'[s])
  <2>1. Sample(s, [Spoken(s, r) EXCEPT !.turns = conv[s].turns + 1], Append(log[s], Message("assistant", r.len, s)))
    BY <1>1, <1>3, <1>6, <1>7, SpeaksWell
  <2> QED BY <1>4, <1>8, <2>1
<1>11. m \in Messages /\ m.role = "assistant"
  <2>1. r.len \in Nat BY <1>3, <1>6, RepliesFit
  <2> QED BY <1>3, <2>1 DEF Message, Messages
<1> HIDE DEF m
<1>12. Goes(s) BY <1>1, <1>4, <1>9, <1>10, <1>11 DEF Goes, Talks
<1> QED BY <1>1, <1>4, <1>5, <1>12, OthersStay

(* A coroutine hears its answer.                                           *)
LEMMA SampleHearsWell ==
  ASSUME RolloutInv, RolloutConstants, NEW s \in Samples, SampleHears(s)
  PROVE  RolloutInv' /\ \A x \in Samples : Goes(x)
<1>1. /\ ~LoopIs("batch") /\ conv[s].pc = "env" /\ UNCHANGED <<job, status, ret, faults>>
  BY DEF SampleHears, Running
<1>2. PICK b \in Answers :
        /\ log' = Write({s}, [x \in {s} |-> Heard(x, AnswerTo(log[s], b))])
        /\ conv' = [conv EXCEPT ![s] = SampleTurn(s, AnswerTo(log[s], b))]
  BY Zenon DEF SampleHears
<1>3. Sample(s, conv[s], log[s]) /\ s \in Nat BY SamplesAreNumbers DEF RolloutInv
<1> DEFINE a == AnswerTo(log[s], b)
<1>4. a \in EnvAnswer /\ a.by = s /\ a.turn = Replied(log[s]) /\ a.turn \in Nat
  <2>1. a \in EnvAnswer /\ a.by = s /\ a.turn = Replied(log[s]) BY <1>1, <1>3, AnswersItself
  <2> HIDE DEF a
  <2> QED BY <2>1 DEF EnvAnswer
<1> HIDE DEF a
<1>5. DOMAIN log' = Samples /\ log'[s] = Append(log[s], Heard(s, a)) /\ \A x \in Samples \ {s} : log'[x] = log[x]
  <2>1. log' = Write({s}, [x \in {s} |-> Heard(x, a)]) BY <1>2 DEF a
  <2> QED BY <2>1 DEF Write
<1>6. /\ DOMAIN conv' = Samples /\ conv'[s] = SampleTurn(s, a)
      /\ \A x \in Samples \ {s} : conv'[x] = conv[x]
  BY <1>2 DEF RolloutInv, a
<1>7. MaxSeqLen \in Nat BY DEF RolloutConstants
<1>8. AfterAnswer(s, a, conv'[s])
  <2>1. AfterAnswer(s, a, SampleTurn(s, a)) BY <1>1, <1>3, <1>4, <1>7, SampleTurnHears
  <2> QED BY <1>6, <2>1
<1>9. Goes(s) BY <1>1, <1>3, <1>4, <1>5, <1>7, <1>8, HearingListens, Zenon
<1> QED BY <1>1, <1>5, <1>6, <1>9, OthersStay

(* A coroutine whose generation fails, or whose turns or conversation are  *)
(* over, leaves its loop.                                                  *)
LEMMA SampleLeavesWell ==
  ASSUME RolloutInv, RolloutConstants, NEW s \in Samples, SampleFails(s) \/ SampleEnds(s)
  PROVE  RolloutInv' /\ \A x \in Samples : Goes(x)
<1>1. /\ ~LoopIs("batch") /\ conv[s].pc = "top" /\ UNCHANGED <<job, status, log, ret>>
  BY DEF SampleFails, SampleEnds, Running
<1>2. Sample(s, conv[s], log[s]) /\ conv[s] \in Convs BY DEF RolloutInv, Sample
<1>3. conv[s].turns \in Nat /\ conv[s].turns + 1 \in Nat BY <1>2 DEF Convs
<1>4. /\ DOMAIN conv' = Samples /\ \A x \in Samples \ {s} : conv'[x] = conv[x]
      /\ \E turns \in Nat, max \in BOOLEAN :
           conv'[s] = [conv[s] EXCEPT !.pc = "out", !.turns = turns, !.maxTurns = max]
  <2>1. CASE SampleFails(s)
    <3> DEFINE max == LoopIs("sample") /\ conv[s].turns + 1 >= MaxTurns
    <3>1. conv' = [conv EXCEPT ![s] = [conv[s] EXCEPT !.pc = "out", !.turns = conv[s].turns + 1, !.maxTurns = max]]
      BY <2>1, Zenon DEF SampleFails
    <3>2. max \in BOOLEAN OBVIOUS
    <3> HIDE DEF max
    <3> QED BY <1>3, <3>1, <3>2, Zenon DEF RolloutInv
  <2>2. CASE SampleEnds(s)
    <3> DEFINE max == conv[s].turns >= MaxTurns
    <3>1. conv' = [conv EXCEPT ![s] = [conv[s] EXCEPT !.pc = "out", !.maxTurns = max]]
      BY <2>2, Zenon DEF SampleEnds
    <3>2. max \in BOOLEAN OBVIOUS
    <3> HIDE DEF max
    <3>3. [conv[s] EXCEPT !.pc = "out", !.maxTurns = max]
            = [conv[s] EXCEPT !.pc = "out", !.turns = conv[s].turns, !.maxTurns = max]
      BY <1>2, Zenon DEF Convs
    <3> QED BY <1>3, <3>1, <3>2, <3>3, Zenon DEF RolloutInv
  <2> QED BY <2>1, <2>2, Zenon
<1>5. Goes(s) BY <1>1, <1>2, <1>4, LeavesWell, Zenon
<1>6. DOMAIN log' = Samples /\ \A x \in Samples \ {s} : log'[x] = log[x] BY <1>1 DEF RolloutInv
<1> QED BY <1>1, <1>4, <1>5, <1>6, OthersStay

(* The results are gathered, or a call raises and the rollout is lost: no  *)
(* conversation changes.                                                   *)
LEMMA EndsWell ==
  ASSUME RolloutInv, UNCHANGED <<job, log, conv, ret>>, status' \in {"running", "done", "raised"}
  PROVE  RolloutInv' /\ \A s \in Samples : Goes(s)
<1>1. \A s \in Samples : Goes(s) BY DEF RolloutInv, Goes, Stays
<1>2. ReturnsAwaited'
  <2>1. /\ Tasks' = Tasks /\ Open' = Open /\ LoopIs("batch")' = LoopIs("batch")
        /\ \A t \in Tasks : AnsweredRows(t)' <=> AnsweredRows(t)
    BY RowsStay DEF LoopIs
  <2> QED BY <2>1 DEF RolloutInv, ReturnsAwaited
<1> QED BY <1>1, <1>2, GoesWell DEF RolloutInv

-----------------------------------------------------------------------------
(* The specification.                                                      *)

(* Every step leaves every sample well, and moves it in one of four ways.  *)
LEMMA StepWell ==
  ASSUME RolloutInv, RolloutConstants, Step
  PROVE  RolloutInv' /\ \A s \in Samples : Goes(s)
<1>1. CASE BatchSpeaks BY <1>1, BatchSpeaksWell
<1>2. CASE \E t \in Tasks : EnvAnswers(t) BY <1>2, EnvAnswersWell
<1>3. CASE BatchHears BY <1>3, BatchHearsWell
<1>4. CASE BatchEnds BY <1>4, BatchEndsWell
<1>5. CASE \E s \in Samples : SampleSpeaks(s) BY <1>5, SampleSpeaksWell
<1>6. CASE \E s \in Samples : SampleFails(s) \/ SampleEnds(s) BY <1>6, SampleLeavesWell
<1>7. CASE \E s \in Samples : SampleHears(s) BY <1>7, SampleHearsWell
<1>8. CASE Gathered \/ Raises
  <2>1. UNCHANGED <<job, log, conv, ret>> /\ status' \in {"running", "done", "raised"} BY <1>8 DEF Gathered, Raises
  <2> QED BY <2>1, EndsWell
<1> QED BY <1>1, <1>2, <1>3, <1>4, <1>5, <1>6, <1>7, <1>8 DEF Step

(* The log of a prompt is a conversation in which nobody has spoken yet.   *)
LEMMA FreshWell ==
  ASSUME NEW s \in Nat, NEW n \in 1 .. MaxSeqLen, MaxSeqLen \in Nat, LoopIs("batch") => n < MaxSeqLen
  PROVE  Sample(s, Fresh, <<Message("user", n, None)>>)
<1> DEFINE m == Message("user", n, None)
           l == <<m>>
<1>1. m \in Messages /\ m.role = "user" /\ m.len = n BY DEF Message, Messages
<1> HIDE DEF m
<1>2. l \in Seq(Messages) /\ Len(l) = 1 /\ l[1] = m /\ l # <<>> BY <1>1
<1>3. \A R : Tokens(l, R) = IF "user" \in R THEN n ELSE 0 BY <1>1, TokensOfPrompt
<1>4. \A role : CountOf(l, role) = IF "user" = role THEN 1 ELSE 0 BY <1>1, CountOfPrompt
<1> HIDE DEF l
<1>5. Fresh \in Convs BY DEF Fresh, Convs
<1>6. Alternates(Fresh, l)
  <2>1. CountOf(l, "assistant") = 0 /\ CountOf(l, "environment") = 0 BY <1>4
  <2> QED BY <1>1, <1>2, <2>1 DEF Alternates, Fresh
<1>7. OwnOnly(s, Fresh, l)
  <2>1. CountOf(l, "environment") = 0 BY <1>4
  <2>2. Worth(s) * 0 = 0 BY DEF Worth
  <2> QED BY <1>2, <2>1, <2>2 DEF OwnOnly, Fresh
<1>8. InContext(Fresh, l)
  <2>1. Size(l) = n /\ Tokens(l, {"assistant"}) = 0 /\ Tokens(l, {"environment"}) = 0 BY <1>3 DEF Size
  <2> QED BY <2>1 DEF InContext, Fresh
<1> QED BY <1>2, <1>5, <1>6, <1>7, <1>8 DEF Sample, l, m

(* Rollouts begin well.                                                    *)
LEMMA InitWell ==
  ASSUME RolloutConstants, RolloutInit \/ NoRollout
  PROVE  RolloutInv
<1>1. CASE RolloutInit
  <2>1. GoodJob BY <1>1 DEF RolloutInit, RolloutConstants, GoodJob
  <2>2. PICK len \in [1 .. Len(job.tasks) -> PromptLens] :
          /\ LoopIs("batch") => \A p \in DOMAIN len : len[p] < MaxSeqLen
          /\ log = [s \in Samples |-> <<Message("user", len[s \div job.gens + 1], None)>>]
    BY <1>1 DEF RolloutInit
  <2>3. conv = [s \in Samples |-> Fresh] /\ ret = [t \in Tasks |-> <<>>] /\ status = "running" BY <1>1 DEF RolloutInit
  <2>4. ASSUME NEW s \in Samples PROVE Sample(s, conv[s], log[s])
    <3> DEFINE p == s \div job.gens + 1
    <3>1. s \in Nat /\ p \in 1 .. Len(job.tasks) BY <2>1, SampleOfPrompt
    <3> HIDE DEF p
    <3>2. len[p] \in 1 .. MaxSeqLen /\ MaxSeqLen \in Nat /\ (LoopIs("batch") => len[p] < MaxSeqLen)
      BY <2>2, <3>1, Zenon DEF RolloutConstants
    <3>3. Sample(s, Fresh, <<Message("user", len[p], None)>>) BY <3>1, <3>2, FreshWell
    <3>4. conv[s] = Fresh /\ log[s] = <<Message("user", len[p], None)>> BY <2>2, <2>3 DEF p
    <3> QED BY <3>3, <3>4
  <2>5. ReturnsAwaited BY <2>3 DEF ReturnsAwaited
  <2> QED BY <2>1, <2>2, <2>3, <2>4, <2>5 DEF RolloutInv
<1>2. CASE NoRollout
  <2>1. /\ job.tasks = <<>> /\ job.gens = 1 /\ status = "done" /\ log = <<>> /\ conv = <<>> /\ ret = <<>>
    BY <1>2 DEF NoRollout
  <2>2. Len(job.tasks) = 0 /\ DOMAIN job.tasks = {} /\ job.tasks \in Seq(Range(job.tasks)) BY <2>1
  <2>3. GoodJob
    <3>1. Len(job.tasks) * job.gens = 0 BY <2>1, <2>2
    <3> QED BY <2>1, <2>2, <3>1 DEF GoodJob, RolloutConstants
  <2>4. Samples = {} BY <2>1, <2>2 DEF Samples
  <2>5. Tasks = {} BY <2>2 DEF Tasks, Range
  <2>6. DOMAIN log = {} /\ DOMAIN conv = {} /\ ret = [t \in Tasks |-> ret[t]] BY <2>1, <2>5
  <2> QED BY <2>1, <2>3, <2>4, <2>5, <2>6 DEF RolloutInv, ReturnsAwaited
<1> QED BY <1>1, <1>2

(* In every state of every rollout each conversation is well.              *)
THEOREM RolloutInvariant == RolloutSpec => []RolloutInv
<1>1. RolloutInit \/ NoRollout => RolloutInv BY InitWell, RolloutConstants
<1>2. RolloutInv /\ [Step]_rolloutVars => RolloutInv'
  <2> SUFFICES ASSUME RolloutInv, [Step]_rolloutVars PROVE RolloutInv' OBVIOUS
  <2>1. CASE Step BY <2>1, StepWell, RolloutConstants
  <2>2. CASE UNCHANGED rolloutVars BY <2>2, EndsWell DEF rolloutVars, RolloutInv
  <2> QED BY <2>1, <2>2
<1> QED BY <1>1, <1>2, PTL DEF RolloutSpec

(* What is heard in a conversation is about it, and it fits its context:   *)
(* whatever the loop of the rollout (rollouts.py, rollout_manager.py), the *)
(* number of samples, turns and tokens, the tasks that are answered        *)
(* together and the calls that fail.                                       *)
THEOREM ConversationsHold == RolloutSpec => []ConversationsSound
<1>1. RolloutInv => ConversationsSound
  <2> SUFFICES ASSUME RolloutInv PROVE OwnAnswers /\ FitsContext BY DEF ConversationsSound
  <2>1. \A s \in Samples : OwnOnly(s, conv[s], log[s]) /\ InContext(conv[s], log[s]) BY DEF RolloutInv, Sample
  <2>2. OwnAnswers BY <2>1 DEF OwnAnswers, OwnOnly
  <2>3. FitsContext BY <2>1 DEF FitsContext, InContext
  <2> QED BY <2>2, <2>3
<1> QED BY <1>1, RolloutInvariant, PTL

-----------------------------------------------------------------------------
(* The promise of the rollouts.                                            *)

Numbers == 0 .. MaxSamples - 1
Roles(l) == [k \in DOMAIN l |-> l[k].role]
Said == [s \in Numbers |-> IF s \in Samples THEN [k \in DOMAIN log[s] |-> log[s][k].role] ELSE <<"user">>]
Earned == [s \in Numbers |-> IF s \in Samples THEN conv[s].reward ELSE 0]
Ended == {s \in Samples : conv[s].terminated}

(* The roles of a log are a sequence, which grows with the log.            *)
LEMMA RolesGrow ==
  ASSUME NEW l \in Seq(Messages)
  PROVE  /\ Roles(l) \in Seq({"user", "assistant", "environment"}) /\ Len(Roles(l)) = Len(l)
         /\ l # <<>> => Roles(l)[Len(Roles(l))] = l[Len(l)].role
         /\ \A m \in Messages : Roles(Append(l, m)) = Append(Roles(l), m.role)
<1>1. DOMAIN l = 1 .. Len(l) /\ Len(l) \in Nat /\ \A k \in DOMAIN l : l[k] \in Messages OBVIOUS
<1>2. \A k \in DOMAIN l : l[k].role \in {"user", "assistant", "environment"} BY <1>1 DEF Messages
<1>3. /\ Roles(l) \in Seq({"user", "assistant", "environment"}) /\ Len(Roles(l)) = Len(l)
      /\ DOMAIN Roles(l) = 1 .. Len(l) /\ \A k \in 1 .. Len(l) : Roles(l)[k] = l[k].role
  BY <1>1, <1>2 DEF Roles
<1>4. l # <<>> => Len(l) \in 1 .. Len(l) BY <1>1
<1>5. ASSUME NEW m \in Messages PROVE Roles(Append(l, m)) = Append(Roles(l), m.role)
  <2>1. m.role \in {"user", "assistant", "environment"} BY DEF Messages
  <2> DEFINE a == Append(l, m)
             b == Append(Roles(l), m.role)
  <2>2. /\ DOMAIN a = 1 .. Len(l) + 1 /\ \A k \in 1 .. Len(l) : a[k] = l[k]
        /\ a[Len(l) + 1] = m
    BY <1>1
  <2>3. /\ DOMAIN b = 1 .. Len(l) + 1 /\ \A k \in 1 .. Len(l) : b[k] = Roles(l)[k]
        /\ b[Len(l) + 1] = m.role /\ b = [k \in DOMAIN b |-> b[k]]
    BY <1>1, <1>3, <2>1
  <2> HIDE DEF a, b
  <2>4. \A k \in 1 .. Len(l) + 1 : a[k].role = b[k] BY <1>1, <1>3, <2>2, <2>3
  <2>5. Roles(a) = b BY <2>2, <2>3, <2>4 DEF Roles
  <2> QED BY <2>5 DEF a, b
<1> QED BY <1>3, <1>4, <1>5

(* The samples of a job are among the largest number of them.              *)
LEMMA SamplesAreFew ==
  ASSUME GoodJob, RolloutConstants
  PROVE  Samples \subseteq Numbers
<1> DEFINE n == Len(job.tasks) * job.gens
<1>1. n \in Nat BY SamplesAreNumbers
<1>2. n <= MaxSamples /\ MaxSamples \in Nat BY DEF GoodJob, RolloutConstants
<1> HIDE DEF n
<1>3. \A s \in 0 .. n - 1 : s \in 0 .. MaxSamples - 1 BY <1>1, <1>2
<1> QED BY <1>3 DEF Samples, Numbers, n

(* The sequences of roles and the rewards stay what they are.              *)
LEMMA PromiseTyped ==
  RolloutInv => /\ Said \in [Numbers -> Seq({"user", "assistant", "environment"})]
                /\ Earned \in [Numbers -> Nat]
<1> SUFFICES ASSUME RolloutInv
             PROVE  /\ Said \in [Numbers -> Seq({"user", "assistant", "environment"})]
                    /\ Earned \in [Numbers -> Nat]
  OBVIOUS
<1>1. \A s \in Samples : Roles(log[s]) \in Seq({"user", "assistant", "environment"})
  BY RolesGrow DEF RolloutInv, Sample
<1>2. \A s \in Samples : conv[s].reward \in Nat BY DEF RolloutInv, Sample, Convs
<1>3. <<"user">> \in Seq({"user", "assistant", "environment"}) OBVIOUS
<1>4. Said = [s \in Numbers |-> IF s \in Samples THEN Roles(log[s]) ELSE <<"user">>] BY DEF Said, Roles
<1>5. Said \in [Numbers -> Seq({"user", "assistant", "environment"})] BY <1>1, <1>3, <1>4, Zenon
<1>6. Earned \in [Numbers -> Nat] BY <1>2 DEF Earned
<1> QED BY <1>5, <1>6

(* So they are after a step that keeps the invariant.                      *)
LEMMA PromiseStaysTyped ==
  RolloutInv' => /\ Said' \in [Numbers -> Seq({"user", "assistant", "environment"})]
                 /\ Earned' \in [Numbers -> Nat]
<1>1. Numbers' = Numbers BY DEF Numbers
<1>2. RolloutInv' => (/\ Said \in [Numbers -> Seq({"user", "assistant", "environment"})]
                      /\ Earned \in [Numbers -> Nat])'
  BY PromiseTyped, PTL
<1> QED BY <1>1, <1>2

(* What a step does to a sample is one of the four moves of a              *)
(* conversation.                                                           *)
LEMMA SampleMoves ==
  ASSUME RolloutInv, RolloutInv', job' = job, status # "raised", status' # "raised",
         NEW s \in Samples, s \in Numbers, Goes(s)
  PROVE  \/ Abstract!Quiet(s) /\ (s \in Open <=> s \in Open')
         \/ Abstract!Speaks(s) \/ Abstract!Hears(s) \/ Abstract!Closes(s)
<1>1. Samples' = Samples BY DEF Samples
<1>2. Sample(s, conv[s], log[s]) BY DEF RolloutInv
<1>3. /\ (s \in Open <=> conv[s].pc # "out") /\ (s \in Open' <=> conv'[s].pc # "out")
      /\ (s \in Ended <=> conv[s].terminated) /\ (s \in Ended' <=> conv'[s].terminated)
  BY <1>1 DEF Open, Ended
<1>4. /\ Said[s] = Roles(log[s]) /\ Said'[s] = Roles(log'[s])
      /\ Earned[s] = conv[s].reward /\ Earned'[s] = conv'[s].reward
  BY <1>1 DEF Said, Roles, Earned
<1>5. /\ Roles(log[s])[Len(Roles(log[s]))] = log[s][Len(log[s])].role
      /\ \A m \in Messages : Roles(Append(log[s], m)) = Append(Roles(log[s]), m.role)
  BY <1>2, RolesGrow DEF Sample, Alternates
<1>6. (Said[s][Len(Said[s])] = "assistant") <=> conv[s].pc = "env"
  BY <1>2, <1>4, <1>5 DEF Sample, Alternates
<1>7. CASE Stays(s)
  <2>1. Said'[s] = Said[s] /\ Earned'[s] = Earned[s] /\ (s \in Ended <=> s \in Ended') /\ (s \in Open <=> s \in Open')
    BY <1>3, <1>4, <1>7 DEF Stays
  <2>2. Abstract!Quiet(s) BY <2>1 DEF Abstract!Quiet, Said, Earned, Ended, Numbers
  <2> QED BY <2>1, <2>2
<1>8. CASE Talks(s)
  <2>1. /\ Said'[s] = Append(Said[s], "assistant") /\ Earned'[s] = Earned[s]
        /\ s \in Open /\ s \in Open' /\ s \notin Ended' /\ Said[s][Len(Said[s])] # "assistant"
    BY <1>3, <1>4, <1>5, <1>6, <1>8 DEF Talks
  <2>2. Abstract!Speaks(s)
    BY <2>1, Zenon DEF Abstract!Speaks, Abstract!Unanswered, Said, Earned, Ended, Open, Numbers
  <2> QED BY <2>2
<1>9. CASE Listens(s)
  <2>1. /\ Said'[s] = Append(Said[s], "environment") /\ Earned'[s] = Earned[s] + Worth(s)
        /\ s \in Open /\ Said[s][Len(Said[s])] = "assistant"
    BY <1>3, <1>4, <1>5, <1>6, <1>9 DEF Listens
  <2>2. Abstract!Hears(s)
    BY <2>1, Zenon DEF Abstract!Hears, Abstract!Unanswered, Said, Earned, Open, Numbers
  <2> QED BY <2>2
<1>10. CASE Leaves(s)
  <2>1. /\ Said'[s] = Said[s] /\ Earned'[s] = Earned[s] /\ (s \in Ended <=> s \in Ended')
        /\ s \in Open /\ s \notin Open' /\ Said[s][Len(Said[s])] # "assistant"
    BY <1>3, <1>4, <1>6, <1>10 DEF Leaves
  <2>2. Abstract!Closes(s)
    BY <2>1 DEF Abstract!Closes, Abstract!Quiet, Abstract!Unanswered, Said, Earned, Ended, Open, Numbers
  <2> QED BY <2>2
<1> QED BY <1>7, <1>8, <1>9, <1>10 DEF Goes

(* Nobody comes back to a conversation that was left, and what an          *)
(* environment ended stays ended.                                          *)
LEMMA NobodyReturns ==
  ASSUME RolloutInv, job' = job, \A s \in Samples : Goes(s)
  PROVE  Open' \subseteq Open /\ Ended \subseteq Ended'
<1>1. Samples' = Samples BY DEF Samples
<1>2. ASSUME NEW s \in Samples
      PROVE  (conv'[s].pc # "out" => conv[s].pc # "out") /\ (conv[s].terminated => conv'[s].terminated)
  <2>1. Sample(s, conv[s], log[s]) /\ Goes(s) BY DEF RolloutInv
  <2> QED BY <2>1 DEF Sample, Alternates, Goes, Stays, Talks, Listens, Leaves
<1> QED BY <1>1, <1>2 DEF Open, Ended

(* A step that does not lose the rollout moves its conversations on.       *)
LEMMA StepMoves ==
  ASSUME RolloutInv, RolloutInv', RolloutConstants, job' = job, \A s \in Samples : Goes(s),
         status # "raised", status' # "raised"
  PROVE  Abstract!Move
<1>1. Samples' = Samples /\ Samples \subseteq Numbers BY SamplesAreFew DEF Samples, RolloutInv
<1>2. Open' \subseteq Open /\ Ended \subseteq Ended' BY NobodyReturns
<1>3. /\ Said' \in [Numbers -> Seq({"user", "assistant", "environment"})]
      /\ Earned' \in [Numbers -> Nat]
  BY PromiseStaysTyped
<1>4. ASSUME NEW s \in Numbers
      PROVE  \/ Abstract!Quiet(s) /\ (s \in Open <=> s \in Open')
             \/ Abstract!Speaks(s) \/ Abstract!Hears(s) \/ Abstract!Closes(s)
  <2>1. CASE s \in Samples BY <2>1, SampleMoves
  <2>2. CASE s \notin Samples
    <3>1. /\ Said'[s] = Said[s] /\ Earned'[s] = Earned[s] BY <1>1, <2>2 DEF Said, Earned
    <3>2. s \notin Open /\ s \notin Open' /\ s \notin Ended /\ s \notin Ended' BY <1>1, <2>2 DEF Open, Ended
    <3>3. Abstract!Quiet(s) BY <3>1, <3>2 DEF Abstract!Quiet, Said, Earned, Ended, Numbers
    <3> QED BY <3>2, <3>3
  <2> QED BY <2>1, <2>2
<1> QED BY <1>2, <1>3, <1>4 DEF Abstract!Move, Open, Ended, Said, Earned, Numbers

(* A call that raises while samples are active loses the rollout.          *)
LEMMA RaisingAborts ==
  ASSUME RolloutInv, Raises
  PROVE  Abstract!Abort
<1>1. /\ status = "running" /\ status' = "raised" /\ UNCHANGED <<job, log, conv, ret>>
      /\ (\E s \in Samples : conv[s].pc = "env") \/ Active # <<>>
  BY DEF Raises
<1>2. Open # {} BY <1>1, ActiveIsOpen DEF Open, RolloutInv
<1>3. Samples' = Samples BY <1>1 DEF Samples
<1>4. /\ Said' = Said /\ Earned' = Earned /\ Ended' = Ended BY <1>1, <1>3 DEF Said, Earned, Ended
<1> QED BY <1>1, <1>2, <1>4 DEF Abstract!Abort, Open, Said, Earned, Ended, Numbers

(* Whatever loop a rollout takes (rollouts.py, rollout_manager.py), it     *)
(* holds one conversation per sample in which replies and answers          *)
(* alternate, each reply is rewarded once, and no conversation is taken up *)
(* again or left on a reply, unless the rollout as a whole is lost.        *)
THEOREM RolloutsKeepPromise == RolloutSpec => PromiseOfRollouts
<1>1. RolloutInit \/ NoRollout => Abstract!Init
  <2> SUFFICES ASSUME RolloutInit \/ NoRollout PROVE Abstract!Init OBVIOUS
  <2>1. RolloutInv /\ status # "raised" /\ \A s \in Samples : log[s] = <<log[s][1]>> /\ conv[s] = Fresh
    <3>1. RolloutInv BY InitWell, RolloutConstants
    <3>2. CASE RolloutInit BY <3>1, <3>2 DEF RolloutInit
    <3>3. CASE NoRollout
      <4>1. Len(job.tasks) = 0 /\ job.gens = 1 /\ status = "done" BY <3>3 DEF NoRollout
      <4>2. Samples = {} BY <4>1 DEF Samples
      <4> QED BY <3>1, <4>1, <4>2
    <3> QED BY <3>2, <3>3
  <2>2. \A s \in Samples : Roles(log[s]) = <<"user">> /\ conv[s].reward = 0 /\ ~conv[s].terminated
    BY <2>1 DEF RolloutInv, Sample, Alternates, Roles, Fresh
  <2>3. Said = [s \in Numbers |-> <<"user">>] /\ Earned = [s \in Numbers |-> 0] /\ Ended = {} /\ Open \subseteq Numbers
    BY <2>1, <2>2, SamplesAreFew, RolloutConstants, Zenon DEF Said, Roles, Earned, Ended, Open, RolloutInv
  <2> QED BY <2>1, <2>3 DEF Abstract!Init, Said, Earned, Ended, Open, Numbers
<1>2. RolloutInv /\ RolloutInv' /\ [Step]_rolloutVars => [Abstract!Next]_Abstract!promiseVars
  <2> SUFFICES ASSUME RolloutInv, RolloutInv', [Step]_rolloutVars
               PROVE  [Abstract!Next]_Abstract!promiseVars
    OBVIOUS
  <2>1. CASE Raises BY <2>1, RaisingAborts DEF Abstract!Next
  <2>2. CASE Step /\ ~Raises
    <3>1. job' = job /\ status = "running" /\ status' \in {"running", "done"}
      BY <2>2, Zenon DEF Step, BatchSpeaks, EnvAnswers, BatchHears, BatchEnds, SampleSpeaks, SampleFails,
                  SampleHears, SampleEnds, Running, Gathered
    <3>2. \A s \in Samples : Goes(s) BY <2>2, StepWell, RolloutConstants
    <3>3. Abstract!Move BY <3>1, <3>2, StepMoves, RolloutConstants
    <3> QED BY <3>3 DEF Abstract!Next
  <2>3. CASE UNCHANGED rolloutVars
    <3>1. Samples' = Samples /\ UNCHANGED <<log, conv, status>> BY <2>3 DEF rolloutVars, Samples
    <3> QED BY <3>1 DEF Abstract!promiseVars
  <2> QED BY <2>1, <2>2, <2>3
<1> QED BY <1>1, <1>2, RolloutInvariant, PTL DEF RolloutSpec, PromiseOfRollouts, Abstract!Spec

-----------------------------------------------------------------------------
(* The data path.                                                          *)

(* What follows a rollout reads its conversations and leaves them alone.   *)
LEMMA RolloutsOfData == DataSpec => RolloutSpec
<1>1. DataInit => RolloutInit \/ NoRollout BY DEF DataInit
<1>2. [DataNext]_dataVars => [Step]_rolloutVars
  <2> SUFFICES ASSUME [DataNext]_dataVars PROVE Step \/ UNCHANGED rolloutVars OBVIOUS
  <2> QED BY DEF DataNext, dataVars, RolloutBatch, DatasetBatch, ScoreBatch, GenerateBatch, RefitGeneration,
                 SetUpJob, LearnFromBatch, AlignTexts, DistillBatch, Over
<1> QED BY <1>1, <1>2, PTL DEF DataSpec, RolloutSpec

(* So it is in the data path: whatever is trained or scored with the       *)
(* conversations of a rollout (rollouts.py, rollout_manager.py), each of   *)
(* them is its own and within the context of the model.                    *)
THEOREM ConversationsInData == DataSpec => []ConversationsSound
BY RolloutsOfData, ConversationsHold

(* And the rollouts of the data path keep the promise of Conversations,    *)
(* whatever is called with their batch (rollouts.py, rollout_manager.py).  *)
THEOREM PromiseInData == DataSpec => PromiseOfRollouts
BY RolloutsOfData, RolloutsKeepPromise

-----------------------------------------------------------------------------
(* The generation engines.                                                 *)

Asks ==
  [at : {"waiting", "unsent", "sent", "lost", "failed", "back"}, tries : Nat, engine : Nat, local : BOOLEAN]
Endings == [row : Nat, new : Nat, cut : BOOLEAN, stops : SUBSET Nat]

FleetTyped ==
  /\ gen \in {"none", "open", "answered", "raised"} /\ genFaults \in Nat
  /\ fleet.kind \in FleetKinds /\ fleet.engines \in Nat \ {0} /\ fleet.slots \in Nat
  /\ fleet.prompts \in Seq(0 .. ContextLen) /\ turn \in Engines
  /\ gen = "none" => fleet.kind = "vllm" /\ turn = 0 /\ Prompts = {}
  /\ gen # "none" => ask \in [Prompts -> Asks] /\ reply \in [Prompts -> Endings]

(* What a request that came back brought with it.                          *)
GoodReply(i) ==
  /\ reply[i].row = i /\ fleet.prompts[i] + reply[i].new <= ContextLen /\ reply[i].new <= NewTokens
  /\ reply[i].cut => reply[i].new = Room(i)
  /\ reply[i].stops \subseteq {i} \/ fleet.kind = "vllm"

(* Every prompt is with an engine, back, or its own call has failed, of    *)
(* which the caller hears unless the prompt was a call of its own.         *)
AskedFor(i) ==
  /\ IF ask[i].at = "back" THEN GoodReply(i) ELSE reply[i] = NoReply
  /\ ask[i].at = "failed" => Alone(fleet.kind) \/ gen = "raised"
  /\ ask[i].at # "unsent"
  /\ gen = "answered" => Finished(i) /\ result[i] = reply[i]

(* A batch that is handed over as a whole is out as a whole.               *)
AsWhole == fleet.kind \in {"vllm", "megatron", "megatron_async"}
OutTogether ==
  AsWhole => (\A i \in Prompts : ask[i].at = "waiting") \/ (\A i \in Prompts : ask[i].at # "waiting")

AllAsked ==
  /\ gen # "none" => (\A i \in Prompts : AskedFor(i)) /\ OutTogether
  /\ gen = "answered" => Len(result) = Len(fleet.prompts)

Blamed == gen = "raised" => genFaults > 0 \/ \E i \in Prompts : Room(i) <= 0
SlotsKept == fleet.kind = "sglang" /\ gen # "none" => Cardinality(Held) <= Slots

(* The replicas before the one whose turn it is have taken one more.       *)
Fair(q) == \A e \in Engines : Cardinality(Taken(e)) = IF e < turn THEN q + 1 ELSE q
TurnsKept == fleet.kind = "vllm_async" /\ gen # "none" => \E q \in Nat : Fair(q)

FleetInv == FleetTyped /\ AllAsked /\ Blamed /\ SlotsKept /\ TurnsKept

(* The prompts of a batch are a finite set, and so is any part of them.    *)
LEMMA PromptsFinite ==
  ASSUME FleetTyped
  PROVE  /\ Prompts = 1 .. Len(fleet.prompts) /\ Len(fleet.prompts) \in Nat
         /\ \A S \in SUBSET Prompts : IsFiniteSet(S) /\ Cardinality(S) \in Nat
<1>1. Prompts = 1 .. Len(fleet.prompts) /\ Len(fleet.prompts) \in Nat BY DEF FleetTyped, Prompts
<1>2. IsFiniteSet(Prompts) BY <1>1, FS_Interval
<1> QED BY <1>1, <1>2, FS_Subset, FS_CardinalityType, Zenon

(* There is room for whole tokens, at most the new tokens asked for.       *)
LEMMA RoomFits ==
  ASSUME FleetTyped, NEW i \in Prompts
  PROVE  /\ Room(i) \in Int /\ Room(i) <= NewTokens /\ fleet.prompts[i] + Room(i) <= ContextLen
         /\ fleet.prompts[i] \in Nat /\ fleet.prompts[i] <= ContextLen
<1>1. NewTokens \in Nat /\ ContextLen \in Nat BY FleetConstants
<1>2. fleet.prompts[i] \in 0 .. ContextLen
  <2>1. fleet.prompts \in Seq(0 .. ContextLen) BY DEF FleetTyped
  <2>2. i \in 1 .. Len(fleet.prompts) BY PromptsFinite
  <2> QED BY <2>1, <2>2, ElementOfSeq, Zenon
<1> QED BY <1>1, <1>2 DEF Room, Least

-----------------------------------------------------------------------------
(* The shards of a batch.                                                  *)

(* So many shards of that size hold the batch.                             *)
LEMMA ShardsSuffice ==
  ASSUME NEW n \in Nat, NEW E \in Nat \ {0}, NEW s, s = (n + E - 1) \div E
  PROVE  s \in Nat /\ E * s >= n
<1>1. n + E - 1 \in Nat /\ E \in Nat \ {0} OBVIOUS
<1> DEFINE m == n + E - 1
<1>2. m \in Nat /\ s = m \div E OBVIOUS
<1> HIDE DEF m
<1>3. m \div E \in Nat /\ m % E \in 0 .. E - 1 /\ m = E * (m \div E) + (m % E) BY <1>2
<1>4. m <= E * s + E - 1 BY <1>2, <1>3
<1> QED BY <1>2, <1>3, <1>4 DEF m

(* Where a shard begins, for the shards of the batch and the end.          *)
LEMMA ShardBounds ==
  ASSUME FleetTyped, NEW e \in Nat, e <= fleet.engines
  PROVE  /\ ShardStart(e) \in Nat /\ ShardStart(e) <= Len(fleet.prompts)
         /\ e = 0 => ShardStart(e) = 0
         /\ e = fleet.engines => ShardStart(e) = Len(fleet.prompts)
         /\ ShardStart(e) <= ShardStart(e + 1)
<1> DEFINE n == Len(fleet.prompts)
           s == ShardSize
<1>1. n \in Nat /\ fleet.engines \in Nat \ {0} BY DEF FleetTyped
<1>2. s \in Nat /\ fleet.engines * s >= n BY <1>1, ShardsSuffice, Zenon DEF ShardSize
<1>3. ShardStart(e) = Least(e * s, n) /\ ShardStart(e + 1) = Least((e + 1) * s, n) BY DEF ShardStart
<1> HIDE DEF n, s
<1>4. e * s \in Nat /\ (e + 1) * s = e * s + s /\ (e + 1) * s \in Nat BY <1>2
<1>5. e = 0 => e * s = 0 BY <1>2
<1>6. e = fleet.engines => e * s >= n BY <1>2
<1> QED BY <1>1, <1>2, <1>3, <1>4, <1>5, <1>6 DEF Least, n

(* A number that is no more than another is no more often as much.         *)
LEMMA TimesOrder ==
  ASSUME NEW a \in Nat, NEW b \in Nat, NEW s \in Nat, a <= b
  PROVE  a * s <= b * s
<1>1. b = a + (b - a) /\ b - a \in Nat OBVIOUS
<1> DEFINE d == b - a
<1>2. d * s \in Nat /\ (a + d) * s = a * s + d * s /\ a * s \in Nat BY <1>1
<1> QED BY <1>1, <1>2

(* Every prompt is in the shard of a replica.                              *)
LEMMA ShardsCover ==
  ASSUME FleetTyped, NEW i \in Prompts
  PROVE  \E e \in Engines : i \in ShardOf(e)
<1> DEFINE n == Len(fleet.prompts)
           s == ShardSize
           E == fleet.engines
           e == (i - 1) \div s
<1>1. n \in Nat /\ E \in Nat \ {0} /\ i \in 1 .. n BY DEF FleetTyped, Prompts
<1>2. s \in Nat /\ E * s >= n BY <1>1, ShardsSuffice, Zenon DEF ShardSize
<1>3. s # 0
  <2> SUFFICES ASSUME s = 0 PROVE FALSE OBVIOUS
  <2> HIDE DEF n, s, E
  <2>1. E * s = 0 BY <1>1
  <2> QED BY <1>1, <1>2, <2>1
<1>4. e \in Nat /\ e * s <= i - 1 /\ i - 1 < (e + 1) * s
  <2> HIDE DEF n, s, E
  <2> DEFINE m == i - 1
  <2>1. m \in Nat /\ e = m \div s BY <1>1
  <2> HIDE DEF m, e
  <2>2. m \div s \in Nat /\ m % s \in 0 .. s - 1 /\ m = s * (m \div s) + (m % s) BY <1>2, <1>3, <2>1
  <2>3. e \in Nat /\ m = s * e + (m % s) BY <2>1, <2>2
  <2>4. e * s = s * e /\ (e + 1) * s = s * e + s /\ s * e \in Nat BY <1>2, <2>3
  <2>5. s * e <= m /\ m < s * e + s BY <1>2, <2>1, <2>2, <2>3, <2>4
  <2> QED BY <2>3, <2>4, <2>5 DEF m
<1>5. e < E
  <2> SUFFICES ASSUME E <= e PROVE FALSE BY <1>1, <1>4
  <2> HIDE DEF n, s, E, e
  <2>1. E * s <= e * s BY <1>1, <1>2, <1>4, TimesOrder
  <2>2. E * s \in Nat /\ e * s \in Nat BY <1>1, <1>2, <1>4
  <2> QED BY <1>1, <1>2, <1>4, <2>1, <2>2
<1>6. e \in Engines BY <1>1, <1>4, <1>5 DEF Engines
<1>7. ShardStart(e) = Least(e * s, n) /\ ShardStart(e + 1) = Least((e + 1) * s, n) BY DEF ShardStart
<1> HIDE DEF n, s, E, e
<1>8. e * s \in Nat /\ (e + 1) * s \in Nat BY <1>2, <1>4
<1>9. i \in ShardOf(e) BY <1>1, <1>4, <1>7, <1>8 DEF ShardOf, Least
<1> QED BY <1>6, <1>9

(* The first a of a list and the b - a after them are the first b.         *)
LEMMA FirstAndNext ==
  ASSUME NEW S, NEW b \in Nat, NEW a \in Nat, a <= b, NEW q, \A j \in 1 .. b : q[j] \in S
  PROVE  [j \in 1 .. a |-> q[j]] \o [k \in 1 .. b - a |-> q[a + k]] = [j \in 1 .. b |-> q[j]]
<1> DEFINE f == [j \in 1 .. a |-> q[j]]
           g == [k \in 1 .. b - a |-> q[a + k]]
           h == [j \in 1 .. b |-> q[j]]
<1>1. f \in Seq(S) /\ Len(f) = a /\ \A j \in 1 .. a : f[j] = q[j]
  <2>1. f \in [1 .. a -> S] OBVIOUS
  <2> QED BY <2>1
<1>2. g \in Seq(S) /\ Len(g) = b - a /\ \A k \in 1 .. b - a : g[k] = q[a + k]
  <2>1. b - a \in Nat /\ \A k \in 1 .. b - a : a + k \in 1 .. b OBVIOUS
  <2>2. g \in [1 .. b - a -> S] BY <2>1
  <2> QED BY <2>1, <2>2
<1>3. h \in Seq(S) /\ Len(h) = b /\ \A j \in 1 .. b : h[j] = q[j]
  <2>1. h \in [1 .. b -> S] OBVIOUS
  <2> QED BY <2>1
<1> HIDE DEF f, g, h
<1>4. f \o g \in Seq(S) /\ Len(f \o g) = b BY <1>1, <1>2
<1>5. ASSUME NEW j \in 1 .. b PROVE (f \o g)[j] = h[j]
  <2>1. CASE j <= a BY <1>1, <1>2, <1>3, <2>1
  <2>2. CASE j > a
    <3>1. j - a \in 1 .. b - a /\ a + (j - a) = j BY <2>2
    <3>2. (f \o g)[j] = g[j - a] BY <1>1, <1>2, <2>2
    <3>3. g[j - a] = q[a + (j - a)] BY <1>2, <3>1
    <3> QED BY <1>3, <3>1, <3>2, <3>3
  <2>3. j <= a \/ j > a OBVIOUS
  <2> QED BY <2>1, <2>2, <2>3, Zenon
<1>6. f \o g = h
  <2> DEFINE c == f \o g
  <2>1. c \in Seq(S) /\ Len(c) = b BY <1>4
  <2>2. \A j \in 1 .. b : c[j] = h[j] BY <1>5, Zenon
  <2> HIDE DEF c
  <2>3. c \in [1 .. b -> S] BY <2>1
  <2>4. h \in [1 .. b -> S] BY <1>3
  <2>5. c = h BY <2>2, <2>3, <2>4
  <2> QED BY <2>5 DEF c
<1> QED BY <1>6 DEF f, g, h

(* The shards one after another are the batch in its order.                *)
LEMMA ShardsInOrder ==
  ASSUME FleetTyped, gen # "none"
  PROVE  Len(InShards) = Len(fleet.prompts) /\ \A i \in Prompts : InShards[i] = reply[i]
<1> DEFINE E == fleet.engines
           FirstShards(e) == [j \in 1 .. ShardStart(e) |-> reply[j]]
           f == [e \in 0 .. E |-> FirstShards(e)]
           NextShard(e) == [k \in 1 .. Cardinality(ShardOf(e - 1)) |-> reply[ShardStart(e - 1) + k]]
           G(g) == g = [e \in 0 .. E |-> IF e = 0 THEN <<>> ELSE g[e - 1] \o NextShard(e)]
<1>1. E \in Nat \ {0} /\ Len(fleet.prompts) \in Nat /\ Prompts = 1 .. Len(fleet.prompts)
  BY DEF FleetTyped, Prompts
<1>2. \A e \in 1 .. E : FirstShards(e - 1) \o NextShard(e) = FirstShards(e)
  <2> SUFFICES ASSUME NEW e \in 1 .. E PROVE FirstShards(e - 1) \o NextShard(e) = FirstShards(e) BY Zenon
  <2> DEFINE a == ShardStart(e - 1)
             b == ShardStart(e)
  <2>1. a \in Nat /\ b \in Nat /\ a <= b /\ b <= Len(fleet.prompts)
    <3>1. e - 1 \in Nat /\ e \in Nat /\ e <= E /\ e - 1 <= E /\ (e - 1) + 1 = e BY <1>1
    <3>2. a \in Nat /\ a <= ShardStart((e - 1) + 1) BY <3>1, ShardBounds
    <3>3. b \in Nat /\ b <= Len(fleet.prompts) BY <3>1, ShardBounds
    <3> QED BY <3>1, <3>2, <3>3
  <2>2. ShardOf(e - 1) = a + 1 .. b
    <3>1. (e - 1) + 1 = e OBVIOUS
    <3> QED BY <3>1 DEF ShardOf
  <2> HIDE DEF a, b
  <2>3. Cardinality(ShardOf(e - 1)) = b - a BY <2>1, <2>2, FS_Interval
  <2>4. \A j \in 1 .. b : reply[j] \in Endings BY <1>1, <2>1 DEF FleetTyped
  <2>5. [j \in 1 .. a |-> reply[j]] \o [k \in 1 .. b - a |-> reply[a + k]] = [j \in 1 .. b |-> reply[j]]
    BY <2>1, <2>4, FirstAndNext
  <2> QED BY <2>3, <2>5, Zenon DEF a, b
<1>3. FirstShards(0) = <<>>
  <2>1. ShardStart(0) = 0 BY <1>1, ShardBounds
  <2> QED BY <2>1
<1>4. FirstShards(E) = [j \in 1 .. Len(fleet.prompts) |-> reply[j]]
  <2>1. ShardStart(E) = Len(fleet.prompts) BY <1>1, ShardBounds
  <2> QED BY <2>1
<1> HIDE DEF FirstShards, NextShard
<1>5. G(f)
  <2>1. \A e \in 1 .. E : f[e - 1] = FirstShards(e - 1) /\ f[e] = FirstShards(e)
    <3>1. \A e \in 1 .. E : e - 1 \in 0 .. E /\ e \in 0 .. E BY <1>1
    <3> QED BY <3>1
  <2>2. \A e \in 0 .. E : f[e] = IF e = 0 THEN <<>> ELSE f[e - 1] \o NextShard(e)
    <3>1. \A e \in 0 .. E : e = 0 \/ e \in 1 .. E BY <1>1
    <3>2. f[0] = FirstShards(0) BY <1>1
    <3> HIDE DEF f
    <3> QED BY <1>2, <1>3, <2>1, <3>1, <3>2, Zenon
  <2> QED BY <2>2, Zenon
<1> DEFINE h == CHOOSE g : G(g)
<1>6. InShards = h[E] BY DEF InShards, NextShard
<1>7. G(h)
  <2> HIDE DEF G
  <2> QED BY <1>5
<1> HIDE DEF h
<1>8. h[0] = <<>> /\ \A e \in 1 .. E : h[e] = h[e - 1] \o NextShard(e)
  <2> DEFINE V(e) == IF e = 0 THEN <<>> ELSE h[e - 1] \o NextShard(e)
  <2>1. h = [e \in 0 .. E |-> V(e)] BY <1>7, Zenon
  <2> HIDE DEF V
  <2>2. \A e \in 0 .. E : h[e] = V(e) BY <2>1
  <2>3. 0 \in 0 .. E /\ \A e \in 1 .. E : e \in 0 .. E /\ e # 0 BY <1>1
  <2> QED BY <2>2, <2>3, Zenon DEF V
<1> HIDE DEF G
<1>9. h[E] = FirstShards(E)
  <2> DEFINE S == {k \in Nat : k <= E => h[k] = FirstShards(k)}
  <2>1. 0 \in S BY <1>3, <1>8
  <2>2. ASSUME NEW k \in Nat, k \in S PROVE k + 1 \in S
    <3> SUFFICES ASSUME k + 1 <= E PROVE h[k + 1] = FirstShards(k + 1) OBVIOUS
    <3>1. k + 1 \in 1 .. E /\ (k + 1) - 1 = k /\ h[k] = FirstShards(k) BY <1>1, <2>2
    <3>2. h[k + 1] = h[(k + 1) - 1] \o NextShard(k + 1) BY <1>8, <3>1, Zenon
    <3>3. FirstShards((k + 1) - 1) \o NextShard(k + 1) = FirstShards(k + 1) BY <1>2, <3>1
    <3> QED BY <3>1, <3>2, <3>3, Zenon
  <2> HIDE DEF S
  <2>3. E \in S BY <1>1, <2>1, <2>2, Induct
  <2> QED BY <1>1, <2>3 DEF S
<1>10. InShards = [j \in 1 .. Len(fleet.prompts) |-> reply[j]] BY <1>4, <1>6, <1>9
<1> QED BY <1>1, <1>10

-----------------------------------------------------------------------------
(* The steps of a generation.                                              *)

(* What is said of a fleet stays as long as it is the same fleet.          *)
LEMMA SameFleet ==
  ASSUME fleet' = fleet
  PROVE  /\ Prompts' = Prompts /\ Engines' = Engines /\ Slots' = Slots
         /\ \A i : Room(i)' = Room(i)
BY DEF Prompts, Engines, Slots, Room

(* A request that is waiting, out or failed is not out twice for being     *)
(* sent again, so the slots suffice.                                       *)
LEMMA SlotsStay ==
  ASSUME FleetInv, fleet' = fleet, gen # "none", NEW i \in Prompts, NEW a \in Asks,
         ask' = [ask EXCEPT ![i] = a], a.at \in {"sent", "lost"} => ask[i].at \in {"sent", "lost"}
  PROVE  SlotsKept'
<1>1. Prompts' = Prompts /\ Slots' = Slots BY SameFleet
<1>2. FleetTyped /\ ask \in [Prompts -> Asks] BY DEF FleetInv, FleetTyped
<1>3. Held' \subseteq Held BY <1>1, <1>2 DEF Held
<1>4. Held \subseteq Prompts /\ Held' \subseteq Prompts BY <1>1 DEF Held
<1>5. IsFiniteSet(Held) /\ Cardinality(Held) \in Nat BY <1>2, <1>4, PromptsFinite
<1>6. Cardinality(Held') \in Nat /\ Cardinality(Held') <= Cardinality(Held)
  <2>1. Held' \in SUBSET Held BY <1>3
  <2>2. Cardinality(Held') <= Cardinality(Held) BY <1>5, <2>1, FS_Subset
  <2>3. Cardinality(Held') \in Nat BY <1>2, <1>4, PromptsFinite
  <2> QED BY <2>2, <2>3
<1>7. Slots \in Nat BY <1>2 DEF FleetTyped, Slots
<1>8. fleet.kind = "sglang" => Cardinality(Held) <= Slots BY DEF FleetInv, SlotsKept
<1> HIDE DEF Held
<1>9. fleet.kind = "sglang" => Cardinality(Held') <= Slots'
  <2> HIDE DEF Slots
  <2> QED BY <1>1, <1>5, <1>6, <1>7, <1>8
<1>10. Cardinality(Held)' = Cardinality(Held') OBVIOUS
<1> QED BY <1>9, <1>10 DEF SlotsKept

(* A request that has an engine keeps it.                                  *)
LEMMA TurnsStay ==
  ASSUME FleetInv, fleet' = fleet, turn' = turn, gen # "none", NEW i \in Prompts, NEW a \in Asks,
         ask' = [ask EXCEPT ![i] = a], a.engine = ask[i].engine,
         fleet.kind = "vllm_async" => (a.at = "waiting" <=> ask[i].at = "waiting")
  PROVE  TurnsKept'
<1> SUFFICES ASSUME fleet'.kind = "vllm_async" PROVE \E q \in Nat : Fair(q)' BY DEF TurnsKept
<1>1. Prompts' = Prompts /\ Engines' = Engines BY SameFleet
<1>2. ask \in [Prompts -> Asks] BY DEF FleetInv, FleetTyped
<1>3. \A e : Taken(e)' = Taken(e) BY <1>1, <1>2 DEF Taken
<1>4. PICK q \in Nat : Fair(q) BY DEF FleetInv, TurnsKept
<1>5. \A e \in Engines : Cardinality(Taken(e))' = Cardinality(Taken(e)) BY <1>3
<1>6. Fair(q)'
  <2> HIDE DEF Taken, Engines
  <2> QED BY <1>1, <1>4, <1>5 DEF Fair
<1> QED BY <1>6

(* One request moves: the others stay as they are.                         *)
LEMMA OneMoves ==
  ASSUME FleetInv, gen \in {"open", "raised"}, gen' \in {gen, "raised"}, fleet' = fleet,
         turn' \in Engines, genFaults' \in Nat,
         NEW i \in Prompts, NEW a \in Asks, NEW r \in Endings,
         ask' = [ask EXCEPT ![i] = a], reply' = [reply EXCEPT ![i] = r],
         a.at # "waiting", AsWhole => ask[i].at # "waiting",
         AskedFor(i)', Blamed', SlotsKept', TurnsKept'
  PROVE  FleetInv'
<1>1. Prompts' = Prompts /\ Engines' = Engines /\ \A j : Room(j)' = Room(j) BY SameFleet
<1>2. gen # "none" /\ gen' \in {"open", "raised"} OBVIOUS
<1>3. ask \in [Prompts -> Asks] /\ reply \in [Prompts -> Endings] BY <1>2 DEF FleetInv, FleetTyped
<1>4. FleetTyped'
  <2>1. ask' \in [Prompts -> Asks] /\ reply' \in [Prompts -> Endings] BY <1>3
  <2> QED BY <1>1, <1>2, <2>1 DEF FleetInv, FleetTyped
<1>5. OutTogether'
  <2>1. OutTogether BY <1>2 DEF FleetInv, AllAsked
  <2>2. \A j \in Prompts : ask'[j] = IF j = i THEN a ELSE ask[j] BY <1>3
  <2>3. AsWhole' = AsWhole BY DEF AsWhole
  <2> QED BY <1>1, <2>1, <2>2, <2>3 DEF OutTogether
<1>6. AllAsked'
  <2> SUFFICES ASSUME NEW j \in Prompts PROVE AskedFor(j)' BY <1>1, <1>2, <1>5 DEF AllAsked
  <2>1. CASE j = i BY <2>1
  <2>2. CASE j # i
    <3>1. ask'[j] = ask[j] /\ reply'[j] = reply[j] BY <1>3, <2>2
    <3>2. AskedFor(j) BY <1>2 DEF FleetInv, AllAsked
    <3>3. GoodReply(j) => GoodReply(j)' BY <1>1, <3>1 DEF GoodReply
    <3> QED BY <1>2, <3>1, <3>2, <3>3 DEF AskedFor
  <2> QED BY <2>1, <2>2
<1> QED BY <1>4, <1>6 DEF FleetInv

(* The blame of a batch stays, and falls on a failure that was counted.    *)
LEMMA BlameStays ==
  ASSUME FleetInv, fleet' = fleet, genFaults' \in {genFaults, genFaults + 1},
         gen' = gen \/ genFaults' = genFaults + 1 \/ \E i \in Prompts : Room(i) <= 0
  PROVE  Blamed'
<1>1. Prompts' = Prompts /\ \A j : Room(j)' = Room(j) BY SameFleet
<1>2. genFaults \in Nat /\ Blamed BY DEF FleetInv, FleetTyped
<1> QED BY <1>1, <1>2 DEF Blamed

(* NoReply is an ending of none.                                           *)
LEMMA NoReplyTyped == NoReply \in Endings /\ \A i \in Nat : [NoReply EXCEPT !.row = i] \in Endings
BY Zenon DEF NoReply, Endings

(* The facts every step starts from.                                       *)
LEMMA StepFacts ==
  ASSUME FleetInv, gen # "none"
  PROVE  /\ FleetTyped /\ ask \in [Prompts -> Asks] /\ reply \in [Prompts -> Endings]
         /\ OutTogether /\ \A i \in Prompts : AskedFor(i) /\ i \in Nat
         /\ \A i \in Prompts : ask[i].at \in {"waiting", "sent", "lost"} => gen \in {"open", "raised"}
<1>1. FleetTyped BY DEF FleetInv
<1>2. OutTogether /\ \A i \in Prompts : AskedFor(i) /\ i \in Nat BY <1>1, PromptsFinite DEF FleetInv, AllAsked
<1>3. \A i \in Prompts : ask[i].at \in {"waiting", "sent", "lost"} => gen # "answered"
  BY <1>2 DEF AskedFor, Finished
<1> QED BY <1>1, <1>2, <1>3 DEF FleetTyped

(* GenerateWith: a batch is handed over, none of it has been taken yet.    *)
LEMMA GenerationStarts ==
  ASSUME FleetInv, NEW f \in Fleets, GenerateWith(f)
  PROVE  FleetInv'
<1>1. /\ f.kind \in FleetKinds /\ f.relay \in BOOLEAN /\ f.engines \in Nat \ {0} /\ f.slots \in Nat
      /\ f.prompts \in Seq(0 .. ContextLen)
  BY FleetConstants
<1>2. /\ gen = "none" /\ gen' = "open" /\ fleet' = f /\ turn' = turn /\ turn = 0 /\ genFaults' = genFaults
      /\ genFaults \in Nat
  BY DEF GenerateWith, FleetInv, FleetTyped
<1> DEFINE a == [Waiting EXCEPT !.local = ~f.relay]
<1>3. a \in Asks /\ a.at = "waiting" BY <1>1, Zenon DEF Waiting, Asks
<1>4. Prompts' = DOMAIN f.prompts BY <1>2 DEF Prompts
<1> HIDE DEF a
<1>5. ask' = [i \in Prompts' |-> a] /\ reply' = [i \in Prompts' |-> NoReply] BY <1>4 DEF GenerateWith, a
<1>6. FleetTyped'
  <2>1. 0 \in 0 .. f.engines - 1 BY <1>1
  <2>2. turn' \in Engines' BY <1>2, <2>1 DEF Engines
  <2>3. ask' \in [Prompts' -> Asks] /\ reply' \in [Prompts' -> Endings] BY <1>3, <1>5, NoReplyTyped
  <2> QED BY <1>1, <1>2, <2>2, <2>3 DEF FleetTyped
<1>7. AllAsked'
  <2>1. \A i \in Prompts' : AskedFor(i)' BY <1>2, <1>3, <1>5 DEF AskedFor
  <2>2. OutTogether' BY <1>3, <1>5 DEF OutTogether
  <2> QED BY <1>2, <2>1, <2>2 DEF AllAsked
<1>8. Blamed' BY <1>2 DEF Blamed
<1>9. SlotsKept'
  <2>1. Held' = {} BY <1>3, <1>5 DEF Held
  <2>2. Cardinality(Held') = 0 BY <2>1, FS_EmptySet
  <2>3. Slots' \in Nat BY <1>1, <1>2 DEF Slots
  <2>4. Cardinality(Held)' = Cardinality(Held') OBVIOUS
  <2> HIDE DEF Held, Slots
  <2> QED BY <2>2, <2>3, <2>4 DEF SlotsKept
<1>10. TurnsKept'
  <2>1. \A e : Taken(e)' = {} BY <1>3, <1>5 DEF Taken
  <2>2. \A e : Cardinality(Taken(e))' = 0 BY <2>1, FS_EmptySet
  <2>3. \A e \in Engines' : ~(e < turn') BY <1>1, <1>2 DEF Engines
  <2>4. Fair(0)' BY <2>2, <2>3 DEF Fair
  <2> QED BY <2>4 DEF TurnsKept
<1> QED BY <1>6, <1>7, <1>8, <1>9, <1>10 DEF FleetInv

(* A batch goes out as a whole: nothing has come back of it before.        *)
LEMMA WholeGoesOut ==
  ASSUME FleetInv, gen = "open", gen' = gen, fleet' = fleet, AsWhole, turn' = turn, reply' = reply,
         genFaults' = genFaults, Those("waiting") # {},
         ask' \in [Prompts -> Asks], \A i \in Prompts : ask'[i].at = "sent"
  PROVE  FleetInv'
<1>1. gen # "none" OBVIOUS
<1>2. /\ FleetTyped /\ ask \in [Prompts -> Asks] /\ reply \in [Prompts -> Endings] /\ OutTogether
      /\ \A i \in Prompts : AskedFor(i)
  BY <1>1, StepFacts
<1>3. Prompts' = Prompts /\ Engines' = Engines /\ \A j : Room(j)' = Room(j) BY SameFleet
<1>4. FleetTyped' BY <1>1, <1>2, <1>3 DEF FleetTyped
<1>5. \A i \in Prompts : ask[i].at = "waiting" BY <1>2 DEF OutTogether, Those
<1>6. \A i \in Prompts : reply[i] = NoReply
  <2> SUFFICES ASSUME NEW i \in Prompts PROVE reply[i] = NoReply OBVIOUS
  <2>1. AskedFor(i) /\ ask[i].at # "back" BY <1>2, <1>5
  <2> QED BY <2>1 DEF AskedFor
<1>7. AllAsked'
  <2>1. \A i \in Prompts : AskedFor(i)' BY <1>6 DEF AskedFor
  <2>2. OutTogether' BY <1>3 DEF OutTogether
  <2> QED BY <1>3, <2>1, <2>2 DEF AllAsked
<1>8. Blamed' BY BlameStays
<1>9. fleet'.kind \notin {"sglang", "vllm_async"} BY DEF AsWhole
<1> QED BY <1>4, <1>7, <1>8, <1>9 DEF FleetInv, SlotsKept, TurnsKept

(* VllmGeneration.generate: every prompt goes to the replica of its shard. *)
LEMMA ShardsGoOut ==
  ASSUME FleetInv, VllmShards
  PROVE  FleetInv'
<1>1. /\ gen = "open" /\ gen' = gen /\ fleet' = fleet /\ fleet.kind = "vllm" /\ turn' = turn /\ reply' = reply
      /\ genFaults' = genFaults /\ Those("waiting") # {}
  BY Zenon DEF VllmShards
<1>2. gen # "none" BY <1>1
<1>3. FleetTyped /\ ask \in [Prompts -> Asks] BY <1>2, StepFacts
<1> DEFINE e(i) == CHOOSE d \in Engines : i \in ShardOf(d)
           b(i) == [ask[i] EXCEPT !.at = "sent", !.engine = e(i)]
<1>4. \A i \in Prompts : \E d \in Engines : i \in ShardOf(d) BY <1>3, ShardsCover
<1>5. \A i \in Prompts : e(i) \in Nat
  <2> SUFFICES ASSUME NEW i \in Prompts PROVE e(i) \in Nat OBVIOUS
  <2>1. e(i) \in Engines BY <1>4
  <2> QED BY <1>3, <2>1 DEF Engines, FleetTyped
<1>6. ask' = [i \in Prompts |-> b(i)] BY <1>4, Zenon DEF VllmShards
<1> HIDE DEF e
<1>7. \A i \in Prompts : b(i) \in Asks /\ b(i).at = "sent" BY <1>3, <1>5, Zenon DEF Asks
<1> HIDE DEF b
<1>8. ask' \in [Prompts -> Asks] /\ \A i \in Prompts : ask'[i].at = "sent" BY <1>6, <1>7
<1> QED BY <1>1, <1>8, WholeGoesOut DEF AsWhole

(* MegatronGeneration: all prompts go to the first worker.                 *)
LEMMA MegatronGoesOut ==
  ASSUME FleetInv, MegatronSubmit
  PROVE  FleetInv'
<1>1. /\ gen = "open" /\ gen' = gen /\ fleet' = fleet /\ fleet.kind \in {"megatron", "megatron_async"}
      /\ turn' = turn /\ reply' = reply /\ genFaults' = genFaults /\ Those("waiting") # {}
  BY DEF MegatronSubmit
<1>2. gen # "none" BY <1>1
<1>3. ask \in [Prompts -> Asks] BY <1>2, StepFacts
<1>4. \A i \in Prompts : [ask[i] EXCEPT !.at = "sent"] \in Asks /\ [ask[i] EXCEPT !.at = "sent"].at = "sent"
  BY <1>3 DEF Asks
<1>5. ask' = [i \in Prompts |-> [ask[i] EXCEPT !.at = "sent"]] BY DEF MegatronSubmit
<1>6. ask' \in [Prompts -> Asks] /\ \A i \in Prompts : ask'[i].at = "sent" BY <1>4, <1>5, Zenon
<1> QED BY <1>1, <1>6, WholeGoesOut DEF AsWhole

(* The request of a prompt with something else in some of its fields.      *)
LEMMA AskMoved ==
  ASSUME FleetInv, gen # "none", NEW i \in Prompts, NEW p \in {"sent", "lost", "failed", "back"}
  PROVE  /\ [ask[i] EXCEPT !.at = p] \in Asks /\ [ask[i] EXCEPT !.at = p].at = p
         /\ [ask[i] EXCEPT !.at = p].engine = ask[i].engine
<1>1. ask[i] \in Asks BY StepFacts
<1> QED BY <1>1 DEF Asks

(* Assigning two fields of a request is assigning the request.             *)
LEMMA AskAssigned ==
  ASSUME FleetInv, gen # "none", NEW i \in Prompts, NEW p, NEW d
  PROVE  /\ [ask EXCEPT ![i].at = p] = [ask EXCEPT ![i] = [ask[i] EXCEPT !.at = p]]
         /\ [ask EXCEPT ![i].at = p, ![i].engine = d]
              = [ask EXCEPT ![i] = [ask[i] EXCEPT !.at = p, !.engine = d]]
<1>1. ask \in [Prompts -> Asks] BY StepFacts
<1> QED BY <1>1, Zenon

(* An empty reply for a prompt without room is a good one.                 *)
LEMMA EmptyReplyGood ==
  ASSUME FleetInv, gen # "none", NEW i \in Prompts, fleet' = fleet,
         reply' = [reply EXCEPT ![i] = [NoReply EXCEPT !.row = i]]
  PROVE  GoodReply(i)'
<1>1. reply \in [Prompts -> Endings] /\ FleetTyped BY StepFacts
<1>2. reply'[i] = [NoReply EXCEPT !.row = i] BY <1>1
<1>3. reply'[i].row = i /\ reply'[i].new = 0 /\ reply'[i].cut = FALSE /\ reply'[i].stops = {} BY <1>2 DEF NoReply
<1>4. fleet.prompts[i] \in Nat /\ fleet.prompts[i] <= ContextLen BY <1>1, RoomFits
<1>5. NewTokens \in Nat BY FleetConstants
<1> QED BY <1>3, <1>4, <1>5 DEF GoodReply

(* generate_async: a prompt is given to the replica whose turn it is.      *)
LEMMA VllmTakes ==
  ASSUME FleetInv, NEW i \in Prompts, VllmAsk(i)
  PROVE  FleetInv'
<1>1. /\ gen = "open" /\ gen' = gen /\ fleet' = fleet /\ fleet.kind = "vllm_async" /\ genFaults' = genFaults
      /\ ask[i].at = "waiting" /\ turn' = NextTurn
  BY DEF VllmAsk, Those
<1>2. gen # "none" BY <1>1
<1>3. /\ FleetTyped /\ ask \in [Prompts -> Asks] /\ reply \in [Prompts -> Endings] /\ AskedFor(i) /\ i \in Nat
  BY <1>2, StepFacts
<1>4. Prompts' = Prompts /\ Engines' = Engines BY <1>1, SameFleet
<1>5. turn \in 0 .. fleet.engines - 1 /\ fleet.engines \in Nat \ {0} /\ genFaults \in Nat
  BY <1>3 DEF FleetTyped, Engines
<1>6. turn' = IF turn + 1 = fleet.engines THEN 0 ELSE turn + 1
  <2>1. turn + 1 = fleet.engines => (turn + 1) % fleet.engines = 0 BY <1>5
  <2>2. turn + 1 < fleet.engines => (turn + 1) % fleet.engines = turn + 1 BY <1>5
  <2> QED BY <1>1, <1>5, <2>1, <2>2 DEF NextTurn
<1>7. turn' \in Engines BY <1>5, <1>6 DEF Engines
<1> DEFINE where == IF Room(i) > 0 THEN "sent" ELSE "back"
           a == [ask[i] EXCEPT !.at = where, !.engine = turn]
           r == IF Room(i) > 0 THEN reply[i] ELSE [NoReply EXCEPT !.row = i]
<1>8. where \in {"sent", "back"} /\ (where = "back" <=> ~(Room(i) > 0)) OBVIOUS
<1>9. ask' = [ask EXCEPT ![i] = a]
  <2>1. ask' = [ask EXCEPT ![i].at = where, ![i].engine = turn] BY DEF VllmAsk
  <2> HIDE DEF where
  <2> QED BY <1>2, <2>1, AskAssigned, Zenon
<1>10. reply' = [reply EXCEPT ![i] = r] BY <1>3 DEF VllmAsk
<1>11. r \in Endings BY <1>3, NoReplyTyped
<1>12. a \in Asks /\ a.at = where /\ a.engine = turn
  <2> HIDE DEF where
  <2>1. turn \in Nat BY <1>5
  <2>2. where \in {"sent", "lost", "failed", "back"} BY <1>8
  <2>3. ask[i] \in Asks BY <1>3
  <2>4. a = [ask[i] EXCEPT !.at = where, !.engine = turn] OBVIOUS
  <2> HIDE DEF a
  <2> QED BY <2>1, <2>2, <2>3, <2>4, Zenon DEF Asks
<1> HIDE DEF where, a
<1>13. AskedFor(i)'
  <2>1. ask'[i].at = where BY <1>3, <1>9, <1>12
  <2>2. CASE where = "back"
    <3>1. GoodReply(i)' BY <1>1, <1>2, <1>8, <1>10, <2>2, EmptyReplyGood, Zenon
    <3> QED BY <1>1, <2>1, <2>2, <3>1 DEF AskedFor
  <2>3. CASE where = "sent"
    <3>1. reply[i] = NoReply BY <1>1, <1>3 DEF AskedFor
    <3>2. reply'[i] = NoReply BY <1>3, <1>8, <1>10, <2>3, <3>1
    <3> QED BY <1>1, <2>1, <2>3, <3>2 DEF AskedFor
  <2> QED BY <1>8, <2>2, <2>3
<1>14. Blamed' BY <1>1, BlameStays
<1>15. SlotsKept' BY <1>1 DEF SlotsKept
<1>16. TurnsKept'
  <2>1. PICK q \in Nat : Fair(q) BY <1>1, <1>2 DEF FleetInv, TurnsKept
  <2>2. \A e \in Engines : Taken(e)' = IF e = turn THEN Taken(e) \cup {i} ELSE Taken(e)
    <3>1. \A j \in Prompts : ask'[j] = IF j = i THEN a ELSE ask[j] BY <1>3, <1>9
    <3>2. a.at # "waiting" BY <1>8, <1>12
    <3> QED BY <1>1, <1>4, <1>12, <3>1, <3>2 DEF Taken
  <2>3. i \notin Taken(turn) BY <1>1 DEF Taken
  <2>4. \A e \in Engines : IsFiniteSet(Taken(e)) /\ Cardinality(Taken(e)) \in Nat
    <3>1. \A e \in Engines : Taken(e) \in SUBSET Prompts BY DEF Taken
    <3> QED BY <1>3, <3>1, PromptsFinite
  <2> HIDE DEF Taken
  <2>5. \A e \in Engines :
          Cardinality(Taken(e))' = IF e = turn THEN Cardinality(Taken(e)) + 1 ELSE Cardinality(Taken(e))
    <3> SUFFICES ASSUME NEW e \in Engines
                 PROVE  Cardinality(Taken(e)') = IF e = turn THEN Cardinality(Taken(e)) + 1 ELSE Cardinality(Taken(e))
      OBVIOUS
    <3>1. CASE e = turn
      <4>1. Cardinality(Taken(e) \cup {i}) = Cardinality(Taken(e)) + 1 BY <2>3, <2>4, <3>1, FS_AddElement, Zenon
      <4> QED BY <2>2, <3>1, <4>1
    <3>2. CASE e # turn BY <2>2, <3>2
    <3> QED BY <3>1, <3>2
  <2>6. PICK p \in Nat : p = IF turn + 1 = fleet.engines THEN q + 1 ELSE q OBVIOUS
  <2>7. Fair(p)'
    <3> SUFFICES ASSUME NEW e \in Engines
                 PROVE  Cardinality(Taken(e))' = IF e < turn' THEN p + 1 ELSE p
      BY <1>4 DEF Fair
    <3>1. Cardinality(Taken(e)) = IF e < turn THEN q + 1 ELSE q BY <2>1 DEF Fair
    <3>2. e \in 0 .. fleet.engines - 1 BY DEF Engines
    <3> QED BY <1>5, <1>6, <2>5, <2>6, <3>1, <3>2
  <2> QED BY <2>7 DEF TurnsKept
<1> QED
  BY <1>1, <1>3, <1>5, <1>7, <1>8, <1>9, <1>10, <1>11, <1>12, <1>13, <1>14, <1>15, <1>16, OneMoves, Zenon DEF AsWhole

(* SGLangGeneration: a prompt without room is not sent.                    *)
LEMMA SGLangSkips ==
  ASSUME FleetInv, NEW i \in Prompts, SGLangSkip(i)
  PROVE  FleetInv'
<1>1. /\ gen = "open" /\ gen' = gen /\ fleet' = fleet /\ fleet.kind \in {"sglang", "sglang_async"}
      /\ turn' = turn /\ genFaults' = genFaults /\ ask[i].at = "waiting"
      /\ ask' = [ask EXCEPT ![i].at = "back"] /\ reply' = [reply EXCEPT ![i] = [NoReply EXCEPT !.row = i]]
  BY DEF SGLangSkip, Those, Move, SGLang
<1>2. gen # "none" BY <1>1
<1>3. FleetTyped /\ ask \in [Prompts -> Asks] /\ i \in Nat BY <1>2, StepFacts
<1>4. PICK a \in Asks : a = [ask[i] EXCEPT !.at = "back"] BY <1>2, AskMoved, Zenon
<1>5. a.at = "back" /\ a.engine = ask[i].engine BY <1>2, <1>4, AskMoved
<1>6. ask' = [ask EXCEPT ![i] = a] BY <1>1, <1>2, <1>4, AskAssigned, Zenon
<1>7. GoodReply(i)' BY <1>1, <1>2, EmptyReplyGood, Zenon
<1>8. AskedFor(i)'
  <2>1. ask'[i].at = "back" BY <1>3, <1>5, <1>6
  <2> QED BY <1>1, <1>7, <2>1 DEF AskedFor
<1>9. Blamed' BY <1>1, BlameStays
<1>10. SlotsKept' BY <1>1, <1>2, <1>5, <1>6, SlotsStay, Zenon
<1>11. TurnsKept' BY <1>1 DEF TurnsKept
<1>12. [NoReply EXCEPT !.row = i] \in Endings BY <1>3, NoReplyTyped
<1>13. turn' \in Engines /\ genFaults' \in Nat BY <1>1, <1>3 DEF FleetTyped
<1> QED BY <1>1, <1>5, <1>6, <1>8, <1>9, <1>10, <1>11, <1>12, <1>13, OneMoves, Zenon DEF AsWhole

(* A request goes out only when a slot is free.                            *)
LEMMA SGLangSends ==
  ASSUME FleetInv, NEW i \in Prompts, SGLangSend(i)
  PROVE  FleetInv'
<1>1. /\ gen \in {"open", "raised"} /\ gen' = gen /\ fleet' = fleet /\ fleet.kind \in {"sglang", "sglang_async"}
      /\ turn' = turn /\ genFaults' = genFaults /\ ask[i].at = "waiting" /\ reply' = reply
      /\ ask' = [ask EXCEPT ![i].at = "sent"]
      /\ fleet.kind = "sglang" => Cardinality(Held) < Slots
  BY DEF SGLangSend, Those, Move, SGLang
<1>2. gen # "none" BY <1>1
<1>3. FleetTyped /\ ask \in [Prompts -> Asks] /\ reply \in [Prompts -> Endings] /\ AskedFor(i) BY <1>2, StepFacts
<1>4. PICK a \in Asks : a = [ask[i] EXCEPT !.at = "sent"] BY <1>2, AskMoved, Zenon
<1>5. a.at = "sent" BY <1>2, <1>4, AskMoved
<1>6. ask' = [ask EXCEPT ![i] = a] BY <1>1, <1>2, <1>4, AskAssigned, Zenon
<1>7. ask'[i].at = "sent" BY <1>3, <1>5, <1>6
<1>8. reply' = [reply EXCEPT ![i] = reply[i]] /\ reply[i] \in Endings /\ reply'[i] = reply[i] BY <1>1, <1>3
<1>9. AskedFor(i)' BY <1>1, <1>3, <1>7, <1>8 DEF AskedFor
<1>10. Blamed' BY <1>1, BlameStays
<1>11. SlotsKept'
  <2>1. Prompts' = Prompts /\ Slots' = Slots BY <1>1, SameFleet
  <2>2. Held' = Held \cup {i} /\ i \notin Held
    <3>1. \A j \in Prompts : ask'[j] = IF j = i THEN a ELSE ask[j] BY <1>3, <1>6
    <3> QED BY <1>1, <1>5, <2>1, <3>1 DEF Held
  <2>3. IsFiniteSet(Held) /\ Cardinality(Held) \in Nat
    <3>1. Held \in SUBSET Prompts BY DEF Held
    <3> QED BY <1>3, <3>1, PromptsFinite
  <2>4. Slots \in Nat BY <1>3 DEF FleetTyped, Slots
  <2> HIDE DEF Held, Slots
  <2>5. Cardinality(Held \cup {i}) = Cardinality(Held) + 1 BY <2>2, <2>3, FS_AddElement, Zenon
  <2>6. Cardinality(Held)' = Cardinality(Held \cup {i}) BY <2>2
  <2> QED BY <1>1, <2>1, <2>3, <2>4, <2>5, <2>6 DEF SlotsKept
<1>12. TurnsKept' BY <1>1 DEF TurnsKept
<1>13. turn' \in Engines /\ genFaults' \in Nat BY <1>1, <1>3 DEF FleetTyped
<1> QED BY <1>1, <1>5, <1>6, <1>8, <1>9, <1>10, <1>11, <1>12, <1>13, OneMoves, Zenon DEF AsWhole

(* A request that is out comes to an end or is given up: what follows for  *)
(* the slots, the turns and the others.                                    *)
LEMMA OneEnds ==
  ASSUME FleetInv, gen # "none", gen' \in {gen, "raised"}, fleet' = fleet, turn' = turn,
         genFaults' \in {genFaults, genFaults + 1},
         gen' = gen \/ genFaults' = genFaults + 1 \/ \E k \in Prompts : Room(k) <= 0,
         NEW i \in Prompts, ask[i].at \in {"sent", "lost"},
         NEW a \in Asks, a.at # "waiting", a.engine = ask[i].engine, NEW r \in Endings,
         ask' = [ask EXCEPT ![i] = a], reply' = [reply EXCEPT ![i] = r], AskedFor(i)'
  PROVE  FleetInv'
<1>1. FleetTyped /\ gen \in {"open", "raised"} BY StepFacts
<1>2. Blamed' BY BlameStays
<1>3. SlotsKept' BY SlotsStay, Zenon
<1>4. TurnsKept' BY TurnsStay, Zenon
<1>5. turn' \in Engines /\ genFaults' \in Nat BY <1>1 DEF FleetTyped
<1> QED BY <1>1, <1>2, <1>3, <1>4, <1>5, OneMoves, Zenon

(* An engine answers: within the room there is.                            *)
LEMMA EngineAnswers ==
  ASSUME FleetInv, NEW i \in Prompts, gen # "none", EngineReplies(i)
  PROVE  FleetInv'
<1>1. PICK n \in {1, Room(i)}, cut \in BOOLEAN :
        (cut => n = Room(i)) /\ reply' = [reply EXCEPT ![i] = Ending(i, n, cut)]
  BY Zenon DEF EngineReplies
<1>2. /\ gen' = gen /\ fleet' = fleet /\ turn' = turn /\ genFaults' = genFaults /\ ask[i].at = "sent"
      /\ Room(i) > 0 /\ ask' = [ask EXCEPT ![i].at = "back"]
  BY DEF EngineReplies, Those, Move
<1>3. /\ FleetTyped /\ ask \in [Prompts -> Asks] /\ reply \in [Prompts -> Endings] /\ i \in Nat
      /\ gen \in {"open", "raised"}
  BY <1>2, StepFacts
<1>4. PICK a \in Asks : a = [ask[i] EXCEPT !.at = "back"] BY AskMoved, Zenon
<1>5. a.at = "back" /\ a.engine = ask[i].engine BY <1>4, AskMoved
<1>6. ask' = [ask EXCEPT ![i] = a] BY <1>2, <1>4, AskAssigned, Zenon
<1>7. /\ Room(i) \in Nat /\ Room(i) <= NewTokens /\ fleet.prompts[i] + Room(i) <= ContextLen
      /\ fleet.prompts[i] \in Nat /\ ContextLen \in Nat /\ NewTokens \in Nat
  BY <1>2, <1>3, RoomFits, FleetConstants
<1>8. n \in Nat /\ n <= Room(i) BY <1>2, <1>7
<1>9. StopsFor(i) \in SUBSET Nat /\ (fleet.kind # "vllm" => StopsFor(i) = {i})
  <2>1. CASE fleet.kind = "vllm"
    <3>1. ask[i].engine \in Nat BY <1>3 DEF Asks
    <3> DEFINE e == ask[i].engine
    <3>2. Len(fleet.prompts) \in Nat /\ fleet.engines \in Nat \ {0} BY <1>3 DEF FleetTyped
    <3>3. ShardSize \in Nat BY <3>2, ShardsSuffice, Zenon DEF ShardSize
    <3> HIDE DEF e
    <3>4. e \in Nat /\ e * ShardSize \in Nat BY <3>1, <3>3 DEF e
    <3>5. ShardStart(e) \in Nat BY <3>2, <3>4 DEF ShardStart, Least
    <3>6. ShardOf(e) \in SUBSET Nat BY <3>5 DEF ShardOf
    <3> QED BY <2>1, <3>6 DEF StopsFor, e
  <2>2. CASE fleet.kind # "vllm" BY <1>3, <2>2 DEF StopsFor
  <2> QED BY <2>1, <2>2
<1> HIDE DEF StopsFor, Room
<1>10. Ending(i, n, cut) \in Endings BY <1>3, <1>8, <1>9 DEF Ending, Endings
<1>11. reply'[i] = Ending(i, n, cut) BY <1>1, <1>3
<1>12. GoodReply(i)'
  <2>1. Room(i)' = Room(i) BY <1>2, SameFleet
  <2>2. /\ reply'[i].row = i /\ reply'[i].new = n /\ reply'[i].stops = StopsFor(i)
        /\ reply'[i].cut => cut
    BY <1>11 DEF Ending
  <2> QED BY <1>1, <1>2, <1>7, <1>8, <1>9, <2>1, <2>2 DEF GoodReply
<1>13. AskedFor(i)'
  <2>1. ask'[i].at = "back" BY <1>3, <1>5, <1>6
  <2> QED BY <1>2, <1>3, <1>12, <2>1 DEF AskedFor
<1> QED BY <1>1, <1>2, <1>5, <1>6, <1>10, <1>13, OneEnds, Zenon

(* The call of a worker raises, and with it the batch.                     *)
LEMMA CallEnds ==
  ASSUME FleetInv, NEW i \in Prompts, gen # "none", CallRaises(i)
  PROVE  FleetInv'
<1>1. /\ gen = "open" /\ gen' = "raised" /\ fleet' = fleet /\ turn' = turn /\ ask' = ask /\ reply' = reply
      /\ ask[i].at = "sent" /\ genFaults' \in {genFaults, genFaults + 1}
      /\ genFaults' = genFaults + 1 \/ Room(i) <= 0
  BY DEF CallRaises, GenFault, Those
<1>2. /\ FleetTyped /\ ask \in [Prompts -> Asks] /\ reply \in [Prompts -> Endings] /\ AskedFor(i)
  BY StepFacts
<1>3. ask' = [ask EXCEPT ![i] = ask[i]] /\ reply' = [reply EXCEPT ![i] = reply[i]] BY <1>1, <1>2
<1>4. ask[i] \in Asks /\ reply[i] \in Endings BY <1>2
<1>5. AskedFor(i)'
  <2>1. reply[i] = NoReply BY <1>1, <1>2 DEF AskedFor
  <2> QED BY <1>1, <2>1 DEF AskedFor
<1> QED BY <1>1, <1>3, <1>4, <1>5, OneEnds, Zenon

(* The call for a single prompt raises; its prompt alone has no reply.     *)
LEMMA PromptEnds ==
  ASSUME FleetInv, NEW i \in Prompts, gen # "none", PromptRaises(i)
  PROVE  FleetInv'
<1>1. /\ gen' = gen /\ fleet' = fleet /\ turn' = turn /\ reply' = reply /\ ask' = [ask EXCEPT ![i].at = "failed"]
      /\ ask[i].at = "sent" /\ genFaults' \in {genFaults, genFaults + 1} /\ Alone(fleet.kind)
  BY DEF PromptRaises, GenFault, Those, Move, Alone
<1>2. /\ FleetTyped /\ ask \in [Prompts -> Asks] /\ reply \in [Prompts -> Endings] /\ AskedFor(i)
      /\ gen \in {"open", "raised"}
  BY <1>1, StepFacts
<1>3. PICK a \in Asks : a = [ask[i] EXCEPT !.at = "failed"] BY AskMoved, Zenon
<1>4. a.at = "failed" /\ a.engine = ask[i].engine BY <1>3, AskMoved
<1>5. ask' = [ask EXCEPT ![i] = a] BY <1>1, <1>3, AskAssigned, Zenon
<1>6. reply' = [reply EXCEPT ![i] = reply[i]] /\ reply[i] \in Endings BY <1>1, <1>2
<1>7. AskedFor(i)'
  <2>1. reply'[i] = NoReply BY <1>1, <1>2 DEF AskedFor
  <2>2. ask'[i].at = "failed" BY <1>2, <1>4, <1>5
  <2>3. Alone(fleet.kind)' BY <1>1 DEF Alone
  <2> QED BY <1>1, <1>2, <2>1, <2>2, <2>3 DEF AskedFor
<1> QED BY <1>1, <1>4, <1>5, <1>6, <1>7, OneEnds, Zenon

(* A request fails, is tried again or given up; only the one that is given *)
(* up without a call of its own takes the batch with it.                   *)
LEMMA HttpLoses ==
  ASSUME FleetInv, NEW i \in Prompts, gen # "none", HttpFails(i)
  PROVE  FleetInv'
<1>1. /\ fleet' = fleet /\ turn' = turn /\ reply' = reply /\ ask[i].at = "sent"
      /\ genFaults' = genFaults + 1 /\ fleet.kind \in {"sglang", "sglang_async"}
  BY DEF HttpFails, GenFault, Those, SGLang
<1>2. /\ FleetTyped /\ ask \in [Prompts -> Asks] /\ reply \in [Prompts -> Endings] /\ AskedFor(i)
      /\ gen \in {"open", "raised"}
  BY <1>1, StepFacts
<1>3. ask[i] \in Asks /\ reply[i] \in Endings /\ reply' = [reply EXCEPT ![i] = reply[i]] /\ reply'[i] = NoReply
  BY <1>1, <1>2 DEF AskedFor
<1>4. PICK b \in Asks : b = [ask[i] EXCEPT !.tries = @ + 1] /\ b.engine = ask[i].engine
  <2> DEFINE b == [ask[i] EXCEPT !.tries = @ + 1]
  <2>1. b \in Asks /\ b.engine = ask[i].engine BY <1>3 DEF Asks
  <2> HIDE DEF b
  <2>2. \E c \in Asks : c = b /\ c.engine = ask[i].engine BY <2>1
  <2> QED BY <2>2, Zenon DEF b
<1>5. \/ /\ gen' = gen
         /\ \/ ask' = [ask EXCEPT ![i] = [b EXCEPT !.at = "lost"]]
            \/ ask' = [ask EXCEPT ![i] = [b EXCEPT !.at = "lost", !.tries = 0, !.local = TRUE]]
      \/ /\ ask' = [ask EXCEPT ![i] = [b EXCEPT !.at = "failed"]]
         /\ gen' = IF fleet.kind = "sglang" THEN "raised" ELSE gen
  BY <1>4 DEF HttpFails
<1>6. /\ [b EXCEPT !.at = "lost"] \in Asks /\ [b EXCEPT !.at = "lost"].at = "lost"
      /\ [b EXCEPT !.at = "lost"].engine = b.engine
  BY <1>4, Zenon DEF Asks
<1>7. /\ [b EXCEPT !.at = "lost", !.tries = 0, !.local = TRUE] \in Asks
      /\ [b EXCEPT !.at = "lost", !.tries = 0, !.local = TRUE].at = "lost"
      /\ [b EXCEPT !.at = "lost", !.tries = 0, !.local = TRUE].engine = b.engine
  BY <1>4, Zenon DEF Asks
<1>8. /\ [b EXCEPT !.at = "failed"] \in Asks /\ [b EXCEPT !.at = "failed"].at = "failed"
      /\ [b EXCEPT !.at = "failed"].engine = b.engine
  BY <1>4, Zenon DEF Asks
<1>9. \E a \in Asks : /\ ask' = [ask EXCEPT ![i] = a] /\ a.engine = b.engine
                      /\ \/ a.at = "lost" /\ gen' = gen
                         \/ a.at = "failed" /\ gen' = IF fleet.kind = "sglang" THEN "raised" ELSE gen
  BY <1>5, <1>6, <1>7, <1>8, Zenon
<1>10. PICK a \in Asks : /\ ask' = [ask EXCEPT ![i] = a] /\ a.engine = b.engine
                         /\ \/ a.at = "lost" /\ gen' = gen
                            \/ a.at = "failed" /\ gen' = IF fleet.kind = "sglang" THEN "raised" ELSE gen
  BY <1>9, Zenon
<1>11. AskedFor(i)'
  <2>1. ask'[i] = a BY <1>2, <1>10
  <2>2. fleet.kind # "sglang" => Alone(fleet'.kind) BY <1>1 DEF Alone
  <2> QED BY <1>1, <1>2, <1>3, <1>10, <2>1, <2>2 DEF AskedFor
<1>12. a.engine = ask[i].engine /\ a.at # "waiting" /\ gen' \in {gen, "raised"} BY <1>4, <1>10
<1> QED BY <1>1, <1>3, <1>10, <1>11, <1>12, OneEnds, Zenon

(* And the one that was lost is sent once more.                            *)
LEMMA HttpGoesAgain ==
  ASSUME FleetInv, NEW i \in Prompts, gen # "none", HttpRetry(i)
  PROVE  FleetInv'
<1>1. /\ gen' = gen /\ fleet' = fleet /\ turn' = turn /\ reply' = reply /\ ask' = [ask EXCEPT ![i].at = "sent"]
      /\ ask[i].at = "lost" /\ genFaults' = genFaults
  BY DEF HttpRetry, Those, Move
<1>2. /\ FleetTyped /\ ask \in [Prompts -> Asks] /\ reply \in [Prompts -> Endings] /\ AskedFor(i)
      /\ gen \in {"open", "raised"}
  BY <1>1, StepFacts
<1>3. PICK a \in Asks : a = [ask[i] EXCEPT !.at = "sent"] BY AskMoved, Zenon
<1>4. a.at = "sent" /\ a.engine = ask[i].engine BY <1>3, AskMoved
<1>5. ask' = [ask EXCEPT ![i] = a] BY <1>1, <1>3, AskAssigned, Zenon
<1>6. reply' = [reply EXCEPT ![i] = reply[i]] /\ reply[i] \in Endings BY <1>1, <1>2
<1>7. AskedFor(i)'
  <2>1. reply'[i] = NoReply BY <1>1, <1>2 DEF AskedFor
  <2>2. ask'[i].at = "sent" BY <1>2, <1>4, <1>5
  <2> QED BY <1>1, <1>2, <2>1, <2>2 DEF AskedFor
<1> QED BY <1>1, <1>4, <1>5, <1>6, <1>7, OneEnds, Zenon

(* The caller gets the replies, each at the place of its prompt.           *)
LEMMA RepliesCollected ==
  ASSUME FleetInv, Collected
  PROVE  FleetInv'
<1>1. /\ gen = "open" /\ gen' = "answered" /\ fleet' = fleet /\ turn' = turn /\ ask' = ask /\ reply' = reply
      /\ genFaults' = genFaults /\ \A i \in Prompts : Finished(i) \/ ask[i].at = "unsent"
      /\ result' = IF fleet.kind = "vllm" THEN InShards ELSE ByIndex
  BY DEF Collected
<1>2. gen # "none" BY <1>1
<1>3. /\ FleetTyped /\ ask \in [Prompts -> Asks] /\ reply \in [Prompts -> Endings] /\ OutTogether
      /\ \A i \in Prompts : AskedFor(i)
  BY <1>2, StepFacts
<1>4. Prompts' = Prompts /\ Engines' = Engines /\ Slots' = Slots /\ \A i : Room(i)' = Room(i) BY <1>1, SameFleet
<1>5. Len(result') = Len(fleet.prompts) /\ \A i \in Prompts : result'[i] = reply[i]
  <2>1. CASE fleet.kind = "vllm" BY <1>1, <1>2, <1>3, <2>1, ShardsInOrder
  <2>2. CASE fleet.kind # "vllm"
    <3>1. Prompts = 1 .. Len(fleet.prompts) /\ Len(fleet.prompts) \in Nat BY <1>3, PromptsFinite
    <3>2. result' = [i \in 1 .. Len(fleet.prompts) |-> reply[i]] BY <1>1, <2>2, <3>1 DEF ByIndex
    <3> QED BY <3>1, <3>2
  <2> QED BY <2>1, <2>2
<1>6. FleetTyped' BY <1>1, <1>3, <1>4 DEF FleetTyped
<1>7. \A i \in Prompts : AskedFor(i)'
  <2> SUFFICES ASSUME NEW i \in Prompts PROVE AskedFor(i)' OBVIOUS
  <2>1. AskedFor(i) BY <1>3
  <2>2. Finished(i)' BY <1>1, <2>1 DEF AskedFor, Finished
  <2>3. GoodReply(i) => GoodReply(i)' BY <1>1, <1>4 DEF GoodReply
  <2>4. Alone(fleet'.kind) = Alone(fleet.kind) BY <1>1
  <2> QED BY <1>1, <1>5, <2>1, <2>2, <2>3, <2>4 DEF AskedFor
<1>8. AllAsked'
  <2>1. OutTogether' BY <1>1, <1>3, <1>4 DEF OutTogether, AsWhole
  <2> QED BY <1>1, <1>4, <1>5, <1>7, <2>1 DEF AllAsked
<1>9. Blamed' BY <1>1 DEF Blamed
<1>10. SlotsKept'
  <2>1. Held' = Held BY <1>1, <1>4 DEF Held
  <2> QED BY <1>1, <1>2, <1>4, <2>1 DEF FleetInv, SlotsKept
<1>11. TurnsKept'
  <2>1. \A e : Taken(e)' = Taken(e) BY <1>1, <1>4 DEF Taken
  <2>2. \A q : Fair(q) => Fair(q)'
    <3> HIDE DEF Taken, Engines
    <3> QED BY <1>1, <1>4, <2>1 DEF Fair
  <2> QED BY <1>1, <1>2, <2>2 DEF FleetInv, TurnsKept
<1> QED BY <1>6, <1>8, <1>9, <1>10, <1>11 DEF FleetInv

(* No step of the generation breaks the invariant.                         *)
LEMMA FleetSteps ==
  ASSUME FleetInv, GenerationStep
  PROVE  FleetInv'
<1>1. gen # "none"
  <2>1. gen = "none" => Prompts = {} BY DEF FleetInv, FleetTyped
  <2> QED BY <2>1, Zenon DEF GenerationStep, VllmShards, MegatronSubmit, Collected
<1> QED BY <1>1, ShardsGoOut, MegatronGoesOut, RepliesCollected, VllmTakes, SGLangSkips, SGLangSends, EngineAnswers,
           CallEnds, PromptEnds, HttpLoses, HttpGoesAgain DEF GenerationStep

(* The invariant holds on the whole data path.                             *)
LEMMA FleetInvariantHolds ==
  /\ DataInit => FleetInv
  /\ FleetInv /\ [DataNext]_dataVars => FleetInv'
<1>1. ASSUME DataInit PROVE FleetInv
  <2>1. /\ gen = "none" /\ turn = 0 /\ genFaults = 0
        /\ fleet = [kind |-> "vllm", engines |-> 1, slots |-> 1, relay |-> FALSE, prompts |-> <<>>]
    BY <1>1 DEF DataInit, NoGeneration
  <2>2. fleet.kind = "vllm" /\ fleet.engines = 1 /\ fleet.slots = 1 /\ fleet.prompts = <<>> BY <2>1
  <2>3. FleetTyped BY <2>1, <2>2 DEF FleetTyped, FleetKinds, Engines, Prompts
  <2> QED BY <2>1, <2>3 DEF FleetInv, AllAsked, Blamed, SlotsKept, TurnsKept
<1>2. ASSUME UNCHANGED fleetVars, FleetInv PROVE FleetInv'
  <2>1. /\ gen' = gen /\ fleet' = fleet /\ turn' = turn /\ ask' = ask /\ reply' = reply /\ result' = result
        /\ genFaults' = genFaults
    BY <1>2 DEF fleetVars
  <2>2. Prompts' = Prompts /\ Engines' = Engines /\ Slots' = Slots /\ \A i : Room(i)' = Room(i) BY <2>1, SameFleet
  <2>3. FleetTyped => FleetTyped' BY <2>1, <2>2 DEF FleetTyped
  <2>4. AllAsked => AllAsked'
    <3>1. \A i : AskedFor(i) => AskedFor(i)' BY <2>1, <2>2 DEF AskedFor, GoodReply, Alone, Finished
    <3>2. OutTogether => OutTogether' BY <2>1, <2>2 DEF OutTogether, AsWhole
    <3> QED BY <2>1, <2>2, <3>1, <3>2 DEF AllAsked
  <2>5. Blamed => Blamed' BY <2>1, <2>2 DEF Blamed
  <2>6. SlotsKept => SlotsKept'
    <3>1. Held' = Held BY <2>1, <2>2 DEF Held
    <3> QED BY <2>1, <2>2, <3>1 DEF SlotsKept
  <2>7. TurnsKept => TurnsKept'
    <3>1. \A e : Taken(e)' = Taken(e) BY <2>1, <2>2 DEF Taken
    <3>2. \A q : Fair(q) => Fair(q)'
      <4> HIDE DEF Taken, Engines
      <4> QED BY <2>1, <2>2, <3>1 DEF Fair
    <3> QED BY <2>1, <3>2 DEF TurnsKept
  <2> QED BY <1>2, <2>3, <2>4, <2>5, <2>6, <2>7 DEF FleetInv
<1>3. ASSUME GenerateBatch, FleetInv PROVE FleetInv' BY <1>3, GenerationStarts DEF GenerateBatch
<1>4. ASSUME [DataNext]_dataVars PROVE UNCHANGED fleetVars \/ GenerateBatch \/ GenerationStep
  BY <1>4 DEF DataNext, dataVars, RolloutBatch, DatasetBatch, ScoreBatch, RefitGeneration, SetUpJob, LearnFromBatch,
              AlignTexts, DistillBatch, Over
<1> QED BY <1>1, <1>2, <1>3, <1>4, FleetSteps

(* What the invariant says of the batch.                                   *)
LEMMA FleetAnswers ==
  ASSUME FleetInv
  PROVE  EachAnswered
<1>1. FleetTyped BY DEF FleetInv
<1>2. ASSUME gen = "answered", NEW i \in Prompts PROVE AnsweredFor(i)
  <2>1. AskedFor(i) BY <1>2 DEF FleetInv, AllAsked
  <2>2. Finished(i) /\ result[i] = reply[i] BY <1>2, <2>1 DEF AskedFor
  <2>3. CASE ask[i].at = "back" BY <2>1, <2>2, <2>3 DEF AskedFor, GoodReply, AnsweredFor
  <2>4. CASE ask[i].at = "failed" BY <1>2, <2>1, <2>2, <2>4 DEF AskedFor, AnsweredFor
  <2> QED BY <2>2, <2>3, <2>4 DEF Finished
<1>3. gen = "answered" => Len(result) = Len(fleet.prompts) BY DEF FleetInv, AllAsked
<1>4. gen = "raised" => genFaults > 0 \/ \E i \in Prompts : Room(i) <= 0 BY DEF FleetInv, Blamed
<1>5. fleet.kind = "sglang" => Cardinality(Held) <= Slots BY <1>1 DEF FleetInv, FleetTyped, SlotsKept
<1>6. ASSUME fleet.kind = "vllm_async", NEW d \in Engines, NEW e \in Engines
      PROVE  Cardinality(Taken(d)) <= Cardinality(Taken(e)) + 1
  <2>1. PICK q \in Nat : Fair(q) BY <1>1, <1>6 DEF FleetInv, FleetTyped, TurnsKept
  <2>2. Cardinality(Taken(d)) \in {q, q + 1} /\ Cardinality(Taken(e)) \in {q, q + 1} BY <2>1 DEF Fair
  <2> QED BY <2>2
<1> QED BY <1>2, <1>3, <1>4, <1>5, <1>6 DEF EachAnswered

(* A batch of prompts with the generation engines, for any number of them, *)
(* of prompts and of slots, in whatever order they finish and however      *)
(* often one is asked again (vllm_generation.py, sglang_generation.py,     *)
(* megatron_generation.py): the batch comes back whole and in its order,   *)
(* each reply within the context and ended by its own prompt's stop        *)
(* strings, what is missing is what failed, a batch is not given up        *)
(* without a cause, the engines of SGLang are not given more than they     *)
(* take, and replicas that take turns take as much.                        *)
THEOREM PromptsAnswered == DataSpec => []EachAnswered
<1>1. DataInit => FleetInv BY FleetInvariantHolds
<1>2. FleetInv /\ [DataNext]_dataVars => FleetInv' BY FleetInvariantHolds
<1>3. FleetInv => EachAnswered BY FleetAnswers
<1> QED BY <1>1, <1>2, <1>3, PTL DEF DataSpec

-----------------------------------------------------------------------------
(* A transfer under way, by whichever path.                                *)

IpcWays == xfer.path = "ipc" => \A w \in Gpu : Ipc(xfer.sizes, tx[w], half[w], sock[w], rx[w])
HttpWays == xfer.path = "http" => \E e, posts : Cuts(xfer, e) /\ posts \in [Gpu -> Nat] /\ HttpAll(e, posts)
BroadcastWays == xfer.path = "collective" => \E e : Cuts(xfer, e) /\ BroadcastsAll(e)
Told ==
  refit = "updated" =>
    /\ \A w \in Gpu : tx[w].pc = "done"
    /\ xfer.path # "http" => Believes /\ \A w \in Gpu : rx[w].pc \in {"done", "failed"}
UnderWay == xfer \in Transfers /\ Shaped /\ IpcWays /\ HttpWays /\ BroadcastWays /\ Told
TransferInvariant == (refit = "none" => done = 0) /\ (refit # "none" => UnderWay)

(* The fields of what a worker keeps stay the same.                        *)
LEMMA ShapedHolds ==
  ASSUME Shaped, TransferStep
  PROVE  Shaped'
<1> USE DEF Shaped, OnlyTx, OnlyRx
<1> DEFINE Same == DOMAIN tx' = DOMAIN tx /\ \A w \in Gpu : DOMAIN tx'[w] = DOMAIN tx[w]
<1>1. ASSUME NEW w \in Gpu, \/ PackTensor(w) \/ TooLarge(w) \/ SendGroup(w) \/ Complete(w) \/ Closed(w)
                            \/ SenderTimesOut(w)
      PROVE  Shaped'
  <2>1. CASE PackTensor(w) BY <2>1 DEF PackTensor
  <2>2. CASE TooLarge(w) BY <2>2 DEF TooLarge
  <2>3. CASE SendGroup(w) BY <2>3 DEF SendGroup
  <2>4. CASE Complete(w) BY <2>4 DEF Complete
  <2>5. CASE Closed(w) BY <2>5 DEF Closed
  <2>6. CASE SenderTimesOut(w) BY <2>6 DEF SenderTimesOut
  <2> QED BY <1>1, <2>1, <2>2, <2>3, <2>4, <2>5, <2>6
<1>2. ASSUME NEW w \in Gpu, \/ Receive(w) \/ LoadTensor(w) \/ Acknowledge(w) \/ LoadFails(w)
                            \/ ReceiverTimesOut(w) \/ Loaded(w)
      PROVE  Shaped'
  <2>1. CASE Receive(w) BY <2>1 DEF Receive
  <2>2. CASE LoadTensor(w) BY <2>2 DEF LoadTensor
  <2>3. CASE Acknowledge(w) BY <2>3 DEF Acknowledge
  <2>4. CASE LoadFails(w) BY <2>4 DEF LoadFails
  <2>5. CASE ReceiverTimesOut(w) BY <2>5 DEF ReceiverTimesOut
  <2>6. CASE Loaded(w) BY <2>6 DEF Loaded
  <2> QED BY <1>2, <2>1, <2>2, <2>3, <2>4, <2>5, <2>6
<1>3. ASSUME NEW w \in Gpu, AddToBucket(w) \/ FlushBucket(w) \/ Post(w) \/ PostFails(w) \/ FlushCache(w)
      PROVE  Shaped'
  <2>1. CASE AddToBucket(w) BY <2>1 DEF AddToBucket
  <2>2. CASE FlushBucket(w) BY <2>2 DEF FlushBucket
  <2>3. CASE Post(w) BY <2>3 DEF Post
  <2>4. CASE PostFails(w) BY <2>4 DEF PostFails
  <2>5. CASE FlushCache(w) BY <2>5, Zenon DEF FlushCache
  <2> QED BY <1>3, <2>1, <2>2, <2>3, <2>4, <2>5
<1>4. ASSUME NEW w \in Gpu, \/ ProducerIssues(w) \/ ProducerReturns(w) \/ ConsumerIssues(w)
                            \/ ConsumerReturns(w) \/ StreamLoads(w)
      PROVE  Shaped'
  <2>1. CASE ProducerIssues(w) BY <2>1 DEF ProducerIssues
  <2>2. CASE ProducerReturns(w) BY <2>2 DEF ProducerReturns
  <2>3. CASE ConsumerIssues(w) BY <2>3, Zenon DEF ConsumerIssues
  <2>4. CASE ConsumerReturns(w) BY <2>4 DEF ConsumerReturns
  <2>5. CASE StreamLoads(w) BY <2>5 DEF StreamLoads
  <2> QED BY <1>4, <2>1, <2>2, <2>3, <2>4, <2>5
<1>5. CASE Broadcast \/ SendersRaise \/ Updated \/ LeftWaiting
  BY <1>5 DEF Broadcast, SendersRaise, Updated, LeftWaiting, xferVars
<1> QED BY <1>1, <1>2, <1>3, <1>4, <1>5 DEF TransferStep

(* The driver starts a refit: nothing is loaded, filled or offered.        *)
LEMMA TransferStarts ==
  ASSUME refit = "none", done = 0, NEW x \in Transfers, Refit(x)
  PROVE  TransferInvariant'
<1> DEFINE t == [pc |-> "stream", at |-> 1, used |-> 0, names |-> <<>>, cur |-> "a", await |-> FALSE, groups |-> <<>>]
           r == [pc |-> "recv", names |-> <<>>, cur |-> "a", k |-> 1, loaded |-> {}, good |-> FALSE,
                 groups |-> <<>>, loads |-> 0]
           h == [a |-> <<>>, b |-> <<>>]
           q == [req |-> Silent, rep |-> Silent]
           z == x.sizes
           N == Len(z)
<1>1. /\ xfer' = x /\ refit' = "waiting" /\ done' = 0
      /\ tx' = [w \in Gpu |-> t] /\ rx' = [w \in Gpu |-> r] /\ half' = [w \in Gpu |-> h]
      /\ sock' = [w \in Gpu |-> q] /\ box' = [w \in Gpu |-> <<>>]
  BY DEF Refit
<1>2. N \in Nat /\ z \in Seq(Nat \ {0}) BY TransferConstants
<1> HIDE DEF z, N
<1>3. Shaped'
  <2>1. DOMAIN t = SenderFields BY DEF SenderFields
  <2>2. DOMAIN r = ReceiverFields BY DEF ReceiverFields
  <2>3. DOMAIN h = {"a", "b"} /\ DOMAIN q = {"req", "rep"} OBVIOUS
  <2> HIDE DEF t, r, h, q
  <2> QED BY <1>1, <2>1, <2>2, <2>3 DEF Shaped
<1>4. <<>> = Run(1, 0) /\ First(0) = {}
  <2>1. 1 \in Nat \ {0} /\ 0 \in Nat /\ 1 <= 0 + 1 /\ 0 = 1 - 1 OBVIOUS
  <2>2. Run(1, 0) = <<>> BY <2>1, Runs
  <2>3. First(0) = {} BY <2>1, FirstGrows
  <2> QED BY <2>2, <2>3
<1>5. Ipc(z, t, h, q, r)
  <2>1. Filling(z, 0, t, h)
    <3> DEFINE a == [i \in DOMAIN <<>> |-> Aligned(z[<<>>[i]])]
    <3>1. SumTo(a, 0) = 0
      <4> HIDE DEF a
      <4>1. 0 \in Nat /\ \A k \in 1 .. 0 : a[k] \in Nat OBVIOUS
      <4> QED BY <4>1, SumSteps
    <3>2. OffsetOf(z, <<>>, 1) = 0
      <4>1. OffsetOf(z, <<>>, 1) = SumTo(a, 1 - 1) BY DEF OffsetOf
      <4> HIDE DEF a
      <4> QED BY <3>1, <4>1
    <3>3. PlacedOf(z, <<>>, <<>>) BY DEF PlacedOf
    <3>4. t.at \in 0 + 1 .. N + 1 BY <1>2
    <3>5. Len(<<>>) + 1 = 1 OBVIOUS
    <3> QED BY <1>4, <3>2, <3>3, <3>4, <3>5 DEF Filling, N
  <2>2. Settled(0, t, q, r) BY <1>4 DEF Settled, Streams
  <2>3. r.groups = <<>> /\ r.loads = 0 OBVIOUS
  <2>4. 0 \in 0 .. Len(z) BY <1>2 DEF N
  <2> HIDE DEF t, r, h, q
  <2> QED BY <2>1, <2>2, <2>3, <2>4 DEF Ipc, Exchange
<1>6. PICK e : Cuts(x, e) BY <1>2, CutsExist DEF N, z
<1>7. e[0] = 0 /\ e[1] \in 0 .. N
  <2>1. 1 \in 0 .. N + 1 BY <1>2
  <2> QED BY <1>6, <2>1 DEF Cuts, N, z
<1>8. ASSUME NEW w \in Gpu PROVE Http(x, e, 0, w, t, <<>>, r)
  <2>1. Bucket(z, 0, e, t)
    <3>1. SumTo(z, 0) = 0
      <4>1. 0 \in Nat /\ \A k \in 1 .. 0 : z[k] \in Nat OBVIOUS
      <4> QED BY <4>1, SumSteps
    <3>2. t.at \in Nat /\ t.at - 1 = 0 /\ t.used = 0 /\ t.names = <<>> /\ t.pc = "stream" OBVIOUS
    <3>3. 0 \in 0 .. Len(z) /\ 0 \in e[0] .. e[0 + 1] BY <1>2, <1>7 DEF N
    <3> HIDE DEF t
    <3> QED BY <1>4, <1>7, <3>1, <3>2, <3>3 DEF Bucket
  <2>2. <<>> \in Seq(Seq(Nat)) /\ Len(<<>>) = 0 /\ 0 + 0 = 0 OBVIOUS
  <2>3. r.pc = "recv" /\ r.groups = <<>> /\ r.loads = 0 /\ r.loaded = First(e[0]) /\ t.pc = "stream" BY <1>4, <1>7
  <2>4. \A j \in 1 .. 0 : FALSE OBVIOUS
  <2> HIDE DEF t, r
  <2> QED BY <2>1, <2>2, <2>3, <2>4 DEF Http, z
<1>9. Broadcasts(x, e, 0, t, r)
  <2>1. Chain(x, e, <<>>)
    <3>1. 0 \in 0 .. Len(x.sizes) BY <1>2 DEF N, z
    <3> QED BY <3>1 DEF Chain
  <2>2. Len(<<>>) = 0 /\ NumBuffers \in Nat BY TransferConstants
  <2> QED BY <1>4, <1>7, <2>1, <2>2 DEF Broadcasts
<1> HIDE DEF t, r, h, q
<1>10. IpcWays' BY <1>1, <1>5 DEF IpcWays, z
<1>11. HttpWays'
  <2> DEFINE posts == [v \in Gpu |-> 0]
  <2>1. \A v \in Gpu : LeaderOf(x, v) \in Gpu BY LeadersLead, TransferConstants
  <2>2. HttpAll(e, posts)' BY <1>1, <1>8, <2>1 DEF HttpAll
  <2>3. posts \in [Gpu -> Nat] OBVIOUS
  <2> HIDE DEF posts
  <2> QED BY <1>1, <1>6, <2>2, <2>3 DEF HttpWays
<1>12. BroadcastWays'
  <2>1. BroadcastsAll(e)' BY <1>1, <1>9 DEF BroadcastsAll
  <2> QED BY <1>1, <1>6, <2>1 DEF BroadcastWays
<1> QED BY <1>1, <1>3, <1>10, <1>11, <1>12 DEF TransferInvariant, UnderWay, Told

(* Over ZMQ each pair of workers goes its own way.                         *)
LEMMA IpcStep ==
  ASSUME GoodTransfer, Shaped, IpcWays, NEW w \in Gpu,
         \/ PackTensor(w) \/ TooLarge(w) \/ SendGroup(w) \/ Complete(w) \/ Closed(w) \/ SenderTimesOut(w)
         \/ Receive(w) \/ LoadTensor(w) \/ Acknowledge(w) \/ LoadFails(w) \/ ReceiverTimesOut(w) \/ Loaded(w)
  PROVE  IpcWays' /\ xfer' = xfer /\ xfer.path = "ipc" /\ refit' = refit
<1>1. /\ xfer' = xfer /\ xfer.path = "ipc" /\ refit' = refit
      /\ \A v \in Gpu \ {w} : tx'[v] = tx[v] /\ half'[v] = half[v] /\ sock'[v] = sock[v] /\ rx'[v] = rx[v]
  <2> USE DEF By, OnlyTx, OnlyRx, Shaped
  <2>1. CASE PackTensor(w) \/ TooLarge(w) \/ SendGroup(w) \/ Complete(w) \/ Closed(w) \/ SenderTimesOut(w)
    BY <2>1 DEF PackTensor, TooLarge, SendGroup, Complete, Closed, SenderTimesOut
  <2>2. CASE \/ Receive(w) \/ LoadTensor(w) \/ Acknowledge(w) \/ LoadFails(w) \/ ReceiverTimesOut(w) \/ Loaded(w)
    BY <2>2 DEF Receive, LoadTensor, Acknowledge, LoadFails, ReceiverTimesOut, Loaded
  <2> QED BY <2>1, <2>2
<1>2. Ipc(xfer.sizes, tx[w], half[w], sock[w], rx[w]) BY <1>1 DEF IpcWays
<1>3. Ipc(xfer.sizes, tx[w], half[w], sock[w], rx[w])'
  <2>1. CASE PackTensor(w) BY <1>2, <2>1, IpcPacks
  <2>2. CASE SendGroup(w) BY <1>2, <2>2, IpcOffers
  <2>3. CASE TooLarge(w) \/ Complete(w) \/ Closed(w) \/ SenderTimesOut(w) BY <1>2, <2>3, IpcEnds
  <2>4. CASE Receive(w) BY <1>2, <2>4, IpcReceives
  <2>5. CASE LoadTensor(w) \/ Acknowledge(w) \/ LoadFails(w) \/ ReceiverTimesOut(w) \/ Loaded(w)
    BY <1>2, <2>5, IpcLoads
  <2> QED BY <2>1, <2>2, <2>3, <2>4, <2>5
<1>4. \A v \in Gpu : Ipc(xfer.sizes, tx[v], half[v], sock[v], rx[v])
  BY <1>1 DEF IpcWays
<1>5. ASSUME NEW v \in Gpu PROVE Ipc(xfer'.sizes, tx'[v], half'[v], sock'[v], rx'[v])
  <2>1. CASE v = w BY <1>3, <2>1
  <2>2. CASE v # w BY <1>1, <1>4, <2>2
  <2> QED BY <2>1, <2>2
<1> QED BY <1>1, <1>5 DEF IpcWays

(* Over HTTP the ranks of an engine meet when a bucket is posted.          *)
LEMMA HttpStep ==
  ASSUME GoodTransfer, Shaped, HttpWays, NEW w \in Gpu,
         AddToBucket(w) \/ FlushBucket(w) \/ Post(w) \/ PostFails(w) \/ FlushCache(w)
  PROVE  HttpWays' /\ xfer' = xfer /\ xfer.path = "http" /\ refit' = refit
<1>1. xfer' = xfer /\ xfer.path = "http" /\ refit' = refit
  BY DEF By, AddToBucket, FlushBucket, Post, PostFails, FlushCache, Streamed
<1>2. PICK e, posts : Cuts(xfer, e) /\ posts \in [Gpu -> Nat] /\ HttpAll(e, posts) BY <1>1 DEF HttpWays
<1>3. CASE Post(w)
  <2>1. \E now \in [Gpu -> Nat] : HttpAll(e, now)' BY <1>2, <1>3, HttpPosts
  <2> QED BY <1>1, <1>2, <2>1 DEF HttpWays
<1>4. CASE AddToBucket(w) \/ FlushBucket(w) \/ PostFails(w) \/ FlushCache(w)
  <2> DEFINE p == posts[w]
  <2>1. p \in Nat /\ Http(xfer, e, p, w, tx[w], box[w], rx[w]) BY <1>2 DEF HttpAll
  <2> HIDE DEF p
  <2>2. Http(xfer, e, p, w, tx[w], box[w], rx[w])'
    <3>1. CASE AddToBucket(w) BY <1>2, <2>1, <3>1, HttpFills
    <3>2. CASE FlushBucket(w) BY <1>2, <2>1, <3>2, HttpFlushes
    <3>3. CASE PostFails(w) \/ FlushCache(w) BY <1>2, <2>1, <3>3, HttpEnds
    <3> QED BY <1>4, <3>1, <3>2, <3>3
  <2>3. \A v \in Gpu \ {w} : tx'[v] = tx[v] /\ box'[v] = box[v] /\ rx'[v] = rx[v]
    BY <1>4 DEF AddToBucket, FlushBucket, PostFails, FlushCache, OnlyTx, Shaped
  <2>4. ASSUME NEW v \in Gpu PROVE Http(xfer, e, posts[v], v, tx'[v], box'[v], rx'[v])
    <3>1. CASE v = w BY <1>1, <2>2, <3>1 DEF p
    <3>2. CASE v # w BY <1>2, <2>3, <3>2 DEF HttpAll
    <3> QED BY <3>1, <3>2
  <2>5. HttpAll(e, posts)' BY <1>1, <1>2, <2>4 DEF HttpAll
  <2> QED BY <1>1, <1>2, <2>5 DEF HttpWays
<1> QED BY <1>1, <1>3, <1>4

(* A broadcast is executed when all have joined it.                        *)
LEMMA CollectiveStep ==
  ASSUME GoodTransfer, Shaped, BroadcastWays,
         \/ Broadcast
         \/ \E w \in Gpu :
              ProducerIssues(w) \/ ProducerReturns(w) \/ ConsumerIssues(w) \/ ConsumerReturns(w) \/ StreamLoads(w)
  PROVE  BroadcastWays' /\ xfer' = xfer /\ xfer.path = "collective" /\ refit' = refit
<1>1. xfer' = xfer /\ xfer.path = "collective" /\ refit' = refit
  BY Zenon DEF By, Broadcast, ProducerIssues, ProducerReturns, ConsumerIssues, ConsumerReturns, StreamLoads
<1>2. PICK e : Cuts(xfer, e) /\ BroadcastsAll(e) BY <1>1 DEF BroadcastWays
<1>3. CASE Broadcast
  <2>1. /\ tx' = tx /\ rx' = rx /\ done' = done + 1
        /\ \A w \in Gpu : Len(tx[w].groups) > done /\ Len(rx[w].groups) > done
    BY <1>3 DEF Broadcast
  <2>2. ASSUME NEW w \in Gpu PROVE Broadcasts(xfer, e, done + 1, tx[w], rx[w])
    <3>1. Broadcasts(xfer, e, done, tx[w], rx[w]) BY <1>2 DEF BroadcastsAll
    <3> DEFINE t == tx[w]
               r == rx[w]
    <3>2. /\ done \in Nat /\ Len(t.groups) \in Nat /\ Len(r.groups) \in Nat /\ Len(t.groups) - done <= NumBuffers
          /\ r.loads \in 0 .. done
      BY <3>1 DEF Broadcasts, Chain
    <3>3. NumBuffers \in Nat BY TransferConstants
    <3>4. Len(t.groups) > done /\ Len(r.groups) > done BY <2>1
    <3> HIDE DEF t, r
    <3>5. /\ done + 1 \in Nat /\ done + 1 <= Len(t.groups) /\ done + 1 <= Len(r.groups)
          /\ Len(t.groups) - (done + 1) <= NumBuffers /\ r.loads \in 0 .. done + 1
      BY <3>2, <3>3, <3>4
    <3> QED BY <3>1, <3>5 DEF Broadcasts, t, r
  <2>3. BroadcastsAll(e)' BY <1>1, <2>1, <2>2 DEF BroadcastsAll
  <2> QED BY <1>1, <1>2, <2>3 DEF BroadcastWays
<1>4. CASE \E w \in Gpu :
             ProducerIssues(w) \/ ProducerReturns(w) \/ ConsumerIssues(w) \/ ConsumerReturns(w) \/ StreamLoads(w)
  <2>1. BroadcastsAll(e)' BY <1>2, <1>4, BroadcastsStep
  <2> QED BY <1>1, <1>2, <2>1 DEF BroadcastWays
<1> QED BY <1>1, <1>3, <1>4

(* Every step of a transfer.                                               *)
LEMMA TransferSteps ==
  ASSUME TransferInvariant, TransferStep
  PROVE  TransferInvariant'
<1>1. refit = "waiting"
  BY Zenon DEF TransferStep, By, PackTensor, TooLarge, SendGroup, Complete, Closed, SenderTimesOut,
         Receive, LoadTensor, Acknowledge, LoadFails, ReceiverTimesOut, Loaded,
         AddToBucket, FlushBucket, Post, PostFails, FlushCache, Streamed,
         ProducerIssues, ProducerReturns, ConsumerIssues, ConsumerReturns, StreamLoads,
         Broadcast, SendersRaise, Updated, LeftWaiting
<1>2. UnderWay BY <1>1 DEF TransferInvariant
<1>3. xfer \in Transfers /\ GoodTransfer /\ Shaped /\ IpcWays /\ HttpWays /\ BroadcastWays
  BY <1>2, TransfersAreGood DEF UnderWay
<1>4. Shaped' BY <1>3, ShapedHolds
<1>5. ASSUME IpcWays', HttpWays', BroadcastWays', xfer' = xfer, refit' = refit PROVE TransferInvariant'
  BY <1>1, <1>3, <1>4, <1>5 DEF TransferInvariant, UnderWay, Told
<1>6. ASSUME NEW w \in Gpu,
             \/ PackTensor(w) \/ TooLarge(w) \/ SendGroup(w) \/ Complete(w) \/ Closed(w) \/ SenderTimesOut(w)
             \/ Receive(w) \/ LoadTensor(w) \/ Acknowledge(w) \/ LoadFails(w) \/ ReceiverTimesOut(w) \/ Loaded(w)
      PROVE  TransferInvariant'
  <2>1. IpcWays' /\ xfer' = xfer /\ xfer.path = "ipc" /\ refit' = refit BY <1>3, <1>6, IpcStep
  <2> QED BY <1>5, <2>1 DEF HttpWays, BroadcastWays
<1>7. ASSUME NEW w \in Gpu, AddToBucket(w) \/ FlushBucket(w) \/ Post(w) \/ PostFails(w) \/ FlushCache(w)
      PROVE  TransferInvariant'
  <2>1. HttpWays' /\ xfer' = xfer /\ xfer.path = "http" /\ refit' = refit BY <1>3, <1>7, HttpStep
  <2> QED BY <1>5, <2>1 DEF IpcWays, BroadcastWays
<1>8. ASSUME \/ Broadcast
             \/ \E w \in Gpu :
                  \/ ProducerIssues(w) \/ ProducerReturns(w) \/ ConsumerIssues(w) \/ ConsumerReturns(w)
                  \/ StreamLoads(w)
      PROVE  TransferInvariant'
  <2>1. BroadcastWays' /\ xfer' = xfer /\ xfer.path = "collective" /\ refit' = refit BY <1>3, <1>8, CollectiveStep
  <2> QED BY <1>5, <2>1 DEF IpcWays, HttpWays
<1>9. CASE SendersRaise \/ Updated \/ LeftWaiting
  <2>1. /\ xfer' = xfer /\ tx' = tx /\ half' = half /\ sock' = sock /\ rx' = rx /\ box' = box /\ done' = done
        /\ refit' # "none"
    BY <1>1, <1>9 DEF SendersRaise, Updated, LeftWaiting, xferVars
  <2>2. IpcWays' BY <1>3, <2>1 DEF IpcWays
  <2>3. HttpWays' BY <1>3, <2>1 DEF HttpWays, HttpAll
  <2>4. BroadcastWays' BY <1>3, <2>1 DEF BroadcastWays, BroadcastsAll
  <2>5. Told'
    <3>1. CASE SendersRaise BY <3>1 DEF SendersRaise, Told
    <3>2. CASE Updated BY <3>2 DEF Updated, Told, Believes, Asked, FirstOfEngine
    <3>3. CASE LeftWaiting BY <1>1, <3>3 DEF LeftWaiting, xferVars, Told
    <3> QED BY <1>9, <3>1, <3>2, <3>3
  <2> QED BY <1>3, <1>4, <2>1, <2>2, <2>3, <2>4, <2>5 DEF TransferInvariant, UnderWay
<1> QED BY <1>6, <1>7, <1>8, <1>9 DEF TransferStep

(* What is loaded are the first tensors, each under its name, whichever    *)
(* way it came.                                                            *)
LEMMA LoadsInOrder ==
  ASSUME GoodTransfer, UnderWay, NEW w \in Gpu
  PROVE  /\ \E n \in Nat : rx[w].loaded = First(n)
         /\ rx[w].pc = "load" => xfer.path = "ipc"
<1> DEFINE N == Len(xfer.sizes)
<1>1. N \in Nat BY DEF GoodTransfer
<1>2. CASE xfer.path = "ipc"
  <2>1. Ipc(xfer.sizes, tx[w], half[w], sock[w], rx[w]) BY <1>2 DEF UnderWay, IpcWays
  <2>2. PICK s \in 0 .. N : Exchange(xfer.sizes, s, tx[w], half[w], sock[w], rx[w]) BY <2>1 DEF Ipc
  <2> DEFINE r == rx[w]
  <2> HIDE DEF r, N
  <2>3. \E n \in Nat : r.loaded = First(n)
    <3>1. CASE r.loaded = First(s) BY <1>1, <3>1
    <3>2. CASE Offered(xfer.sizes, s, tx[w], half[w], sock[w], r)
      <4>1. PICK l \in 0 .. s - 1 : r.loaded = First(l) BY <3>2 DEF Offered
      <4>2. l \in Nat BY <1>1
      <4> QED BY <4>1, <4>2
    <3>3. CASE Loading(xfer.sizes, s, tx[w], half[w], sock[w], r)
      <4>1. PICK l \in 0 .. s - 1 : r.k \in 1 .. s - l + 1 /\ r.loaded = First(l + r.k - 1) BY <3>3 DEF Loading
      <4>2. l + r.k - 1 \in Nat BY <1>1, <4>1
      <4> QED BY <4>1, <4>2
    <3>4. CASE Lost(xfer.sizes, tx[w], sock[w], r)
      <4>1. PICK n \in 0 .. N : r.loaded = First(n) BY <3>4 DEF Lost, N
      <4>2. n \in Nat BY <1>1
      <4> QED BY <4>1, <4>2
    <3> QED BY <2>2, <3>1, <3>2, <3>3, <3>4 DEF r, Exchange, Settled, LastOffered, Finishing, AllLoaded
  <2> QED BY <1>2, <2>3 DEF r
<1>3. CASE xfer.path = "http"
  <2>1. PICK e, posts : Cuts(xfer, e) /\ posts \in [Gpu -> Nat] /\ HttpAll(e, posts)
    BY <1>3 DEF UnderWay, HttpWays
  <2> DEFINE p == posts[w]
             b == box[w]
  <2>2. p \in Nat /\ Http(xfer, e, p, w, tx[w], b, rx[w]) BY <2>1 DEF HttpAll
  <2>3. rx[w].pc = "recv" /\ rx[w].loaded = First(e[p]) /\ p + Len(b) \in 0 .. N /\ Len(b) \in Nat
    BY <2>2 DEF Http, Bucket
  <2> HIDE DEF p, b, N
  <2>4. p \in 0 .. N + 1 BY <1>1, <2>2, <2>3
  <2>5. e[p] \in Nat
    <3>1. e \in [0 .. N + 1 -> 0 .. N] BY <2>1 DEF Cuts, N
    <3>2. e[p] \in 0 .. N BY <2>4, <3>1
    <3> QED BY <1>1, <3>2
  <2> QED BY <2>3, <2>5
<1>4. CASE xfer.path = "collective"
  <2>1. PICK e : Cuts(xfer, e) /\ BroadcastsAll(e) BY <1>4 DEF UnderWay, BroadcastWays
  <2> DEFINE r == rx[w]
  <2>2. Broadcasts(xfer, e, done, tx[w], r) BY <2>1 DEF BroadcastsAll
  <2>3. /\ r.pc \in {"recv", "failed", "done"} /\ r.loads \in 0 .. done /\ done \in Nat /\ done <= Len(r.groups)
        /\ Len(r.groups) \in 0 .. N /\ r.loaded = First(e[r.loads])
    BY <2>2 DEF Broadcasts, Chain
  <2> HIDE DEF r, N
  <2>4. r.loads \in 0 .. N + 1 BY <1>1, <2>3
  <2>5. e[r.loads] \in Nat
    <3>1. e \in [0 .. N + 1 -> 0 .. N] BY <2>1 DEF Cuts, N
    <3>2. e[r.loads] \in 0 .. N BY <2>4, <3>1
    <3> QED BY <1>1, <3>2
  <2> QED BY <2>3, <2>5 DEF r
<1> QED BY <1>2, <1>3, <1>4 DEF GoodTransfer

(* What has been broadcast to a consumer that has ended well, loaded or    *)
(* not, is everything.                                                     *)
LEMMA BroadcastsReach ==
  ASSUME GoodTransfer, NEW e, Cuts(xfer, e), BroadcastsAll(e),
         tx[0].pc = "done", NEW w \in Gpu, rx[w].pc = "done"
  PROVE  Reaches(w) = First(Count)
<1> DEFINE N == Count
           r == rx[w]
           last == Len(r.groups)
           l == r.loads
<1>1. N \in Nat /\ N = Len(xfer.sizes) BY DEF GoodTransfer, Count
<1>2. 0 \in Gpu
  <2>1. Gpus \in Nat \ {0} BY TransferConstants
  <2> QED BY <2>1 DEF Gpu
<1>3. Broadcasts(xfer, e, done, tx[0], rx[0]) /\ Broadcasts(xfer, e, done, tx[w], r) BY <1>2 DEF BroadcastsAll
<1> DEFINE issued == Len(tx[0].groups)
<1>4. /\ issued \in 0 .. N /\ e[issued] = N /\ last \in 0 .. N /\ e[last] = N /\ l \in 0 .. last
      /\ (last # 0 => e[last - 1] # N) /\ r.loaded = First(e[l])
  <2>1. issued \in 0 .. N /\ e[issued] = N BY <1>1, <1>3 DEF Broadcasts, Chain
  <2>2. last \in 0 .. N /\ e[last] = N /\ (last # 0 => e[last - 1] # N) BY <1>1, <1>3 DEF Broadcasts, Chain
  <2>3. l \in 0 .. done /\ done \in Nat /\ done <= last /\ r.loaded = First(e[l]) BY <1>3 DEF Broadcasts
  <2> HIDE DEF issued, last, l, r, N
  <2> QED BY <1>1, <2>1, <2>2, <2>3
<1>5. Queued(w) = l + 1 .. last
  <2>1. \A n \in l + 1 .. last : r.pc # "failed" OBVIOUS
  <2> QED BY <2>1 DEF Queued
<1>6. Reaches(w) = r.loaded \cup UNION {Unpacked(w, n) : n \in l + 1 .. last} BY <1>5 DEF Reaches
<1>7. e \in [0 .. N + 1 -> 0 .. N] /\ e[0] = 0 BY <1>1 DEF Cuts
<1>8. \A m, n \in 0 .. N + 1 : m <= n => e[m] <= e[n] BY <1>1, CutsGrow
<1> HIDE DEF N, r, last, l, issued
<1>9. last <= issued
  <2> SUFFICES ASSUME ~(last <= issued) PROVE FALSE OBVIOUS
  <2>1. last # 0 /\ issued <= last - 1 /\ last - 1 \in 0 .. N + 1 /\ issued \in 0 .. N + 1 BY <1>1, <1>4
  <2>2. e[issued] <= e[last - 1] /\ e[last - 1] \in 0 .. N BY <1>7, <1>8, <2>1
  <2>3. e[last - 1] # N BY <1>4, <2>1
  <2> QED BY <1>1, <1>4, <2>2, <2>3
<1>10. \A n \in l + 1 .. last : Unpacked(w, n) = {<<p, p>> : p \in e[n - 1] + 1 .. e[n]}
  <2> SUFFICES ASSUME NEW n \in l + 1 .. last PROVE Unpacked(w, n) = {<<p, p>> : p \in e[n - 1] + 1 .. e[n]} OBVIOUS
  <2>1. n \in Nat \ {0} /\ n <= issued /\ n <= last BY <1>1, <1>4, <1>9
  <2> QED BY <2>1, UnpacksAll DEF issued, last, r
<1> DEFINE U == UNION {Unpacked(w, n) : n \in l + 1 .. last}
<1>11. U \subseteq First(N)
  <2> SUFFICES ASSUME NEW n \in l + 1 .. last PROVE Unpacked(w, n) \subseteq First(N) OBVIOUS
  <2>1. n - 1 \in 0 .. N + 1 /\ n \in 0 .. N + 1 BY <1>1, <1>4
  <2>2. e[n - 1] \in 0 .. N /\ e[n] \in 0 .. N BY <1>7, <2>1
  <2>3. \A p \in e[n - 1] + 1 .. e[n] : p \in 1 .. N BY <1>1, <2>2
  <2> QED BY <1>10, <2>3 DEF First
<1>12. e[l] \in 0 .. N /\ First(e[l]) \subseteq First(N)
  <2>1. l \in 0 .. N + 1 BY <1>1, <1>4
  <2>2. e[l] \in 0 .. N BY <1>7, <2>1
  <2>3. \A p \in 1 .. e[l] : p \in 1 .. N BY <1>1, <2>2
  <2> QED BY <2>2, <2>3 DEF First
<1>13. ASSUME NEW p \in 1 .. N, ~(p <= e[l]) PROVE <<p, p>> \in U
  <2> DEFINE S == {n \in 0 .. last : p <= e[n]}
  <2>1. S \in SUBSET Nat /\ last \in S BY <1>1, <1>4
  <2>2. PICK n \in S : \A k \in S : n <= k BY <2>1, LeastExists, Zenon
  <2>3. n \in 0 .. last /\ p <= e[n] /\ n \in 0 .. N + 1 BY <1>1, <1>4, <2>2
  <2>4. n > l
    <3> SUFFICES ASSUME ~(n > l) PROVE FALSE OBVIOUS
    <3>1. n <= l /\ l \in 0 .. N + 1 BY <1>1, <1>4, <2>3
    <3>2. e[n] <= e[l] /\ e[n] \in 0 .. N BY <1>7, <1>8, <2>3, <3>1
    <3> QED BY <1>1, <1>12, <1>13, <2>3, <3>2
  <2>5. n \in l + 1 .. last /\ n - 1 \in 0 .. last /\ n - 1 \in 0 .. N + 1 /\ ~(n <= n - 1) BY <1>1, <1>4, <2>3, <2>4
  <2>6. n - 1 \notin S BY <2>2, <2>5
  <2>7. e[n - 1] \in 0 .. N /\ e[n] \in 0 .. N /\ ~(p <= e[n - 1]) BY <1>7, <2>3, <2>5, <2>6
  <2>8. p \in e[n - 1] + 1 .. e[n] BY <1>1, <2>3, <2>7
  <2>9. <<p, p>> \in Unpacked(w, n) BY <1>10, <2>5, <2>8
  <2> QED BY <2>5, <2>9
<1> HIDE DEF U
<1>14. First(N) \subseteq First(e[l]) \cup U
  <2> SUFFICES ASSUME NEW p \in 1 .. N PROVE <<p, p>> \in First(e[l]) \cup U BY DEF First
  <2>1. CASE p <= e[l]
    <3>1. p \in 1 .. e[l] BY <1>1, <1>12, <2>1
    <3> QED BY <3>1 DEF First
  <2>2. CASE ~(p <= e[l]) BY <1>13, <2>2
  <2> QED BY <2>1, <2>2
<1>15. Reaches(w) = First(e[l]) \cup U BY <1>4, <1>6 DEF U
<1> QED BY <1>11, <1>12, <1>14, <1>15 DEF N

(* The invariant says what the driver's belief is worth.                   *)
LEMMA TransferWhole ==
  ASSUME TransferInvariant
  PROVE  WeightsWhole
<1> SUFFICES ASSUME refit # "none"
             PROVE  /\ \A w \in Gpu :
                         /\ \A pair \in rx[w].loaded : pair[1] = pair[2]
                         /\ rx[w].pc = "load" =>
                              \A k \in rx[w].k .. Len(rx[w].names) : View(w, k) = rx[w].names[k]
                    /\ refit = "updated" =>
                         \A w \in Gpu :
                           \/ Reaches(w) = {<<p, p>> : p \in Params}
                           \/ /\ xfer.path = "collective" /\ rx[w].pc = "failed" /\ w \notin Asked
                              /\ Len(tx[0].groups) - Len(rx[w].groups) <= NumBuffers
  BY Zenon DEF WeightsWhole
<1>1. UnderWay /\ GoodTransfer BY TransfersAreGood DEF TransferInvariant, UnderWay
<1>2. ASSUME NEW w \in Gpu
      PROVE  /\ \A pair \in rx[w].loaded : pair[1] = pair[2]
             /\ rx[w].pc = "load" =>
                  \A k \in rx[w].k .. Len(rx[w].names) : View(w, k) = rx[w].names[k]
  <2>1. \A pair \in rx[w].loaded : pair[1] = pair[2]
    <3>1. PICK n \in Nat : rx[w].loaded = First(n) BY <1>1, LoadsInOrder
    <3> QED BY <3>1, FirstGrows
  <2>2. ASSUME rx[w].pc = "load" PROVE \A k \in rx[w].k .. Len(rx[w].names) : View(w, k) = rx[w].names[k]
    <3>1. xfer.path = "ipc" BY <1>1, <2>2, LoadsInOrder
    <3>2. Ipc(xfer.sizes, tx[w], half[w], sock[w], rx[w]) BY <1>1, <3>1 DEF UnderWay, IpcWays
    <3> QED BY <1>1, <2>2, <3>2, IpcViews
  <2> QED BY <2>1, <2>2
<1>3. Count \in Nat /\ Params = 1 .. Count /\ Count = Len(xfer.sizes)
      /\ First(Count) = {<<p, p>> : p \in Params}
  <2>1. Count \in Nat /\ Params = 1 .. Count /\ Count = Len(xfer.sizes) BY <1>1 DEF GoodTransfer, Count, Params
  <2> QED BY <2>1 DEF First
<1>4. ASSUME NEW w \in Gpu, rx[w].loads = 0, rx[w].groups = <<>> PROVE Reaches(w) = rx[w].loaded
  <2>1. Queued(w) = {}
    <3>1. rx[w].loads + 1 .. Len(rx[w].groups) = {} BY <1>4
    <3> QED BY <3>1 DEF Queued
  <2> QED BY <2>1 DEF Reaches
<1>5. ASSUME refit = "updated", NEW w \in Gpu
      PROVE  \/ Reaches(w) = {<<p, p>> : p \in Params}
             \/ /\ xfer.path = "collective" /\ rx[w].pc = "failed" /\ w \notin Asked
                /\ Len(tx[0].groups) - Len(rx[w].groups) <= NumBuffers
  <2>1. /\ \A v \in Gpu : tx[v].pc = "done"
        /\ xfer.path # "http" => Believes /\ \A v \in Gpu : rx[v].pc \in {"done", "failed"}
    BY <1>1, <1>5 DEF UnderWay, Told
  <2>2. CASE xfer.path = "ipc"
    <3>1. Ipc(xfer.sizes, tx[w], half[w], sock[w], rx[w]) BY <1>1, <2>2 DEF UnderWay, IpcWays
    <3>2. PICK s \in 0 .. Len(xfer.sizes) : Exchange(xfer.sizes, s, tx[w], half[w], sock[w], rx[w]) BY <3>1 DEF Ipc
    <3>3. AllLoaded(xfer.sizes, s, tx[w], rx[w])
      BY <2>1, <3>2 DEF Exchange, Settled, Offered, Loading, LastOffered, Finishing, Lost, Streams, Closes
    <3>4. rx[w].loaded = First(Count) BY <1>3, <3>3 DEF AllLoaded
    <3>5. Reaches(w) = rx[w].loaded BY <1>4, <3>1 DEF Ipc
    <3> QED BY <1>3, <3>4, <3>5, Zenon
  <2>3. CASE xfer.path = "http"
    <3>1. PICK e, posts : Cuts(xfer, e) /\ posts \in [Gpu -> Nat] /\ HttpAll(e, posts)
      BY <1>1, <2>3 DEF UnderWay, HttpWays
    <3> DEFINE f == LeaderOf(xfer, w)
               p == posts[f]
    <3>2. f \in Gpu /\ f = LeaderOf(xfer, f) BY <1>1, LeadersLead DEF GoodTransfer
    <3>3. posts[w] = p BY <3>1 DEF HttpAll
    <3> HIDE DEF f
    <3>4. Http(xfer, e, p, f, tx[f], box[f], rx[f]) /\ p \in Nat BY <3>1, <3>2 DEF HttpAll
    <3>5. tx[f].pc = "done" BY <2>1, <3>2
    <3>6. Len(box[f]) = 0 /\ e[p + Len(box[f])] = Count BY <1>3, <3>2, <3>4, <3>5 DEF Http, Bucket
    <3> HIDE DEF p
    <3>7. e[p] = Count
      <4>1. p + Len(box[f]) = p BY <3>4, <3>6
      <4> QED BY <3>6, <4>1
    <3>8. Http(xfer, e, p, w, tx[w], box[w], rx[w]) BY <3>1, <3>3 DEF HttpAll
    <3>9. rx[w].loaded = First(Count) /\ rx[w].loads = 0 /\ rx[w].groups = <<>> BY <3>7, <3>8 DEF Http
    <3>10. Reaches(w) = rx[w].loaded BY <1>4, <3>9
    <3> QED BY <1>3, <3>9, <3>10
  <2>4. CASE xfer.path = "collective"
    <3>1. PICK e : Cuts(xfer, e) /\ BroadcastsAll(e) BY <1>1, <2>4 DEF UnderWay, BroadcastWays
    <3>2. 0 \in Gpu
      <4>1. Gpus \in Nat \ {0} BY TransferConstants
      <4> QED BY <4>1 DEF Gpu
    <3>3. CASE rx[w].pc = "done"
      <4>1. Reaches(w) = First(Count) BY <1>1, <2>1, <3>1, <3>2, <3>3, BroadcastsReach
      <4> QED BY <1>3, <4>1, Zenon
    <3>4. CASE rx[w].pc # "done"
      <4>1. rx[w].pc = "failed" BY <2>1, <2>4, <3>4
      <4>2. Broadcasts(xfer, e, done, tx[w], rx[w]) /\ Broadcasts(xfer, e, done, tx[0], rx[0])
        BY <3>1, <3>2 DEF BroadcastsAll
      <4>3. w \notin Asked
        <5>1. ~rx[w].good BY <3>4, <4>2 DEF Broadcasts
        <5>2. Believes BY <2>1, <2>4
        <5> QED BY <5>1, <5>2 DEF Believes
      <4>4. Len(tx[0].groups) - Len(rx[w].groups) <= NumBuffers
        <5> DEFINE a == Len(tx[0].groups)
                   b == Len(rx[w].groups)
        <5>1. /\ a \in Nat /\ b \in Nat /\ done \in Nat /\ done <= b /\ a - done <= NumBuffers
          BY <4>2 DEF Broadcasts, Chain
        <5>2. NumBuffers \in Nat BY TransferConstants
        <5> HIDE DEF a, b
        <5>3. a - b <= NumBuffers BY <5>1, <5>2
        <5> QED BY <5>3, Zenon DEF a, b
      <4> QED BY <2>4, <4>1, <4>3, <4>4, Zenon
    <3> QED BY <3>3, <3>4, Zenon
  <2> QED BY <1>1, <2>2, <2>3, <2>4, Zenon DEF GoodTransfer
<1> QED BY <1>2, <1>5, Zenon

-----------------------------------------------------------------------------
(* The transfer of weights.                                                *)

(* Whatever else moves between the driver and its workers.                 *)
LEMMA TransferInvariantHolds ==
  /\ DataInit => TransferInvariant
  /\ TransferInvariant /\ [DataNext]_dataVars => TransferInvariant'
<1>1. DataInit => TransferInvariant BY DEF DataInit, NoTransfer, TransferInvariant
<1>2. ASSUME UNCHANGED xferVars, TransferInvariant PROVE TransferInvariant'
  <2>1. /\ xfer' = xfer /\ refit' = refit /\ tx' = tx /\ half' = half /\ sock' = sock /\ rx' = rx /\ box' = box
        /\ done' = done
    BY <1>2 DEF xferVars
  <2>2. UnderWay => UnderWay'
    <3>1. Shaped => Shaped' BY <2>1 DEF Shaped
    <3>2. IpcWays => IpcWays' BY <2>1 DEF IpcWays
    <3>3. HttpWays => HttpWays' BY <2>1 DEF HttpWays, HttpAll
    <3>4. BroadcastWays => BroadcastWays' BY <2>1 DEF BroadcastWays, BroadcastsAll
    <3>5. Told => Told' BY <2>1 DEF Told, Believes, Asked, FirstOfEngine
    <3> QED BY <2>1, <3>1, <3>2, <3>3, <3>4, <3>5 DEF UnderWay
  <2> QED BY <1>2, <2>1, <2>2 DEF TransferInvariant
<1>3. ASSUME RefitGeneration, TransferInvariant PROVE TransferInvariant'
  <2>1. PICK x \in Transfers : Refit(x) BY <1>3 DEF RefitGeneration
  <2>2. refit = "none" /\ done = 0 BY <1>3, <2>1 DEF Refit, TransferInvariant
  <2> QED BY <2>1, <2>2, TransferStarts
<1>4. ASSUME [DataNext]_dataVars PROVE UNCHANGED xferVars \/ RefitGeneration \/ TransferStep
  BY <1>4 DEF DataNext, dataVars, RolloutBatch, DatasetBatch, ScoreBatch, GenerateBatch, SetUpJob, LearnFromBatch,
              AlignTexts, DistillBatch, Over
<1> QED BY <1>1, <1>2, <1>3, <1>4, TransferSteps

(* The weights on their way to the generation engines, over ZMQ, over HTTP *)
(* or by broadcasts, for every list of tensors, every size of buffer and   *)
(* every number of workers, whichever side is ahead and whoever fails      *)
(* (stream_weights_via_ipc_zmq_impl, stream_weights_via_http_impl,         *)
(* packed_broadcast_producer and packed_broadcast_consumer): no tensor is  *)
(* loaded under another's name or from bytes that have been overwritten,   *)
(* and an update that the driver believes has reached all workers but      *)
(* those whose failed broadcasts nobody hears of.                          *)
THEOREM WeightsArriveWhole == DataSpec => []WeightsWhole
<1>1. DataInit => TransferInvariant BY TransferInvariantHolds
<1>2. TransferInvariant /\ [DataNext]_dataVars => TransferInvariant' BY TransferInvariantHolds
<1>3. TransferInvariant => WeightsWhole BY TransferWhole
<1> QED BY <1>1, <1>2, <1>3, PTL DEF DataSpec

-----------------------------------------------------------------------------
(* The calls of the policy.                                                *)

(* The lengths of the conversations, with which a rollout's batch is       *)
(* called for.                                                             *)
LEMMA LengthsOfRollout ==
  ASSUME RolloutInv
  PROVE  [i \in 1 .. Cardinality(Samples) |-> Size(log[i - 1])] \in Seq(Nat)
<1> DEFINE n == Len(job.tasks) * job.gens
           l == [i \in 1 .. Cardinality(Samples) |-> Size(log[i - 1])]
<1>1. n \in Nat /\ Samples = 0 .. n - 1 BY SamplesAreNumbers DEF RolloutInv, Samples
<1> HIDE DEF n
<1>2. Cardinality(Samples) = n
  <2>1. 0 \in Int /\ n - 1 \in Int BY <1>1
  <2>2. Cardinality(0 .. n - 1) = IF 0 > n - 1 THEN 0 ELSE (n - 1) - 0 + 1 BY <2>1, FS_Interval
  <2>3. 0 > n - 1 => n = 0 BY <1>1
  <2>4. (n - 1) - 0 + 1 = n BY <1>1
  <2> QED BY <1>1, <2>2, <2>3, <2>4
<1>3. ASSUME NEW i \in 1 .. n PROVE Size(log[i - 1]) \in Nat
  <2>1. i - 1 \in Samples BY <1>1
  <2>2. Sample(i - 1, conv[i - 1], log[i - 1]) BY <2>1 DEF RolloutInv
  <2> QED BY <2>2, TokensNat DEF Size, Sample
<1>4. l = [i \in 1 .. n |-> Size(log[i - 1])] BY <1>2
<1>5. \A f : f \in [1 .. n -> Nat] => f \in Seq(Nat) BY <1>1
<1>6. [i \in 1 .. n |-> Size(log[i - 1])] \in [1 .. n -> Nat] BY <1>3
<1> QED BY <1>4, <1>5, <1>6, Zenon

(* The invariant holds on the whole data path.                             *)
LEMMA CallInvariantHolds ==
  /\ DataInit => PolicyInv
  /\ PolicyInv /\ RolloutInv /\ [DataNext]_dataVars => PolicyInv'
<1>1. ASSUME DataInit PROVE PolicyInv
  <2>1. PolicyIdle BY <1>1 DEF DataInit
  <2>2. PackInv /\ stage = "idle" BY <2>1, IdlePacks DEF PolicyIdle, PackIdle
  <2>3. phase = "idle" /\ packed = <<>> /\ micro = Nothing /\ perm = Nothing BY <2>1 DEF PolicyIdle
  <2> QED BY <2>2, <2>3 DEF PolicyInv, RefusedRightly, ResultsInPlace, Unsharded
<1>2. ASSUME PolicyInv, RolloutInv, RolloutBatch PROVE PolicyInv'
  <2> DEFINE l == [i \in 1 .. Cardinality(Samples) |-> Size(log[i - 1])]
  <2>1. PICK c \in RolloutCalls : Call(c, l) BY <1>2, Zenon DEF RolloutBatch
  <2>2. l \in Seq(Nat) BY <1>2, LengthsOfRollout
  <2> HIDE DEF l
  <2>3. /\ c.op \in DOMAIN Operations /\ c.batching \in {"plain", "dynamic", "packed"}
        /\ c.alg \in Algorithms /\ {c.gbs, c.mbs} \subseteq Nat \ {0}
        /\ c.axes \in [Range(Axes) -> Nat \ {0}]
    BY <2>1, CallConstants
  <2>4. c.gbs \in Nat \ {0} /\ c.mbs \in Nat \ {0} BY <2>3
  <2> QED BY <1>2, <2>1, <2>2, <2>3, <2>4, CallComes
<1>3. ASSUME PolicyInv, DatasetBatch PROVE PolicyInv'
  <2>1. PICK c \in FourRowCalls \cup {d[1] : d \in DatasetCalls}, l \in Seq(Nat) : Call(c, l)
    <3>1. ASSUME NEW d \in DatasetCalls, Call(d[1], d[2])
          PROVE  \E c \in FourRowCalls \cup {d0[1] : d0 \in DatasetCalls}, l \in Seq(Nat) : Call(c, l)
      <4>1. PICK c, l : c = d[1] /\ l = d[2] OBVIOUS
      <4>2. c \in {d0[1] : d0 \in DatasetCalls} /\ l \in Seq(Nat) BY <4>1, CallConstants
      <4> QED BY <3>1, <4>1, <4>2, Zenon
    <3>2. ASSUME NEW c \in FourRowCalls, NEW l \in [1 .. 4 -> RowLens], Call(c, l)
          PROVE  \E c0 \in FourRowCalls \cup {d0[1] : d0 \in DatasetCalls}, l0 \in Seq(Nat) : Call(c0, l0)
      <4>1. l \in [1 .. 4 -> Nat] BY CallConstants, Zenon
      <4>2. PICK n \in Nat : n = 4 OBVIOUS
      <4>3. l \in [1 .. n -> Nat] BY <4>1, <4>2
      <4>4. l \in Seq(Nat) BY <4>3
      <4> QED BY <3>2, <4>4
    <3> QED BY <1>3, <3>1, <3>2, Zenon DEF DatasetBatch
  <2>2. c \in RolloutCalls \cup FourRowCalls \cup {d[1] : d \in DatasetCalls} BY <2>1
  <2>3. /\ c.op \in DOMAIN Operations /\ c.batching \in {"plain", "dynamic", "packed"}
        /\ c.alg \in Algorithms /\ {c.gbs, c.mbs} \subseteq Nat \ {0}
        /\ c.axes \in [Range(Axes) -> Nat \ {0}]
    BY <2>2, CallConstants
  <2>4. c.gbs \in Nat \ {0} /\ c.mbs \in Nat \ {0} BY <2>3
  <2> QED BY <1>3, <2>1, <2>3, <2>4, CallComes
<1>4. ASSUME [DataNext]_dataVars
      PROVE  UNCHANGED callVars \/ RolloutBatch \/ DatasetBatch \/ PolicyStep
  BY <1>4 DEF DataNext, dataVars, ScoreBatch, GenerateBatch, RefitGeneration, SetUpJob, LearnFromBatch,
              AlignTexts, DistillBatch, Over
<1> QED BY <1>1, <1>2, <1>3, <1>4, CallStays, CallGoesOn

(* A call of the policy and value workers holds the invariant, on the rows *)
(* of a rollout or of a dataset.                                           *)
LEMMA CallsHold == DataSpec => []PolicyInv
<1>1. DataInit => PolicyInv BY CallInvariantHolds
<1>2. PolicyInv /\ RolloutInv /\ [DataNext]_dataVars => PolicyInv' BY CallInvariantHolds
<1> QED BY <1>1, <1>2, RolloutsOfData, RolloutInvariant, PTL DEF DataSpec

(* The bins that a batch is packed into on its way to the policy lose no   *)
(* row and hold none twice, none is over its capacity or empty, and the    *)
(* data-parallel ranks can share them evenly, chunk after chunk of a       *)
(* training batch (shard_by_batch_size with sequence packing).             *)
THEOREM PackedInData == DataSpec => []PackedWhole
<1>1. PolicyInv => PackedWhole BY DEF PolicyInv, PackInv, PackedWhole, Whole
<1> QED BY <1>1, CallsHold, PTL

(* Every call of the policy or value workers (lm_policy.py, value.py and   *)
(* the workers under them) and of the generation engines, for any number   *)
(* of workers, of rows and of tokens: however the rows were sorted,        *)
(* packed, dealt, cut into microbatches and joined again, the answers come *)
(* back row for row, an optimizer step has trained the rows of its global  *)
(* batch and no others, the workers go through the same collectives, no    *)
(* microbatch is over its budget, and a call fails for no other reason     *)
(* than a row that is too long or a worker set up for other batches.       *)
THEOREM RowsAlwaysAnswered == DataSpec => []RowsAnswered
<1>1. PolicyInv /\ EachAnswered => RowsAnswered BY CallsAnswered DEF RowsAnswered
<1> QED BY <1>1, CallsHold, PromptsAnswered, PTL

=============================================================================
