------------------------------ MODULE Rollouts ------------------------------
(***************************************************************************)
(* The multi-turn rollout loops.  "batch" is run_multi_turn_rollout: all   *)
(* samples of a batch take their turns together.  "sample" is              *)
(* run_async_multi_turn_rollout, one coroutine per sample, and "group" is  *)
(* AsyncRolloutImpl, one coroutine per generation of a prompt: there every *)
(* sample goes its own way.  In a turn the engine replies to a             *)
(* conversation, its environment answers, and the answer decides how it    *)
(* goes on.                                                                *)
(*                                                                         *)
(* A message is its role, its number of tokens and the sample it was made  *)
(* for; an answer carries the sample and the turn it is about, so that a   *)
(* row in the wrong place shows.  What replies and answers say is left to  *)
(* the engine and the environments.  The engine's max_model_len is the     *)
(* max_seq_len of the loops.                                               *)
(***************************************************************************)
EXTENDS Integers, Sequences, FiniteSets, SequencesExt

CONSTANTS
  Jobs,          \* rollouts to run: [loop, tasks, gens], one task per prompt,
                 \* gens generations of each prompt
  PromptLens, MaxSeqLen, MaxNewTokens, MaxTurns,
  Answers,       \* [obs, term, next] an environment may give: tokens of the
                 \* observation, terminated, whether next stop strings and
                 \* metadata come with it
  MaxSamples,    \* the largest of these rollouts
  MaxFaults,     \* bound: calls to engine and environments that fail
  None

Loops == {"batch", "sample", "group"}

ASSUME RolloutConstants ==
  /\ {MaxSeqLen, MaxNewTokens, MaxTurns} \subseteq Nat \ {0}
  /\ MaxFaults \in Nat /\ PromptLens \subseteq 1 .. MaxSeqLen
  /\ Answers \subseteq [obs : Nat, term : BOOLEAN, next : BOOLEAN]
  /\ MaxSamples \in Nat
  /\ \A j \in Jobs : /\ j.loop \in Loops /\ j.gens \in Nat \ {0}
                     /\ j.tasks \in Seq(Range(j.tasks))
                     /\ Len(j.tasks) * j.gens <= MaxSamples

VARIABLES
  job, status,   \* "running", "done" or "raised"
  log,           \* the message_log of each sample
  conv,          \* per sample: where its turn is ("top", "env", "out"), the
                 \* input and reply lengths of the turn, turn count, reward,
                 \* stop strings, extra_env_info, flags and token counters
  ret,           \* batch: what each environment has returned this turn
  faults

rolloutVars == <<job, status, log, conv, ret, faults>>

Samples == 0 .. Len(job.tasks) * job.gens - 1
TaskOf(s) == job.tasks[s \div job.gens + 1]
Tasks == Range(job.tasks)
LoopIs(l) == job.loop = l
Lesser(a, b) == IF a < b THEN a ELSE b
Greater(a, b) == IF a < b THEN b ELSE a

Message(role, len, by) == [role |-> role, len |-> len, by |-> by]
Tokens(l, roles) ==
  LET upTo[k \in 0 .. Len(l)] ==
        IF k = 0 THEN 0
        ELSE upTo[k - 1] + (IF l[k].role \in roles THEN l[k].len ELSE 0)
  IN  upTo[Len(l)]
Size(l) == Tokens(l, {"user", "assistant", "environment"})
CountOf(l, role) == Cardinality({k \in DOMAIN l : l[k].role = role})
Replied(l) == CountOf(l, "assistant")

(* The numbers of S below n, in their order.                               *)
Ascending(S, n) ==
  LET upTo[k \in 0 .. n] ==
        IF k = 0 THEN <<>>
        ELSE IF k - 1 \in S THEN Append(upTo[k - 1], k - 1) ELSE upTo[k - 1]
  IN  upTo[n]

(* log after the next message of each of these samples: repeat_interleave *)
(* and the coroutines copy a prompt's log deeply, so it is only their own. *)
Write(rows, message) ==
  [s \in Samples |-> IF s \in rows THEN Append(log[s], message[s]) ELSE log[s]]

-----------------------------------------------------------------------------
Fresh ==
  [pc |-> "top", input |-> 0, gen |-> 0, turns |-> 0, reward |-> 0,
   stop |-> None, info |-> None, terminated |-> FALSE, truncated |-> FALSE,
   maxTurns |-> FALSE, tok |-> [all |-> 0, gen |-> 0, env |-> 0]]

(* A prompt leaves room for a token; only the coroutines cope with one     *)
(* that does not.                                                          *)
RolloutInit ==
  /\ job \in Jobs /\ status = "running" /\ faults = 0
  /\ \E len \in [1 .. Len(job.tasks) -> PromptLens] :
       /\ LoopIs("batch") => \A p \in DOMAIN len : len[p] < MaxSeqLen
       /\ log = [s \in Samples |->
                   <<Message("user", len[s \div job.gens + 1], None)>>]
  /\ conv = [s \in Samples |-> Fresh]
  /\ ret = [t \in Tasks |-> <<>>]

(* The engine: at least one token, at most max_new_tokens or what is left  *)
(* of the context; a reply that stops there may be cut (finish_reason      *)
(* "length").  With no room left the asynchronous engine replies nothing.  *)
Replies(s) ==
  LET top == Lesser(MaxNewTokens, MaxSeqLen - Size(log[s]))
  IN  IF top <= 0 THEN {[len |-> 0, cut |-> FALSE]}
      ELSE {[len |-> n, cut |-> FALSE] : n \in 1 .. top}
             \cup {[len |-> top, cut |-> TRUE]}

(* The state of s after the reply r: truncation marked, tokens counted.    *)
Spoken(s, r) ==
  [conv[s] EXCEPT !.pc = "env", !.input = Size(log[s]), !.gen = r.len,
     !.truncated = @ \/ r.cut,
     !.tok = [all |-> @.all + r.len, gen |-> @.gen + r.len, env |-> @.env]]

Worth(s) == s + 1        \* the reward of an answer about sample s

(* What the environment returns for the log and the metadata of a sample:  *)
(* an answer about the last reply of that conversation.                    *)
AnswerTo(l, a) ==
  [obs |-> a.obs, term |-> a.term, next |-> a.next,
   by |-> l[Len(l)].by, turn |-> Replied(l)]

Overflows(s, a) == conv[s].input + conv[s].gen + a.obs >= MaxSeqLen
Observation(s, a) ==     \* truncated to what is left of the context
  IF Overflows(s, a)
    THEN Greater(0, MaxSeqLen - (conv[s].input + conv[s].gen)) ELSE a.obs
Heard(s, a) ==
  Message("environment", Observation(s, a), a.by)
Rewarded(s, a) ==
  LET n == Observation(s, a)
  IN  [conv[s] EXCEPT !.reward = @ + Worth(a.by),
         !.tok = [all |-> @.all + n, gen |-> @.gen, env |-> @.env + n]]

-----------------------------------------------------------------------------
(* run_multi_turn_rollout: one turn of all active samples at a time.       *)

Active ==
  Ascending({s \in Samples : conv[s].pc # "out"}, Len(job.tasks) * job.gens)
AllAt(pc) == \A i \in DOMAIN Active : conv[Active[i]].pc = pc
TurnsLeft == \A i \in DOMAIN Active : conv[Active[i]].turns < MaxTurns

BatchSpeaks ==
  /\ LoopIs("batch") /\ status = "running"
  /\ Active # <<>> /\ AllAt("top") /\ TurnsLeft
  /\ \E r \in [Range(Active) -> UNION {Replies(s) : s \in Range(Active)}] :
       /\ \A s \in Range(Active) : r[s] \in Replies(s)
       /\ log' = Write(Range(Active), [s \in DOMAIN r |-> Message("assistant", r[s].len, s)])
       /\ conv' = [s \in Samples |->
                     IF conv[s].pc = "out" THEN conv[s] ELSE Spoken(s, r[s])]
  /\ UNCHANGED <<job, status, ret, faults>>

(* calculate_rewards: rows by task, in the order the tasks appear.         *)
Rows == DOMAIN Active
RowTask(i) == TaskOf(Active[i])
Group(t) == Ascending({i \in Rows : RowTask(i) = t}, Len(Active) + 1)
FirstOfTask ==
  Ascending({i \in Rows : \A j \in 1 .. i - 1 : RowTask(j) # RowTask(i)}, Len(Active) + 1)

EnvAnswers(t) ==
  /\ LoopIs("batch") /\ status = "running" /\ Active # <<>> /\ AllAt("env")
  /\ Group(t) # <<>> /\ ret[t] = <<>>
  /\ \E a \in [DOMAIN Group(t) -> Answers] :
       ret' = [ret EXCEPT ![t] =
                 [k \in DOMAIN Group(t) |-> AnswerTo(log[Active[Group(t)[k]]], a[k])]]
  /\ UNCHANGED <<job, status, log, conv, faults>>

(* The results of all environments, each with its row, and back in the     *)
(* order of the rows.                                                      *)
Returned(t) == [k \in DOMAIN Group(t) |-> [row |-> Group(t)[k], answer |-> ret[t][k]]]
TaskResults ==
  LET first == FirstOfTask
      upTo[k \in 0 .. Len(first)] ==
        IF k = 0 THEN <<>> ELSE upTo[k - 1] \o Returned(RowTask(first[k]))
  IN  upTo[Len(first)]
RowAnswersUnsorted == LET all == TaskResults IN [i \in Rows |-> all[i].answer]
RowAnswers ==
  LET all == TaskResults
  IN  [i \in Rows |-> all[CHOOSE k \in DOMAIN all : all[k].row = i].answer]

(* A sample is done when its context is full or its environment has ended  *)
(* it; the others take the next stop strings, and metadata if there is any.*)
(* A reply that was cut only marks its sample.                             *)
BatchTurnPlaysOn(s, a) ==
  [Rewarded(s, a) EXCEPT !.turns = @ + 1, !.terminated = @ \/ a.term,
     !.truncated = @ \/ Overflows(s, a),
     !.pc = IF Overflows(s, a) THEN "out" ELSE "top"]
BatchTurn(s, a) ==
  LET done == Overflows(s, a) \/ a.term
      c == [Rewarded(s, a) EXCEPT !.turns = @ + 1,
              !.truncated = @ \/ Overflows(s, a), !.terminated = @ \/ done]
  IN  IF done THEN [c EXCEPT !.pc = "out"]
      ELSE [c EXCEPT !.pc = "top",
              !.stop = IF a.next THEN <<a.by, a.turn>> ELSE None,
              !.info = IF a.next THEN <<a.by, a.turn>> ELSE @]

BatchHears ==
  /\ LoopIs("batch") /\ status = "running" /\ Active # <<>> /\ AllAt("env")
  /\ \A t \in Tasks : Group(t) # <<>> => ret[t] # <<>>
  /\ \E rows \in {RowAnswers} :
       LET answer == [s \in Range(Active) |-> rows[CHOOSE i \in DOMAIN rows : Active[i] = s]]
       IN  /\ log' = Write(Range(Active), [s \in DOMAIN answer |-> Heard(s, answer[s])])
           /\ conv' = [s \in Samples |->
                         IF conv[s].pc = "out" THEN conv[s] ELSE BatchTurn(s, answer[s])]
  /\ ret' = [t \in Tasks |-> <<>>]
  /\ UNCHANGED <<job, status, faults>>

BatchEnds ==
  /\ LoopIs("batch") /\ status = "running"
  /\ AllAt("top") /\ (Active # <<>> => ~TurnsLeft)
  /\ conv' = [s \in Samples |->
                IF conv[s].pc = "out" THEN conv[s]
                ELSE [conv[s] EXCEPT !.pc = "out", !.maxTurns = TRUE]]
  /\ status' = "done"
  /\ UNCHANGED <<job, log, ret, faults>>

-----------------------------------------------------------------------------
(* run_sample_multi_turn_rollout and _run_single_rollout: a coroutine.     *)

Ends(s) == conv[s].terminated \/ conv[s].truncated
Running(s, pc) == ~LoopIs("batch") /\ status = "running" /\ conv[s].pc = pc

SampleSpeaks(s) ==
  /\ Running(s, "top") /\ ~Ends(s) /\ conv[s].turns < MaxTurns
  /\ \E r \in Replies(s) :
       /\ log' = Write({s}, [x \in {s} |-> Message("assistant", r.len, x)])
       /\ conv' = [conv EXCEPT ![s] = [Spoken(s, r) EXCEPT !.turns = @ + 1]]
  /\ UNCHANGED <<job, status, ret, faults>>

(* Generation fails: the coroutine keeps what it has and leaves its loop.  *)
(* The per-sample loop looks at the turn count all the same.               *)
SampleFails(s) ==
  /\ Running(s, "top") /\ ~Ends(s) /\ conv[s].turns < MaxTurns
  /\ faults < MaxFaults /\ faults' = faults + 1
  /\ conv' = [conv EXCEPT ![s].pc = "out", ![s].turns = @ + 1,
                ![s].maxTurns = LoopIs("sample") /\ conv[s].turns + 1 >= MaxTurns]
  /\ UNCHANGED <<job, status, log, ret>>

SampleTurn(s, a) ==
  LET cut == conv[s].truncated \/ Overflows(s, a)
      c == [Rewarded(s, a) EXCEPT !.pc = "top", !.truncated = cut,
              !.terminated = a.term]
  IN  IF a.term \/ cut \/ ~a.next THEN c
      ELSE [c EXCEPT !.stop = <<a.by, a.turn>>, !.info = <<a.by, a.turn>>]

SampleHears(s) ==
  /\ Running(s, "env")
  /\ \E b \in Answers :
       LET a == AnswerTo(log[s], b)
       IN  /\ log' = Write({s}, [x \in {s} |-> Heard(x, a)])
           /\ conv' = [conv EXCEPT ![s] = SampleTurn(s, a)]
  /\ UNCHANGED <<job, status, ret, faults>>

SampleEnds(s) ==
  /\ Running(s, "top") /\ (Ends(s) \/ conv[s].turns = MaxTurns)
  /\ conv' = [conv EXCEPT ![s].pc = "out",
                          ![s].maxTurns = conv[s].turns >= MaxTurns]
  /\ UNCHANGED <<job, status, log, ret, faults>>

Gathered ==
  /\ ~LoopIs("batch") /\ status = "running"
  /\ \A s \in Samples : conv[s].pc = "out"
  /\ status' = "done"
  /\ UNCHANGED <<job, log, conv, ret, faults>>

-----------------------------------------------------------------------------
(* An environment call raises, or the one generation call of a batch: no   *)
(* loop catches it, the rollout is lost.                                   *)
Raises ==
  /\ status = "running" /\ faults < MaxFaults
  /\ \/ \E s \in Samples : conv[s].pc = "env"
     \/ LoopIs("batch") /\ Active # <<>> /\ TurnsLeft
  /\ status' = "raised" /\ faults' = faults + 1
  /\ UNCHANGED <<job, log, conv, ret>>

Step ==
  \/ BatchSpeaks \/ (\E t \in Tasks : EnvAnswers(t)) \/ BatchHears \/ BatchEnds
  \/ \E s \in Samples :
       SampleSpeaks(s) \/ SampleFails(s) \/ SampleHears(s) \/ SampleEnds(s)
  \/ Gathered \/ Raises

(* A job that trains on rows of a dataset holds no rollout.                *)
NoRollout ==
  /\ job = [loop |-> "batch", tasks |-> <<>>, gens |-> 1] /\ status = "done"
  /\ log = <<>> /\ conv = <<>> /\ ret = <<>> /\ faults = 0

RolloutSpec == (RolloutInit \/ NoRollout) /\ [][Step]_rolloutVars

-----------------------------------------------------------------------------
(* Every message, reward, stop string and metadatum of a sample is about   *)
(* its own conversation, whatever was grouped by task, answered together   *)
(* and put back in order, and however few samples are still active.        *)
OwnAnswers ==
  \A s \in Samples :
    LET heard == CountOf(log[s], "environment")
    IN  /\ \A k \in 2 .. Len(log[s]) : log[s][k].by = s
        /\ conv[s].reward = Worth(s) * heard
        /\ {conv[s].stop, conv[s].info} \subseteq {None} \cup ({s} \X (1 .. heard))

(* A conversation never outgrows the context, the token counters are those *)
(* of its log, and the batch loop, whose engine refuses a full context,    *)
(* only asks on for samples with room for a token.                         *)
FitsContext ==
  \A s \in Samples :
    LET l == log[s]
        tok == conv[s].tok
    IN  /\ Size(l) <= MaxSeqLen
        /\ tok.gen = Tokens(l, {"assistant"}) /\ tok.env = Tokens(l, {"environment"})
        /\ tok.all = tok.gen + tok.env
        /\ LoopIs("batch") /\ conv[s].pc = "top" => Size(l) < MaxSeqLen

(* A sample hears only what is about it, and within its context: the two   *)
(* parts above, in every state of every loop.                              *)
ConversationsSound == OwnAnswers /\ FitsContext

(* Every loop, in whatever order its samples and environments go, holds    *)
(* one conversation per sample as promised: replies and answers alternate, *)
(* no conversation is closed on a reply without its reward, and none goes  *)
(* on after its environment has ended it.                                  *)
Abstract ==
  INSTANCE Conversations
    WITH Samples <- 0 .. MaxSamples - 1,
         said <- [s \in 0 .. MaxSamples - 1 |->
                    IF s \in Samples
                      THEN [k \in DOMAIN log[s] |-> log[s][k].role] ELSE <<"user">>],
         total <- [s \in 0 .. MaxSamples - 1 |->
                     IF s \in Samples THEN conv[s].reward ELSE 0],
         open <- IF status = "raised" THEN {} ELSE {s \in Samples : conv[s].pc # "out"},
         over <- {s \in Samples : conv[s].terminated},
         aborted <- status = "raised"
PromiseOfRollouts == Abstract!Spec
=============================================================================
