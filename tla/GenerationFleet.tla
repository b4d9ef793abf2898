--------------------------- MODULE GenerationFleet ---------------------------
(***************************************************************************)
(* A batch of prompts is answered by the generation engines.  vLLM cuts    *)
(* the batch into a shard for each replica, or takes the prompts one by    *)
(* one in turn; SGLang sends a request for each prompt to a router, a      *)
(* bounded number at a time, each tried several times; Megatron gives them *)
(* all to the first worker.  Engines finish requests in any order and may  *)
(* fail.  The text of a reply is not modelled, its length and how it ended *)
(* are.                                                                    *)
(***************************************************************************)
EXTENDS Integers, Sequences, FiniteSets

CONSTANTS
  Fleets,         \* [kind, engines, slots, relay, prompts]
  NewTokens,      \* max_new_tokens
  ContextLen,     \* max_model_len, context_length
  HttpTries,      \* max_retries of a request
  MaxGenFaults    \* failures of a behaviour

(* A prompt fits the context (data processors cut one that does not).      *)
FleetKinds == {"vllm", "vllm_async", "sglang", "sglang_async", "megatron", "megatron_async"}
ASSUME FleetConstants ==
  /\ {NewTokens, ContextLen, MaxGenFaults} \subseteq Nat
  /\ \A f \in Fleets :
       /\ f.kind \in FleetKinds /\ f.relay \in BOOLEAN
       /\ f.engines \in Nat \ {0} /\ f.slots \in Nat
       /\ f.prompts \in Seq(0 .. ContextLen)

VARIABLES
  gen,        \* "none", "open", "answered", "raised"
  fleet,      \* the engines and the lengths of the prompts
  turn,       \* current_generate_dp_shard_idx
  ask,        \* prompt -> [at, tries, engine, local]
  reply,      \* prompt -> [row, new, cut, stops], or none
  result,     \* what the caller gets, position by position
  genFaults

fleetVars == <<gen, fleet, turn, ask, reply, result, genFaults>>

NoReply == [row |-> 0, new |-> 0, cut |-> FALSE, stops |-> {}]
Prompts == DOMAIN fleet.prompts
Engines == 0 .. fleet.engines - 1
Alone(kind) == kind \in {"vllm_async", "sglang_async", "megatron_async"}
Least(a, b) == IF a <= b THEN a ELSE b

NoGeneration ==
  /\ gen = "none" /\ fleet = [kind |-> "vllm", engines |-> 1, slots |-> 1, relay |-> FALSE, prompts |-> <<>>]
  /\ turn = 0 /\ ask = <<>> /\ reply = <<>> /\ result = <<>> /\ genFaults = 0

Waiting == [at |-> "waiting", tries |-> 0, engine |-> 0, local |-> TRUE]
GenerateWith(f) ==
  /\ gen = "none"
  /\ gen' = "open" /\ fleet' = f
  /\ ask' = [i \in DOMAIN f.prompts |-> [Waiting EXCEPT !.local = ~f.relay]]
  /\ reply' = [i \in DOMAIN f.prompts |-> NoReply]
  /\ UNCHANGED <<turn, result, genFaults>>

Those(where) == {i \in Prompts : ask[i].at = where}
Move(i, where) == ask' = [ask EXCEPT ![i].at = where]

(* How many tokens a reply may have.  vLLM and Megatron keep to the        *)
(* context by themselves, SGLang is told to leave one token of it free.    *)
Room(i) ==
  LET left == ContextLen - fleet.prompts[i]
  IN  Least(NewTokens, IF fleet.kind \in {"sglang", "sglang_async"} THEN left - 1 ELSE left)

-----------------------------------------------------------------------------
(* VllmGeneration.generate: shards of equal size but for the last, which   *)
(* may be smaller or empty, one to the first worker of each replica.       *)

ShardSize == (Len(fleet.prompts) + fleet.engines - 1) \div fleet.engines
ShardStart(e) == Least(e * ShardSize, Len(fleet.prompts))
ShardOf(e) == ShardStart(e) + 1 .. ShardStart(e + 1)

VllmShards ==
  /\ gen = "open" /\ fleet.kind = "vllm" /\ Those("waiting") # {}
  /\ ask' = [i \in Prompts |->
       IF \E e \in Engines : i \in ShardOf(e)
         THEN [ask[i] EXCEPT !.at = "sent", !.engine = CHOOSE e \in Engines : i \in ShardOf(e)]
         ELSE [ask[i] EXCEPT !.at = "unsent"]]
  /\ UNCHANGED <<gen, fleet, turn, reply, result, genFaults>>

(* VllmGeneration.generate_async: a call for each prompt, the replicas in  *)
(* turn.                                                                   *)
NextTurn == (turn + 1) % fleet.engines
VllmAsk(i) ==
  /\ gen = "open" /\ fleet.kind = "vllm_async" /\ i \in Those("waiting")
  /\ turn' = NextTurn
  /\ IF Room(i) > 0
       THEN /\ ask' = [ask EXCEPT ![i].at = "sent", ![i].engine = turn]
            /\ UNCHANGED reply
       ELSE /\ ask' = [ask EXCEPT ![i].at = "back", ![i].engine = turn]
            /\ reply' = [reply EXCEPT ![i] = [NoReply EXCEPT !.row = i]]
  /\ UNCHANGED <<gen, fleet, result, genFaults>>

(* SGLangGeneration: a prompt without room is not sent; a semaphore lets   *)
(* so many requests in as the engines take at once.                        *)
SGLang == fleet.kind \in {"sglang", "sglang_async"}
SGLangSkip(i) ==
  /\ gen = "open" /\ SGLang /\ i \in Those("waiting") /\ Room(i) <= 0
  /\ Move(i, "back") /\ reply' = [reply EXCEPT ![i] = [NoReply EXCEPT !.row = i]]
  /\ UNCHANGED <<gen, fleet, turn, result, genFaults>>

Slots == fleet.slots * fleet.engines
Held == {i \in Prompts : ask[i].at \in {"sent", "lost"}}
SGLangSend(i) ==
  /\ gen \in {"open", "raised"} /\ SGLang /\ i \in Those("waiting") /\ Room(i) > 0
  /\ fleet.kind = "sglang" => Cardinality(Held) < Slots
  /\ Move(i, "sent")
  /\ UNCHANGED <<gen, fleet, turn, reply, result, genFaults>>

(* MegatronGeneration: worker 0 submits the prompts it is given.           *)
MegatronSubmit ==
  /\ gen = "open" /\ fleet.kind \in {"megatron", "megatron_async"} /\ Those("waiting") # {}
  /\ ask' = [i \in Prompts |-> [ask[i] EXCEPT !.at = "sent"]]
  /\ UNCHANGED <<gen, fleet, turn, reply, result, genFaults>>

-----------------------------------------------------------------------------
(* The engines.  A reply ends by itself or at the last token there is room *)
(* for, at a stop string of the request: vLLM's request for a shard has    *)
(* the stop strings of all its prompts.  Megatron's replies do not say     *)
(* whether they were cut.                                                  *)
StopsFor(i) ==
  IF fleet.kind = "vllm" THEN ShardOf(ask[i].engine) ELSE {i}
Ending(i, n, cut) ==
  [row |-> i, new |-> n, stops |-> StopsFor(i),
   cut |-> cut /\ fleet.kind \notin {"megatron", "megatron_async"}]

EngineReplies(i) ==
  /\ i \in Those("sent") /\ Room(i) > 0
  /\ \E n \in {1, Room(i)}, cut \in BOOLEAN :
       /\ cut => n = Room(i)
       /\ reply' = [reply EXCEPT ![i] = Ending(i, n, cut)]
  /\ Move(i, "back")
  /\ UNCHANGED <<gen, fleet, turn, result, genFaults>>

GenFault == genFaults < MaxGenFaults /\ genFaults' = genFaults + 1

(* A worker's call raises: a prompt that fills the context, or the engine. *)
CallRaises(i) ==
  /\ gen = "open" /\ i \in Those("sent") /\ fleet.kind \in {"vllm", "megatron"}
  /\ \/ Room(i) <= 0 /\ UNCHANGED genFaults
     \/ GenFault
  /\ gen' = "raised"
  /\ UNCHANGED <<fleet, turn, ask, reply, result>>

(* A prompt of its own: the engine raises, gives nothing, or the result    *)
(* does not arrive before the timeout.                                     *)
PromptRaises(i) ==
  /\ i \in Those("sent") /\ fleet.kind \in {"vllm_async", "megatron_async"}
  /\ \/ Room(i) <= 0 /\ UNCHANGED genFaults
     \/ GenFault
  /\ Move(i, "failed")
  /\ UNCHANGED <<gen, fleet, turn, reply, result>>

(* _post_local and do_post: a request that fails is sent again, keeping    *)
(* its slot, until it has been tried so often; if it went through an actor *)
(* on another node it then, or when the actor dies, starts over from this  *)
(* one.  When it is given up the batch raises, while the other requests go *)
(* on.                                                                     *)
HttpFails(i) ==
  /\ SGLang /\ i \in Those("sent") /\ GenFault
  /\ LET a == [ask[i] EXCEPT !.tries = @ + 1]
     IN  \/ /\ a.tries < HttpTries
            /\ ask' = [ask EXCEPT ![i] = [a EXCEPT !.at = "lost"]] /\ UNCHANGED gen
         \/ /\ ~a.local
            /\ ask' = [ask EXCEPT ![i] = [a EXCEPT !.at = "lost", !.tries = 0, !.local = TRUE]]
            /\ UNCHANGED gen
         \/ /\ a.tries = HttpTries /\ a.local
            /\ ask' = [ask EXCEPT ![i] = [a EXCEPT !.at = "failed"]]
            /\ gen' = IF fleet.kind = "sglang" THEN "raised" ELSE gen
  /\ UNCHANGED <<fleet, turn, reply, result>>
HttpRetry(i) ==
  /\ SGLang /\ i \in Those("lost") /\ Move(i, "sent")
  /\ UNCHANGED <<gen, fleet, turn, reply, result, genFaults>>

-----------------------------------------------------------------------------
(* What the caller gets: the shards one after another, or the replies by   *)
(* the index that came back with each.                                     *)
InShards ==
  LET rows[e \in 0 .. fleet.engines] ==
        IF e = 0 THEN <<>>
        ELSE rows[e - 1] \o [k \in 1 .. Cardinality(ShardOf(e - 1)) |-> reply[ShardStart(e - 1) + k]]
  IN  rows[fleet.engines]
ByIndex == [i \in Prompts |-> reply[i]]
Finished(i) == ask[i].at \in {"back", "failed"}

Collected ==
  /\ gen = "open" /\ \A i \in Prompts : Finished(i) \/ ask[i].at = "unsent"
  /\ result' = IF fleet.kind = "vllm" THEN InShards ELSE ByIndex
  /\ gen' = "answered"
  /\ UNCHANGED <<fleet, turn, ask, reply, genFaults>>

GenerationStep ==
  \/ VllmShards \/ MegatronSubmit \/ Collected
  \/ \E i \in Prompts :
       \/ VllmAsk(i) \/ SGLangSkip(i) \/ SGLangSend(i) \/ EngineReplies(i)
       \/ CallRaises(i) \/ PromptRaises(i) \/ HttpFails(i) \/ HttpRetry(i)

-----------------------------------------------------------------------------
(* In whatever order the engines finish and however often a request is     *)
(* sent: a batch is answered with one reply for each prompt at the place   *)
(* of the prompt, within the context, ended by stop strings of its own     *)
(* (except in a shard of vLLM), marked as cut only at the last token there *)
(* was room for; a prompt is left without a reply only if its own call     *)
(* failed; no more requests are out than the engines take at once; the     *)
(* replicas that take prompts in turn have as many, up to one.             *)
AnsweredFor(i) ==
  LET r == result[i]
  IN  \/ /\ r.row = i /\ fleet.prompts[i] + r.new <= ContextLen /\ r.new <= NewTokens
         /\ r.cut => r.new = Room(i)
         /\ r.stops \subseteq {i} \/ fleet.kind = "vllm"
      \/ r = NoReply /\ Alone(fleet.kind) /\ ask[i].at = "failed"
Taken(e) == {i \in Prompts : ask[i].at # "waiting" /\ ask[i].engine = e}

EachAnswered ==
  /\ gen = "answered" => Len(result) = Len(fleet.prompts) /\ \A i \in Prompts : AnsweredFor(i)
  /\ gen = "raised" => genFaults > 0 \/ \E i \in Prompts : Room(i) <= 0
  /\ fleet.kind = "sglang" => Cardinality(Held) <= Slots
  /\ fleet.kind = "vllm_async" =>
       \A d, e \in Engines : Cardinality(Taken(d)) <= Cardinality(Taken(e)) + 1
=============================================================================
