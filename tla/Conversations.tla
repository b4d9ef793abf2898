--------------------------- MODULE Conversations ---------------------------
(***************************************************************************)
(* What a rollout promises about each of its samples: a conversation in    *)
(* which the policy's replies and the environment's answers alternate,     *)
(* rewarded with the worth of the answers it heard, never taken up again   *)
(* once its environment has ended it, and closed only when no reply is     *)
(* left without its answer, unless the whole rollout is aborted.  Several  *)
(* samples may move in one step.                                           *)
(***************************************************************************)
EXTENDS Integers, Sequences

CONSTANTS Samples, Worth(_)

VARIABLES
  said,     \* [sample -> the roles of its messages, the prompt first]
  total,    \* [sample -> its reward so far]
  open,     \* the samples whose conversation goes on
  over,     \* the samples whose environment has said the last word
  aborted

promiseVars == <<said, total, open, over, aborted>>

Init ==
  /\ said = [s \in Samples |-> <<"user">>]
  /\ total = [s \in Samples |-> 0]
  /\ open \subseteq Samples /\ over = {} /\ aborted = FALSE

Unanswered(s) == said[s][Len(said[s])] = "assistant"
Quiet(s) ==
  said'[s] = said[s] /\ total'[s] = total[s] /\ (s \in over <=> s \in over')

Speaks(s) ==
  /\ ~Unanswered(s) /\ s \in (open \cap open') \ over'
  /\ said'[s] = Append(said[s], "assistant") /\ total'[s] = total[s]

Hears(s) ==     \* the answer may be the last, and may close the conversation
  /\ Unanswered(s) /\ s \in open
  /\ said'[s] = Append(said[s], "environment")
  /\ total'[s] = total[s] + Worth(s)

Closes(s) == s \in open \ open' /\ ~Unanswered(s) /\ Quiet(s)

Move ==
  /\ ~aborted /\ open' \subseteq open /\ over \subseteq over' /\ UNCHANGED aborted
  /\ said' \in [Samples -> Seq({"user", "assistant", "environment"})]
  /\ total' \in [Samples -> Nat]
  /\ \A s \in Samples :
       \/ Quiet(s) /\ (s \in open <=> s \in open')
       \/ Speaks(s) \/ Hears(s) \/ Closes(s)

Abort ==
  /\ open # {} /\ open' = {} /\ aborted' = TRUE
  /\ UNCHANGED <<said, total, over>>

Next == Move \/ Abort

Spec == Init /\ [][Next]_promiseVars
=============================================================================
