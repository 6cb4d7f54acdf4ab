---------------------------- MODULE ModelStream ----------------------------
(***************************************************************************)
(* One answer of a model on its way into the agent loop.  The provider     *)
(* sends it as a stream of events (core/llm_client.py: the Anthropic and   *)
(* the OpenAI stream), as one JSON document, or it is the output of the    *)
(* claude or codex command line (core/claude_cli_executor.py,              *)
(* core/codex_cli_executor.py).  The stream may fail, report an error or   *)
(* end too early.  An answer with tool calls is appended to the history,   *)
(* which the next request carries in the provider's format.                *)
(***************************************************************************)
EXTENDS SequencesExt, Integers, FiniteSets

CONSTANTS
  Formats,  \* {"anthropic", "openai", "json", "claude", "codex"}
  CallIds,  \* tool calls the model may make, in order
  Parts     \* pieces in which a stream sends the input of a call

\* A provider gives no two calls of an answer one name.
ASSUME ModelStreamAssumption ==
  /\ Parts \in Nat \ {0} /\ CallIds \in Seq(ToSet(CallIds))
  /\ \A i, j \in DOMAIN CallIds : CallIds[i] = CallIds[j] => i = j

VARIABLES
  sent,  \* the model's answer: format, whether it has text, its calls, whether deltas carry an index
  at,    \* what of it has arrived: the text, calls, pieces of the last call, the stop reason; how it ended
  acc,   \* the client: text, its calls in the order met, the stop reason, an error it noted
  out    \* what the client hands on: "none", an error, or a response

streamVars == <<sent, at, acc, out>>
Streams == Formats \ {"json"}
Clis == {"claude", "codex"}

NoAnswer == [kind |-> "none", text |-> FALSE, calls |-> <<>>, stop |-> FALSE]
StreamTypeOK ==
  /\ sent.fmt \in Formats /\ at.calls \in 0..Len(sent.calls) /\ at.pieces \in 0..Parts
  /\ at.end \in {"open", "whole", "cut", "error", "failed"}
  /\ out.kind \in {"none", "error", "response"}

StreamInit ==
  /\ sent \in {[fmt |-> f, text |-> t, calls |-> SubSeq(CallIds, 1, n), indexed |-> x] :
                 f \in Formats, t \in BOOLEAN, n \in 0..Len(CallIds), x \in BOOLEAN}
  /\ at = [text |-> FALSE, calls |-> 0, pieces |-> Parts, stop |-> FALSE, end |-> "open", err |-> FALSE]
  /\ acc = [text |-> FALSE, calls |-> <<>>, stop |-> FALSE, error |-> FALSE] /\ out = NoAnswer

----------------------------------------------------------------------------
Index(i) == IF sent.fmt = "openai" /\ ~sent.indexed THEN 0 ELSE i

\* partial_tools, tool_calls_acc: an entry per index; the later of two ids and
\* every piece go into the entry.
Entry(calls, i) == {e \in DOMAIN calls : calls[e].i = i}
Opened(calls, i) ==
  IF Entry(calls, Index(i)) = {} THEN Append(calls, [i |-> Index(i), id |-> sent.calls[i], got |-> <<>>])
  ELSE [e \in DOMAIN calls |-> IF e \in Entry(calls, Index(i)) THEN [calls[e] EXCEPT !.id = sent.calls[i]] ELSE calls[e]]
BuggyAdded(calls, i) ==
  [e \in DOMAIN calls |-> IF e \in Entry(calls, Index(i)) THEN [calls[e] EXCEPT !.got = <<sent.calls[i]>>] ELSE calls[e]]
Added(calls, i) ==
  [e \in DOMAIN calls |-> IF e \in Entry(calls, Index(i)) THEN [calls[e] EXCEPT !.got = Append(@, sent.calls[i])] ELSE calls[e]]
Whole(i) == [i |-> i, id |-> sent.calls[i], got |-> [k \in 1..Parts |-> sent.calls[i]]]

\* The provider's side: the next event.  The text comes first; an API opens each
\* call, sends its input piece by piece and names the stop reason last; a command
\* line sends whole items.
Arriving == sent.fmt \in Streams /\ at.end = "open" /\ ~at.stop /\ UNCHANGED <<sent, out>>
BetweenCalls == at.text = sent.text /\ at.pieces = Parts
TextArrives ==
  /\ Arriving /\ at.text # sent.text
  /\ at' = [at EXCEPT !.text = TRUE] /\ acc' = [acc EXCEPT !.text = TRUE]
CallOpens ==
  /\ Arriving /\ sent.fmt \notin Clis /\ BetweenCalls /\ at.calls < Len(sent.calls)
  /\ at' = [at EXCEPT !.calls = @ + 1, !.pieces = 0] /\ acc' = [acc EXCEPT !.calls = Opened(@, at.calls + 1)]
PieceArrives ==
  /\ Arriving /\ at.pieces < Parts
  /\ at' = [at EXCEPT !.pieces = @ + 1] /\ acc' = [acc EXCEPT !.calls = Added(@, at.calls)]
ItemArrives ==
  /\ Arriving /\ sent.fmt \in Clis /\ BetweenCalls /\ at.calls < Len(sent.calls)
  /\ at' = [at EXCEPT !.calls = @ + 1] /\ acc' = [acc EXCEPT !.calls = Append(@, Whole(at.calls + 1))]
StopArrives ==
  /\ Arriving /\ BetweenCalls /\ at.calls = Len(sent.calls)
  /\ at' = [at EXCEPT !.stop = TRUE] /\ acc' = [acc EXCEPT !.stop = TRUE]

\* An event of type "error": the two API clients have no branch for it and go
\* on; claude's keeps it until the process ends, codex's raises.
ErrorEvent ==
  /\ Arriving
  /\ at' = [at EXCEPT !.end = "error", !.err = TRUE] /\ acc' = [acc EXCEPT !.error = sent.fmt \in Clis]
\* The body ends: after the last event, or before it (the process, with code 0).
StreamEnds ==
  /\ sent.fmt \in Streams /\ at.end = "open"
  /\ at' = [at EXCEPT !.end = IF at.stop THEN "whole" ELSE "cut"]
  /\ UNCHANGED <<sent, acc, out>>
\* A status that is not 200, a body that is no event stream, a connection that
\* breaks, a timeout, an exit code other than 0.
StreamFails ==
  /\ at.end = "open" /\ at' = [at EXCEPT !.end = "failed"]
  /\ out' = [NoAnswer EXCEPT !.kind = "error"] /\ UNCHANGED <<sent, acc>>
\* complete(): the whole document or nothing.
Document ==
  /\ sent.fmt = "json" /\ at.end = "open"
  /\ at' = [at EXCEPT !.end = "whole", !.text = sent.text, !.calls = Len(sent.calls), !.stop = TRUE]
  /\ acc' = [text |-> sent.text, stop |-> TRUE, error |-> FALSE, calls |-> [i \in DOMAIN sent.calls |-> Whole(i)]]
  /\ UNCHANGED <<sent, out>>

\* The input of a call: JSON when every piece of it and nothing else arrived,
\* {} when none did, and otherwise the text itself under the key "raw".
Input(c) == IF c.got = <<>> THEN "empty"
            ELSE IF c.got = [k \in 1..Parts |-> c.id] THEN "whole" ELSE "raw"
Assembled == [i \in DOMAIN acc.calls |-> [id |-> acc.calls[i].id, input |-> Input(acc.calls[i])]]
CliRaises == acc.error
Assemble ==
  /\ at.end \in {"whole", "cut", "error"} /\ out = NoAnswer
  /\ out' = IF CliRaises THEN [NoAnswer EXCEPT !.kind = "error"]
            ELSE [kind |-> "response", text |-> acc.text, calls |-> Assembled, stop |-> acc.stop]
  /\ UNCHANGED <<sent, at, acc>>

Event == TextArrives \/ CallOpens \/ PieceArrives \/ ItemArrives \/ StopArrives
StreamNext == Event \/ ErrorEvent \/ StreamEnds \/ StreamFails \/ Document \/ Assemble
StreamSpec == StreamInit /\ [][StreamNext]_streamVars

----------------------------------------------------------------------------
(* The next request: the answer and the results of its calls, as the       *)
(* provider reads them.                                                    *)

\* _claude_to_openai_messages(), _claude_to_responses_input(): text and calls
\* are one chat message, or an item each; each result is a message of its own.
\* Anthropic is sent the blocks as they are.
TextItem == IF out.text THEN <<[k |-> "text", id |-> "none"]>> ELSE <<>>
CallItems == [i \in DOMAIN out.calls |-> [k |-> "call", id |-> out.calls[i].id]]
ResultItems == [i \in DOMAIN out.calls |-> [k |-> "result", id |-> out.calls[i].id]]
NextRequest(chat) == IF out.calls = <<>> THEN <<>>
                     ELSE (IF chat THEN <<>> ELSE TextItem) \o CallItems \o ResultItems

----------------------------------------------------------------------------
Asked == ToSet(sent.calls)
Answered == out.kind = "response"

\* A request answers every call it repeats, once and in order, and no result
\* stands before a call.
AnswersCalls(r) ==
  \E n \in 0..Len(r) : \A j \in DOMAIN r :
    /\ r[j].k = "call" => j + n \in DOMAIN r /\ r[j + n] = [r[j] EXCEPT !.k = "result"]
    /\ r[j].k = "result" => j - n \in DOMAIN r /\ r[j - n].k = "call" /\ \A i \in j..Len(r) : r[i].k # "call"

\* A stream that came to its end is the model's answer: the same calls in the
\* same order with their whole inputs, and the text, in every format that gives
\* a call its index (calls without one are folded into one); and however a
\* stream ended, the next request answers every call of it in every format.
AnswerIsWhole ==
  Answered =>
    /\ at.end = "whole" /\ Cardinality({Index(i) : i \in DOMAIN sent.calls}) = Len(sent.calls) =>
         /\ out.text = sent.text /\ out.stop
         /\ out.calls = [i \in DOMAIN sent.calls |-> [id |-> sent.calls[i], input |-> "whole"]]
    /\ \A chat \in BOOLEAN : AnswersCalls(NextRequest(chat))

\* Whatever a stream that broke off leaves behind, a call whose input is not
\* the model's is never in a response with a stop reason, which nobody looks
\* at; and the command lines never turn an error into an answer.
PartIsUnmarked ==
  Answered => /\ (at.end # "whole" => ~out.stop)
              /\ (sent.fmt \in Clis => ~at.err)
              /\ \A i \in DOMAIN out.calls : out.calls[i].id \in Asked

\* An answer is the model's when the stream is whole, and marked when it is not.
AnswerIsSound == AnswerIsWhole /\ PartIsUnmarked
=============================================================================
