---------------------------- MODULE Conversation ----------------------------
(***************************************************************************)
(* The saved history of one session (core/session_store.py) and the        *)
(* commands that open it: a turn of `prax' or of the REPL (main.py,        *)
(* core/agent_loop.py), /compact and /clear (commands/handlers.py).  Every *)
(* command loads the file, works on what it loaded and replaces the file:  *)
(* nothing locks it, and two terminals may have one session open.          *)
(*                                                                         *)
(* A turn appends its task, and for each model call the notes of the       *)
(* middlewares, the tool calls and their results; the final answer is      *)
(* returned and not appended.  When the history is too long the oldest     *)
(* messages are replaced by a summary that another model call writes       *)
(* (core/summarization.py).  A turn is a series of attempts, one for each  *)
(* model of the upgrade path, each on a copy of the loaded history.        *)
(***************************************************************************)
EXTENDS Integers, Sequences, FiniteSets

CONSTANTS
  Earlier,     \* what earlier turns may have left in the session
  Terms,       \* terminals with this session
  MaxMessages, \* above it the history is summarised (60)
  KeepRecent,  \* messages a summary keeps (10)
  TrimAbove,   \* above it /compact cuts (100)
  TrimTo,      \* what it keeps (20)
  Models,      \* length of the upgrade path
  Iterations,  \* model calls of an attempt (GovernanceConfig.max_iterations)
  Failures,    \* failed calls in a row that open the circuit breaker (3)
  Notes,       \* notes the middlewares add before one model call, at most
  Given     \* bound on the commands given

VARIABLES
  history,  \* the messages of the session file
  term,     \* term[p]: the command of terminal p and its local state
  given     \* commands given so far, which also names their tasks

convVars == <<history, term, given>>
\* A message: its kind, the tasks it tells of, and the attempt and model call
\* a tool call or result belongs to.
Msg(k, tasks, att, i) == [k |-> k, of |-> tasks, att |-> att, i |-> i]
Messages == [k : {"task", "note", "call", "result", "summary"}, of : SUBSET Nat, att : Nat, i : Nat]

\* The provider names the call a result answers.
AnswersCall(c, r) == c.k = "call" /\ r.k = "result" /\ c.att = r.att /\ c.i = r.i /\ c.of = r.of
\* A call is answered by what follows it, and a result without its call stands
\* right behind a summary, where the cut fell between the two.
Orderly(h) == \A j \in DOMAIN h :
  /\ h[j].k = "call" => j < Len(h) /\ AnswersCall(h[j], h[j + 1])
  /\ h[j].k = "result" => j > 1 /\ (AnswersCall(h[j - 1], h[j]) \/ h[j - 1].k = "summary")

\* Earlier turns left what turns leave, in the bound, and tell of the task 0.
ASSUME ConversationAssumption ==
  /\ {MaxMessages, KeepRecent, TrimAbove, TrimTo, Models, Iterations, Failures} \subseteq Nat \ {0}
  /\ Notes \in Nat /\ Given \in Nat
  /\ \A h \in Earlier : /\ h \in Seq(Messages) /\ Len(h) <= MaxMessages + 2 /\ Orderly(h)
                        /\ \A j \in DOMAIN h : h[j].of \subseteq {0}
  /\ KeepRecent < MaxMessages /\ TrimTo <= TrimAbove /\ TrimAbove > MaxMessages + 2

Known(h) == UNION {h[j].of : j \in {j \in DOMAIN h : h[j].k \in {"task", "summary"}}}
NoCommand == [pc |-> "idle", task |-> 0, base |-> <<>>, hist |-> <<>>, seen |-> {}, dropped |-> {},
         att |-> 0, i |-> 0, fails |-> 0, errors |-> FALSE]

ConvTypeOK ==
  /\ given \in 0..Given
  /\ \A p \in Terms : /\ term[p].pc \in {"idle", "turn", "asked", "tools", "saving"}
                      /\ term[p].att \in 0..Models /\ term[p].fails \in 0..Failures
  /\ \A j \in DOMAIN history : history[j].k \in {"task", "note", "call", "result", "summary"}

ConvInit == history \in Earlier /\ term = [p \in Terms |-> NoCommand] /\ given = 0

----------------------------------------------------------------------------
\* _bootstrap_session(): the saved messages.
BuggySavedMessages == IF Len(history) > KeepRecent THEN <<>> ELSE history
SavedMessages == history
\* run_agent_loop() on a deep copy of the loaded messages.
BuggyFresh(t) == Append(t.hist, Msg("task", {t.task}, 0, 0))
Fresh(t) == Append(t.base, Msg("task", {t.task}, 0, 0))
NewAttempt(t) == [t EXCEPT !.pc = "turn", !.hist = Fresh(t), !.dropped = {}, !.att = @ + 1, !.i = 0,
                        !.fails = 0, !.errors = FALSE]

StartTurn(p) ==
  /\ term[p].pc = "idle" /\ given < Given /\ given' = given + 1
  /\ LET t == [NoCommand EXCEPT !.task = given + 1, !.base = SavedMessages, !.hist = SavedMessages, !.seen = Known(history)]
     IN term' = [term EXCEPT ![p] = NewAttempt(t)]
  /\ UNCHANGED history

\* SummarizationMiddleware, after the notes of the other middlewares: too many
\* messages, or too many characters (`heavy'), and the older messages become a
\* summary.  A summary that could not be written replaces them all the same.
TooLong(h, heavy) == Len(h) > MaxMessages \/ heavy
Recent(h) == SubSeq(h, IF Len(h) > KeepRecent THEN Len(h) - KeepRecent + 1 ELSE 1, Len(h))
Summarised(h, works) == <<Msg("summary", IF works THEN Known(h) ELSE {}, 0, 0)>> \o Recent(h)
Noted(h, n) == h \o [j \in 1..n |-> Msg("note", {}, 0, 0)]
BeforeModel(p, n, heavy, works) ==
  LET noted == Noted(term[p].hist, n)
      h == IF TooLong(noted, heavy) THEN Summarised(noted, works) ELSE noted
  IN /\ term[p].pc = "turn" /\ term[p].i < Iterations
     /\ ~TooLong(noted, heavy) => works
     /\ term' = [term EXCEPT ![p].pc = "asked", ![p].hist = h,
                             ![p].dropped = @ \cup (Known(noted) \ Known(h))]
     /\ UNCHANGED <<history, given>>

\* Both wire formats refuse a request with a call that has no result, or the
\* other way round.
Paired(h) == \A j \in DOMAIN h :
  /\ h[j].k = "result" => j > 1 /\ AnswersCall(h[j - 1], h[j])
  /\ h[j].k = "call" => j < Len(h) /\ AnswersCall(h[j], h[j + 1])

\* The model asks for tools ...
AsksTools(p) ==
  /\ term[p].pc = "asked" /\ Paired(term[p].hist)
  /\ term' = [term EXCEPT ![p].pc = "tools", ![p].fails = 0,
       ![p].hist = Append(@, Msg("call", {term[p].task}, term[p].att, term[p].i))]
  /\ UNCHANGED <<history, given>>
\* ... whose results end the round ...
Results(p, bad) ==
  /\ term[p].pc = "tools"
  /\ term' = [term EXCEPT ![p].pc = "turn", ![p].i = @ + 1, ![p].errors = @ \/ bad,
       ![p].hist = Append(@, Msg("result", {term[p].task}, term[p].att, term[p].i))]
  /\ UNCHANGED <<history, given>>
\* ... or answers: the turn ends, or should_upgrade_model() finds the answer
\* wanting (`retry': it is empty, or a safety stop or tool errors and no
\* verification passed) and the next model has its attempt, if there is one.
Upgrades(p) == term[p].att < Models
NextModel(p) == term' = [term EXCEPT ![p] = NewAttempt(@)] /\ UNCHANGED <<history, given>>
Completes(p) == /\ term' = [term EXCEPT ![p].pc = "saving"]
                /\ UNCHANGED <<history, given>>
Answer(p, retry) ==
  /\ term[p].pc = "asked" /\ Paired(term[p].hist)
  /\ IF retry /\ Upgrades(p) THEN NextModel(p) ELSE Completes(p)
\* A failed call is tried again within the loop; the breaker's text is a
\* result like any other, so an outage is not a reason to change the model, but
\* tool errors before it are, unless a verification has passed.
Fails(p, verified) ==
  /\ term[p].pc = "asked"
  /\ IF term[p].fails + 1 = Failures
       THEN IF term[p].errors /\ ~verified /\ Upgrades(p) THEN NextModel(p) ELSE Completes(p)
       ELSE /\ term' = [term EXCEPT ![p].pc = "turn", ![p].fails = @ + 1, ![p].i = @ + 1]
            /\ UNCHANGED <<history, given>>
\* Out of model calls: the next model, unless a verification has passed.
OutOfIterations(p, verified) ==
  /\ term[p].pc = "turn" /\ term[p].i = Iterations
  /\ IF ~verified /\ Upgrades(p) THEN NextModel(p) ELSE Completes(p)
\* An exception of a tool, a middleware or a hook: one that looks like the
\* provider's goes to the next model, another ends the turn, and the messages
\* that were loaded are saved.
AfterError(t) == t.base
Raises(p, provider) ==
  /\ term[p].pc \in {"turn", "asked", "tools"}
  /\ IF provider /\ Upgrades(p) THEN NextModel(p)
     ELSE /\ term' = [term EXCEPT ![p].pc = "saving", ![p].hist = AfterError(term[p]), ![p].dropped = {}]
          /\ UNCHANGED <<history, given>>

\* _handle_compact(), _handle_clear(): the same load and save.
Trimmed(h) == IF Len(h) > TrimAbove THEN SubSeq(h, Len(h) - TrimTo + 1, Len(h)) ELSE h
Edit(p, h) ==
  /\ term[p].pc = "idle" /\ given < Given /\ given' = given + 1
  /\ history # <<>> /\ h \in {Trimmed(history), <<>>}
  /\ term' = [term EXCEPT ![p] = [NoCommand EXCEPT !.pc = "saving", !.hist = h, !.base = history,
                !.seen = Known(history), !.dropped = Known(history) \ Known(h)]]
  /\ UNCHANGED history

\* FileSessionStore.save(): an atomic replacement.
Save(p) ==
  /\ term[p].pc = "saving" /\ history' = term[p].hist
  /\ term' = [term EXCEPT ![p] = NoCommand] /\ UNCHANGED given
\* The process is killed.
Killed(p) == term[p].pc # "idle" /\ term' = [term EXCEPT ![p] = NoCommand] /\ UNCHANGED <<history, given>>

ConvNext == \E p \in Terms :
  \/ StartTurn(p) \/ AsksTools(p) \/ Save(p) \/ Killed(p)
  \/ (\E n \in 0..Notes, heavy, works \in BOOLEAN : BeforeModel(p, n, heavy, works))
  \/ (\E b \in BOOLEAN : Results(p, b) \/ Answer(p, b) \/ Fails(p, b) \/ Raises(p, b) \/ OutOfIterations(p, b))
  \/ Edit(p, <<>>) \/ Edit(p, Trimmed(history))

ConvSpec == ConvInit /\ [][ConvNext]_convVars

----------------------------------------------------------------------------
Requests == {term[p].hist : p \in {p \in Terms : term[p].pc = "asked"}}

\* What is sent, and what is saved, never holds a tool call without its results,
\* and a result without its call stands right behind a summary, where the cut
\* fell between the two (the provider will refuse that request).  A turn that
\* dies between a call and its results leaves no trace of the call.
OrphansOnlyAfterSummary == \A h \in Requests \cup {history} : Orderly(h)

\* An attempt sees nothing of the attempts before it: the task once, and the
\* tool calls of no other model.
CleanAttempt == \A p \in Terms : term[p].pc = "asked" =>
  LET h == term[p].hist
  IN /\ Cardinality({j \in DOMAIN h : h[j].k = "task" /\ term[p].task \in h[j].of}) <= 1
     /\ \A j \in DOMAIN h : h[j].k \in {"call", "result"} /\ term[p].task \in h[j].of
                              => h[j].att = term[p].att

\* A save forgets a task only for a reason: the command cleared or cut it, a
\* summary of it failed, or the task was saved after the command had loaded.
HistoryLossIsExplained ==
  [][\A p \in Terms : (term[p].pc = "saving" /\ term'[p].pc = "idle") =>
       \A t \in Known(history) \ Known(history') : t \in term[p].dropped \/ t \notin term[p].seen]_convVars

\* However many turns a session has, its file stays within one round of the
\* bound, so that /compact never has anything to cut.
HistoryIsBounded == Len(history) <= MaxMessages + 2

\* The three together: what a session sends and keeps is a conversation.
HistoryIsSound == OrphansOnlyAfterSummary /\ CleanAttempt /\ HistoryIsBounded
=============================================================================
