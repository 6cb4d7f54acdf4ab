------------------------------ MODULE RalphRun ------------------------------
(***************************************************************************)
(* The continuous agent (agents/ralph.py) over the todo file it shares     *)
(* with the subagents it delegates to and with the background agents that  *)
(* StartTask detaches, which go on whatever becomes of the run that        *)
(* started them (core/todo_store.py, tools/background_task.py), with its   *)
(* checkpoints (core/checkpoint.py), the classification of errors and the  *)
(* recovery (core/error_recovery.py) and the plan it starts from           *)
(* (core/planning.py).  A caller that passes the same session_id resumes   *)
(* the session after a crash.                                              *)
(*                                                                         *)
(* Left out: the messages themselves and the hints the recovery appends to *)
(* them, the delays, the progress experiences stored in memory.  A todo is *)
(* unfinished or completed: pending and in_progress are told apart nowhere.*)
(***************************************************************************)
EXTENDS Integers, Sequences, FiniteSets

CONSTANTS Items,          \* contents of todos
          Interval,       \* checkpoint_interval
          MaxRalphIterations,  \* max_iterations, MAX_RALPH_ITERATIONS unless given
          MaxRetry,       \* MAX_RETRY_ATTEMPTS
          Chain,          \* upgrade_chain of the model configuration
          Available,      \* the models with a key
          Model,          \* the model the agent is built with
          Starts,         \* bound: starts of the session
          Writes          \* bound: TodoWrite calls of all starts together

ASSUME RalphAssumption == /\ Interval \in Nat \ {0} /\ MaxRalphIterations \in Nat \ {0}
                          /\ MaxRetry \in Nat \ {0} /\ Model # "none"

VARIABLES rPc,       \* where run() is; "down" before it and after a crash
          todos,     \* .prax/todos.json
          last,      \* the list last handed to TodoStore.save
          ckpt,      \* latest.json: None or [iter, model]
          iter, errs, model, failed,  \* total_iterations, consecutive_errors, active_model, the error
          result,    \* stop_reason of the last run
          starts, writes,
          unsaved,   \* a checkpoint of this session could not be written
          judged,    \* the last list written when the run that is over looked at it
          overtaken  \* a list was written between the end of the loop and that look

ralphVars == <<rPc, todos, last, ckpt, iter, errs, model, failed, result, starts, writes, unsaved, judged, overtaken>>

None == [iter |-> 0, model |-> "none"]
EmptyList == [c \in {} |-> "completed"]
Lists == UNION {[S -> {"unfinished", "completed"}] : S \in SUBSET Items}

\* Mutations of Persisted.
BuggyPersisted(l) == l
\* TodoStore.save keeps nothing of a list that is completed throughout.
Persisted(l) == IF \A c \in DOMAIN l : l[c] = "completed" THEN EmptyList ELSE l

\* run() takes "done" and "cancelled" for finished, statuses the store refuses:
\* every todo that is in the file is pending to it, a completed one too.
Pending == {c \in DOMAIN todos : todos[c] \notin {"done", "cancelled"}}

RalphTypeOK ==
  /\ rPc \in {"down", "plan", "loop", "first", "check", "recover", "close", "over"}
  /\ todos \in Lists /\ last \in Lists
  /\ ckpt.iter \in 0 .. MaxRalphIterations /\ iter \in 0 .. MaxRalphIterations
  /\ errs \in 0 .. MaxRetry /\ starts \in 0 .. Starts /\ writes \in 0 .. Writes

\* What classify_error makes of an exception: its type and is_transient.
ErrorKinds == {<<"permission", FALSE>>, <<"timeout", TRUE>>, <<"model", TRUE>>, <<"resource", FALSE>>,
               <<"parse", TRUE>>, <<"tool", FALSE>>, <<"unknown", FALSE>>}

\* get_upgrade_path: the chain from the model on, or after a model it has not.
Path == LET listed == \E i \in DOMAIN Chain : Chain[i] = Model
            from == IF listed THEN CHOOSE i \in DOMAIN Chain : Chain[i] = Model ELSE 1
            candidates == (IF Chain = << >> \/ ~listed THEN <<Model>> ELSE << >>) \o SubSeq(Chain, from, Len(Chain))
        IN SelectSeq(candidates, LAMBDA m : m \in Available)

\* _find_upgrade_model: the one after the current; the first when it is not in the chain.
NextModel(m) ==
  IF \A i \in DOMAIN Path : Path[i] # m THEN IF Path = << >> THEN "none" ELSE Path[1]
  ELSE LET i == CHOOSE i \in DOMAIN Path : Path[i] = m IN IF i < Len(Path) THEN Path[i + 1] ELSE "none"

\* compute_recovery for the error, after n failures in a row.
Recovery(e, n, m) ==
  IF n >= MaxRetry THEN "abort"
  ELSE CASE e[1] \in {"permission", "unknown"} -> "skip_item"
         [] e[1] \in {"timeout", "resource"} -> "reduce_scope"
         [] e[1] = "parse" -> "retry_same"
         [] e[1] = "tool" -> "switch_tool"
         [] e[1] = "model" -> IF e[2] /\ n < 2 THEN "wait_and_retry"
                              ELSE IF NextModel(m) # "none" THEN "upgrade_model" ELSE "abort"
-----------------------------------------------------------------------------
RalphInit == /\ rPc = "down" /\ todos = EmptyList /\ last = EmptyList /\ ckpt = None /\ iter = 0
             /\ errs = 0 /\ model = Model /\ failed = <<"none", FALSE>> /\ result = "none"
             /\ starts = 0 /\ writes = 0 /\ unsaved = FALSE /\ judged = EmptyList /\ overtaken = FALSE

Written(l) == todos' = Persisted(l) /\ last' = l

\* CheckpointStore.load and clear.
Found == ckpt # None
Cleared == None

\* The model of the configuration is resolved; the checkpoint of the session,
\* when there is one, gives the iterations and the messages, not the model.
Resume == iter' = ckpt.iter /\ rPc' = IF Found THEN "check" ELSE "plan"
RalphStart == /\ rPc = "down" \/ (rPc = "over" /\ result = "partial")
              /\ starts < Starts /\ starts' = starts + 1
              /\ errs' = 0 /\ model' = Model /\ result' = "none" /\ unsaved' = FALSE
              /\ Resume /\ UNCHANGED <<todos, last, ckpt, failed, writes, judged, overtaken>>

\* LLMPlanner.decompose: the list of the model or the fixed one, never empty;
\* a planner that is off or cannot save is passed over.
Plan == /\ rPc = "plan" /\ rPc' = "first"
        /\ \/ \E l \in Lists \ {EmptyList} : Written(l)
           \/ UNCHANGED <<todos, last>>
        /\ UNCHANGED <<ckpt, iter, errs, model, failed, result, starts, writes, unsaved, judged, overtaken>>

\* TodoWrite: the agent, a subagent that Task started and every background agent
\* that StartTask detached hold the tool of the same directory, and each call
\* replaces the list.  The background agents run beside the loop, while the run is
\* ending, after a crash and before the next start.
TodoWrite(l) == /\ writes < Writes /\ writes' = writes + 1
                /\ l # EmptyList /\ Written(l)
                /\ overtaken' = (overtaken \/ rPc = "close")
                /\ UNCHANGED <<rPc, ckpt, iter, errs, model, failed, result, starts, unsaved, judged>>

LoopEnds == /\ rPc \in {"first", "loop"} /\ rPc' = "check" /\ iter' = iter + 1 /\ errs' = 0
            /\ UNCHANGED <<todos, last, ckpt, model, failed, result, starts, writes, unsaved, judged, overtaken>>
\* The first run is not retried and leaves no checkpoint.
FirstFails == /\ rPc = "first" /\ rPc' = "over" /\ result' = "error"
              /\ UNCHANGED <<todos, last, ckpt, iter, errs, model, failed, starts, writes, unsaved, judged, overtaken>>
LoopFails(e) == /\ rPc = "loop" /\ rPc' = "recover" /\ errs' = errs + 1 /\ failed' = e
                /\ UNCHANGED <<todos, last, ckpt, iter, model, result, starts, writes, unsaved, judged, overtaken>>

\* CheckpointStore.save, over a temporary file; a failure is only logged.
Save == \/ ckpt' = [iter |-> iter, model |-> model] /\ UNCHANGED unsaved
        \/ unsaved' = TRUE /\ UNCHANGED ckpt

\* A mutation of Due.
BuggyDue == iter > 1 /\ iter % Interval = 1
Due == iter > 0 /\ iter % Interval = 0
Check == /\ rPc = "check"
         /\ IF iter < MaxRalphIterations /\ Pending # {}
            THEN rPc' = "loop" /\ IF Due THEN Save ELSE UNCHANGED <<ckpt, unsaved>>
            ELSE rPc' = "close" /\ UNCHANGED <<ckpt, unsaved>>
         /\ overtaken' = FALSE
         /\ UNCHANGED <<todos, last, iter, errs, model, failed, result, starts, writes, judged>>

\* The error is checkpointed before it is recovered from; of the actions only
\* an abort and an upgrade to a model that cannot be resolved end the run.
Recover == /\ rPc = "recover" /\ Save
           /\ LET r == Recovery(failed, errs, model) IN
                \/ r = "abort" /\ rPc' = "close" /\ UNCHANGED model
                \/ r = "upgrade_model" /\ model' = NextModel(model) /\ rPc' \in {"check", "close"}
                \/ r \notin {"abort", "upgrade_model"} /\ rPc' = "check" /\ UNCHANGED model
           /\ overtaken' = FALSE
           /\ UNCHANGED <<todos, last, iter, errs, failed, result, starts, writes, judged>>

\* The list is read again after the client is closed, and only that look counts.
Close == /\ rPc = "close" /\ rPc' = "over" /\ judged' = last
         /\ result' = IF Pending = {} THEN "todos_complete" ELSE "partial"
         /\ ckpt' = IF Pending = {} THEN Cleared ELSE ckpt
         /\ UNCHANGED <<todos, last, iter, errs, model, failed, starts, writes, unsaved, overtaken>>

RalphCrash == /\ rPc \notin {"down", "over"} /\ starts < Starts /\ rPc' = "down"
              /\ UNCHANGED <<todos, last, ckpt, iter, errs, model, failed, result, starts, writes, unsaved, judged, overtaken>>

\* What the process does by itself; TodoWrite is the model's choice.
RalphStep == \/ RalphStart \/ Plan \/ LoopEnds \/ FirstFails \/ Check \/ Recover \/ Close
             \/ \E e \in ErrorKinds : LoopFails(e)
RalphNext == RalphStep \/ RalphCrash \/ \E l \in Lists : TodoWrite(l)
RalphSpec == RalphInit /\ [][RalphNext]_ralphVars
-----------------------------------------------------------------------------
(* Properties *)

\* A crash loses at most checkpoint_interval iterations of the session: what
\* was done since the last checkpoint is no more than that, as long as the
\* checkpoints could be written.
LossIsBounded == rPc # "over" /\ ~unsaved /\ starts > 0 => iter - ckpt.iter <= Interval

\* The agent loops again only for a todo that somebody left unfinished.  The
\* statuses run() compares with are none of the store's: what keeps a finished
\* list from being worked on to the last iteration is that the store drops it.
LoopsHaveWork == [][rPc = "check" /\ rPc' = "loop" => \E c \in DOMAIN last : last[c] = "unfinished"]_ralphVars

\* todos_complete is only said, and the checkpoint only removed, when the last
\* list anybody wrote by then had nothing unfinished, whoever wrote it and however
\* late.  Work that is left without a checkpoint is at most an interval of it:
\* max_iterations stopped the run, or a background agent wrote a list after the
\* loop had found none and before the second look.
CompletionIsTrue ==
  /\ result = "todos_complete" /\ rPc = "over" => \A c \in DOMAIN judged : judged[c] = "completed"
  /\ ckpt = None /\ rPc = "over" /\ result = "partial" /\ ~unsaved
       => iter <= Interval /\ (iter = MaxRalphIterations \/ overtaken)

\* What a run leaves behind is what happened in it, for whoever resumes it.
RunIsAccounted == LossIsBounded /\ CompletionIsTrue

\* Every run ends: errors in a row are bounded, and so are the iterations.
RalphEnds == []<>(rPc = "over")
=============================================================================
