------------------------------ MODULE AgentLoop ------------------------------
(***************************************************************************)
(* One task of the native runtime: core/agent_loop.py with the guards of   *)
(* main.py's middleware chain (core/middleware.py), over ToolExecutor, in  *)
(* the upgrade loop of main.py and core/model_upgrade.py, which runs the   *)
(* task again with the next model.                                         *)
(*                                                                         *)
(* The chain is sorted by priority: ChangeTracker sees a tool result       *)
(* first; after the model has answered come LoopDetection, QualityGate and *)
(* Evaluator, in this order.  Left out: middlewares that only append       *)
(* messages, DesignRestorationGuard (its code_gen is always 0 when it      *)
(* looks), and the token budget, which main.py never sets.                 *)
(***************************************************************************)
EXTENDS ToolExecutor

CONSTANTS
  Batches,         \* the sequences of tool calls the model may ask for; two calls
                   \* with one name have the same input
  Configs,         \* what .prax/quality-gates.yaml and evaluator.yaml switch on
  Models,          \* length of the upgrade path
  MaxIterations,   \* governance.max_iterations
  HardLimit,       \* LoopDetectionMiddleware
  MaxFailures,     \* MAX_CONSECUTIVE_FAILURES
  MaxGateRetries,  \* QualityGateMiddleware
  MaxEvalRetries   \* EvaluatorMiddleware

Config == [require : BOOLEAN, checks : BOOLEAN, criteria : BOOLEAN]

ASSUME AgentAssumption ==
  /\ Batches \subseteq Seq(Tools) \ {<<>>}
  /\ Configs \subseteq Config
  /\ {Models, MaxIterations, HardLimit, MaxFailures} \subseteq Nat \ {0}
  /\ {MaxGateRetries, MaxEvalRetries} \subseteq Nat

VARIABLES
  config,     \* read when the middlewares are built
  pc,         \* "head", "model", "tools", "over" (an attempt ended) or "done"
  attempt,    \* which model of the path is at work
  iteration, failures,
  counts,     \* tool_loop_counts: how often each batch was asked for
  tracker,    \* metadata["change_tracker"] of this iteration's RuntimeState
  retries,    \* rejections by the quality gate and by the evaluator
  errors,     \* had_tool_errors
  passed,     \* verification_passed
  report,     \* what the completion callback received last
  \* History, for the properties only:
  executed,   \* batches run since the model last gave a final answer
  checked,    \* the completion checks found nothing wrong with these sources
  verified,   \* the sources did not change since a verification passed
  lastVerify  \* outcome of the verification that ran last in this attempt

guards == <<counts, tracker, retries>>
history == <<executed, checked, verified, lastVerify>>
vars == <<config, pc, attempt, iteration, failures, guards, errors, passed, report,
          history, executorVars>>

ReadOnly == {"Read"}
Signature(c) == SelectSeq(c, LAMBDA t : t \notin ReadOnly)
Signatures == {Signature(b) : b \in Batches} \ {<<>>}
NoCounts == [s \in Signatures |-> 0]

FreshTracker == [code |-> 0, verified |-> 0]
NoReport == [stop |-> "none", errors |-> FALSE, verified |-> FALSE, empty |-> FALSE]

Init ==
  /\ config \in Configs /\ pc = "head" /\ attempt = 1
  /\ iteration = 0 /\ failures = 0 /\ counts = NoCounts
  /\ tracker = FreshTracker /\ retries = [gate |-> 0, eval |-> 0]
  /\ errors = FALSE /\ passed = FALSE /\ report = NoReport
  /\ executed = NoCounts /\ checked = FALSE /\ verified = TRUE /\ lastVerify = "none"
  /\ NoCalls

-----------------------------------------------------------------------------
(* The head of the loop, and the model call.                                *)

\* on_complete hears of the MessageStopEvent only, which carries no
\* only_permission_errors.
Stop(stop, empty) ==
  /\ pc' = "over"
  /\ report' = [stop |-> stop, errors |-> errors, verified |-> passed, empty |-> empty]

\* Every iteration gets a new RuntimeState: shared counts, empty metadata.
Iterate ==
  /\ pc = "head"
  /\ IF iteration >= MaxIterations
       THEN Stop("max_iterations", FALSE) /\ UNCHANGED tracker
       ELSE pc' = "model" /\ tracker' = FreshTracker /\ UNCHANGED report
  /\ UNCHANGED <<config, attempt, iteration, failures, counts, retries, errors, passed,
                 history, executorVars>>

ModelFails ==
  /\ pc = "model"
  /\ failures' = failures + 1
  /\ IF failures + 1 >= MaxFailures
       THEN Stop("circuit_breaker", FALSE) /\ UNCHANGED iteration
       ELSE iteration' = iteration + 1 /\ pc' = "head" /\ UNCHANGED report
  /\ UNCHANGED <<config, attempt, guards, errors, passed, history, executorVars>>

-----------------------------------------------------------------------------
(* after_model: each guard may turn the answer into another one.            *)

Final(stop, empty) == [calls |-> <<>>, stop |-> stop, empty |-> empty]
Asks(c) == [calls |-> c, stop |-> "tool_use", empty |-> FALSE]
IsFinal(a) == a.calls = <<>>

Answers == {Asks(b) : b \in Batches} \cup {Final("end_turn", e) : e \in BOOLEAN}

Counted(a) ==
  IF IsFinal(a) THEN NoCounts
  ELSE IF Signature(a.calls) = <<>> THEN counts
  ELSE [counts EXCEPT ![Signature(a.calls)] = @ + 1]

LoopDetection(a) ==
  IF ~IsFinal(a) /\ Signature(a.calls) # <<>> /\ Counted(a)[Signature(a.calls)] >= HardLimit
    THEN Final("safety_stop", FALSE)
    ELSE a

\* The require-verify gate of QualityGate.
Unverified == config.require /\ tracker.code > tracker.verified
Rejects(a) == IsFinal(a) /\ Unverified /\ retries.gate < MaxGateRetries

QualityGate(a, clean) ==
  IF Rejects(a) \/ (IsFinal(a) /\ config.checks /\ ~clean)
    THEN Asks(<<"__completion_check__">>) ELSE a

GateRetries(a) ==
  CASE Rejects(a)                                     -> retries.gate + 1
    [] IsFinal(a) /\ config.require /\ ~Unverified    -> 0
    [] OTHER                                          -> retries.gate

\* The evaluator gives in, once, after max_retries rejections.
Evaluator(a, good) ==
  IF IsFinal(a) /\ config.criteria /\ retries.eval < MaxEvalRetries /\ ~good
    THEN Asks(<<"__evaluator_feedback__">>) ELSE a

EvalRetries(a, good) ==
  CASE ~IsFinal(a) \/ ~config.criteria                -> retries.eval
    [] retries.eval < MaxEvalRetries /\ ~good         -> retries.eval + 1
    [] OTHER                                          -> 0

\* clean: no completion check failed; good: no evaluation criterion is unmet.
ModelAnswers(answer, clean, good) ==
  /\ pc = "model"
  /\ LET stopped == LoopDetection(answer)
         gated   == QualityGate(stopped, clean)
         last    == Evaluator(gated, good)
     IN /\ counts' = Counted(answer)
        /\ retries' = [gate |-> GateRetries(stopped), eval |-> EvalRetries(gated, good)]
        /\ checked' = IF IsFinal(stopped) /\ config.checks /\ ~Rejects(stopped)
                        THEN clean ELSE checked
        /\ executed' = IF IsFinal(answer) THEN NoCounts ELSE
                       IF last = answer /\ Signature(answer.calls) # <<>>
                         THEN [executed EXCEPT ![Signature(answer.calls)] = @ + 1]
                         ELSE executed
        /\ IF IsFinal(last)
             THEN Stop(last.stop, last.empty) /\ UNCHANGED executorVars
             ELSE pc' = "tools" /\ Dispatch(last.calls) /\ UNCHANGED report
  /\ failures' = 0
  /\ UNCHANGED <<config, attempt, iteration, tracker, errors, passed, verified, lastVerify>>

-----------------------------------------------------------------------------
(* The tools, with after_tool of ChangeTracker.                             *)

Schedule(i) ==
  /\ pc = "tools"
  /\ Submit(i) \/ StartQueued(i)
  /\ UNCHANGED <<config, pc, attempt, iteration, failures, guards, errors, passed, report,
                 history>>

Tracked(t, r) ==
  CASE t = "Edit" /\ r = "ok"          -> [tracker EXCEPT !.code = @ + 1]
    [] t = "VerifyCommand" /\ r = "ok" -> [tracker EXCEPT !.verified = tracker.code]
    [] OTHER                           -> tracker

\* A shell command that ran may have changed anything, whatever it returned.
Changes(t, r) == (t = "Edit" /\ r = "ok") \/ (t = "SandboxBash" /\ r # "denied")

ToolReturns(i, r) ==
  /\ pc = "tools" /\ Returns(i, r)
  /\ tracker' = Tracked(calls[i], r)
  /\ checked' = (checked /\ ~Changes(calls[i], r))
  /\ verified' = IF calls[i] = "VerifyCommand" /\ r = "ok" THEN TRUE
                 ELSE verified /\ ~(calls[i] = "Edit" /\ r = "ok")
  /\ lastVerify' = IF calls[i] = "VerifyCommand" THEN r ELSE lastVerify
  /\ UNCHANGED <<config, pc, attempt, iteration, failures, counts, retries, errors, passed,
                 report, executed>>

\* Faulty variant: one passing verification in the response is enough.
BuggyVerdict ==
  IF \E i \in Positions : calls[i] = "VerifyCommand" /\ outcome[i] = "ok" THEN TRUE
  ELSE passed /\ "VerifyCommand" \notin {calls[i] : i \in Positions}

\* The results are gone through in submission order.
Verdict ==
  LET verifications == {i \in Positions : calls[i] = "VerifyCommand"}
  IN  IF verifications = {} THEN passed
      ELSE \E i \in verifications : /\ outcome[i] = "ok"
                                    /\ \A j \in verifications : j <= i

\* Faulty variant: a retry that a guard asked for costs no iteration.
BuggyNextIteration == IF calls[1] \in Sentinels THEN iteration ELSE iteration + 1

NextIteration == iteration + 1

ProcessResults ==
  /\ pc = "tools" /\ Drained
  /\ passed' = Verdict
  /\ errors' = (errors \/ \E i \in Positions : outcome[i] # "ok")
  /\ iteration' = NextIteration /\ pc' = "head"
  /\ calls' = <<>> /\ stage' = <<>> /\ outcome' = <<>>
  /\ UNCHANGED <<config, attempt, failures, guards, report, history>>

-----------------------------------------------------------------------------
(* _run_with_model_upgrades.                                                *)

ShouldUpgrade(r) ==
  r.empty \/ (~r.verified /\ (r.errors \/ r.stop \in {"max_iterations", "safety_stop"}))

\* The next model starts from the base history, with new loop variables and the
\* same middleware objects, in the workspace the last one left.
Upgrade ==
  /\ pc = "over" /\ ShouldUpgrade(report) /\ attempt < Models
  /\ attempt' = attempt + 1 /\ pc' = "head"
  /\ iteration' = 0 /\ failures' = 0 /\ counts' = NoCounts
  /\ errors' = FALSE /\ passed' = FALSE
  /\ executed' = NoCounts /\ lastVerify' = "none"
  /\ UNCHANGED <<config, tracker, retries, report, checked, verified, executorVars>>

Return ==
  /\ pc = "over" /\ (~ShouldUpgrade(report) \/ attempt = Models)
  /\ pc' = "done"
  /\ UNCHANGED <<config, attempt, iteration, failures, guards, errors, passed, report,
                 history, executorVars>>

-----------------------------------------------------------------------------
ToolStep == \E i \in Positions : Schedule(i) \/ \E r \in Outcomes : ToolReturns(i, r)

Next ==
  \/ Iterate \/ ModelFails
  \/ \E a \in Answers, clean, good \in BOOLEAN : ModelAnswers(a, clean, good)
  \/ ToolStep \/ ProcessResults
  \/ Upgrade \/ Return

Spec == Init /\ [][Next]_vars

\* The provider's client and the tools have timeouts, so every call returns.
FairSpec == Spec /\ WF_vars(Next)

-----------------------------------------------------------------------------
\* Every variable keeps its type.
TypeOK ==
  /\ ExecutorTypeOK
  /\ config \in Configs /\ pc \in {"head", "model", "tools", "over", "done"}
  /\ attempt \in 1..Models /\ iteration \in 0..MaxIterations /\ failures \in 0..MaxFailures
  /\ counts \in [Signatures -> Nat] /\ tracker \in [code : Nat, verified : Nat]
  /\ retries \in [gate : 0..MaxGateRetries, eval : 0..MaxEvalRetries]
  /\ errors \in BOOLEAN /\ passed \in BOOLEAN
  /\ report \in [stop : STRING, errors : BOOLEAN, verified : BOOLEAN, empty : BOOLEAN]
  /\ executed \in [Signatures -> Nat] /\ checked \in BOOLEAN /\ verified \in BOOLEAN
  /\ lastVerify \in Outcomes \cup {"none"}

\* However the guards rewrite its answers, the model gets the same changing calls
\* executed less than hard_limit times before it gives a final answer.
LoopsAreBroken == \A s \in Signatures : executed[s] < HardLimit

\* A final text leaves an attempt only if the completion checks found nothing wrong
\* with the very sources it leaves, a safety stop included.
CompletionIsChecked ==
  pc = "over" /\ config.checks /\ report.stop \in {"end_turn", "safety_stop"} => checked

\* The reported verdict is that of the verification that ran last in the attempt,
\* although results are gone through after all calls of a response have run.
VerdictIsLatest == pc = "over" => (report.verified <=> lastVerify = "ok")

\* What an attempt returns with can be relied on, its text and its verdict.
ReportIsTrue == CompletionIsChecked /\ VerdictIsLatest

\* What a verification has passed and said something about is not done again by
\* another model.
VerifiedIsKept == [][attempt' # attempt => lastVerify # "ok" \/ report.empty]_vars

\* A task ends, whatever the model, the tools and the guards answer.
TaskEnds == <>(pc = "done")
=============================================================================
