---------------------------- MODULE ToolExecutor ----------------------------
(***************************************************************************)
(* core/streaming_tool_executor.py: the calls of one model response.       *)
(* Concurrency-safe calls that precede the first other call run in         *)
(* parallel as soon as they are submitted; everything else is queued and   *)
(* run one by one after they have all finished.  What a call does to the   *)
(* workspace and to the guards is the business of AgentLoop, which joins   *)
(* its own conjuncts to these actions.                                     *)
(***************************************************************************)
EXTENDS Naturals, Sequences, FiniteSets

\* The tools that matter here: a concurrency-safe one, the code-modifying ones,
\* the restricted verifier and a shell that may change anything.
Tools == {"Read", "Edit", "VerifyCommand", "SandboxBash"}

\* Calls that the guards put into the model's mouth; no tool has these names.
Sentinels == {"__completion_check__", "__evaluator_feedback__"}

Outcomes == {"ok", "failed", "denied"}

VARIABLES
  calls,    \* the calls of the response being executed, in submission order
  stage,    \* per call: "new", "queued", "running" or "done"
  outcome   \* per call: what it returned, "none" before

executorVars == <<calls, stage, outcome>>

Positions == DOMAIN calls

\* Only a known tool can be concurrency-safe.
Safe(i) == calls[i] = "Read"

NoCalls == calls = <<>> /\ stage = <<>> /\ outcome = <<>>

\* The assistant message with these calls is appended; nothing is submitted yet.
Dispatch(c) ==
  /\ calls' = c
  /\ stage' = [i \in DOMAIN c |-> "new"]
  /\ outcome' = [i \in DOMAIN c |-> "none"]

\* Faulty variant: a safe call is launched although a queued one comes before it.
BuggyLaunches(i) == Safe(i)

\* The serial queue is only emptied with the executor itself.
Launches(i) == Safe(i) /\ \A j \in 1..(i - 1) : Safe(j)

Submit(i) ==
  /\ i \in Positions /\ stage[i] = "new"
  /\ \A j \in 1..(i - 1) : stage[j] # "new"
  /\ stage' = [stage EXCEPT ![i] = IF Launches(i) THEN "running" ELSE "queued"]
  /\ UNCHANGED <<calls, outcome>>

\* drain() awaits the parallel calls and then takes the queue from its front.
StartQueued(i) ==
  /\ i \in Positions /\ stage[i] = "queued"
  /\ \A j \in Positions : stage[j] \notin {"new", "running"}
  /\ \A j \in 1..(i - 1) : stage[j] # "queued"
  /\ stage' = [stage EXCEPT ![i] = "running"]
  /\ UNCHANGED <<calls, outcome>>

\* before_tool may answer in place of the tool: a permission guard denies, the
\* guard that made up a sentinel call answers it.  Exceptions become results.
Returns(i, r) ==
  /\ i \in Positions /\ stage[i] = "running"
  /\ calls[i] \in Sentinels => r = "ok"
  /\ stage' = [stage EXCEPT ![i] = "done"]
  /\ outcome' = [outcome EXCEPT ![i] = r]
  /\ UNCHANGED calls

Drained == calls # <<>> /\ \A i \in Positions : stage[i] = "done"

-----------------------------------------------------------------------------
ExecutorTypeOK ==
  /\ calls \in Seq(Tools \cup Sentinels)
  /\ stage \in [DOMAIN calls -> {"new", "queued", "running", "done"}]
  /\ outcome \in [DOMAIN calls -> Outcomes \cup {"none"}]

\* A call that may change something runs alone and in its place: whatever comes
\* before it has finished, and whatever comes after it has not begun.
Sequenced ==
  \A i, j \in Positions :
    i < j /\ stage[j] \in {"running", "done"} /\ ~(Safe(i) /\ Safe(j)) => stage[i] = "done"
=============================================================================
