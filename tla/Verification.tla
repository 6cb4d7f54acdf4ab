---------------------------- MODULE Verification ----------------------------
(***************************************************************************)
(* One task of kind "verification" (verification_runtime.py, and            *)
(* run_contract and supervise of repository_harness.py as they treat it):  *)
(* the project's tests are run once, under an authorisation, and never     *)
(* again, whoever dies, whoever cancels and whoever edits meanwhile.  The  *)
(* supervisor (keeper) and the runtime (stage) are processes; a step is    *)
(* the code between two points at which another can interfere.             *)
(***************************************************************************)
EXTENDS Integers

CONSTANTS Reports,    \* what a verifier or an adapter may leave in report.json
          MaxDrifts   \* bound: edits of the sources or of the controls

\* The status of a report is any text; validate_report knows three.
ASSUME ReportsAssumption == Reports \subseteq
  [by : {"nobody"}, own : BOOLEAN, status : STRING,
   tests : SUBSET {"passed", "failed", "blocked", "not-executed"}, evidence : {"none", "sealed", "forged"}]
ASSUME DriftsAssumption == MaxDrifts \in Nat

VARIABLES
  \* the run directory
  frozen,      \* contract.json exists
  basis,       \* identity.json: the sources and controls of the first entry
  marker,      \* verification-dispatch.json: none, torn, full
  report,      \* report.json of the execution
  outcome,     \* result.json: status, and what it says of dispatches
  cancelled,   \* pause.json exists
  now,         \* the repositories and the controls: [sources, policy]
  drifts,
  \* the supervisor; the runtime, its locals; the exit code of the verifier
  keeper, cause, stage, phase, began, saying, counted, exitCode,
  \* history, never read by an action
  starts,      \* verifiers started
  judged,      \* what was there when the verifier started
  died         \* the supervisor was killed

verVars == <<frozen, basis, marker, report, outcome, cancelled, now, drifts, keeper, cause,
             stage, phase, began, saying, counted, exitCode, starts, judged, died>>
disk == <<frozen, basis, marker, report, outcome>>
locals == <<phase, began, saying, counted, exitCode>>
ghosts == <<starts, judged, died>>

Nothing == [sources |-> -1, policy |-> -1]
NoReport == [by |-> "nobody", own |-> FALSE, status |-> "none", tests |-> {}, evidence |-> "none"]
Said == [passed |-> "PASS", failed |-> "FEATURE-FAIL", blocked |-> "BLOCKED"]
Code == [passed |-> 0, failed |-> 1, blocked |-> 2]
Unsaid == -1   \* a result the supervisor wrote does not count dispatches

\* validate_report(): identity, exit code, tests and evidence have to agree.
\* `own` stands for the schema and the identifiers of this execution.
Acceptable(r) ==
  /\ r.own /\ r.status \in DOMAIN Said /\ exitCode = Code[r.status] /\ r.evidence # "forged"
  /\ r.status = "passed" => r.tests = {"passed"} /\ r.evidence = "sealed"
  /\ r.status = "failed" => "failed" \in r.tests /\ "blocked" \notin r.tests

\* Faulty variant: the controls are compared when the runtime begins only.
BuggyUnmoved == now.sources = began.sources
\* check_source(): the scope of a verification is empty, so nothing may move.
Unmoved == now = began

Running == stage \notin {"none", "exited", "failed"}

VerInit ==
  /\ frozen = FALSE /\ basis = Nothing /\ marker = "none" /\ report = NoReport
  /\ outcome = [status |-> "none", counted |-> Unsaid] /\ cancelled = FALSE
  /\ now = [sources |-> 0, policy |-> 0] /\ drifts = 0
  /\ keeper = "idle" /\ cause = "none" /\ stage = "none" /\ phase = "preflight"
  /\ began = Nothing /\ saying = "HARNESS-ERROR" /\ counted = 0 /\ exitCode = 0
  /\ starts = 0 /\ judged = Nothing /\ died = FALSE

-----------------------------------------------------------------------------
(* run_contract and supervise.                                             *)

\* `run --authorize-verification`: refused once there is a marker or a contract.
Authorise ==
  /\ keeper = "idle" /\ ~Running
  /\ marker = "none" /\ ~frozen
  /\ frozen' = TRUE /\ keeper' = "identity"
  /\ UNCHANGED <<basis, marker, report, outcome, cancelled, now, drifts, cause, stage, locals, ghosts>>

\* A snapshot that cannot be taken ends the command, and with it the task.
FreezeBasis ==
  /\ keeper = "identity"
  /\ \/ basis' = now /\ keeper' = "look"
     \/ keeper' = "idle" /\ UNCHANGED basis
  /\ UNCHANGED <<frozen, marker, report, outcome, cancelled, now, drifts, cause, stage, locals, ghosts>>

\* A task that was cancelled before it began is told so, and nothing is written.
Look ==
  /\ keeper = "look"
  /\ keeper' = IF cancelled THEN "idle" ELSE "open"
  /\ UNCHANGED <<disk, cancelled, now, drifts, cause, stage, locals, ghosts>>

OpenAttempt ==
  /\ keeper = "open"
  /\ outcome' = [status |-> "RUNNING", counted |-> Unsaid] /\ keeper' = "launch"
  /\ UNCHANGED <<frozen, basis, marker, report, cancelled, now, drifts, cause, stage, locals, ghosts>>

StartRuntime ==
  /\ keeper = "launch"
  /\ \/ keeper' = "wait" /\ stage' = "boot" /\ UNCHANGED outcome
     \/ keeper' = "idle" /\ outcome' = [status |-> "HARNESS-ERROR", counted |-> Unsaid] /\ UNCHANGED stage
  /\ UNCHANGED <<frozen, basis, marker, report, cancelled, now, drifts, cause, locals, ghosts>>

\* wait_for_runtime: the pause is polled before the deadline and the process;
\* a signal may come at any time.
StopWaiting ==
  /\ \/ keeper = "wait" /\ cancelled /\ cause' = "cancelled"
     \/ keeper \in {"launch", "wait"} /\ cause' = "stopped"
     \/ keeper = "wait" /\ ~Running /\ cause' = IF stage = "failed" THEN "stopped" ELSE "none"
  /\ keeper' = "cleanup"
  /\ UNCHANGED <<disk, cancelled, now, drifts, stage, locals, ghosts>>

\* terminate_group, twelve seconds after which nothing of the runtime is left.
Terminated ==
  /\ keeper = "cleanup"
  /\ stage' = "none" /\ keeper' = "report"
  /\ UNCHANGED <<disk, cancelled, now, drifts, cause, locals, ghosts>>

\* What the attempt ends with: the runtime's own result, unless the supervisor
\* had a reason to stop it, or it ended without one.
Final ==
  CASE cause = "cancelled" /\ now = basis -> "BLOCKED"
    [] cause = "none" /\ outcome.status # "RUNNING" -> outcome.status
    [] OTHER -> "HARNESS-ERROR"

Conclude ==
  /\ keeper = "report"
  /\ outcome' = [status |-> Final, counted |-> IF cause = "none" /\ outcome.status # "RUNNING"
                                                 THEN outcome.counted ELSE Unsaid]
  /\ keeper' = "idle" /\ cause' = "none"
  /\ UNCHANGED <<frozen, basis, marker, report, cancelled, now, drifts, stage, locals, ghosts>>

KeeperDies ==
  /\ keeper # "idle"
  /\ keeper' = "idle" /\ cause' = "none" /\ died' = TRUE
  /\ UNCHANGED <<disk, cancelled, now, drifts, stage, locals, starts, judged>>

-----------------------------------------------------------------------------
(* _child and execute_verification.                                        *)

\* The ways out of the try block lead to the last look at the sources.
StopSaying(s) == saying' = s /\ stage' = "drift"

\* A second dispatch is refused before anything else; the guard against the
\* first entry, and a cancellation.
Boot ==
  /\ stage = "boot"
  /\ began' = now
  /\ \/ marker # "none" /\ stage' = "failed" /\ UNCHANGED saying
     \/ marker = "none" /\ now # basis /\ StopSaying("HARNESS-ERROR")
     \/ marker = "none" /\ now = basis /\ cancelled /\ StopSaying("BLOCKED")
     \/ marker = "none" /\ now = basis /\ ~cancelled /\ stage' = "reserve" /\ UNCHANGED saying
  /\ UNCHANGED <<disk, cancelled, now, drifts, keeper, cause, phase, counted, exitCode, ghosts>>

\* _reserve: created exclusively, then written.
Reserve ==
  /\ stage \in {"reserve", "reserving"}
  /\ IF stage = "reserve" THEN marker = "none" /\ marker' = "torn" /\ stage' = "reserving"
                          ELSE marker' = "full" /\ stage' = "boundary"
  /\ phase' = "preflight"
  /\ UNCHANGED <<frozen, basis, report, outcome, cancelled, now, drifts, keeper, cause, began, saying, counted,
                 exitCode, ghosts>>

\* lifecycle() up to its adapter call.
BoundaryLooks ==
  /\ stage = "boundary"
  /\ IF cancelled THEN StopSaying("BLOCKED")
     ELSE IF Unmoved THEN stage' = "adapter" /\ UNCHANGED saying
     ELSE StopSaying("HARNESS-ERROR")
  /\ UNCHANGED <<disk, cancelled, now, drifts, keeper, cause, phase, began, counted, exitCode, ghosts>>

\* The adapter passes.  Before the dispatch it may have put a report there; that
\* it leaves the verifier's alone is trusted (the module calls it operator code).
AdapterReturns ==
  /\ stage = "adapter" /\ Unmoved
  /\ \/ phase = "preflight" /\ phase' = "check" /\ stage' = "boundary"
     \/ phase = "check" /\ phase' = "post" /\ stage' = "dispatch"
     \/ phase = "post" /\ stage' = "validate" /\ UNCHANGED phase
  /\ \/ UNCHANGED report
     \/ phase # "post" /\ report = NoReport /\ \E r \in Reports : report' = [r EXCEPT !.by = "adapter"]
  /\ UNCHANGED <<frozen, basis, marker, outcome, cancelled, now, drifts, keeper, cause, began, saying, counted,
                 exitCode, ghosts>>

\* The adapter fails, time is up, or something moved: any exception of the try.
GivesUp ==
  /\ stage \in {"reserve", "reserving", "boundary", "adapter", "dispatch", "verifier"}
  /\ StopSaying("HARNESS-ERROR")
  /\ counted' = IF stage = "dispatch" /\ report = NoReport THEN 1 ELSE counted
  /\ UNCHANGED <<disk, cancelled, now, drifts, keeper, cause, phase, began, exitCode, ghosts>>

StartVerifier ==
  /\ stage = "dispatch" /\ report = NoReport
  /\ counted' = 1 /\ starts' = starts + 1 /\ judged' = now /\ stage' = "verifier"
  /\ UNCHANGED <<disk, cancelled, now, drifts, keeper, cause, phase, began, saying, exitCode, died>>

VerifierReturns ==
  /\ stage = "verifier"
  /\ exitCode' \in 0..3
  /\ \/ UNCHANGED report
     \/ \E r \in Reports : report' = [r EXCEPT !.by = "verifier"]
  /\ stage' = "boundary"
  /\ UNCHANGED <<frozen, basis, marker, outcome, cancelled, now, drifts, keeper, cause, phase, began, saying,
                 counted, ghosts>>

Validate ==
  /\ stage = "validate"
  /\ StopSaying(IF Acceptable(report) /\ Unmoved THEN Said[report.status] ELSE "HARNESS-ERROR")
  /\ UNCHANGED <<disk, cancelled, now, drifts, keeper, cause, phase, began, counted, exitCode, ghosts>>

\* The finally clause.
LastLook ==
  /\ stage = "drift"
  /\ saying' = IF Unmoved THEN saying ELSE "HARNESS-ERROR"
  /\ stage' = "write"
  /\ UNCHANGED <<disk, cancelled, now, drifts, keeper, cause, phase, began, counted, exitCode, ghosts>>

\* execute_verification writes the result, and _child writes it again.
WriteResult ==
  /\ stage \in {"write", "stamp"}
  /\ outcome' = [status |-> saying, counted |-> counted]
  /\ stage' = IF stage = "write" THEN "stamp" ELSE "exited"
  /\ UNCHANGED <<frozen, basis, marker, report, cancelled, now, drifts, keeper, cause, locals, ghosts>>

\* It is killed, or raises outside the try; or its supervisor is gone.
RuntimeEnds ==
  /\ Running
  /\ stage' = "failed"
  /\ UNCHANGED <<disk, cancelled, now, drifts, keeper, cause, locals, ghosts>>
ParentGone == keeper = "idle" /\ RuntimeEnds

\* `harness pause`, and whoever edits.
Cancel ==
  /\ frozen /\ cancelled' = TRUE
  /\ UNCHANGED <<disk, now, drifts, keeper, cause, stage, locals, ghosts>>
Drift ==
  /\ drifts < MaxDrifts /\ drifts' = drifts + 1
  /\ \E part \in {"sources", "policy"} : now' = [now EXCEPT ![part] = drifts']
  /\ UNCHANGED <<disk, cancelled, keeper, cause, stage, locals, ghosts>>

Keeper == Authorise \/ FreezeBasis \/ Look \/ OpenAttempt \/ StartRuntime \/ StopWaiting \/ Terminated \/ Conclude
Executing == Boot \/ Reserve \/ BoundaryLooks \/ AdapterReturns \/ GivesUp \/ StartVerifier \/ VerifierReturns
           \/ Validate \/ LastLook \/ WriteResult \/ RuntimeEnds
VerNext == Keeper \/ KeeperDies \/ Executing \/ Cancel \/ Drift

VerSpec == VerInit /\ [][VerNext]_verVars

\* A supervisor that was started goes on, and has a deadline; the kernel reports
\* the end of its pipe to the runtime.
VerFairness == WF_verVars(Keeper /\ frozen) /\ WF_verVars(ParentGone)

-----------------------------------------------------------------------------
\* docs/verification-tasks.md: the verifier is started once at most, and only
\* after a durable marker says so, whoever dies or repeats the command.
SingleUse == starts <= 1 /\ (starts > 0 => marker = "full")

\* A pass was said by the verifier itself, started when sources and controls were
\* those of the first entry, and its exit code and tests bear it out.
PassIsWitnessed == outcome.status = "PASS" =>
  starts = 1 /\ judged = basis /\ report.by = "verifier" /\ report.tests = {"passed"} /\ exitCode = 0

\* When both processes are gone the result is final, unless the supervisor was
\* killed; and one that counts no dispatch is right about it.
EndIsReported == /\ keeper = "idle" /\ ~Running /\ outcome.status = "RUNNING" => died
                 /\ outcome.counted = 0 => starts = 0

\* What a single-use verification promises its operator.
VerificationHolds == SingleUse /\ PassIsWitnessed /\ EndIsReported

\* The supervisor comes to an end, and with it whatever it started.
VerificationEnds == (keeper # "idle" \/ Running) ~> (keeper = "idle" /\ ~Running)
=============================================================================
