------------------------------- MODULE Harness -------------------------------
(***************************************************************************)
(* The repository harness of src/src/prax/repository_harness.py for one     *)
(* coding run: the run_contract/supervise process, the supervised runtime   *)
(* (_child -> execute), the operator (pause, edits, kills) and the files    *)
(* they share under .prax/harness-runs/<run>.  Time, text and evidence      *)
(* payloads are abstracted; every early return and every write is kept.     *)
(***************************************************************************)
EXTENDS Integers

CONSTANTS Good,           \* contents of the scoped sources the verifier accepts
          MaxEdits,       \* bound: edits of the workspace or of the controls
          MaxWindows,     \* bound: supervise() windows (the wall budget)
          MaxIterations,  \* task.budget.max_iterations
          StuckAfter,     \* task.budget.stuck_after
          CrashPoints     \* supervisor positions at which it may die hard

ASSUME GoodAssumption == Good \subseteq Nat
ASSUME BoundAssumption == /\ MaxEdits \in Nat
                          /\ MaxWindows \in Nat
                          /\ MaxIterations \in Nat \ {0}
                          /\ StuckAfter \in Nat \ {0, 1}

VARIABLES
  \* the run directory
  contract,     \* contract.json exists
  identity,     \* identity.json: frozen controls and the source checkpoint
  result,       \* result.json: status and execution_id (0 when absent)
  pause,        \* pause.json exists
  dispatches,   \* journal events "dispatch"
  steps,        \* journal events "step"
  outages,      \* journal events "verify" whose status is HARNESS-ERROR
  \* the world outside the run directory
  ws,           \* the declared repositories, as snapshot() sees them
  controls,     \* verifier, policy and profile files: control_fingerprint()
  edits,        \* number of edits so far, and the newest content version
  held,         \* the project adapter still holds the claim
  \* the supervisor process (run_contract, supervise)
  sup, kind, reason, window,
  \* the supervised runtime (_child, execute)
  rt, site, before, fp, prior, checked, accepted, verdict, loop, fails, out,
  cpErr, claimed,
  seen,         \* history: what the last verifier command read
  \* history variables, like seen never read by an action
  runs,         \* executor.run calls actually started
  sincePause,   \* of those, how many started under the present pause.json
  foreign       \* sources written while nobody held the run lock

files == <<contract, identity, result, pause, dispatches, steps, outages>>
world == <<ws, controls, edits, held>>
supVars == <<sup, kind, reason, window>>
rtData == <<site, before, fp, prior, checked, accepted, verdict, loop, fails,
            out, cpErr, claimed, seen>>
history == <<runs, sincePause, foreign>>
vars == <<files, world, supVars, rt, rtData, history>>

Statuses == {"PASS", "FEATURE-FAIL", "HARNESS-ERROR", "PAUSED"}
Verdicts == {"PASS", "FEATURE-FAIL", "HARNESS-ERROR"}
Sites == {"preVerify", "postVerify", "preDispatch", "postDispatch"}

Snapshot == [scope: Nat, rest: Nat]
NoSnapshot == [scope |-> -1, rest |-> -1]
Identity == [fingerprint: Nat, snapshot: Snapshot]
NoIdentity == [fingerprint |-> -1, snapshot |-> NoSnapshot]

-----------------------------------------------------------------------------
(* guard(): without resume only the scoped paths may differ; with resume    *)
(* nothing may.                                                             *)
Guard(old, new, resume) == IF resume THEN old = new ELSE old.rest = new.rest

\* checked_snapshot(): the controls are frozen and the drift is in scope.
CheckedSnapshot == controls = fp /\ Guard(before, ws, FALSE)

\* Faulty variant: the entries call guard() without resume=True.
BuggyResumeMatches == /\ identity.fingerprint = controls
                      /\ Guard(identity.snapshot, ws, FALSE)

\* Both entries refuse a workspace that moved since the checkpoint.
ResumeMatches == /\ identity.fingerprint = controls
                 /\ Guard(identity.snapshot, ws, TRUE)

\* flock is held by the supervisor and inherited by a live runtime.
Alive == rt \notin {"none", "exited", "failed"}
LockFree == sup = "idle" /\ ~Alive

\* OrchestratorLoop's iteration count, resumed from the journal.
Iteration == steps - outages

\* The identity.json the runtime writes.
Checkpoint == [fingerprint |-> fp, snapshot |-> ws]

\* The process is gone: its locals are gone with it.
RuntimeGone(how) ==
  /\ rt' = how
  /\ site' = "preVerify" /\ before' = NoSnapshot /\ fp' = 0
  /\ prior' = NoSnapshot /\ checked' = NoSnapshot /\ accepted' = NoSnapshot
  /\ verdict' = "HARNESS-ERROR" /\ loop' = FALSE /\ fails' = 0
  /\ out' = "HARNESS-ERROR" /\ cpErr' = FALSE /\ claimed' = FALSE
  /\ seen' = NoSnapshot

Init ==
  /\ contract = FALSE /\ identity = NoIdentity /\ pause = FALSE
  /\ result = [status |-> "none", exec |-> 0]
  /\ dispatches = 0 /\ steps = 0 /\ outages = 0
  /\ ws = [scope |-> 0, rest |-> 0] /\ controls = 0 /\ edits = 0 /\ held = FALSE
  /\ sup = "idle" /\ kind = "run" /\ reason = "none" /\ window = 0
  /\ rt = "none"
  /\ site = "preVerify" /\ before = NoSnapshot /\ fp = 0
  /\ prior = NoSnapshot /\ checked = NoSnapshot /\ accepted = NoSnapshot
  /\ verdict = "HARNESS-ERROR" /\ loop = FALSE /\ fails = 0
  /\ out = "HARNESS-ERROR" /\ cpErr = FALSE /\ claimed = FALSE
  /\ seen = NoSnapshot /\ runs = 0 /\ sincePause = 0 /\ foreign = {}

-----------------------------------------------------------------------------
(* The supervisor: run_contract, then supervise.                            *)

\* `prax harness run`, `run --resume-existing` and `resume`, past the locks.
Invoke(k) ==
  /\ LockFree
  /\ k = "run" => ~contract
  /\ k = "resume" => contract
  /\ contract' = TRUE /\ kind' = k /\ sup' = "identity"
  /\ UNCHANGED <<identity, result, pause, dispatches, steps, outages, world,
                 reason, window, rt, rtData, history>>

CheckIdentity ==
  /\ sup = "identity"
  /\ \/ /\ identity = NoIdentity /\ result.status = "none"
        /\ identity' = [fingerprint |-> controls, snapshot |-> ws]
        /\ sup' = "result"
     \/ /\ identity # NoIdentity /\ ResumeMatches
        /\ sup' = "result" /\ UNCHANGED identity
     \/ /\ IF identity = NoIdentity THEN result.status # "none" ELSE ~ResumeMatches
        /\ sup' = "idle" /\ UNCHANGED identity
  /\ UNCHANGED <<contract, result, pause, dispatches, steps, outages, world,
                 kind, reason, window, rt, rtData, history>>

\* A crashed window is not adopted, a PASS is final, a pause needs `resume`.
MayOpen == /\ result.status \notin {"RUNNING", "PASS"}
           /\ pause => kind = "resume"

CheckResult ==
  /\ sup = "result"
  /\ IF MayOpen
       THEN /\ pause' = FALSE
            /\ sincePause' = IF pause THEN 0 ELSE sincePause
            \* supervise() refuses once the wall budget is spent
            /\ sup' \in IF window < MaxWindows THEN {"open", "idle"} ELSE {"idle"}
       ELSE sup' = "idle" /\ UNCHANGED <<pause, sincePause>>
  /\ kind' = "run"     \* not read again: a fixed value for a dead local
  /\ UNCHANGED <<contract, identity, result, dispatches, steps, outages, world,
                 reason, window, rt, rtData, runs, foreign>>

OpenWindow ==
  /\ sup = "open"
  /\ window' = window + 1
  /\ result' = [status |-> "RUNNING", exec |-> window']
  /\ sup' = "launch" /\ reason' = "none"
  /\ UNCHANGED <<contract, identity, pause, dispatches, steps, outages, world,
                 kind, rt, rtData, history>>

Launch ==
  /\ sup = "launch"
  /\ RuntimeGone("boot")
  /\ sup' = "wait"
  /\ UNCHANGED <<files, world, kind, reason, window, history>>

\* Popen raised OSError: runtime_start_failed.
LaunchFails ==
  /\ sup = "launch"
  /\ result' = [status |-> "HARNESS-ERROR", exec |-> window]
  /\ sup' = "idle"
  /\ UNCHANGED <<contract, identity, pause, dispatches, steps, outages, world,
                 kind, reason, window, rt, rtData, history>>

\* wait_for_runtime polls pause.json before it waits for the process.
NoticePause ==
  /\ sup = "wait" /\ pause
  /\ sup' = "cleanup" /\ reason' = "paused"
  /\ UNCHANGED <<files, world, kind, window, rt, rtData, history>>

\* Wall budget exhausted, or SIGINT, SIGTERM, SIGHUP.
NoticeStop ==
  /\ sup \in {"launch", "wait"}
  /\ sup' = "cleanup" /\ reason' = "stopped"
  /\ UNCHANGED <<files, world, kind, window, rt, rtData, history>>

Reap ==
  /\ sup = "wait" /\ rt \in {"exited", "failed"}
  /\ sup' = "cleanup" /\ reason' = IF rt = "failed" THEN "stopped" ELSE "none"
  /\ UNCHANGED <<files, world, kind, window, rt, rtData, history>>

\* terminate_group: nothing of the runtime survives it.
Terminate ==
  /\ sup = "cleanup"
  /\ RuntimeGone("none")
  /\ sup' = CASE reason = "paused" -> "checkpoint"
              [] reason = "none" -> "collect"
              [] OTHER -> "report"
  /\ UNCHANGED <<files, world, kind, reason, window, history>>

\* A pause adopts the in-scope edits of the killed worker, or reports drift.
PauseIsSafe == /\ identity.fingerprint = controls
               /\ Guard(identity.snapshot, ws, FALSE)

CheckpointPause ==
  /\ sup = "checkpoint"
  /\ IF PauseIsSafe
       THEN identity' = [identity EXCEPT !.snapshot = ws] /\ UNCHANGED reason
       ELSE reason' = "stopped" /\ UNCHANGED identity
  /\ sup' = "report"
  /\ UNCHANGED <<contract, result, pause, dispatches, steps, outages, world,
                 kind, window, rt, rtData, history>>

Report ==
  /\ sup = "report"
  /\ result' = [status |-> IF reason = "paused" THEN "PAUSED" ELSE "HARNESS-ERROR",
                exec |-> 0]
  /\ sup' = "idle" /\ reason' = "none"
  /\ UNCHANGED <<contract, identity, pause, dispatches, steps, outages, world,
                 kind, window, rt, rtData, history>>

\* The runtime exited 0: its result must carry this window's execution_id.
Collect ==
  /\ sup = "collect"
  /\ result' = IF result.exec = window /\ result.status # "RUNNING"
                 THEN result ELSE [status |-> "HARNESS-ERROR", exec |-> 0]
  /\ sup' = "idle"
  /\ UNCHANGED <<contract, identity, pause, dispatches, steps, outages, world,
                 kind, reason, window, rt, rtData, history>>

\* SIGKILL, power loss: no handler, no finally.
SupervisorDies ==
  /\ sup # "idle" /\ sup \in CrashPoints
  /\ sup' = "idle"
  /\ UNCHANGED <<files, world, kind, reason, window, rt, rtData, history>>

-----------------------------------------------------------------------------
(* The runtime: _child, then execute.                                       *)

\* Every exit of the try block of execute() to its finally clause.
StopWith(o, failedCheck) ==
  /\ out' = o /\ cpErr' = (cpErr \/ failedCheck)
  /\ rt' = IF claimed THEN "release" ELSE "write"

\* Identity check, then the pause check.
Begin ==
  /\ rt = "boot"
  /\ fp' = controls /\ before' = ws
  /\ IF ~ResumeMatches
       THEN rt' = "write" /\ out' = "HARNESS-ERROR"
       ELSE rt' = (IF pause THEN "pausing" ELSE "claim") /\ UNCHANGED out
  /\ UNCHANGED <<files, world, supVars, site, prior, checked, accepted, verdict,
                 loop, fails, cpErr, claimed, seen, history>>

\* adapter preflight and adapter claim.
Claim ==
  /\ rt = "claim"
  /\ held' = TRUE /\ claimed' = TRUE
  /\ rt' = "boundary" /\ site' = "preVerify"
  /\ UNCHANGED <<files, ws, controls, edits, supVars, before, fp, prior, checked,
                 accepted, verdict, loop, fails, out, cpErr, seen, history>>

\* The adapter refused, or timed out before or after taking the claim, or the
\* wall budget was gone.
ClaimFails ==
  /\ rt = "claim"
  /\ held' \in {held, TRUE}
  /\ StopWith("HARNESS-ERROR", FALSE)
  /\ UNCHANGED <<files, ws, controls, edits, supVars, site, before, fp, prior,
                 checked, accepted, verdict, loop, fails, claimed, seen, history>>

\* Faulty variant: the pause is only checked when the window begins.
BuggyMayCross == CheckedSnapshot

MayCross == ~pause /\ CheckedSnapshot

\* check_boundary up to its adapter call: pause, controls, scope.
BoundaryOpens ==
  /\ rt = "boundary" /\ MayCross
  /\ prior' = ws /\ rt' = "adapter"
  /\ UNCHANGED <<files, world, supVars, site, before, fp, checked, accepted,
                 verdict, loop, fails, out, cpErr, claimed, seen, history>>

BoundaryPauses ==
  /\ rt = "boundary" /\ pause
  /\ rt' = "pausing"
  /\ UNCHANGED <<files, world, supVars, rtData, history>>

\* ... and after it: the adapter must not have changed what it inspected.
AfterAdapter == CheckedSnapshot /\ Guard(prior, ws, TRUE)

\* Drift seen at either check, or a failing adapter: no checkpoint may follow.
BoundaryFails ==
  /\ rt = "adapter" \/ (rt = "boundary" /\ ~pause /\ ~CheckedSnapshot)
  /\ StopWith("HARNESS-ERROR", TRUE)
  /\ UNCHANGED <<files, world, supVars, site, before, fp, prior, checked,
                 accepted, verdict, loop, fails, claimed, seen, history>>

BeforeVerify ==
  /\ rt = "adapter" /\ site = "preVerify" /\ AfterAdapter
  /\ checked' = ws /\ rt' = "verify"
  /\ UNCHANGED <<files, world, supVars, site, before, fp, prior, accepted,
                 verdict, loop, fails, out, cpErr, claimed, seen, history>>

\* The verifier is only trusted for the frozen controls and what it read; a
\* flaky run may also reject good sources.
CanConclude(v) == v = "PASS" => (ws.scope \in Good \/ controls # fp)

Verify ==
  /\ rt = "verify"
  /\ \E v \in Verdicts : CanConclude(v) /\ verdict' = v
  /\ seen' = ws
  /\ rt' = "boundary" /\ site' = "postVerify"
  /\ UNCHANGED <<files, world, supVars, before, fp, prior, checked, accepted,
                 loop, fails, out, cpErr, claimed, history>>

\* CommandInterrupted: the verifier timed out; no boundary check failed.
VerifyInterrupted ==
  /\ rt = "verify"
  /\ StopWith("HARNESS-ERROR", FALSE)
  /\ UNCHANGED <<files, world, supVars, site, before, fp, prior, checked,
                 accepted, verdict, loop, fails, claimed, seen, history>>

\* Faulty variant: the sources before and after the verifier are not compared.
BuggyVerdictStands == AfterAdapter

\* The verdict describes the sources it was computed from.
VerdictStands == AfterAdapter /\ Guard(checked, ws, TRUE)

VerifierDone ==
  /\ rt = "adapter" /\ site = "postVerify" /\ VerdictStands
  /\ identity' = Checkpoint
  /\ outages' = IF loop /\ verdict = "HARNESS-ERROR" THEN outages + 1 ELSE outages

\* PASS ends the window as verified, a verifier outage ends it as an error.
Concluded ==
  /\ VerifierDone
  /\ verdict # "FEATURE-FAIL"
  /\ accepted' = IF verdict = "PASS" THEN ws ELSE accepted
  /\ StopWith(verdict, FALSE)
  /\ UNCHANGED <<contract, result, pause, dispatches, steps, world, supVars, site,
                 before, fp, prior, checked, verdict, loop, fails, claimed, seen, history>>

\* A failed acceptance: the first one enters the loop, a later one counts
\* towards stuck_after; the loop goes on while its budget lasts.
Rejected ==
  /\ VerifierDone
  /\ verdict = "FEATURE-FAIL"
  /\ loop' = TRUE /\ fails' = IF loop THEN fails + 1 ELSE 0
  /\ \/ /\ Iteration < MaxIterations
        /\ rt' = "boundary" /\ site' = "preDispatch"
        /\ UNCHANGED <<out, cpErr>>
     \/ /\ Iteration >= MaxIterations \/ fails' >= StuckAfter
        /\ StopWith("FEATURE-FAIL", FALSE) /\ UNCHANGED site
  /\ UNCHANGED <<contract, result, pause, dispatches, steps, world, supVars,
                 before, fp, prior, checked, accepted, verdict, claimed, seen, history>>

BudgetLeft == dispatches < MaxIterations

\* GuardedExecutor.run: the dispatch is journalled before the worker starts.
Dispatch ==
  /\ rt = "adapter" /\ site = "preDispatch" /\ AfterAdapter
  /\ BudgetLeft
  /\ dispatches' = dispatches + 1
  /\ rt' = "work"
  /\ UNCHANGED <<contract, identity, result, pause, steps, outages, world, supVars,
                 rtData, history>>

\* The dispatch budget or the wall budget is exhausted.
DispatchRefused ==
  /\ rt = "adapter" /\ site = "preDispatch" /\ AfterAdapter
  /\ StopWith("HARNESS-ERROR", FALSE)
  /\ UNCHANGED <<files, world, supVars, site, before, fp, prior, checked,
                 accepted, verdict, loop, fails, claimed, seen, history>>

StartWorker ==
  /\ rt = "work"
  /\ runs' = runs + 1
  /\ sincePause' = IF pause THEN sincePause + 1 ELSE sincePause
  /\ rt' = "working"
  /\ UNCHANGED <<files, world, supVars, rtData, foreign>>

WorkerReturns ==
  /\ rt = "working"
  /\ rt' = "boundary" /\ site' = "postDispatch"
  /\ UNCHANGED <<files, world, supVars, before, fp, prior, checked, accepted,
                 verdict, loop, fails, out, cpErr, claimed, seen, history>>

\* error_limit is 1: one failing step ends the window as executor_error.
WorkerRaises ==
  /\ rt = "working"
  /\ StopWith("HARNESS-ERROR", FALSE)
  /\ UNCHANGED <<files, world, supVars, site, before, fp, prior, checked,
                 accepted, verdict, loop, fails, claimed, seen, history>>

StepDone ==
  /\ rt = "adapter" /\ site = "postDispatch" /\ AfterAdapter
  /\ steps' = steps + 1
  /\ rt' = "boundary" /\ site' = "preVerify"
  /\ UNCHANGED <<contract, identity, result, pause, dispatches, outages, world,
                 supVars, before, fp, prior, checked, accepted, verdict, loop,
                 fails, out, cpErr, claimed, seen, history>>

\* The PauseRequested handler: checkpoint legal partial edits, or report drift.
Pausing ==
  /\ rt = "pausing"
  /\ IF CheckedSnapshot
       THEN identity' = Checkpoint /\ StopWith("PAUSED", FALSE)
       ELSE StopWith("HARNESS-ERROR", FALSE) /\ UNCHANGED identity
  /\ UNCHANGED <<contract, result, pause, dispatches, steps, outages, world,
                 supVars, site, before, fp, prior, checked, accepted, verdict,
                 loop, fails, claimed, seen, history>>

\* Faulty variant: releases without comparing with the accepted snapshot.
BuggyMayRelease == ~cpErr /\ CheckedSnapshot

\* The claim is given back only from a source that may be checkpointed; a PASS
\* only from the accepted one.
MayRelease == ~cpErr /\ CheckedSnapshot /\ (out = "PASS" => accepted = ws)

Release ==
  /\ rt = "release"
  /\ IF MayRelease THEN prior' = ws /\ rt' = "releasing" /\ UNCHANGED out
                   ELSE out' = "HARNESS-ERROR" /\ rt' = "write" /\ UNCHANGED prior
  /\ UNCHANGED <<files, world, supVars, site, before, fp, checked, accepted,
                 verdict, loop, fails, cpErr, claimed, seen, history>>

Released ==
  /\ rt = "releasing"
  /\ held' = FALSE
  /\ IF AfterAdapter THEN identity' = Checkpoint /\ UNCHANGED out
                     ELSE out' = "HARNESS-ERROR" /\ UNCHANGED identity
  /\ rt' = "write"
  /\ UNCHANGED <<contract, result, pause, dispatches, steps, outages, ws, controls,
                 edits, supVars, site, before, fp, prior, checked, accepted,
                 verdict, loop, fails, cpErr, claimed, seen, history>>

ReleaseFails ==
  /\ rt = "releasing"
  /\ held' \in {held, FALSE}
  /\ out' = "HARNESS-ERROR" /\ rt' = "write"
  /\ UNCHANGED <<files, ws, controls, edits, supVars, site, before, fp, prior,
                 checked, accepted, verdict, loop, fails, cpErr, claimed, seen, history>>

\* execute() writes its outcome without an execution_id ...
WriteOutcome ==
  /\ rt = "write"
  /\ result' = [status |-> out, exec |-> 0]
  /\ rt' = "stamp"
  /\ UNCHANGED <<contract, identity, pause, dispatches, steps, outages, world,
                 supVars, rtData, history>>

\* ... and _child writes it again with one, then exits 0.
StampOutcome ==
  /\ rt = "stamp"
  /\ result' = [status |-> out, exec |-> window]
  /\ RuntimeGone("exited")
  /\ UNCHANGED <<contract, identity, pause, dispatches, steps, outages, world,
                 supVars, history>>

\* The runtime dies with a non-zero code: an uncaught error, a signal.
RuntimeFails ==
  /\ Alive
  /\ RuntimeGone("failed")
  /\ UNCHANGED <<files, world, supVars, history>>

\* Faulty variant: the watcher does not reach a busy worker.
BuggyWatchParent ==
  /\ Alive /\ sup = "idle" /\ rt # "working"
  /\ RuntimeGone("none")
  /\ UNCHANGED <<files, world, supVars, history>>

\* _watch_parent: EOF on the supervisor's pipe kills the runtime's group.
WatchParent ==
  /\ Alive /\ sup = "idle"
  /\ RuntimeGone("none")
  /\ UNCHANGED <<files, world, supVars, history>>

-----------------------------------------------------------------------------
(* The operator and everybody who writes to the workspace.                  *)

\* `prax harness pause`: takes no lock.
Pause ==
  /\ contract /\ ~pause
  /\ pause' = TRUE /\ sincePause' = 0
  /\ UNCHANGED <<contract, identity, result, dispatches, steps, outages, world,
                 supVars, rt, rtData, runs, foreign>>

\* Nobody is inside the window: no resume guard has been passed yet.
Unattended == sup \in {"idle", "identity"} /\ ~Alive

\* A worker, a verifier, an adapter or a person writes fresh content: to the
\* scoped sources, to the rest of the repositories (HEAD, index, other files),
\* or to the control files.
Edit ==
  /\ edits < MaxEdits
  /\ edits' = edits + 1
  /\ \/ /\ ws' = [ws EXCEPT !.scope = edits'] /\ UNCHANGED controls
        /\ foreign' = IF Unattended /\ identity # NoIdentity
                         THEN foreign \cup {edits'} ELSE foreign
     \/ ws' = [ws EXCEPT !.rest = edits'] /\ UNCHANGED <<controls, foreign>>
     \/ controls' = edits' /\ UNCHANGED <<ws, foreign>>
  /\ UNCHANGED <<files, held, supVars, rt, rtData, runs, sincePause>>

\* Between windows a person may put the checkpoint back, or clean up a claim.
Repair ==
  /\ LockFree /\ identity # NoIdentity
  /\ ws' = identity.snapshot /\ controls' = identity.fingerprint
  /\ held' = FALSE
  /\ UNCHANGED <<files, edits, supVars, rt, rtData, history>>

-----------------------------------------------------------------------------
Supervisor ==
  \/ \E k \in {"run", "continue", "resume"} : Invoke(k)
  \/ CheckIdentity \/ CheckResult \/ OpenWindow \/ Launch \/ LaunchFails
  \/ NoticePause \/ NoticeStop \/ Reap \/ Terminate
  \/ CheckpointPause \/ Report \/ Collect \/ SupervisorDies

Runtime ==
  \/ Begin \/ Claim \/ ClaimFails
  \/ BoundaryOpens \/ BoundaryPauses \/ BoundaryFails
  \/ BeforeVerify \/ Verify \/ VerifyInterrupted \/ Concluded \/ Rejected
  \/ Dispatch \/ DispatchRefused \/ StartWorker \/ WorkerReturns
  \/ WorkerRaises \/ StepDone
  \/ Pausing \/ Release \/ Released \/ ReleaseFails
  \/ WriteOutcome \/ StampOutcome \/ RuntimeFails \/ WatchParent

Environment == Pause \/ Edit \/ Repair

Next == Supervisor \/ Runtime \/ Environment

Spec == Init /\ [][Next]_vars

\* An invoked supervisor keeps running, wait_for_runtime polls pause.json and
\* its deadline, and the kernel reports the end of the supervisor's pipe.
Fairness ==
  /\ WF_vars(CheckIdentity) /\ WF_vars(CheckResult) /\ WF_vars(OpenWindow)
  /\ WF_vars(Launch) /\ WF_vars(NoticePause) /\ WF_vars(NoticeStop)
  /\ WF_vars(Terminate) /\ WF_vars(CheckpointPause) /\ WF_vars(Report)
  /\ WF_vars(Collect) /\ WF_vars(WatchParent)

FairSpec == Spec /\ Fairness

-----------------------------------------------------------------------------
Positions == {"idle", "identity", "result", "open", "launch", "wait", "cleanup",
              "checkpoint", "report", "collect"}
Stages == {"none", "boot", "claim", "boundary", "adapter", "verify", "work",
           "working", "pausing", "release", "releasing", "write", "stamp",
           "exited", "failed"}

FilesTyped ==
  /\ contract \in BOOLEAN /\ pause \in BOOLEAN
  /\ identity \in Identity \cup {NoIdentity}
  /\ result \in [status: Statuses \cup {"none", "RUNNING"}, exec: Nat]
  /\ dispatches \in Nat /\ steps \in Nat /\ outages \in Nat

WorldTyped ==
  /\ ws \in Snapshot /\ controls \in Nat /\ edits \in Nat /\ held \in BOOLEAN

SupervisorTyped ==
  /\ sup \in Positions /\ kind \in {"run", "continue", "resume"}
  /\ reason \in {"none", "paused", "stopped"} /\ window \in Nat

SnapshotsTyped ==
  /\ before \in Snapshot \cup {NoSnapshot} /\ prior \in Snapshot \cup {NoSnapshot}
  /\ checked \in Snapshot \cup {NoSnapshot} /\ accepted \in Snapshot \cup {NoSnapshot}
  /\ seen \in Snapshot \cup {NoSnapshot} /\ fp \in Nat

ProgressTyped ==
  /\ rt \in Stages /\ site \in Sites /\ verdict \in Verdicts /\ out \in Statuses
  /\ loop \in BOOLEAN /\ cpErr \in BOOLEAN /\ claimed \in BOOLEAN /\ fails \in Nat

HistoryTyped == runs \in Nat /\ sincePause \in Nat /\ foreign \subseteq Nat

\* Every variable keeps its type.
TypeOK ==
  FilesTyped /\ WorldTyped /\ SupervisorTyped /\ SnapshotsTyped /\ ProgressTyped
    /\ HistoryTyped

\* Once a window is over, a verified PASS on disk means that the verifier
\* passed on exactly the sources in the checkpoint the next entry compares the
\* workspace with, and that the project adapter gave its claim back.
VerifiedMeansAccepted ==
  LockFree /\ result.status = "PASS" =>
    identity.snapshot.scope \in Good /\ ~held

\* However the run is paused, killed, failed and resumed, the worker is started
\* at most max_iterations times for the task.
DispatchBudget == runs <= MaxIterations

\* A pause stops the run: at most the dispatch that had already passed its
\* boundary starts while pause.json is there, until somebody resumes explicitly.
PauseStopsDispatch == sincePause <= 1

\* Sources written while no window was open never become a checkpoint: edits
\* between two windows are not adopted as the worker's progress.
NoForeignCheckpoint == identity.snapshot.scope \notin foreign

\* A checkpoint may move along the declared scope, never along anything else:
\* the frozen controls and the rest of the repositories stay those of the run's
\* first entry.
BaselineFrozen ==
  [][identity # NoIdentity =>
       /\ identity'.fingerprint = identity.fingerprint
       /\ identity'.snapshot.rest = identity.snapshot.rest]_vars

\* An attempt lasts while its supervisor is inside the window or its runtime
\* lives; afterwards result.json tells how it ended.
InWindow == Alive \/ sup \in {"launch", "wait", "cleanup", "checkpoint", "report",
                              "collect"}

\* The RUNNING left by a supervisor that died is evidence for a person: no
\* later entry overwrites it, and a PASS is never run again.
FinishedIsFinal ==
  [][~InWindow /\ result.status \in {"RUNNING", "PASS"} =>
       result' = result /\ identity' = identity]_vars

\* Every window ends: the supervisor gives the locks back.
WindowCloses == (sup # "idle") ~> (sup = "idle")

\* A pause, or the death of the supervisor, ends the runtime.
RuntimeStops == (Alive /\ (pause \/ sup = "idle")) ~> ~Alive

\* Neither holds anything for ever, whoever is killed.
EverythingStops == WindowCloses /\ RuntimeStops

-----------------------------------------------------------------------------
(* The run as its operator sees it.                                          *)
RunPhase ==
  CASE InWindow -> "open"
    [] ~InWindow /\ result.status = "none" -> "new"
    [] ~InWindow /\ result.status = "PASS" -> "passed"
    [] ~InWindow /\ result.status = "RUNNING" -> "abandoned"
    [] ~InWindow /\ result.status = "PAUSED" -> "paused"
    [] OTHER -> "stopped"

Contract == INSTANCE HarnessPromise
              WITH Budget <- MaxIterations, phase <- RunPhase,
                   baseline <- <<identity.fingerprint, identity.snapshot.rest>>,
                   checkpoint <- identity.snapshot.scope, started <- runs

\* The harness implements the promise: a pass stands on an accepted checkpoint
\* and is final, an abandoned attempt stays abandoned, the baseline is frozen
\* once, checkpoints move only inside an attempt, the budget is never exceeded.
KeepsPromise == Contract!Promise
=============================================================================
