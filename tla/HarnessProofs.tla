----------------------------- MODULE HarnessProofs -----------------------------
(***************************************************************************)
(* Theorems about Harness for every value of its constants: any number of  *)
(* edits, windows and iterations, any set of accepted contents, and deaths *)
(* of the supervisor wherever CrashPoints allows them.                     *)
(***************************************************************************)
EXTENDS Harness, TLAPS

\* The parts of the typing invariant a step leaves alone stay true.
LEMMA Frame ==
  /\ FilesTyped /\ UNCHANGED files => FilesTyped'
  /\ WorldTyped /\ UNCHANGED world => WorldTyped'
  /\ SupervisorTyped /\ UNCHANGED supVars => SupervisorTyped'
  /\ SnapshotsTyped /\ UNCHANGED rtData => SnapshotsTyped'
  /\ ProgressTyped /\ UNCHANGED <<rt, rtData>> => ProgressTyped'
  /\ HistoryTyped /\ UNCHANGED history => HistoryTyped'
<1>1. FilesTyped /\ UNCHANGED files => FilesTyped'
  BY DEF FilesTyped, files
<1>2. WorldTyped /\ UNCHANGED world => WorldTyped'
  BY DEF WorldTyped, world
<1>3. SupervisorTyped /\ UNCHANGED supVars => SupervisorTyped'
  BY DEF SupervisorTyped, supVars
<1>4. SnapshotsTyped /\ UNCHANGED rtData => SnapshotsTyped'
  BY DEF SnapshotsTyped, rtData
<1>5. ProgressTyped /\ UNCHANGED <<rt, rtData>> => ProgressTyped'
  BY DEF ProgressTyped, rtData
<1>6. HistoryTyped /\ UNCHANGED history => HistoryTyped'
  BY DEF HistoryTyped, history
<1> QED
  BY <1>1, <1>2, <1>3, <1>4, <1>5, <1>6

\* A process that is gone leaves well-typed locals behind.
LEMMA GoneTyped ==
  ASSUME NEW how \in Stages, RuntimeGone(how)
  PROVE  SnapshotsTyped' /\ ProgressTyped'
BY DEF RuntimeGone, SnapshotsTyped, ProgressTyped, Sites, Verdicts, Statuses

\* Leaving the try block of execute keeps the runtime's progress well typed.
LEMMA StopTyped ==
  ASSUME ProgressTyped, NEW o \in Statuses, NEW f \in BOOLEAN, StopWith(o, f)
  PROVE  out' \in Statuses /\ cpErr' \in BOOLEAN /\ rt' \in Stages
BY DEF ProgressTyped, StopWith, Stages

\* What the runtime may write to identity.json.
LEMMA CheckpointTyped ==
  ASSUME TypeOK PROVE Checkpoint \in Identity
BY DEF TypeOK, WorldTyped, SnapshotsTyped, Checkpoint, Identity

\* The supervisor's steps keep the types.
LEMMA SupervisorTypes == TypeOK /\ Supervisor => TypeOK'
<1> SUFFICES ASSUME TypeOK, Supervisor PROVE TypeOK'
  OBVIOUS
<1> USE Frame DEF TypeOK
<1>1. CASE \E k \in {"run", "continue", "resume"} : Invoke(k)
  BY <1>1 DEF Invoke, FilesTyped, SupervisorTyped, Positions
<1>2. CASE CheckIdentity
  BY <1>2 DEF CheckIdentity, FilesTyped, WorldTyped, SupervisorTyped, Positions, Identity
<1>3. CASE CheckResult
  <2>1. FilesTyped'
    BY <1>3 DEF CheckResult, FilesTyped
  <2>2. SupervisorTyped'
    BY <1>3 DEF CheckResult, SupervisorTyped, Positions
  <2>3. HistoryTyped'
    BY <1>3 DEF CheckResult, HistoryTyped
  <2> QED
    BY <1>3, <2>1, <2>2, <2>3 DEF CheckResult
<1>4. CASE OpenWindow
  BY <1>4 DEF OpenWindow, FilesTyped, SupervisorTyped, Positions
<1>5. CASE Launch
  BY <1>5, GoneTyped DEF Launch, SupervisorTyped, Positions, Stages
<1>6. CASE LaunchFails
  BY <1>6 DEF LaunchFails, FilesTyped, SupervisorTyped, Positions, Statuses
<1>7. CASE NoticePause \/ NoticeStop \/ Reap
  BY <1>7 DEF NoticePause, NoticeStop, Reap, SupervisorTyped, Positions
<1>8. CASE Terminate
  BY <1>8, GoneTyped DEF Terminate, SupervisorTyped, Positions, Stages
<1>9. CASE CheckpointPause
  BY <1>9 DEF CheckpointPause, PauseIsSafe, FilesTyped, WorldTyped, SupervisorTyped,
     Positions, Identity, NoIdentity
<1>10. CASE Report \/ Collect \/ SupervisorDies
  BY <1>10 DEF Report, Collect, SupervisorDies, FilesTyped, SupervisorTyped,
     Positions, Statuses
<1> QED
  BY <1>1, <1>2, <1>3, <1>4, <1>5, <1>6, <1>7, <1>8, <1>9, <1>10 DEF Supervisor

\* The runtime's steps keep the types.
LEMMA RuntimeTypes == TypeOK /\ Runtime => TypeOK'
<1> SUFFICES ASSUME TypeOK, Runtime PROVE TypeOK'
  OBVIOUS
<1> USE Frame DEF TypeOK
<1>1. CASE Begin
  BY <1>1 DEF Begin, WorldTyped, SnapshotsTyped, ProgressTyped, Stages, Statuses
<1>2. CASE Claim
  BY <1>2 DEF Claim, WorldTyped, SnapshotsTyped, ProgressTyped, Stages, Sites
<1>3. CASE ClaimFails
  <2>1. out' \in Statuses /\ cpErr' \in BOOLEAN /\ rt' \in Stages
    BY <1>3, StopTyped DEF ClaimFails, Statuses
  <2> QED
    BY <1>3, <2>1 DEF ClaimFails, WorldTyped, SnapshotsTyped, ProgressTyped
<1>4. CASE BoundaryOpens \/ BoundaryPauses
  BY <1>4 DEF BoundaryOpens, BoundaryPauses, WorldTyped, SnapshotsTyped,
     ProgressTyped, Stages, rtData
<1>5. CASE BoundaryFails \/ VerifyInterrupted \/ DispatchRefused \/ WorkerRaises
  <2>1. out' \in Statuses /\ cpErr' \in BOOLEAN /\ rt' \in Stages
    BY <1>5, StopTyped DEF BoundaryFails, VerifyInterrupted, DispatchRefused,
       WorkerRaises, Statuses
  <2> QED
    BY <1>5, <2>1 DEF BoundaryFails, VerifyInterrupted, DispatchRefused, WorkerRaises,
       SnapshotsTyped, ProgressTyped
<1>6. CASE BeforeVerify \/ Verify
  BY <1>6 DEF BeforeVerify, Verify, WorldTyped, SnapshotsTyped, ProgressTyped,
     Stages, Sites
<1>7. CASE Concluded
  <2>1. out' \in Statuses /\ cpErr' \in BOOLEAN /\ rt' \in Stages
    BY <1>7, StopTyped DEF Concluded, ProgressTyped, Verdicts, Statuses
  <2>2. FilesTyped'
    BY <1>7, CheckpointTyped DEF Concluded, VerifierDone, FilesTyped
  <2> QED
    BY <1>7, <2>1, <2>2 DEF Concluded, WorldTyped, SnapshotsTyped, ProgressTyped
<1>8. CASE Rejected
  <2>1. out' \in Statuses /\ cpErr' \in BOOLEAN /\ rt' \in Stages
    BY <1>8, StopTyped DEF Rejected, ProgressTyped, Statuses, Stages
  <2>2. FilesTyped'
    BY <1>8, CheckpointTyped DEF Rejected, VerifierDone, FilesTyped
  <2>3. SnapshotsTyped'
    BY <1>8 DEF Rejected, SnapshotsTyped
  <2>4. fails' \in {fails + 1, 0} /\ site' \in Sites /\ loop' = TRUE
    BY <1>8 DEF Rejected, ProgressTyped, Sites
  <2>5. ProgressTyped'
    BY <1>8, <2>1, <2>4 DEF Rejected, ProgressTyped
  <2> QED
    BY <1>8, <2>2, <2>3, <2>5 DEF Rejected
<1>9. CASE Dispatch \/ StepDone
  BY <1>9 DEF Dispatch, StepDone, FilesTyped, SnapshotsTyped, ProgressTyped,
     Stages, Sites, rtData
<1>10. CASE StartWorker \/ WorkerReturns
  <2>1. ProgressTyped' /\ SnapshotsTyped'
    BY <1>10 DEF StartWorker, WorkerReturns, ProgressTyped, SnapshotsTyped, Stages,
       Sites, rtData
  <2>2. runs' \in {runs, runs + 1} /\ sincePause' \in {sincePause, sincePause + 1}
        /\ foreign' = foreign
    BY <1>10 DEF StartWorker, WorkerReturns, history
  <2>3. HistoryTyped'
    BY <2>2 DEF HistoryTyped
  <2> QED
    BY <1>10, <2>1, <2>3 DEF StartWorker, WorkerReturns
<1>11. CASE Pausing
  <2>1. out' \in Statuses /\ cpErr' \in BOOLEAN /\ rt' \in Stages
    BY <1>11, StopTyped DEF Pausing, Statuses
  <2>2. FilesTyped'
    BY <1>11, CheckpointTyped DEF Pausing, FilesTyped
  <2> QED
    BY <1>11, <2>1, <2>2 DEF Pausing, SnapshotsTyped, ProgressTyped
<1>12. CASE Release
  BY <1>12 DEF Release, WorldTyped, SnapshotsTyped, ProgressTyped, Stages, Statuses
<1>13. CASE Released
  <2>1. FilesTyped'
    BY <1>13, CheckpointTyped DEF Released, FilesTyped
  <2> QED
    BY <1>13, <2>1 DEF Released, WorldTyped, SnapshotsTyped, ProgressTyped, Stages,
       Statuses
<1>14. CASE ReleaseFails
  BY <1>14 DEF ReleaseFails, WorldTyped, SnapshotsTyped, ProgressTyped, Stages,
     Statuses
<1>15. CASE WriteOutcome
  BY <1>15 DEF WriteOutcome, FilesTyped, ProgressTyped, Stages, rtData
<1>16. CASE StampOutcome
  <2>1. FilesTyped'
    BY <1>16 DEF StampOutcome, FilesTyped, ProgressTyped, SupervisorTyped
  <2> QED
    BY <1>16, <2>1, GoneTyped DEF StampOutcome, Stages
<1>17. CASE RuntimeFails \/ WatchParent
  BY <1>17, GoneTyped DEF RuntimeFails, WatchParent, Stages
<1> QED
  BY <1>1, <1>2, <1>3, <1>4, <1>5, <1>6, <1>7, <1>8, <1>9, <1>10, <1>11, <1>12,
     <1>13, <1>14, <1>15, <1>16, <1>17 DEF Runtime

\* The operator's steps keep the types.
LEMMA EnvironmentTypes == TypeOK /\ Environment => TypeOK'
<1> SUFFICES ASSUME TypeOK, Environment PROVE TypeOK'
  OBVIOUS
<1> USE Frame DEF TypeOK
<1>1. CASE Pause
  BY <1>1 DEF Pause, FilesTyped, HistoryTyped
<1>2. CASE Edit
  BY <1>2 DEF Edit, WorldTyped, HistoryTyped, Snapshot
<1>3. CASE Repair
  BY <1>3 DEF Repair, FilesTyped, WorldTyped, Identity
<1> QED
  BY <1>1, <1>2, <1>3 DEF Environment

\* The initial state is well typed.
LEMMA InitTyped == Init => TypeOK
<1> SUFFICES ASSUME Init PROVE TypeOK
  OBVIOUS
<1>1. FilesTyped
  BY DEF Init, FilesTyped
<1>2. WorldTyped /\ HistoryTyped
  BY DEF Init, WorldTyped, HistoryTyped, Snapshot
<1>3. SupervisorTyped
  BY DEF Init, SupervisorTyped, Positions
<1>4. SnapshotsTyped
  BY DEF Init, SnapshotsTyped
<1>5. ProgressTyped
  BY DEF Init, ProgressTyped, Stages, Sites, Statuses, Verdicts
<1> QED
  BY <1>1, <1>2, <1>3, <1>4, <1>5 DEF TypeOK

\* Every step keeps the types.
LEMMA TypesKept == TypeOK /\ [Next]_vars => TypeOK'
<1>1. TypeOK /\ UNCHANGED vars => TypeOK'
  BY Frame DEF TypeOK, vars
<1> QED
  BY <1>1, SupervisorTypes, RuntimeTypes, EnvironmentTypes DEF Next

\* The typing invariant of the harness holds in every reachable state.
THEOREM TypeCorrect == Spec => []TypeOK
BY InitTyped, TypesKept, PTL DEF Spec

-----------------------------------------------------------------------------
(* The dispatch budget.                                                     *)

\* Every start of the worker was journalled first, and the journal never holds
\* more dispatches than the budget.  The worker a journalled dispatch is about
\* to start is the only one not started yet.
BudgetAccounted ==
  /\ runs <= dispatches
  /\ rt = "work" => runs < dispatches
  /\ dispatches <= MaxIterations

LEMMA BudgetStep == TypeOK /\ BudgetAccounted /\ [Next]_vars => BudgetAccounted'
<1> SUFFICES ASSUME TypeOK, BudgetAccounted, [Next]_vars PROVE BudgetAccounted'
  OBVIOUS
<1>1. runs \in Nat /\ dispatches \in Nat /\ MaxIterations \in Nat
  BY BoundAssumption DEF TypeOK, HistoryTyped, FilesTyped
<1> USE <1>1 DEF BudgetAccounted, files, history, rtData, RuntimeGone, StopWith
<1>2. CASE Supervisor
  BY <1>2 DEF Supervisor, Invoke, CheckIdentity, CheckResult, OpenWindow, Launch,
     LaunchFails, NoticePause, NoticeStop, Reap, Terminate, CheckpointPause, Report,
     Collect, SupervisorDies
<1>3. CASE Runtime
  <2>1. CASE Dispatch \/ StartWorker
    BY <2>1 DEF Dispatch, BudgetLeft, StartWorker
  <2>2. CASE Begin \/ Claim \/ ClaimFails \/ BoundaryOpens \/ BoundaryPauses
             \/ BoundaryFails \/ BeforeVerify \/ Verify
    BY <2>2 DEF Begin, Claim, ClaimFails, BoundaryOpens, BoundaryPauses,
       BoundaryFails, BeforeVerify, Verify
  <2>3. CASE VerifyInterrupted \/ Concluded \/ Rejected \/ DispatchRefused
             \/ WorkerReturns \/ WorkerRaises \/ StepDone
    BY <2>3 DEF VerifyInterrupted, Concluded, Rejected, VerifierDone,
       DispatchRefused, WorkerReturns, WorkerRaises, StepDone
  <2>4. CASE Pausing \/ Release \/ Released \/ ReleaseFails \/ WriteOutcome
             \/ StampOutcome \/ RuntimeFails \/ WatchParent
    BY <2>4 DEF Pausing, Release, Released, ReleaseFails, WriteOutcome,
       StampOutcome, RuntimeFails, WatchParent, Alive
  <2> QED
    BY <1>3, <2>1, <2>2, <2>3, <2>4 DEF Runtime
<1>4. CASE Environment
  BY <1>4 DEF Environment, Pause, Edit, Repair
<1>5. CASE UNCHANGED vars
  BY <1>5 DEF vars
<1> QED
  BY <1>2, <1>3, <1>4, <1>5 DEF Next

\* However often the run is killed, paused and resumed, executor.run is called
\* at most max_iterations times: the journal entry that precedes each call
\* survives everything that can end the runtime.
THEOREM BudgetHolds == Spec => []DispatchBudget
<1>1. Init => BudgetAccounted
  BY BoundAssumption DEF Init, BudgetAccounted
<1>2. TypeOK /\ BudgetAccounted => DispatchBudget
  BY BoundAssumption DEF TypeOK, FilesTyped, HistoryTyped, BudgetAccounted, DispatchBudget
<1> QED
  BY <1>1, <1>2, BudgetStep, TypeCorrect, PTL DEF Spec

-----------------------------------------------------------------------------
(* One window at a time, and final results.                                 *)

\* A runtime lives only under a waiting or a dead supervisor, and a window is
\* only opened over a result that is neither unfinished nor a pass.
Exclusion ==
  /\ Alive => sup \in {"idle", "wait", "cleanup"}
  /\ sup = "open" => result.status \notin {"RUNNING", "PASS"}

LEMMA ExclusionStep == Exclusion /\ [Next]_vars => Exclusion'
<1> SUFFICES ASSUME Exclusion, [Next]_vars PROVE Exclusion'
  OBVIOUS
<1> USE DEF Exclusion, Alive, files, supVars, RuntimeGone, StopWith
<1>1. CASE Supervisor
  <2>1. CASE (\E k \in {"run", "continue", "resume"} : Invoke(k)) \/ CheckIdentity
             \/ CheckResult \/ OpenWindow \/ Launch \/ LaunchFails
    BY <2>1 DEF Invoke, LockFree, CheckIdentity, CheckResult, MayOpen, OpenWindow,
       Launch, LaunchFails
  <2>2. CASE NoticePause \/ NoticeStop \/ Reap \/ Terminate \/ CheckpointPause
             \/ Report \/ Collect \/ SupervisorDies
    BY <2>2 DEF NoticePause, NoticeStop, Reap, Terminate, CheckpointPause, Report,
       Collect, SupervisorDies
  <2> QED
    BY <1>1, <2>1, <2>2 DEF Supervisor
<1>2. CASE Runtime
  <2>1. CASE Begin \/ Claim \/ ClaimFails \/ BoundaryOpens \/ BoundaryPauses
             \/ BoundaryFails \/ BeforeVerify \/ Verify
    BY <2>1 DEF Begin, Claim, ClaimFails, BoundaryOpens, BoundaryPauses,
       BoundaryFails, BeforeVerify, Verify
  <2>2. CASE VerifyInterrupted \/ Concluded \/ Rejected \/ Dispatch
             \/ DispatchRefused \/ StartWorker \/ WorkerReturns \/ WorkerRaises
             \/ StepDone
    BY <2>2 DEF VerifyInterrupted, Concluded, Rejected, VerifierDone, Dispatch,
       DispatchRefused, StartWorker, WorkerReturns, WorkerRaises, StepDone
  <2>3. CASE Pausing \/ Release \/ Released \/ ReleaseFails \/ WriteOutcome
             \/ StampOutcome \/ RuntimeFails \/ WatchParent
    BY <2>3 DEF Pausing, Release, Released, ReleaseFails, WriteOutcome,
       StampOutcome, RuntimeFails, WatchParent
  <2> QED
    BY <1>2, <2>1, <2>2, <2>3 DEF Runtime
<1>3. CASE Environment
  BY <1>3 DEF Environment, Pause, Edit, Repair
<1>4. CASE UNCHANGED vars
  BY <1>4 DEF vars
<1> QED
  BY <1>1, <1>2, <1>3, <1>4 DEF Next

\* Outside a window no step touches a pass or an unfinished result, nor the
\* checkpoint that belongs to it.
LEMMA FinalStep ==
  ASSUME Exclusion, [Next]_vars, ~InWindow, result.status \in {"RUNNING", "PASS"}
  PROVE  result' = result /\ identity' = identity
<1> USE DEF Exclusion, InWindow, Alive, files, world
<1>1. CASE Supervisor
  BY <1>1 DEF Supervisor, Invoke, CheckIdentity, CheckResult, OpenWindow, Launch,
     LaunchFails, NoticePause, NoticeStop, Reap, Terminate, CheckpointPause, Report,
     Collect, SupervisorDies
<1>2. CASE Runtime
  BY <1>2 DEF Runtime, Begin, Claim, ClaimFails, BoundaryOpens, BoundaryPauses,
     BoundaryFails, BeforeVerify, Verify, VerifyInterrupted, Concluded, Rejected,
     VerifierDone, Dispatch, DispatchRefused, StartWorker, WorkerReturns,
     WorkerRaises, StepDone, Pausing, Release, Released, ReleaseFails, WriteOutcome,
     StampOutcome, RuntimeFails, WatchParent
<1>3. CASE Environment
  BY <1>3 DEF Environment, Pause, Edit, Repair
<1>4. CASE UNCHANGED vars
  BY <1>4 DEF vars
<1> QED
  BY <1>1, <1>2, <1>3, <1>4 DEF Next

\* The result of a supervisor that died in its window, and a verified pass, are
\* never overwritten by a later entry.
THEOREM ResultsAreFinal == Spec => FinishedIsFinal
<1>1. Init => Exclusion
  BY DEF Init, Exclusion, Alive
<1>2. Exclusion /\ [Next]_vars =>
        [~InWindow /\ result.status \in {"RUNNING", "PASS"} =>
           result' = result /\ identity' = identity]_vars
  BY FinalStep
<1> QED
  BY <1>1, <1>2, ExclusionStep, PTL DEF Spec, FinishedIsFinal

-----------------------------------------------------------------------------
(* The frozen baseline.                                                     *)

\* Stages in which the runtime has passed its resume guard and not yet left
\* the code that writes identity.json.
Started == {"claim", "boundary", "adapter", "verify", "work", "working", "pausing",
            "release", "releasing"}

\* What a started runtime compares the workspace with is the persisted baseline.
BaselineKnown ==
  rt \in Started =>
    /\ identity # NoIdentity /\ before \in Snapshot
    /\ fp = identity.fingerprint /\ before.rest = identity.snapshot.rest

\* A checkpoint written by the runtime carries the baseline over.
LEMMA CheckpointKeepsBaseline ==
  ASSUME TypeOK, BaselineKnown, rt \in Started, CheckedSnapshot,
         identity' = Checkpoint
  PROVE  /\ identity' # NoIdentity
         /\ identity'.fingerprint = identity.fingerprint
         /\ identity'.snapshot.rest = identity.snapshot.rest
BY DEF TypeOK, WorldTyped, SnapshotsTyped, BaselineKnown, CheckedSnapshot, Checkpoint,
   Guard, Snapshot, NoIdentity

\* No step moves the baseline once it is frozen.
LEMMA BaselineStep ==
  ASSUME TypeOK, BaselineKnown, [Next]_vars, identity # NoIdentity
  PROVE  /\ identity'.fingerprint = identity.fingerprint
         /\ identity'.snapshot.rest = identity.snapshot.rest
         /\ identity' # NoIdentity
<1>1. CASE identity' = identity
  BY <1>1
<1>2. CASE CheckpointPause
  BY <1>2 DEF CheckpointPause, PauseIsSafe, Guard, TypeOK, FilesTyped, WorldTyped,
     Identity, Snapshot, NoIdentity
<1>3. CASE VerifierDone \/ Pausing \/ Released
  <2>1. identity' = identity \/ (rt \in Started /\ CheckedSnapshot /\ identity' = Checkpoint)
    BY <1>3 DEF VerifierDone, VerdictStands, AfterAdapter, Pausing, Released, Started
  <2> QED
    BY <2>1, CheckpointKeepsBaseline
<1>4. identity' = identity \/ CheckpointPause \/ VerifierDone \/ Pausing \/ Released
  <2>1. CASE Supervisor
    BY <2>1 DEF Supervisor, Invoke, CheckIdentity, CheckResult, OpenWindow, Launch,
       LaunchFails, NoticePause, NoticeStop, Reap, Terminate, Report, Collect,
       SupervisorDies, files
  <2>2. CASE Runtime
    BY <2>2 DEF Runtime, Begin, Claim, ClaimFails, BoundaryOpens, BoundaryPauses,
       BoundaryFails, BeforeVerify, Verify, VerifyInterrupted, Concluded, Rejected,
       Dispatch, DispatchRefused, StartWorker, WorkerReturns, WorkerRaises, StepDone,
       Release, ReleaseFails, WriteOutcome, StampOutcome, RuntimeFails, WatchParent,
       files
  <2>3. CASE Environment
    BY <2>3 DEF Environment, Pause, Edit, Repair, files
  <2>4. CASE UNCHANGED vars
    BY <2>4 DEF vars, files
  <2> QED
    BY <2>1, <2>2, <2>3, <2>4 DEF Next
<1> QED
  BY <1>1, <1>2, <1>3, <1>4

\* A runtime only starts working on the baseline it found.
LEMMA KnownStep == TypeOK /\ BaselineKnown /\ [Next]_vars => BaselineKnown'
<1> SUFFICES ASSUME TypeOK, BaselineKnown, [Next]_vars, rt' \in Started
             PROVE  BaselineKnown'
  BY DEF BaselineKnown
<1>1. CASE Begin
  BY <1>1 DEF Begin, ResumeMatches, Guard, BaselineKnown, Started, TypeOK, FilesTyped,
     WorldTyped, SnapshotsTyped, Identity, NoIdentity, files
<1>2. CASE ~Begin
  <2>1. rt \in Started /\ before' = before /\ fp' = fp
    <3>1. CASE Supervisor
      BY <1>2, <3>1 DEF Supervisor, Invoke, CheckIdentity, CheckResult, OpenWindow,
         Launch, LaunchFails, NoticePause, NoticeStop, Reap, Terminate,
         CheckpointPause, Report, Collect, SupervisorDies, rtData, RuntimeGone, Started
    <3>2. CASE Runtime
      <4>1. CASE Claim \/ ClaimFails \/ BoundaryOpens \/ BoundaryPauses
                 \/ BoundaryFails \/ BeforeVerify \/ Verify \/ VerifyInterrupted
        BY <4>1 DEF Claim, ClaimFails, BoundaryOpens, BoundaryPauses, BoundaryFails,
           BeforeVerify, Verify, VerifyInterrupted, rtData, Started
      <4>2. CASE Concluded \/ Rejected \/ Dispatch \/ DispatchRefused
                 \/ StartWorker \/ WorkerReturns \/ WorkerRaises \/ StepDone
        BY <4>2 DEF Concluded, Rejected, VerifierDone, Dispatch, DispatchRefused,
           StartWorker, WorkerReturns, WorkerRaises, StepDone, rtData, Started
      <4>3. CASE Pausing \/ Release \/ Released \/ ReleaseFails \/ WriteOutcome
                 \/ StampOutcome \/ RuntimeFails \/ WatchParent
        BY <4>3 DEF Pausing, Release, Released, ReleaseFails, WriteOutcome,
           StampOutcome, RuntimeFails, WatchParent, RuntimeGone, rtData, Started
      <4> QED
        BY <1>2, <3>2, <4>1, <4>2, <4>3 DEF Runtime
    <3>3. CASE Environment
      BY <3>3 DEF Environment, Pause, Edit, Repair, rtData
    <3>4. CASE UNCHANGED vars
      BY <3>4 DEF vars, rtData
    <3> QED
      BY <3>1, <3>2, <3>3, <3>4 DEF Next
  <2> QED
    BY <2>1, BaselineStep DEF BaselineKnown
<1> QED
  BY <1>1, <1>2

\* From its first entry on, the run's control fingerprint and everything outside
\* its declared scope never change in identity.json: no path, not the child's,
\* not a pause, not a resume, adopts drift.
THEOREM BaselineIsFrozen == Spec => BaselineFrozen
<1>1. Init => BaselineKnown
  BY DEF Init, BaselineKnown, Started
<1>2. TypeOK /\ BaselineKnown /\ [Next]_vars =>
        [identity # NoIdentity =>
           /\ identity'.fingerprint = identity.fingerprint
           /\ identity'.snapshot.rest = identity.snapshot.rest]_vars
  BY BaselineStep
<1> QED
  BY <1>1, <1>2, KnownStep, TypeCorrect, PTL DEF Spec, BaselineFrozen

-----------------------------------------------------------------------------
(* A pause stops the run.                                                   *)

\* Under a pause the dispatch that had already passed its boundary is the only
\* one that can still start: no boundary lets another one through.
PauseHeeded ==
  /\ sincePause <= 1
  /\ pause /\ rt \in {"adapter", "verify", "work"} => sincePause = 0

LEMMA PauseStep == TypeOK /\ PauseHeeded /\ [Next]_vars => PauseHeeded'
<1> SUFFICES ASSUME TypeOK, PauseHeeded, [Next]_vars PROVE PauseHeeded'
  OBVIOUS
<1>1. sincePause \in Nat
  BY DEF TypeOK, HistoryTyped
<1> USE <1>1 DEF PauseHeeded, files, history, RuntimeGone, StopWith
<1>2. CASE Supervisor
  BY <1>2 DEF Supervisor, Invoke, CheckIdentity, CheckResult, OpenWindow, Launch,
     LaunchFails, NoticePause, NoticeStop, Reap, Terminate, CheckpointPause, Report,
     Collect, SupervisorDies
<1>3. CASE Runtime
  <2>1. CASE BoundaryOpens \/ StartWorker
    BY <2>1 DEF BoundaryOpens, MayCross, StartWorker
  <2>2. CASE Begin \/ Claim \/ ClaimFails \/ BoundaryPauses
    BY <2>2 DEF Begin, Claim, ClaimFails, BoundaryPauses
  <2>5. CASE BoundaryFails \/ BeforeVerify \/ Verify
    BY <2>5 DEF BoundaryFails, BeforeVerify, Verify
  <2>3. CASE VerifyInterrupted \/ Concluded \/ Rejected \/ Dispatch \/ DispatchRefused
             \/ WorkerReturns \/ WorkerRaises \/ StepDone
    BY <2>3 DEF VerifyInterrupted, Concluded, Rejected, VerifierDone, Dispatch,
       DispatchRefused, WorkerReturns, WorkerRaises, StepDone
  <2>4. CASE Pausing \/ Release \/ Released \/ ReleaseFails \/ WriteOutcome
             \/ StampOutcome \/ RuntimeFails \/ WatchParent
    BY <2>4 DEF Pausing, Release, Released, ReleaseFails, WriteOutcome, StampOutcome,
       RuntimeFails, WatchParent
  <2> QED
    BY <1>3, <2>1, <2>2, <2>3, <2>4, <2>5 DEF Runtime
<1>4. CASE Environment
  BY <1>4 DEF Environment, Pause, Edit, Repair
<1>5. CASE UNCHANGED vars
  BY <1>5 DEF vars
<1> QED
  BY <1>2, <1>3, <1>4, <1>5 DEF Next

\* Wherever the run is when pause.json appears, the worker is started at most
\* once more before somebody resumes.
THEOREM PauseHolds == Spec => []PauseStopsDispatch
<1>1. Init => PauseHeeded
  BY DEF Init, PauseHeeded
<1>2. PauseHeeded => PauseStopsDispatch
  BY DEF PauseHeeded, PauseStopsDispatch
<1> QED
  BY <1>1, <1>2, PauseStep, TypeCorrect, PTL DEF Spec

-----------------------------------------------------------------------------
(* Edits between two windows.                                               *)

\* What was written while nobody attended the run is neither checkpointed nor
\* in the scoped sources once an entry has passed its resume guard; an edit is
\* newer than both.
ForeignApart ==
  /\ ws.scope <= edits /\ identity.snapshot.scope <= edits
  /\ identity.snapshot.scope \notin foreign
  /\ identity = NoIdentity => foreign = {}
  /\ \A version \in foreign : version <= edits
  /\ ~Unattended => ws.scope \notin foreign

\* A checkpoint is taken of the workspace, at the run's first entry or inside a
\* window.
LEMMA CheckpointTaken ==
  ASSUME TypeOK, [Next]_vars, identity' # identity
  PROVE  identity'.snapshot = ws /\ (identity = NoIdentity \/ ~Unattended)
<1>1. CASE Supervisor
  <2>1. CASE CheckIdentity
    BY <2>1 DEF CheckIdentity
  <2>2. CASE CheckpointPause
    <3>1. identity' = [identity EXCEPT !.snapshot = ws] /\ sup = "checkpoint"
          /\ identity.fingerprint = controls
      BY <2>2 DEF CheckpointPause, PauseIsSafe
    <3>2. identity \in Identity
      BY <3>1 DEF TypeOK, FilesTyped, WorldTyped, NoIdentity
    <3> QED
      BY <3>1, <3>2 DEF Identity, Unattended
  <2> QED
    BY <1>1, <2>1, <2>2 DEF Supervisor, Invoke, CheckResult, OpenWindow, Launch,
       LaunchFails, NoticePause, NoticeStop, Reap, Terminate, Report, Collect,
       SupervisorDies, files
<1>2. CASE Runtime
  <2>1. identity' = Checkpoint /\ Alive
    BY <1>2 DEF Runtime, Begin, Claim, ClaimFails, BoundaryOpens, BoundaryPauses,
       BoundaryFails, BeforeVerify, Verify, VerifyInterrupted, VerifierDone, Concluded,
       Rejected, Dispatch, DispatchRefused, StartWorker, WorkerReturns, WorkerRaises,
       StepDone, Pausing, Release, Released, ReleaseFails, WriteOutcome, StampOutcome,
       RuntimeFails, WatchParent, files, Alive
  <2> QED
    BY <2>1 DEF Checkpoint, Unattended
<1>3. CASE Environment
  BY <1>3 DEF Environment, Pause, Edit, Repair, files
<1>4. CASE UNCHANGED vars
  BY <1>4 DEF vars, files
<1> QED
  BY <1>1, <1>2, <1>3, <1>4 DEF Next

\* Nobody gets inside but past the resume guard, with the checkpoint's sources.
LEMMA EnteredByGuard ==
  ASSUME [Next]_vars, Unattended, ~Unattended'
  PROVE  identity'.snapshot = ws /\ ws' = ws
<1>1. CASE Supervisor
  BY <1>1 DEF Supervisor, Invoke, CheckIdentity, ResumeMatches, Guard, CheckResult,
     OpenWindow, Launch, LaunchFails, NoticePause, NoticeStop, Reap, Terminate,
     CheckpointPause, Report, Collect, SupervisorDies, Unattended, Alive, RuntimeGone,
     world
<1>2. CASE Runtime
  <2>1. Alive
    BY <1>2 DEF Runtime, Begin, Claim, ClaimFails, BoundaryOpens, BoundaryPauses,
       BoundaryFails, BeforeVerify, Verify, VerifyInterrupted, VerifierDone, Concluded,
       Rejected, Dispatch, DispatchRefused, StartWorker, WorkerReturns, WorkerRaises,
       StepDone, Pausing, Release, Released, ReleaseFails, WriteOutcome, StampOutcome,
       RuntimeFails, WatchParent, Alive
  <2> QED
    BY <2>1 DEF Unattended
<1>3. CASE Environment
  BY <1>3 DEF Environment, Pause, Edit, Repair, Unattended, Alive, supVars
<1>4. CASE UNCHANGED vars
  BY <1>4 DEF vars, supVars, Unattended, Alive
<1> QED
  BY <1>1, <1>2, <1>3, <1>4 DEF Next

LEMMA ForeignStep ==
  TypeOK /\ BaselineKnown /\ ForeignApart /\ [Next]_vars => ForeignApart'
<1> SUFFICES ASSUME TypeOK, BaselineKnown, ForeignApart, [Next]_vars
             PROVE  ForeignApart'
  OBVIOUS
<1>1. /\ edits \in Nat /\ foreign \subseteq Nat /\ ws \in Snapshot
      /\ identity \in Identity \cup {NoIdentity}
  BY DEF TypeOK, WorldTyped, FilesTyped, HistoryTyped
<1>2. identity' = NoIdentity => identity = NoIdentity
  BY BaselineStep
<1>3. CASE Edit
  <2>1. identity' = identity /\ edits' = edits + 1 /\ Unattended' = Unattended
    BY <1>3 DEF Edit, files, supVars, Unattended, Alive
  <2>2. /\ ws'.scope \in {ws.scope, edits + 1}
        /\ \/ foreign' = foreign
           \/ /\ Unattended /\ identity # NoIdentity
              /\ foreign' = foreign \cup {edits + 1}
    <3>1. ws'.scope \in {ws.scope, edits + 1}
      BY <1>1, <1>3 DEF Edit, Snapshot
    <3>2. \/ foreign' = foreign
          \/ /\ Unattended /\ identity # NoIdentity
             /\ foreign' = foreign \cup {edits + 1}
      BY <1>3 DEF Edit
    <3> QED
      BY <3>1, <3>2
  <2>3. edits + 1 \notin foreign /\ identity.snapshot.scope # edits + 1
    BY <1>1 DEF ForeignApart, Identity, Snapshot, NoIdentity, NoSnapshot
  <2>4. ws'.scope <= edits' /\ identity'.snapshot.scope <= edits'
    BY <1>1, <2>1, <2>2 DEF ForeignApart, Identity, Snapshot, NoIdentity, NoSnapshot
  <2>5. \A version \in foreign' : version <= edits'
    <3> TAKE version \in foreign'
    <3>1. version = edits + 1 \/ version \in foreign
      BY <2>2
    <3>2. version \in foreign => version \in Nat /\ version <= edits
      BY <1>1 DEF ForeignApart
    <3> QED
      BY <1>1, <2>1, <3>1, <3>2
  <2>6. identity'.snapshot.scope \notin foreign'
    BY <2>1, <2>2, <2>3 DEF ForeignApart
  <2>7. ~Unattended' => ws'.scope \notin foreign'
    BY <2>1, <2>2, <2>3 DEF ForeignApart
  <2>8. identity' = NoIdentity => foreign' = {}
    BY <2>1, <2>2 DEF ForeignApart
  <2> QED
    BY <2>4, <2>5, <2>6, <2>7, <2>8 DEF ForeignApart
<1>4. CASE Repair
  <2>1. /\ foreign' = foreign /\ edits' = edits /\ identity' = identity
        /\ Unattended' /\ ws' = identity.snapshot
    BY <1>4 DEF Repair, LockFree, Unattended, Alive, files, history, supVars
  <2> QED
    BY <2>1 DEF ForeignApart
<1>5. CASE ~Edit /\ ~Repair
  <2>1. foreign' = foreign /\ edits' = edits /\ ws' = ws
    BY <1>5 DEF Next, Supervisor, Invoke, CheckIdentity, CheckResult, OpenWindow, Launch,
       LaunchFails, NoticePause, NoticeStop, Reap, Terminate, CheckpointPause, Report,
       Collect, SupervisorDies, Runtime, Begin, Claim, ClaimFails, BoundaryOpens,
       BoundaryPauses, BoundaryFails, BeforeVerify, Verify, VerifyInterrupted, Concluded,
       Rejected, Dispatch, DispatchRefused, StartWorker, WorkerReturns, WorkerRaises,
       StepDone, Pausing, Release, Released, ReleaseFails, WriteOutcome, StampOutcome,
       RuntimeFails, WatchParent, Environment, Pause, vars, world, history
  <2>2. identity'.snapshot.scope \notin foreign /\ identity'.snapshot.scope <= edits
    BY CheckpointTaken DEF ForeignApart
  <2>3. ~Unattended' => ws.scope \notin foreign
    BY <2>2, EnteredByGuard DEF ForeignApart
  <2> QED
    BY <1>2, <2>1, <2>2, <2>3 DEF ForeignApart
<1> QED
  BY <1>3, <1>4, <1>5

\* Edits made while no window was open are never adopted as the worker's
\* progress: no entry checkpoints them, whatever dies, pauses or resumes.
THEOREM ForeignHolds == Spec => []NoForeignCheckpoint
<1>1. Init => BaselineKnown /\ ForeignApart
  BY DEF Init, BaselineKnown, Started, ForeignApart, Unattended, Alive, NoIdentity,
     NoSnapshot
<1>2. ForeignApart => NoForeignCheckpoint
  BY DEF ForeignApart, NoForeignCheckpoint
<1> QED
  BY <1>1, <1>2, ForeignStep, KnownStep, TypeCorrect, PTL DEF Spec

-----------------------------------------------------------------------------
(* The central promise: a verified PASS that a later entry will trust       *)
(* stands on sources the verifier accepted.  The argument follows a verdict *)
(* from the sources the verifier read to result.json and identity.json.     *)


\* Content is never older than the newest edit: an edit in a window produces
\* contents no earlier snapshot can hold.
Versions ==
  /\ ws.scope <= edits /\ controls <= edits /\ fp <= edits
  /\ identity.snapshot.scope <= edits /\ identity.fingerprint <= edits

LEMMA VersionsStep == TypeOK /\ Versions /\ [Next]_vars => Versions'
<1> SUFFICES ASSUME TypeOK, Versions, [Next]_vars PROVE Versions'
  OBVIOUS
<1>1. /\ edits \in Nat /\ controls \in Nat /\ fp \in Nat /\ ws \in Snapshot
      /\ identity \in Identity \cup {NoIdentity}
  BY DEF TypeOK, WorldTyped, SnapshotsTyped, FilesTyped
<1>2. edits \in Nat /\ ws.scope \in Nat /\ controls \in Nat
  BY <1>1 DEF Snapshot
<1> USE DEF Versions, files, world, rtData, RuntimeGone, StopWith
<1>3. CASE Supervisor
  <2>1. CASE CheckIdentity
    BY <2>1 DEF CheckIdentity
  <2>2. CASE CheckpointPause
    <3>1. identity.fingerprint = controls => identity \in Identity
      BY <1>1, <1>2 DEF NoIdentity
    <3>2. /\ identity' = identity \/ identity' = [identity EXCEPT !.snapshot = ws]
          /\ identity' # identity => identity \in Identity
      BY <2>2, <3>1 DEF CheckpointPause, PauseIsSafe
    <3>3. /\ identity'.snapshot.scope \in {identity.snapshot.scope, ws.scope}
          /\ identity'.fingerprint = identity.fingerprint
      BY <3>2 DEF Identity
    <3>4. ws' = ws /\ edits' = edits /\ controls' = controls /\ fp' = fp
      BY <2>2 DEF CheckpointPause
    <3> QED
      BY <3>3, <3>4
  <2>3. CASE (\E k \in {"run", "continue", "resume"} : Invoke(k)) \/ CheckResult
             \/ OpenWindow \/ LaunchFails \/ NoticePause \/ NoticeStop \/ Reap
             \/ Report \/ Collect \/ SupervisorDies
    BY <2>3 DEF Invoke, CheckResult, OpenWindow, LaunchFails, NoticePause, NoticeStop,
       Reap, Report, Collect, SupervisorDies
  <2>4. CASE Launch \/ Terminate
    BY <1>2, <2>4 DEF Launch, Terminate
  <2> QED
    BY <1>3, <2>1, <2>2, <2>3, <2>4 DEF Supervisor
<1>4. CASE Runtime
  <2>1. CASE Begin \/ Claim \/ ClaimFails \/ BoundaryOpens \/ BoundaryPauses
             \/ BoundaryFails \/ BeforeVerify \/ Verify
    BY <2>1 DEF Begin, Claim, ClaimFails, BoundaryOpens, BoundaryPauses,
       BoundaryFails, BeforeVerify, Verify
  <2>2. CASE VerifyInterrupted \/ Concluded \/ Rejected \/ Dispatch
             \/ DispatchRefused \/ StartWorker \/ WorkerReturns \/ WorkerRaises
             \/ StepDone
    BY <2>2 DEF VerifyInterrupted, Concluded, Rejected, VerifierDone, Checkpoint,
       Dispatch, DispatchRefused, StartWorker, WorkerReturns, WorkerRaises, StepDone
  <2>3. CASE Pausing \/ Released
    BY <2>3 DEF Pausing, Released, Checkpoint
  <2>4. CASE Release \/ ReleaseFails \/ WriteOutcome
    BY <2>4 DEF Release, ReleaseFails, WriteOutcome
  <2>5. CASE StampOutcome \/ RuntimeFails \/ WatchParent
    BY <1>2, <2>5 DEF StampOutcome, RuntimeFails, WatchParent
  <2> QED
    BY <1>4, <2>1, <2>2, <2>3, <2>4, <2>5 DEF Runtime
<1>5. CASE Pause \/ Repair
  BY <1>5 DEF Pause, Repair
<1>6. CASE Edit
  <2>1. edits' = edits + 1 /\ identity' = identity /\ fp' = fp
    BY <1>6 DEF Edit
  <2>2. ws'.scope \in {ws.scope, edits + 1} /\ controls' \in {controls, edits + 1}
    BY <1>1, <1>6 DEF Edit, Snapshot
  <2>3. identity.snapshot.scope \in Int /\ identity.fingerprint \in Int
    BY <1>1 DEF Identity, NoIdentity, NoSnapshot, Snapshot
  <2> QED
    BY <1>1, <1>2, <2>1, <2>2, <2>3
<1>7. CASE UNCHANGED vars
  BY <1>7 DEF vars
<1> QED
  BY <1>3, <1>4, <1>5, <1>6, <1>7 DEF Next, Environment

\* While the runtime lives, result.json says RUNNING until the runtime itself
\* writes its outcome.
RunningOnDisk ==
  /\ sup = "launch" => result.status = "RUNNING"
  /\ Alive /\ rt # "stamp" => result.status = "RUNNING"
  /\ rt = "stamp" => result.status = out

LEMMA RunningStep == Exclusion /\ RunningOnDisk /\ [Next]_vars => RunningOnDisk'
<1> SUFFICES ASSUME Exclusion, RunningOnDisk, [Next]_vars PROVE RunningOnDisk'
  OBVIOUS
<1> USE DEF RunningOnDisk, Exclusion, Alive, files, supVars, rtData, RuntimeGone, StopWith
<1>1. CASE Supervisor
  <2>1. CASE (\E k \in {"run", "continue", "resume"} : Invoke(k)) \/ CheckIdentity
             \/ CheckResult \/ OpenWindow \/ Launch \/ LaunchFails
    BY <2>1 DEF Invoke, LockFree, CheckIdentity, CheckResult, MayOpen, OpenWindow,
       Launch, LaunchFails
  <2>2. CASE NoticePause \/ NoticeStop \/ Reap \/ Terminate \/ CheckpointPause
             \/ Report \/ Collect \/ SupervisorDies
    BY <2>2 DEF NoticePause, NoticeStop, Reap, Terminate, CheckpointPause, Report,
       Collect, SupervisorDies
  <2> QED
    BY <1>1, <2>1, <2>2 DEF Supervisor
<1>2. CASE Runtime
  <2>1. CASE Begin \/ Claim \/ ClaimFails \/ BoundaryOpens \/ BoundaryPauses
             \/ BoundaryFails \/ BeforeVerify \/ Verify
    BY <2>1 DEF Begin, Claim, ClaimFails, BoundaryOpens, BoundaryPauses,
       BoundaryFails, BeforeVerify, Verify
  <2>2. CASE VerifyInterrupted \/ Concluded \/ Rejected \/ Dispatch
             \/ DispatchRefused \/ StartWorker \/ WorkerReturns \/ WorkerRaises
             \/ StepDone
    BY <2>2 DEF VerifyInterrupted, Concluded, Rejected, VerifierDone, Dispatch,
       DispatchRefused, StartWorker, WorkerReturns, WorkerRaises, StepDone
  <2>3. CASE Pausing \/ Release \/ Released \/ ReleaseFails
    BY <2>3 DEF Pausing, Release, Released, ReleaseFails
  <2>4. CASE WriteOutcome
    BY <2>4 DEF WriteOutcome
  <2>5. CASE StampOutcome \/ RuntimeFails \/ WatchParent
    BY <2>5 DEF StampOutcome, RuntimeFails, WatchParent
  <2> QED
    BY <1>2, <2>1, <2>2, <2>3, <2>4, <2>5 DEF Runtime
<1>3. CASE Environment
  BY <1>3 DEF Environment, Pause, Edit, Repair
<1>4. CASE UNCHANGED vars
  BY <1>4 DEF vars
<1> QED
  BY <1>1, <1>2, <1>3, <1>4 DEF Next

\* Inside the claimed part of execute() the claim is held, and an outcome is
\* PASS only once the code is past it.
ClaimedInside ==
  /\ rt \in {"boundary", "adapter", "verify", "work", "working"} => claimed
  /\ out = "PASS" => rt \in {"release", "releasing", "write", "stamp"}

LEMMA ClaimedStep == ClaimedInside /\ [Next]_vars => ClaimedInside'
<1> SUFFICES ASSUME ClaimedInside, [Next]_vars PROVE ClaimedInside'
  OBVIOUS
<1> USE DEF ClaimedInside, rtData, RuntimeGone, StopWith
<1>1. CASE Supervisor
  BY <1>1 DEF Supervisor, Invoke, CheckIdentity, CheckResult, OpenWindow, Launch,
     LaunchFails, NoticePause, NoticeStop, Reap, Terminate, CheckpointPause, Report,
     Collect, SupervisorDies
<1>2. CASE Runtime
  <2>1. CASE Begin \/ Claim \/ ClaimFails \/ BoundaryOpens \/ BoundaryPauses
    BY <2>1 DEF Begin, Claim, ClaimFails, BoundaryOpens, BoundaryPauses
  <2>2. CASE BoundaryFails \/ BeforeVerify \/ Verify \/ VerifyInterrupted
    BY <2>2 DEF BoundaryFails, BeforeVerify, Verify, VerifyInterrupted
  <2>3. CASE Concluded \/ Rejected
    BY <2>3 DEF Concluded, Rejected, VerifierDone
  <2>4. CASE Dispatch \/ DispatchRefused \/ StartWorker \/ WorkerReturns
             \/ WorkerRaises \/ StepDone
    BY <2>4 DEF Dispatch, DispatchRefused, StartWorker, WorkerReturns, WorkerRaises,
       StepDone
  <2>5. CASE Pausing \/ Release \/ Released \/ ReleaseFails
    BY <2>5 DEF Pausing, Release, Released, ReleaseFails
  <2>6. CASE WriteOutcome \/ StampOutcome \/ RuntimeFails \/ WatchParent
    BY <2>6 DEF WriteOutcome, StampOutcome, RuntimeFails, WatchParent
  <2> QED
    BY <1>2, <2>1, <2>2, <2>3, <2>4, <2>5, <2>6 DEF Runtime
<1>3. CASE Environment
  BY <1>3 DEF Environment, Pause, Edit, Repair
<1>4. CASE UNCHANGED vars
  BY <1>4 DEF vars
<1> QED
  BY <1>1, <1>2, <1>3, <1>4 DEF Next

-----------------------------------------------------------------------------
(* From the verifier's reading to its verdict.                              *)

\* The verifier reads something between the snapshot before it and the present
\* workspace; a PASS on other controls than the frozen ones is visible in them.
VerdictInformed ==
  /\ rt = "verify" => checked.scope <= ws.scope /\ checked \in Snapshot
  /\ rt \in {"boundary", "adapter"} /\ site = "postVerify" =>
       /\ checked \in Snapshot /\ seen \in Snapshot
       /\ checked.scope <= seen.scope /\ seen.scope <= ws.scope
       /\ verdict = "PASS" => seen.scope \in Good \/ controls # fp

LEMMA InformedStep ==
  TypeOK /\ Versions /\ VerdictInformed /\ [Next]_vars => VerdictInformed'
<1> SUFFICES ASSUME TypeOK, Versions, VerdictInformed, [Next]_vars
             PROVE  VerdictInformed'
  OBVIOUS
<1>1. ws \in Snapshot /\ edits \in Nat /\ controls \in Nat /\ fp \in Nat
  BY DEF TypeOK, WorldTyped, SnapshotsTyped
<1>2. ws.scope \in Nat
  BY <1>1 DEF Snapshot
<1> USE DEF VerdictInformed, rtData, world
<1>3. CASE Supervisor
  <2>1. CASE Launch \/ Terminate
    BY <2>1 DEF Launch, Terminate, RuntimeGone
  <2>2. CASE (\E k \in {"run", "continue", "resume"} : Invoke(k)) \/ CheckIdentity
             \/ CheckResult \/ OpenWindow \/ LaunchFails \/ NoticePause \/ NoticeStop
             \/ Reap \/ CheckpointPause \/ Report \/ Collect \/ SupervisorDies
    BY <2>2 DEF Invoke, CheckIdentity, CheckResult, OpenWindow, LaunchFails,
       NoticePause, NoticeStop, Reap, CheckpointPause, Report, Collect, SupervisorDies
  <2> QED
    BY <1>3, <2>1, <2>2 DEF Supervisor
<1>4. CASE Runtime
  <2>1. CASE BeforeVerify
    BY <1>1, <1>2, <2>1 DEF BeforeVerify
  <2>2. CASE Verify
    BY <1>1, <1>2, <2>2 DEF Verify, CanConclude
  <2>3. CASE Claim \/ WorkerReturns \/ StepDone
    BY <2>3 DEF Claim, WorkerReturns, StepDone
  <2>4. CASE Rejected
    BY <2>4 DEF Rejected, VerifierDone, StopWith
  <2>5. CASE BoundaryOpens
    BY <2>5 DEF BoundaryOpens
  <2>6. CASE Begin \/ ClaimFails \/ BoundaryPauses \/ BoundaryFails \/ VerifyInterrupted
    BY <2>6 DEF Begin, ClaimFails, BoundaryPauses, BoundaryFails, VerifyInterrupted,
       StopWith
  <2>7. CASE Concluded \/ Dispatch \/ DispatchRefused \/ StartWorker \/ WorkerRaises
    BY <2>7 DEF Concluded, VerifierDone, Dispatch, DispatchRefused, StartWorker,
       WorkerRaises, StopWith
  <2>8. CASE Pausing \/ Release \/ Released \/ ReleaseFails
    BY <2>8 DEF Pausing, Release, Released, ReleaseFails, StopWith
  <2>9. CASE WriteOutcome \/ StampOutcome \/ RuntimeFails \/ WatchParent
    BY <2>9 DEF WriteOutcome, StampOutcome, RuntimeFails, WatchParent, RuntimeGone
  <2> QED
    BY <1>4, <2>1, <2>2, <2>3, <2>4, <2>5, <2>6, <2>7, <2>8, <2>9 DEF Runtime
<1>5. CASE Pause
  BY <1>5 DEF Pause
<1>6. CASE Edit
  <2>1. /\ rt' = rt /\ site' = site /\ checked' = checked /\ seen' = seen
        /\ verdict' = verdict /\ fp' = fp
    BY <1>6 DEF Edit
  <2>2. ws'.scope \in {ws.scope, edits + 1} /\ controls' \in {controls, edits + 1}
    BY <1>1, <1>6 DEF Edit, Snapshot
  <2>3. ws.scope <= ws'.scope /\ (controls # fp => controls' # fp)
    BY <1>1, <1>2, <2>2 DEF Versions
  <2>4. checked \in Snapshot => checked.scope \in Nat
    BY DEF Snapshot
  <2>5. seen \in Snapshot => seen.scope \in Nat
    BY DEF Snapshot
  <2>6. ws'.scope \in Nat
    BY <1>1, <1>2, <2>2
  <2> QED
    BY <1>2, <2>1, <2>3, <2>4, <2>5, <2>6
<1>7. CASE Repair
  BY <1>7 DEF Repair, LockFree, Alive
<1>8. CASE UNCHANGED vars
  BY <1>8 DEF vars
<1> QED
  BY <1>3, <1>4, <1>5, <1>6, <1>7, <1>8 DEF Next, Environment

\* A verdict that stands and says PASS was computed from the present sources.
LEMMA StandingVerdict ==
  ASSUME TypeOK, VerdictInformed, VerifierDone, verdict = "PASS"
  PROVE  ws \in Snapshot /\ ws.scope \in Good
<1>1. checked = ws /\ controls = fp /\ ws \in Snapshot
  BY DEF VerifierDone, VerdictStands, AfterAdapter, CheckedSnapshot, Guard, TypeOK,
     WorldTyped
<1>2. /\ seen \in Snapshot /\ ws.scope <= seen.scope /\ seen.scope <= ws.scope
      /\ seen.scope \in Good
  BY <1>1 DEF VerdictInformed, VerifierDone
<1>3. seen.scope = ws.scope
  BY <1>1, <1>2 DEF Snapshot
<1> QED
  BY <1>1, <1>2, <1>3

-----------------------------------------------------------------------------
(* From the verdict to the files.                                           *)

\* What a later entry would trust: an accepted checkpoint and no claim left.
Trustworthy == identity.snapshot.scope \in Good /\ ~held

\* The accepted snapshot is carried unchanged through release into
\* identity.json before result.json may say PASS; only a supervisor that is
\* about to overwrite that PASS with a pause may have moved the checkpoint on.
AcceptedCarried ==
  /\ accepted # NoSnapshot => accepted.scope \in Good
  /\ rt = "releasing" /\ out = "PASS" => prior \in Snapshot /\ prior.scope \in Good
  /\ rt \in {"write", "stamp"} /\ out = "PASS" => Trustworthy
  /\ result.status = "PASS" /\ sup # "report" => Trustworthy

\* Trust depends on the checkpoint and on the claim only.
LEMMA TrustKept == identity' = identity /\ held' = held => Trustworthy' = Trustworthy
  BY DEF Trustworthy

\* What a step has to leave alone for the verdict to stay carried.
Carries ==
  /\ identity' = identity /\ held' = held
  /\ accepted' = accepted \/ accepted' = NoSnapshot
  /\ result' = result \/ result'.status # "PASS"
  /\ sup = "report" => sup' = "report" \/ result'.status # "PASS"
  /\ rt' = "releasing" => rt = "releasing" /\ out' = out /\ prior' = prior
  /\ rt' \in {"write", "stamp"} /\ out' = "PASS" =>
       rt \in {"write", "stamp"} /\ out = "PASS"

LEMMA CarriedFrame == AcceptedCarried /\ Carries => AcceptedCarried'
<1> SUFFICES ASSUME AcceptedCarried, Carries PROVE AcceptedCarried'
  OBVIOUS
<1>1. Trustworthy' = Trustworthy
  BY TrustKept DEF Carries
<1>2. (accepted # NoSnapshot => accepted.scope \in Good)'
  BY DEF AcceptedCarried, Carries
<1>3. (rt = "releasing" /\ out = "PASS" => prior \in Snapshot /\ prior.scope \in Good)'
  BY DEF AcceptedCarried, Carries
<1>4. (rt \in {"write", "stamp"} /\ out = "PASS" => Trustworthy)'
  BY <1>1 DEF AcceptedCarried, Carries
<1>5. (result.status = "PASS" /\ sup # "report" => Trustworthy)'
  BY <1>1 DEF AcceptedCarried, Carries
<1> QED
  BY <1>2, <1>3, <1>4, <1>5 DEF AcceptedCarried

\* A step while result.json says RUNNING and the outcome is not yet due.
LEMMA CarriedInside ==
  ASSUME AcceptedCarried, accepted' = accepted, result' = result,
         result.status = "RUNNING", rt' # "releasing",
         rt' \in {"write", "stamp"} => out' # "PASS"
  PROVE  AcceptedCarried'
  BY DEF AcceptedCarried

LEMMA CarriedStep ==
  ASSUME "report" \notin CrashPoints, TypeOK, Exclusion, RunningOnDisk, ClaimedInside,
         VerdictInformed, AcceptedCarried, [Next]_vars
  PROVE  AcceptedCarried'
<1>1. ws \in Snapshot /\ ws # NoSnapshot
  BY DEF TypeOK, WorldTyped, Snapshot, NoSnapshot
<1>2. CASE Supervisor
  <2>1. CASE (\E k \in {"run", "continue", "resume"} : Invoke(k)) \/ CheckResult
             \/ OpenWindow \/ LaunchFails \/ Report
    <3>1. Carries
      BY <2>1 DEF Carries, files, world, rtData, Invoke, LockFree, CheckResult,
         OpenWindow, LaunchFails, Report
    <3> QED
      BY <3>1, CarriedFrame
  <2>6. CASE NoticePause \/ NoticeStop \/ Reap \/ SupervisorDies
    <3>1. Carries
      BY <2>6 DEF Carries, files, world, rtData, NoticePause, NoticeStop, Reap,
         SupervisorDies
    <3> QED
      BY <3>1, CarriedFrame
  <2>2. CASE Launch \/ Terminate
    <3>1. Carries
      BY <2>2 DEF Carries, files, world, RuntimeGone, Launch, Terminate
    <3> QED
      BY <3>1, CarriedFrame
  <2>3. CASE Collect
    <3>1. Carries
      BY <2>3 DEF Carries, world, rtData, Collect
    <3> QED
      BY <3>1, CarriedFrame
  <2>4. CASE CheckIdentity
    <3>1. CASE identity' = identity
      <4>1. Carries
        BY <2>4, <3>1 DEF Carries, world, rtData, CheckIdentity
      <4> QED
        BY <4>1, CarriedFrame
    <3>2. CASE identity' # identity
      <4>1. result.status = "none" /\ result' = result /\ accepted' = accepted
            /\ rt' = rt /\ out' = out /\ prior' = prior /\ sup = "identity"
        BY <2>4, <3>2 DEF CheckIdentity, rtData
      <4>2. rt \notin {"write", "stamp", "releasing"}
        BY <4>1 DEF Exclusion, Alive
      <4> QED
        BY <4>1, <4>2 DEF AcceptedCarried
    <3> QED
      BY <3>1, <3>2
  <2>5. CASE CheckpointPause
    <3>1. sup = "checkpoint" /\ sup' = "report" /\ result' = result /\ rt' = rt
          /\ accepted' = accepted
      BY <2>5 DEF CheckpointPause, rtData
    <3>2. rt \notin {"write", "stamp", "releasing"}
      BY <3>1 DEF Exclusion, Alive
    <3> QED
      BY <3>1, <3>2 DEF AcceptedCarried
  <2> QED
    BY <1>2, <2>1, <2>2, <2>3, <2>4, <2>5, <2>6 DEF Supervisor
<1>3. CASE Runtime
  <2>1. CASE Begin \/ BoundaryOpens \/ BoundaryPauses \/ BeforeVerify \/ Verify
    <3>1. Carries
      BY <2>1 DEF Carries, files, world, supVars, rtData, Begin, BoundaryOpens,
         BoundaryPauses, BeforeVerify, Verify
    <3> QED
      BY <3>1, CarriedFrame
  <2>2. CASE BoundaryFails \/ VerifyInterrupted \/ DispatchRefused \/ WorkerRaises
    <3>1. Carries
      BY <2>2 DEF Carries, files, world, supVars, StopWith, BoundaryFails,
         VerifyInterrupted, DispatchRefused, WorkerRaises
    <3> QED
      BY <3>1, CarriedFrame
  <2>3. CASE Dispatch \/ StartWorker \/ WorkerReturns \/ StepDone
    <3>1. Carries
      BY <2>3 DEF Carries, files, world, supVars, rtData, Dispatch, StartWorker,
         WorkerReturns, StepDone
    <3> QED
      BY <3>1, CarriedFrame
  <2>4. CASE Claim \/ ClaimFails
    <3>1. /\ rt = "claim" /\ accepted' = accepted /\ result' = result
          /\ rt' \in {"boundary", "release", "write"}
          /\ rt' = "write" => out' = "HARNESS-ERROR"
      BY <2>4 DEF Claim, ClaimFails, StopWith, files
    <3>2. result.status = "RUNNING"
      BY <3>1 DEF RunningOnDisk, Alive
    <3> QED
      BY <3>1, <3>2, CarriedInside
  <2>5. CASE Concluded
    <3>1. verdict = "PASS" => ws.scope \in Good
      BY <2>5, StandingVerdict DEF Concluded
    <3>2. rt = "adapter" /\ claimed /\ result' = result
      BY <2>5 DEF Concluded, VerifierDone, ClaimedInside
    <3>3. result.status = "RUNNING" /\ rt' = "release"
      BY <2>5, <3>2 DEF Concluded, StopWith, RunningOnDisk, Alive
    <3>4. accepted' # NoSnapshot => accepted'.scope \in Good
      BY <2>5, <3>1 DEF Concluded, AcceptedCarried
    <3> QED
      BY <3>2, <3>3, <3>4 DEF AcceptedCarried
  <2>6. CASE Rejected
    <3>1. rt = "adapter" /\ accepted' = accepted /\ result' = result /\ claimed
      BY <2>6 DEF Rejected, VerifierDone, ClaimedInside
    <3>2. result.status = "RUNNING"
      BY <3>1 DEF RunningOnDisk, Alive
    <3>3. rt' \in {"boundary", "release"}
      BY <2>6, <3>1 DEF Rejected, StopWith
    <3> QED
      BY <3>1, <3>2, <3>3, CarriedInside
  <2>7. CASE Pausing
    <3>1. /\ rt = "pausing" /\ accepted' = accepted /\ result' = result
          /\ out' # "PASS" /\ rt' \in {"release", "write"}
      BY <2>7 DEF Pausing, StopWith
    <3>2. result.status = "RUNNING"
      BY <3>1 DEF RunningOnDisk, Alive
    <3> QED
      BY <3>1, <3>2, CarriedInside
  <2>8. CASE Release
    <3>1. /\ rt = "release" /\ accepted' = accepted /\ result' = result
      BY <2>8 DEF Release, files
    <3>2. result.status = "RUNNING"
      BY <3>1 DEF RunningOnDisk, Alive
    <3>3. CASE MayRelease
      <4>1. rt' = "releasing" /\ prior' = ws /\ out' = out
        BY <2>8, <3>3 DEF Release
      <4>2. out = "PASS" => ws.scope \in Good
        BY <1>1, <3>3 DEF MayRelease, AcceptedCarried
      <4> QED
        BY <1>1, <3>1, <3>2, <4>1, <4>2 DEF AcceptedCarried
    <3>4. CASE ~MayRelease
      BY <2>8, <3>1, <3>2, <3>4, CarriedInside DEF Release
    <3> QED
      BY <3>3, <3>4
  <2>9. CASE Released
    <3>1. /\ rt = "releasing" /\ result' = result /\ rt' = "write"
          /\ accepted' = accepted /\ ~held'
      BY <2>9 DEF Released
    <3>2. result.status = "RUNNING"
      BY <3>1 DEF RunningOnDisk, Alive
    <3>3. CASE AfterAdapter
      <4>1. identity'.snapshot = ws /\ out' = out /\ prior = ws
        BY <2>9, <3>3 DEF Released, AfterAdapter, Guard, Checkpoint
      <4>2. out' = "PASS" => identity'.snapshot.scope \in Good
        BY <3>1, <4>1 DEF AcceptedCarried
      <4>3. out' = "PASS" => Trustworthy'
        BY <3>1, <4>2 DEF Trustworthy
      <4> QED
        BY <3>1, <3>2, <4>3 DEF AcceptedCarried
    <3>4. CASE ~AfterAdapter
      <4>1. out' = "HARNESS-ERROR"
        BY <2>9, <3>4 DEF Released
      <4> QED
        BY <3>1, <3>2, <4>1, CarriedInside
    <3> QED
      BY <3>3, <3>4
  <2>10. CASE ReleaseFails
    <3>1. /\ rt = "releasing" /\ accepted' = accepted /\ result' = result
          /\ out' = "HARNESS-ERROR" /\ rt' = "write"
      BY <2>10 DEF ReleaseFails, files
    <3>2. result.status = "RUNNING"
      BY <3>1 DEF RunningOnDisk, Alive
    <3> QED
      BY <3>1, <3>2, CarriedInside
  <2>11. CASE WriteOutcome
    <3>1. /\ rt = "write" /\ rt' = "stamp" /\ result'.status = out
          /\ accepted' = accepted /\ out' = out
      BY <2>11 DEF WriteOutcome, rtData
    <3>2. Trustworthy' = Trustworthy
      BY <2>11, TrustKept DEF WriteOutcome, world
    <3> QED
      BY <3>1, <3>2 DEF AcceptedCarried
  <2>12. CASE StampOutcome
    <3>1. /\ rt = "stamp" /\ rt' = "exited" /\ result'.status = out
          /\ accepted' = NoSnapshot
      BY <2>12 DEF StampOutcome, RuntimeGone
    <3>2. Trustworthy' = Trustworthy
      BY <2>12, TrustKept DEF StampOutcome, world
    <3> QED
      BY <3>1, <3>2 DEF AcceptedCarried
  <2>13. CASE RuntimeFails \/ WatchParent
    <3>1. Carries
      BY <2>13 DEF Carries, files, world, supVars, RuntimeFails, WatchParent, RuntimeGone
    <3> QED
      BY <3>1, CarriedFrame
  <2> QED
    BY <1>3, <2>1, <2>2, <2>3, <2>4, <2>5, <2>6, <2>7, <2>8, <2>9, <2>10, <2>11,
       <2>12, <2>13 DEF Runtime
<1>4. CASE Pause \/ Edit
  <2>1. Carries
    BY <1>4 DEF Carries, files, supVars, rtData, Pause, Edit, world
  <2> QED
    BY <2>1, CarriedFrame
<1>5. CASE Repair
  <2>1. identity' = identity /\ ~held' /\ result' = result /\ sup' = sup /\ rt' = rt
        /\ out' = out /\ prior' = prior /\ accepted' = accepted
    BY <1>5 DEF Repair, files, supVars, rtData
  <2>2. Trustworthy => Trustworthy'
    BY <2>1 DEF Trustworthy
  <2> QED
    BY <2>1, <2>2 DEF AcceptedCarried
<1>6. CASE UNCHANGED vars
  <2>1. Carries
    BY <1>6 DEF Carries, vars, files, world, supVars, rtData
  <2> QED
    BY <2>1, CarriedFrame
<1> QED
  BY <1>2, <1>3, <1>4, <1>5, <1>6 DEF Next, Environment

\* Everything the argument above rests on.
Argument == /\ TypeOK /\ Exclusion /\ Versions /\ RunningOnDisk
            /\ ClaimedInside /\ VerdictInformed /\ AcceptedCarried

LEMMA ArgumentHolds ==
  ASSUME "report" \notin CrashPoints
  PROVE  Spec => []Argument
<1>1. Init => Argument
  <2> SUFFICES ASSUME Init PROVE Argument
    OBVIOUS
  <2>1. TypeOK
    BY InitTyped
  <2>2. Exclusion /\ RunningOnDisk /\ ClaimedInside /\ VerdictInformed /\ AcceptedCarried
    BY DEF Init, Exclusion, Alive, RunningOnDisk, ClaimedInside, VerdictInformed,
       AcceptedCarried
  <2>3. Versions
    BY DEF Init, Versions, NoIdentity, NoSnapshot
  <2> QED
    BY <2>1, <2>2, <2>3 DEF Argument
<1>2. Argument /\ [Next]_vars => Argument'
  BY TypesKept, ExclusionStep, VersionsStep, RunningStep, ClaimedStep, InformedStep,
     CarriedStep DEF Argument
<1> QED
  BY <1>1, <1>2, PTL DEF Spec

\* Provided the supervisor is not killed between the two writes of a pause, a
\* PASS that outlives its window stands on accepted sources and a released
\* claim: no interleaving of edits, pauses, resumes, timeouts, signals and other
\* deaths leaves a PASS for sources the verifier did not accept.
THEOREM PassIsAccepted ==
  ASSUME "report" \notin CrashPoints
  PROVE  Spec => []VerifiedMeansAccepted
<1>1. Argument => VerifiedMeansAccepted
  BY DEF Argument, VerifiedMeansAccepted, AcceptedCarried, Trustworthy, LockFree
<1> QED
  BY <1>1, ArgumentHolds, PTL

-----------------------------------------------------------------------------
(* The refinement: what the operator sees of a run is the promise.          *)

\* Past its resume guard an entry has a baseline, and a window, from its first
\* write on, has a result.
Entered ==
  /\ sup \in {"result", "open"} => identity # NoIdentity
  /\ InWindow => result.status # "none"

LEMMA EnteredStep ==
  TypeOK /\ BaselineKnown /\ Exclusion /\ Entered /\ [Next]_vars => Entered'
<1> SUFFICES ASSUME TypeOK, BaselineKnown, Exclusion, Entered, [Next]_vars
             PROVE  Entered'
  OBVIOUS
<1>1. identity # NoIdentity => identity' # NoIdentity
  BY BaselineStep
<1>2. out \in Statuses
  BY DEF TypeOK, ProgressTyped
<1> USE DEF Entered, InWindow, Alive, files, supVars, RuntimeGone, StopWith
<1>3. CASE Supervisor
  <2>1. CASE (\E k \in {"run", "continue", "resume"} : Invoke(k)) \/ CheckResult
             \/ OpenWindow \/ Launch \/ LaunchFails
    BY <1>1, <2>1 DEF Invoke, LockFree, CheckResult, OpenWindow, Launch, LaunchFails,
       Exclusion
  <2>2. CASE CheckIdentity
    <3>1. controls # -1
      BY DEF TypeOK, WorldTyped
    <3>2. sup' = "result" => identity' # NoIdentity
      BY <2>2, <3>1 DEF CheckIdentity, NoIdentity
    <3>3. ~InWindow' /\ sup' # "open"
      BY <2>2 DEF CheckIdentity, Exclusion
    <3> QED
      BY <3>2, <3>3
  <2>3. CASE NoticePause \/ NoticeStop \/ Reap \/ Terminate \/ CheckpointPause
             \/ SupervisorDies
    BY <1>1, <2>3 DEF NoticePause, NoticeStop, Reap, Terminate, CheckpointPause,
       SupervisorDies
  <2>4. CASE Report \/ Collect
    BY <1>1, <2>4 DEF Report, Collect
  <2> QED
    BY <1>3, <2>1, <2>2, <2>3, <2>4 DEF Supervisor
<1>4. CASE Runtime
  <2>1. sup' = sup /\ Alive
    BY <1>4 DEF Runtime, Begin, Claim, ClaimFails, BoundaryOpens, BoundaryPauses,
       BoundaryFails, BeforeVerify, Verify, VerifyInterrupted, VerifierDone, Concluded,
       Rejected, Dispatch, DispatchRefused, StartWorker, WorkerReturns, WorkerRaises,
       StepDone, Pausing, Release, Released, ReleaseFails, WriteOutcome, StampOutcome,
       RuntimeFails, WatchParent
  <2>2. result' = result \/ result'.status = out
    <3>1. CASE WriteOutcome \/ StampOutcome
      BY <3>1 DEF WriteOutcome, StampOutcome
    <3>2. CASE ~WriteOutcome /\ ~StampOutcome
      BY <1>4, <3>2 DEF Runtime, Begin, Claim, ClaimFails, BoundaryOpens, BoundaryPauses,
         BoundaryFails, BeforeVerify, Verify, VerifyInterrupted, Concluded, Rejected,
         Dispatch, DispatchRefused, StartWorker, WorkerReturns, WorkerRaises, StepDone,
         Pausing, Release, Released, ReleaseFails, RuntimeFails, WatchParent
    <3> QED
      BY <3>1, <3>2
  <2>3. result.status # "none" /\ out # "none"
    BY <1>2, <2>1 DEF Statuses
  <2>4. sup' \notin {"result", "open"}
    BY <2>1 DEF Exclusion
  <2>5. result'.status # "none"
    BY <2>2, <2>3
  <2> QED
    BY <2>4, <2>5
<1>5. CASE Environment
  BY <1>1, <1>5 DEF Environment, Pause, Edit, Repair
<1>6. CASE UNCHANGED vars
  BY <1>6 DEF vars
<1> QED
  BY <1>3, <1>4, <1>5, <1>6 DEF Next

\* What the operator cannot see: nothing of the promise moves.
LEMMA Unseen ==
  ASSUME identity' = identity, runs' = runs, InWindow' <=> InWindow,
         InWindow \/ result' = result
  PROVE  UNCHANGED Contract!promiseVars
<1>1. RunPhase' = RunPhase
  BY DEF RunPhase
<1> QED
  BY <1>1 DEF Contract!promiseVars

\* A window ends with a status, and with a PASS only on an accepted checkpoint.
LEMMA Ended ==
  ASSUME TypeOK', InWindow, ~InWindow', identity' = identity, runs' = runs,
         result'.status # "none",
         result'.status = "PASS" => identity.snapshot.scope \in Good
  PROVE  Contract!Finish
<1>1. RunPhase = "open"
  BY DEF RunPhase
<1>2. RunPhase' \in {"passed", "abandoned", "paused", "stopped"}
  BY DEF RunPhase
<1>3. RunPhase' = "passed" => result'.status = "PASS"
  BY DEF RunPhase
<1> QED
  BY <1>1, <1>2, <1>3 DEF Contract!Finish

\* Inside a window only the checkpoint moves.
LEMMA Recorded ==
  ASSUME InWindow, InWindow', runs' = runs, identity # NoIdentity,
         TypeOK, BaselineKnown, [Next]_vars
  PROVE  Contract!Record
<1>1. RunPhase = "open" /\ RunPhase' = "open"
  BY DEF RunPhase
<1>2. /\ identity'.fingerprint = identity.fingerprint
      /\ identity'.snapshot.rest = identity.snapshot.rest
  BY BaselineStep
<1> QED
  BY <1>1, <1>2 DEF Contract!Record

LEMMA PromiseStep ==
  ASSUME "report" \notin CrashPoints, Argument, TypeOK', BaselineKnown, BudgetAccounted,
         Entered, Entered', [Next]_vars
  PROVE  [Contract!PromiseNext]_(Contract!promiseVars)
<1> USE DEF Contract!PromiseNext
<1>1. /\ TypeOK /\ Exclusion /\ AcceptedCarried
      /\ result.status = "PASS" /\ sup # "report" => identity.snapshot.scope \in Good
  BY DEF Argument, AcceptedCarried, Trustworthy
<1>2. CASE Supervisor
  <2>1. CASE \E k \in {"run", "continue", "resume"} : Invoke(k)
    <3>1. /\ identity' = identity /\ runs' = runs /\ result' = result
          /\ InWindow' <=> InWindow
      BY <2>1 DEF Invoke, LockFree, InWindow, Alive, history
    <3> QED
      BY <3>1, Unseen
  <2>2. CASE CheckIdentity
    <3>1. /\ runs' = runs /\ result' = result /\ ~InWindow /\ ~InWindow'
      BY <1>1, <2>2 DEF CheckIdentity, InWindow, Alive, Exclusion, history
    <3>2. CASE identity' = identity
      BY <3>1, <3>2, Unseen
    <3>3. CASE identity' # identity
      <4>1. /\ identity = NoIdentity /\ result.status = "none"
            /\ identity' = [fingerprint |-> controls, snapshot |-> ws]
        BY <2>2, <3>3 DEF CheckIdentity
      <4>2. RunPhase = "new" /\ RunPhase' = "new"
        BY <3>1, <4>1 DEF RunPhase
      <4>3. <<identity.fingerprint, identity.snapshot.rest>> = <<-1, -1>>
        BY <4>1 DEF NoIdentity, NoSnapshot
      <4>4. <<identity'.fingerprint, identity'.snapshot.rest>> # <<-1, -1>>
        BY <1>1, <4>1 DEF TypeOK, WorldTyped
      <4> QED
        BY <3>1, <4>2, <4>3, <4>4 DEF Contract!Freeze, Contract!Unfrozen
    <3> QED
      BY <3>2, <3>3
  <2>3. CASE CheckResult
    <3>1. /\ identity' = identity /\ runs' = runs /\ result' = result
          /\ InWindow' <=> InWindow
      BY <1>1, <2>3 DEF CheckResult, InWindow, Alive, Exclusion
    <3> QED
      BY <3>1, Unseen
  <2>4. CASE OpenWindow
    <3>1. /\ identity' = identity /\ runs' = runs /\ ~InWindow /\ InWindow'
          /\ result.status \notin {"RUNNING", "PASS"}
          /\ identity # NoIdentity
      BY <1>1, <2>4 DEF OpenWindow, InWindow, Alive, Exclusion, history, Entered
    <3>2. RunPhase \in {"new", "stopped", "paused"} /\ RunPhase' = "open"
      BY <3>1 DEF RunPhase
    <3>3. identity.fingerprint \in Nat
      BY <1>1, <3>1 DEF TypeOK, FilesTyped, Identity
    <3>4. <<identity.fingerprint, identity.snapshot.rest>> # <<-1, -1>>
      BY <3>3
    <3> QED
      BY <3>1, <3>2, <3>4 DEF Contract!Attempt, Contract!Unfrozen
  <2>5. CASE LaunchFails \/ Report \/ Collect
    <3>1. /\ identity' = identity /\ runs' = runs /\ InWindow /\ ~InWindow'
      BY <1>1, <2>5 DEF LaunchFails, Report, Collect, InWindow, Alive, Exclusion, history,
         world, rtData
    <3>2. result'.status # "none"
      BY <2>5, <3>1 DEF LaunchFails, Report, Collect, Entered
    <3>3. result'.status = "PASS" => identity.snapshot.scope \in Good
      BY <1>1, <2>5 DEF LaunchFails, Report, Collect
    <3> QED
      BY <3>1, <3>2, <3>3, Ended
  <2>6. CASE Launch \/ NoticePause \/ NoticeStop \/ Reap \/ Terminate
    <3>1. /\ identity' = identity /\ runs' = runs /\ InWindow /\ InWindow'
      BY <2>6 DEF Launch, NoticePause, NoticeStop, Reap, Terminate, InWindow, history, files
    <3> QED
      BY <3>1, Unseen
  <2>7. CASE CheckpointPause
    <3>1. /\ runs' = runs /\ InWindow /\ InWindow'
      BY <2>7 DEF CheckpointPause, InWindow, history
    <3>2. CASE identity' = identity
      BY <3>1, <3>2, Unseen
    <3>3. CASE identity' # identity
      <4>1. identity # NoIdentity
        <5>1. identity.fingerprint = controls
          BY <2>7, <3>3 DEF CheckpointPause, PauseIsSafe
        <5> QED
          BY <1>1, <5>1 DEF NoIdentity, TypeOK, WorldTyped
      <4> QED
        BY <1>1, <3>1, <4>1, Recorded
    <3> QED
      BY <3>2, <3>3
  <2>8. CASE SupervisorDies
    <3>1. /\ identity' = identity /\ runs' = runs /\ result' = result /\ sup # "report"
      BY <2>8 DEF SupervisorDies, history, files
    <3>2. InWindow' => InWindow
      BY <2>8 DEF SupervisorDies, InWindow, Alive
    <3>3. CASE InWindow /\ ~InWindow'
      BY <1>1, <3>1, <3>3, Ended DEF Entered
    <3> QED
      BY <3>1, <3>2, <3>3, Unseen
  <2> QED
    BY <1>2, <2>1, <2>2, <2>3, <2>4, <2>5, <2>6, <2>7, <2>8 DEF Supervisor
<1>3. CASE Runtime
  <2>1. Alive /\ InWindow /\ sup # "report"
    BY <1>1, <1>3 DEF Runtime, Begin, Claim, ClaimFails, BoundaryOpens, BoundaryPauses,
       BoundaryFails, BeforeVerify, Verify, VerifyInterrupted, VerifierDone, Concluded,
       Rejected, Dispatch, DispatchRefused, StartWorker, WorkerReturns, WorkerRaises,
       StepDone, Pausing, Release, Released, ReleaseFails, WriteOutcome, StampOutcome,
       RuntimeFails, WatchParent, Alive, InWindow, Exclusion
  <2>2. CASE StampOutcome \/ RuntimeFails \/ WatchParent
    <3>1. /\ identity' = identity /\ runs' = runs
          /\ result'.status = result.status
      BY <1>1, <2>2 DEF StampOutcome, RuntimeFails, WatchParent, files, history, Argument,
         RunningOnDisk
    <3>2. CASE InWindow'
      BY <2>1, <3>1, <3>2, Unseen
    <3>3. CASE ~InWindow'
      BY <1>1, <2>1, <3>1, <3>3, Ended DEF Entered
    <3> QED
      BY <3>2, <3>3
  <2>3. CASE StartWorker
    <3>1. /\ identity' = identity /\ runs' = runs + 1 /\ InWindow'
      BY <2>3 DEF StartWorker, InWindow, Alive, files
    <3>2. runs < MaxIterations
      BY <1>1, <2>3, BoundAssumption DEF StartWorker, BudgetAccounted, TypeOK, FilesTyped,
         HistoryTyped
    <3>3. RunPhase = "open" /\ RunPhase' = "open"
      BY <2>1, <3>1 DEF RunPhase
    <3> QED
      BY <3>1, <3>2, <3>3 DEF Contract!Work
  <2>4. CASE Concluded \/ Rejected \/ Pausing \/ Released
    <3>1. /\ runs' = runs /\ InWindow' /\ identity # NoIdentity
      BY <2>4 DEF Concluded, Rejected, VerifierDone, Pausing, Released, StopWith, InWindow,
         Alive, BaselineKnown, Started, history
    <3> QED
      BY <1>1, <2>1, <3>1, Recorded
  <2>5. CASE Begin \/ Claim \/ ClaimFails \/ BoundaryOpens \/ BoundaryPauses
             \/ BoundaryFails \/ BeforeVerify \/ Verify
    <3>1. /\ identity' = identity /\ runs' = runs /\ InWindow'
      BY <2>5 DEF Begin, Claim, ClaimFails, BoundaryOpens, BoundaryPauses, BoundaryFails,
         BeforeVerify, Verify, StopWith, InWindow, Alive, files, history
    <3> QED
      BY <2>1, <3>1, Unseen
  <2>6. CASE VerifyInterrupted \/ Dispatch \/ DispatchRefused \/ WorkerReturns
             \/ WorkerRaises \/ StepDone \/ Release \/ ReleaseFails \/ WriteOutcome
    <3>1. /\ identity' = identity /\ runs' = runs /\ InWindow'
      BY <2>6 DEF VerifyInterrupted, Dispatch, DispatchRefused, WorkerReturns,
         WorkerRaises, StepDone, Release, ReleaseFails, WriteOutcome, StopWith, InWindow,
         Alive, files, history
    <3> QED
      BY <2>1, <3>1, Unseen
  <2> QED
    BY <1>3, <2>2, <2>3, <2>4, <2>5, <2>6 DEF Runtime
<1>4. CASE Environment \/ UNCHANGED vars
  <2>1. /\ identity' = identity /\ runs' = runs /\ result' = result
        /\ InWindow' <=> InWindow
    BY <1>4 DEF Environment, Pause, Edit, Repair, vars, files, history, supVars, InWindow,
       Alive
  <2> QED
    BY <2>1, Unseen
<1> QED
  BY <1>2, <1>3, <1>4 DEF Next

\* The harness implements HarnessPromise: for any budget, edits, pauses and
\* deaths (but the one between the two writes of a pause) an operator sees one
\* frozen baseline, attempts that end with a status, a budget that is never
\* exceeded, and passes and abandoned attempts that are final.
THEOREM PromiseKept ==
  ASSUME "report" \notin CrashPoints
  PROVE  Spec => KeepsPromise
<1>1. Init => Contract!PromiseInit /\ BaselineKnown /\ BudgetAccounted /\ Entered
  BY BoundAssumption DEF Init, Contract!PromiseInit, Contract!Unfrozen, BaselineKnown,
     Started, BudgetAccounted, Entered, RunPhase, InWindow, Alive, NoIdentity, NoSnapshot
<1>2. Argument => TypeOK /\ Exclusion
  BY DEF Argument
<1> QED
  BY <1>1, <1>2, ArgumentHolds, KnownStep, BudgetStep, EnteredStep, PromiseStep, PTL
     DEF Spec, KeepsPromise, Contract!Promise
================================================================================
