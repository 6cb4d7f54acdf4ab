---------------------------- MODULE BackgroundTask ----------------------------
(***************************************************************************)
(* One detached background task: the StartTask session                     *)
(* (src/src/prax/tools/background_task.py), the runner process with its     *)
(* main and heartbeat threads (_background_runner.py), and sessions that    *)
(* call CheckTask, UpdateTask and CancelTask.  They share one JSON record   *)
(* (core/background_store.py).  A write replaces the whole file atomically; *)
(* nothing locks the get -> modify -> create of an update, so every actor   *)
(* works on a copy that may be stale.                                       *)
(***************************************************************************)
EXTENDS Integers

CONSTANTS Clients,    \* sessions that check, update and cancel the task
          Watcher,    \* the one of them that keeps checking
          MaxNotes,   \* bound: UpdateTask calls
          MaxCancels  \* bound: CancelTask calls

ASSUME ClientAssumption == Clients \cap {"start", "main", "beat"} = {}
ASSUME WatcherAssumption == Watcher \in Clients
ASSUME BoundAssumption == MaxNotes \in Nat /\ MaxCancels \in Nat

VARIABLES
  rec,     \* .prax/tasks/<task_id>.json
  job,     \* per actor: the store update it is in the middle of
  copy,    \* per actor: what its get() returned
  start,   \* StartTask: "create", "spawn", "recording", "done", "gone"
  main,    \* the runner's main thread
  proc,    \* the runner process, as os.kill(pid, 0) sees it
  agent,   \* `prax prompt`: "none", "running", or how it exited
  notes, cancels

vars == <<rec, job, copy, start, main, proc, agent, notes, cancels>>

Actors == {"start", "main", "beat"} \cup Clients
Jobs == {"none", "pid", "beat", "success", "error", "fail", "check", "presume",
         "note", "kill", "cancel"}

\* by: who settled the status last.  pid is the runner's; it is never another.
\* What a note says is left out: that its writer works on a copy is not.
Task == [status: {"running", "success", "error", "cancelled"}, pid: BOOLEAN,
         by: {"nobody", "runner", "start", "check", "cancel"}]
NoTask == [status |-> "none", pid |-> FALSE, by |-> "nobody"]
Fresh == [NoTask EXCEPT !.status = "running"]

Init ==
  /\ rec = NoTask /\ job = [a \in Actors |-> "none"] /\ copy = [a \in Actors |-> NoTask]
  /\ start = "create" /\ main = "none" /\ proc = "none" /\ agent = "none"
  /\ notes = 0 /\ cancels = 0

-----------------------------------------------------------------------------
(* BackgroundTaskStore.                                                     *)

\* Faulty variant: forgets to record the pid of the process it started.
BuggyProvisionalPid(r) == r

\* update_runtime(pid=...)
ProvisionalPid(r) == [r EXCEPT !.pid = TRUE]

\* What an update makes of the copy it works on.
Patched(j, r) ==
  CASE j = "pid"     -> ProvisionalPid(r)
    [] j = "beat"    -> r
    [] j = "success" -> [r EXCEPT !.status = "success", !.by = "runner"]
    [] j = "error"   -> [r EXCEPT !.status = "error", !.by = "runner"]
    [] j = "fail"    -> [r EXCEPT !.status = "error", !.by = "start"]
    [] j = "presume" -> [r EXCEPT !.status = "error", !.by = "check"]
    [] j = "cancel"  -> [r EXCEPT !.status = "cancelled", !.by = "cancel"]
    [] j = "note"    -> r

Begin(a, j) == job' = [job EXCEPT ![a] = j] /\ copy' = [copy EXCEPT ![a] = NoTask]

\* update_status() and update_runtime() get the record ...
Get(a) ==
  /\ job[a] \in {"pid", "beat", "success", "error", "fail", "presume", "cancel"}
  /\ copy[a] = NoTask
  /\ copy' = [copy EXCEPT ![a] = rec]
  /\ UNCHANGED <<rec, job, start, main, proc, agent, notes, cancels>>

\* ... and create() writes the modified copy over whatever is there now.
Create(a) ==
  /\ job[a] \notin {"none", "check", "kill"} /\ copy[a] # NoTask
  /\ rec' = Patched(job[a], copy[a])
  /\ Begin(a, "none")

-----------------------------------------------------------------------------
(* StartTask.                                                               *)

CreateRecord ==
  /\ start = "create"
  /\ rec' = Fresh /\ start' = "spawn"
  /\ UNCHANGED <<job, copy, main, proc, agent, notes, cancels>>

SpawnRunner ==
  /\ start = "spawn"
  /\ start' = "recording"
  /\ \/ Begin("start", "pid") /\ proc' = "alive" /\ main' = "boot"
     \/ Begin("start", "fail") /\ UNCHANGED <<proc, main>>
  /\ UNCHANGED <<rec, agent, notes, cancels>>

RecordStart ==
  /\ Create("start")
  /\ start' = "done"
  /\ UNCHANGED <<main, proc, agent, notes, cancels>>

\* The session ends or is killed: init adopts, and reaps, the runner.
SessionEnds ==
  /\ start # "gone"
  /\ start' = "gone" /\ Begin("start", "none")
  /\ proc' = IF proc = "zombie" THEN "gone" ELSE proc
  /\ UNCHANGED <<rec, main, agent, notes, cancels>>

\* The next subprocess.Popen of the session reaps a dead runner.
Reap ==
  /\ proc = "zombie"
  /\ proc' = "gone"
  /\ UNCHANGED <<rec, job, copy, start, main, agent, notes, cancels>>

-----------------------------------------------------------------------------
(* The runner.                                                              *)

\* The process is gone, its threads with it; its parent has not waited for it.
RunnerGone ==
  /\ proc' = IF start = "gone" THEN "gone" ELSE "zombie"
  /\ main' = "none"
  /\ job' = [job EXCEPT !["main"] = "none", !["beat"] = "none"]
  /\ copy' = [copy EXCEPT !["main"] = NoTask, !["beat"] = NoTask]

Boot ==
  /\ main = "boot"
  /\ Begin("main", "pid") /\ main' = "booting"
  /\ UNCHANGED <<rec, start, proc, agent, notes, cancels>>

RecordBoot ==
  /\ main = "booting" /\ Create("main")
  /\ main' = "agent" /\ agent' = "running"
  /\ UNCHANGED <<start, proc, notes, cancels>>

\* The daemon thread, until stop_heartbeat is set.
Heartbeat ==
  /\ main \in {"agent", "report", "handler"} /\ job["beat"] = "none"
  /\ Begin("beat", "beat")
  /\ UNCHANGED <<rec, start, main, proc, agent, notes, cancels>>

RecordBeat ==
  /\ Create("beat")
  /\ UNCHANGED <<start, main, proc, agent, notes, cancels>>

Verdict(how) == IF how = "ok" THEN "success" ELSE "error"

\* The agent exits, or could not be started.
AgentExits(how) ==
  /\ main = "agent" /\ agent = "running"
  /\ agent' = how /\ main' = "report"
  /\ Begin("main", Verdict(how))
  /\ UNCHANGED <<rec, start, proc, notes, cancels>>

\* The verdict is written; the finally clause stops the heartbeat and beats once.
Report ==
  /\ main \in {"report", "handler"} /\ copy["main"] # NoTask
  /\ rec' = Patched(job["main"], copy["main"])
  /\ Begin("main", "beat") /\ main' = "final"
  /\ UNCHANGED <<start, proc, agent, notes, cancels>>

\* The write of the verdict raises: whatever it was, it becomes an error, and
\* when that cannot be written either the runner ends without a verdict.
ReportFails ==
  /\ main \in {"report", "handler"} /\ copy["main"] # NoTask
  /\ IF main = "report" THEN Begin("main", "error") /\ main' = "handler"
                        ELSE Begin("main", "beat") /\ main' = "final"
  /\ UNCHANGED <<rec, start, proc, agent, notes, cancels>>

FinalBeat ==
  /\ main = "final" /\ copy["main"] # NoTask
  /\ rec' = Patched("beat", copy["main"])
  /\ RunnerGone
  /\ UNCHANGED <<start, agent, notes, cancels>>

\* SIGKILL, out of memory, power loss.
RunnerDies ==
  /\ proc = "alive"
  /\ RunnerGone
  /\ UNCHANGED <<rec, start, agent, notes, cancels>>

-----------------------------------------------------------------------------
(* The tools.                                                               *)

PidAlive == proc \in {"alive", "zombie"}

\* Faulty variant: a task without a pid counts as dead.
BuggyLooksDead(r) == r.status = "running" /\ ~(r.pid /\ PidAlive)

LooksDead(r) == r.status = "running" /\ r.pid /\ ~PidAlive

CheckTask(c) ==
  /\ rec # NoTask /\ job[c] = "none"
  /\ job' = [job EXCEPT ![c] = "check"] /\ copy' = [copy EXCEPT ![c] = rec]
  /\ UNCHANGED <<rec, start, main, proc, agent, notes, cancels>>

\* The record it read may be old by now, the pid is looked up now.
Reconcile(c) ==
  /\ job[c] = "check"
  /\ Begin(c, IF LooksDead(copy[c]) THEN "presume" ELSE "none")
  /\ UNCHANGED <<rec, start, main, proc, agent, notes, cancels>>

\* UpdateTask gets, checks and modifies the same copy.
UpdateTask(c) ==
  /\ rec.status = "running" /\ job[c] = "none" /\ notes < MaxNotes
  /\ notes' = notes + 1
  /\ job' = [job EXCEPT ![c] = "note"] /\ copy' = [copy EXCEPT ![c] = rec]
  /\ UNCHANGED <<rec, start, main, proc, agent, cancels>>

CancelTask(c) ==
  /\ rec.status = "running" /\ job[c] = "none" /\ cancels < MaxCancels
  /\ cancels' = cancels + 1
  /\ job' = [job EXCEPT ![c] = "kill"] /\ copy' = [copy EXCEPT ![c] = rec]
  /\ UNCHANGED <<rec, start, main, proc, agent, notes>>

\* SIGTERM ends the runner, not its agent; an unknown pid is not signalled.
Signal(c) ==
  /\ job[c] = "kill"
  /\ IF copy[c].pid /\ proc = "alive"
       THEN /\ proc' = (IF start = "gone" THEN "gone" ELSE "zombie") /\ main' = "none"
            /\ job' = [job EXCEPT !["main"] = "none", !["beat"] = "none", ![c] = "cancel"]
            /\ copy' = [copy EXCEPT !["main"] = NoTask, !["beat"] = NoTask, ![c] = NoTask]
       ELSE Begin(c, "cancel") /\ UNCHANGED <<proc, main>>
  /\ UNCHANGED <<rec, start, agent, notes, cancels>>

RecordTool(c) ==
  /\ Create(c)
  /\ UNCHANGED <<start, main, proc, agent, notes, cancels>>

-----------------------------------------------------------------------------
Session == CreateRecord \/ SpawnRunner \/ RecordStart \/ SessionEnds \/ Reap
Runner == Boot \/ RecordBoot \/ Heartbeat \/ RecordBeat
          \/ (\E how \in {"ok", "failed"} : AgentExits(how))
          \/ Report \/ ReportFails \/ FinalBeat \/ RunnerDies
Tools == \E c \in Clients : CheckTask(c) \/ Reconcile(c) \/ UpdateTask(c)
                            \/ CancelTask(c) \/ Signal(c) \/ RecordTool(c)

Next == Session \/ Runner \/ Tools \/ \E a \in Actors : Get(a)

Spec == Init /\ [][Next]_vars

\* One client keeps checking, and carries through whatever call it has begun.
Checking(c) == CheckTask(c) \/ Get(c) \/ Reconcile(c) \/ Signal(c) \/ RecordTool(c)

\* The session of the runner ends some day, or starts other processes.
Fairness ==
  /\ WF_vars(Reap)
  /\ WF_vars(Checking(Watcher))

FairSpec == Spec /\ Fairness

-----------------------------------------------------------------------------
\* Every variable keeps its type.
TypeOK ==
  /\ rec \in Task \cup {NoTask}
  /\ job \in [Actors -> Jobs] /\ copy \in [Actors -> Task \cup {NoTask}]
  /\ start \in {"create", "spawn", "recording", "done", "gone"}
  /\ main \in {"none", "boot", "booting", "agent", "report", "handler", "final"}
  /\ proc \in {"none", "alive", "zombie", "gone"}
  /\ agent \in {"none", "running", "ok", "failed"}
  /\ notes \in 0..MaxNotes /\ cancels \in 0..MaxCancels

\* Whatever the actors overwrite, a task is called a success only if its agent
\* exited with 0; and CheckTask never declares a living runner dead, not even
\* while it boots.
SuccessIsReal == rec.status = "success" => agent = "ok"
NoFalseDeath == rec.by = "check" => proc \in {"zombie", "gone"}
RecordIsTrue == SuccessIsReal /\ NoFalseDeath

\* A runner that died without a verdict is noticed by whoever keeps checking, as
\* long as nobody sends a note: UpdateTask may write the recorded pid away.
DeadIsNoticed ==
  (proc \in {"zombie", "gone"} /\ start = "done" /\ rec.status = "running" /\ notes = 0)
    ~> (rec.status # "running" \/ notes > 0)
=============================================================================
