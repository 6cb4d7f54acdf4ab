---------------------------- MODULE CronDispatch ----------------------------
(***************************************************************************)
(* commands/cron.py over core/cron_store.py: the one-minute ticks, the     *)
(* lock that serialises those with a contract job, the notifications, and  *)
(* `prax cron add` and `remove`, which rewrite cron.yaml without a lock.   *)
(* The worker of a contract job is `prax shift run --resume-existing`, see *)
(* Harness: here it is a process with the run lock of its task and one of  *)
(* four ways to end.                                                       *)
(***************************************************************************)
EXTENDS CronSchedule, FiniteSets

CONSTANTS
  Dispatchers,  \* `prax cron run` processes, started by launchd, cron or a person
  Editors,      \* `prax cron add` and `remove`
  Job,          \* per job name: mode, schedule and notify_on
  Seeds,        \* the jobs that cron.yaml may hold at first
  Moments,      \* the minutes at which a tick may happen
  TaskIds,      \* what the file at task_path may name
  None,         \* no lock holder, no task, no signal
  MaxTicks, MaxEdits, MaxKills   \* bounds

Jobs == DOMAIN Job
Modes == {"prompt", "shift", "legacy"}
Statuses == {"success", "failure", "paused"}
Outcomes == {"PASS", "PAUSED", "FEATURE-FAIL", "garbage"}
Signals == [status : Statuses, reason : Outcomes, id : TaskIds \cup {None}]

ASSUME CronAssumption ==
  /\ \A j \in Jobs : Job[j].mode \in Modes /\ Job[j].notifyOn \subseteq {"success", "failure"}
  /\ \A j \in Jobs : Parsed(Job[j].schedule)
  /\ \A m \in Moments : IsMoment(m)
  /\ Seeds \subseteq SUBSET Jobs
  /\ None \notin Dispatchers /\ None \notin TaskIds /\ None \notin Moments
  /\ None \notin Jobs /\ None \notin Signals
  /\ {MaxTicks, MaxEdits, MaxKills} \subseteq Nat

VARIABLES
  file,      \* cron.yaml: its jobs; their order matters to nothing below
  edit,      \* per editor: what it does, and the jobs it will write
  pc,        \* per dispatcher: "idle", "lock", "locked", "load", "next",
             \* "running", "judge", "deliver" or "record"
  now,       \* the minute of the tick, until its jobs are chosen
  queue,     \* the due jobs left
  current,   \* the job at work
  lock,      \* holder of .cron-dispatch
  child,     \* per dispatcher: the worker process
  signal,    \* per dispatcher: what it has to tell about the job at work
  taskId,    \* the ID in the task file, which a person may rewrite
  orphans,   \* tasks whose worker outlived its dispatcher
  notified,  \* <job>.json: the signal that was recorded as told
  \* History, for the properties only:
  last,      \* the signal delivered last, per job
  repeated,  \* jobs of which the same signal was delivered twice in a row
  accepted,  \* tasks with a run that ended in PASS
  late,      \* dispatchers with a contract job and without the lock
  excused,   \* the lock was missing, or a dispatcher died between telling and recording
  ticks, edits, kills

tick == <<pc, now, queue, current, lock, child, signal>>
store == <<file, edit>>
told == <<notified, last, repeated>>
history == <<accepted, late, excused, ticks, edits, kills>>
vars == <<file, edit, pc, now, queue, current, lock, child, signal, taskId, orphans, notified,
          last, repeated, accepted, late, excused, ticks, edits, kills>>

NoChild == [id |-> None, out |-> "none"]
NoEdit == [step |-> "idle", jobs |-> {}]
Mode(j) == Job[j].mode

Init ==
  /\ file \in Seeds /\ edit = [e \in Editors |-> NoEdit]
  /\ pc = [d \in Dispatchers |-> "idle"]
  /\ now = [d \in Dispatchers |-> None]
  /\ queue = [d \in Dispatchers |-> {}]
  /\ current = [d \in Dispatchers |-> None] /\ lock = None
  /\ child = [d \in Dispatchers |-> NoChild] /\ signal = [d \in Dispatchers |-> None]
  /\ taskId \in TaskIds /\ orphans = {}
  /\ notified = [j \in Jobs |-> None] /\ last = [j \in Jobs |-> None]
  /\ repeated = {} /\ accepted = {} /\ late = {} /\ excused = FALSE
  /\ ticks = 0 /\ edits = 0 /\ kills = 0

-----------------------------------------------------------------------------
(* run_due_jobs: the jobs are read once to decide on the lock, and again.   *)

Due(j, d) == IsDue(Job[j].schedule, now[d])

Tick(d) ==
  /\ pc[d] = "idle" /\ ticks < MaxTicks /\ ticks' = ticks + 1
  /\ \E m \in Moments :
       /\ now' = [now EXCEPT ![d] = m]
       /\ pc' = [pc EXCEPT ![d] =
            IF \E j \in file : Mode(j) = "shift" /\ IsDue(Job[j].schedule, m)
              THEN "lock" ELSE "load"]
  /\ UNCHANGED <<store, queue, current, lock, child, signal, taskId, orphans, told, accepted,
                 late, excused, edits, kills>>

Acquire(d) == lock = None /\ lock' = d

\* run_lock does not wait: the whole tick fails when another one has it.
Lock(d) ==
  /\ pc[d] = "lock"
  /\ \/ Acquire(d) /\ pc' = [pc EXCEPT ![d] = "locked"]
     \/ lock # None /\ UNCHANGED lock /\ pc' = [pc EXCEPT ![d] = "idle"]
  /\ now' = [now EXCEPT ![d] = IF pc'[d] = "idle" THEN None ELSE @]
  /\ UNCHANGED <<store, queue, current, child, signal, taskId, orphans, told, history>>

Load(d) ==
  /\ pc[d] \in {"locked", "load"}
  /\ queue' = [queue EXCEPT ![d] = {j \in file : Due(j, d)}]
  /\ pc' = [pc EXCEPT ![d] = "next"] /\ now' = [now EXCEPT ![d] = None]
  /\ LET unlocked == pc[d] = "load" /\ \E j \in queue'[d] : Mode(j) = "shift"
     IN /\ late' = IF unlocked THEN late \cup {d} ELSE late
        /\ excused' = (excused \/ unlocked)
  /\ UNCHANGED <<store, current, lock, child, signal, taskId, orphans, told, accepted, ticks,
                 edits, kills>>

-----------------------------------------------------------------------------
(* _run_due_jobs_unlocked: one job after the other.                         *)

Active == orphans \cup {child[d].id : d \in {c \in Dispatchers : child[c].out = "working"}}

\* Leaves the job at work and everything the tick knew about it.
Proceed(d) ==
  /\ pc' = [pc EXCEPT ![d] = "next"]
  /\ current' = [current EXCEPT ![d] = None]
  /\ child' = [child EXCEPT ![d] = NoChild]
  /\ signal' = [signal EXCEPT ![d] = None]

\* migration-required: a log file and no worker.
SkipLegacy(d) ==
  /\ pc[d] = "next"
  /\ \E j \in queue[d] : Mode(j) = "legacy" /\ queue' = [queue EXCEPT ![d] = @ \ {j}]
  /\ UNCHANGED <<store, pc, now, current, lock, child, signal, taskId, orphans, told, history>>

\* The run lock of a task that is at work already turns the new worker away.
Start(d, j) ==
  /\ pc[d] = "next" /\ j \in queue[d] /\ Mode(j) # "legacy"
  /\ pc' = [pc EXCEPT ![d] = "running"]
  /\ queue' = [queue EXCEPT ![d] = @ \ {j}] /\ current' = [current EXCEPT ![d] = j]
  /\ child' = [child EXCEPT ![d] =
       IF Mode(j) = "prompt" THEN [id |-> None, out |-> "working"]
       ELSE [id |-> taskId, out |-> IF taskId \in Active THEN "refused" ELSE "working"]]
  /\ UNCHANGED <<store, now, lock, signal, taskId, orphans, told, history>>

\* The worker returns, or the runner raises ("garbage": no JSON on stdout).
ChildEnds(d, out) ==
  /\ pc[d] = "running"
  /\ child[d].out = "refused" => out = "garbage"
  /\ pc' = [pc EXCEPT ![d] = "judge"]
  /\ child' = [child EXCEPT ![d] = [id |-> child[d].id, out |-> out]]
  /\ accepted' = IF out = "PASS" /\ Mode(current[d]) = "shift"
                   THEN accepted \cup {child[d].id} ELSE accepted
  /\ UNCHANGED <<store, now, queue, current, lock, signal, taskId, orphans, told, late,
                 excused, ticks, edits, kills>>

\* Only a PASS of the task that the file names now is a success.
Status(mode, c) ==
  LET matching == mode = "prompt" \/ c.id = taskId
  IN  IF matching /\ c.out = "PASS" THEN "success"
      ELSE IF matching /\ mode = "shift" /\ c.out = "PAUSED" THEN "paused"
      ELSE "failure"

\* Without JSON there is no stop reason and no run ID to remember.
Signal(mode, c) ==
  [status |-> Status(mode, c), reason |-> c.out,
   id |-> IF c.out = "garbage" THEN None ELSE c.id]

\* The child's result is classified and compared with what was told before.
Judge(d) ==
  /\ pc[d] = "judge"
  /\ LET j == current[d]
         s == Signal(Mode(j), child[d])
     IN IF s.status \in Job[j].notifyOn /\ (Mode(j) = "shift" => notified[j] # s)
          THEN /\ pc' = [pc EXCEPT ![d] = "deliver"]
               /\ signal' = [signal EXCEPT ![d] = s]
               /\ child' = [child EXCEPT ![d] = NoChild] /\ UNCHANGED current
          ELSE Proceed(d)
  /\ UNCHANGED <<store, now, queue, lock, taskId, orphans, told, history>>

\* Faulty variant: the attempt counts.
BuggyAcknowledged(j, ok) == Mode(j) = "shift"

Acknowledged(j, ok) == ok /\ Mode(j) = "shift"

\* The provider takes the message, or raises and nothing is recorded.
Deliver(d, ok) ==
  /\ pc[d] = "deliver"
  /\ LET j == current[d]
     IN /\ last' = IF ok /\ Mode(j) = "shift" THEN [last EXCEPT ![j] = signal[d]] ELSE last
        /\ repeated' = IF ok /\ Mode(j) = "shift" /\ last[j] = signal[d]
                         THEN repeated \cup {j} ELSE repeated
        /\ IF Acknowledged(j, ok)
             THEN pc' = [pc EXCEPT ![d] = "record"] /\ UNCHANGED <<current, child, signal>>
             ELSE Proceed(d)
  /\ UNCHANGED <<store, now, queue, lock, taskId, orphans, notified, history>>

Record(d) ==
  /\ pc[d] = "record"
  /\ notified' = [notified EXCEPT ![current[d]] = signal[d]]
  /\ Proceed(d)
  /\ UNCHANGED <<store, now, queue, lock, taskId, orphans, last, repeated, history>>

\* Faulty variant: a tick without the lock gives it away.
BuggyRelease(d) == lock' = None

Release(d) == lock' = IF lock = d THEN None ELSE lock

Finish(d) ==
  /\ pc[d] = "next" /\ queue[d] = {}
  /\ pc' = [pc EXCEPT ![d] = "idle"] /\ Release(d) /\ late' = late \ {d}
  /\ UNCHANGED <<store, now, queue, current, child, signal, taskId, orphans, told, accepted,
                 excused, ticks, edits, kills>>

-----------------------------------------------------------------------------
(* The environment.                                                         *)

\* A killed dispatcher loses its lock; its worker goes on by itself.
Kill(d) ==
  /\ pc[d] # "idle" /\ kills < MaxKills /\ kills' = kills + 1
  /\ pc' = [pc EXCEPT ![d] = "idle"] /\ queue' = [queue EXCEPT ![d] = {}]
  /\ current' = [current EXCEPT ![d] = None]
  /\ child' = [child EXCEPT ![d] = NoChild] /\ signal' = [signal EXCEPT ![d] = None]
  /\ now' = [now EXCEPT ![d] = None] /\ Release(d) /\ late' = late \ {d}
  /\ orphans' = IF child[d].out = "working" /\ child[d].id # None
                  THEN orphans \cup {child[d].id} ELSE orphans
  /\ excused' = (excused \/ pc[d] = "record")
  /\ UNCHANGED <<store, taskId, told, accepted, ticks, edits>>

OrphanEnds(id) ==
  /\ id \in orphans /\ orphans' = orphans \ {id}
  /\ accepted' \in {accepted, accepted \cup {id}}
  /\ UNCHANGED <<store, tick, taskId, told, late, excused, ticks, edits, kills>>

\* CronStore.add and remove: load, change the copy ...
ReadJobs(e, j) ==
  /\ edit[e].step = "idle" /\ edits < MaxEdits /\ edits' = edits + 1
  /\ edit' = [edit EXCEPT ![e] =
       [step |-> "save",
        jobs |-> IF j \in file THEN file \ {j} ELSE file \cup {j}]]
  /\ j \in file \/ Mode(j) # "legacy"
  /\ UNCHANGED <<file, tick, taskId, orphans, told, accepted, late, excused, ticks, kills>>

\* ... and write_text, which truncates first.  An empty file has no jobs.
Truncate(e) ==
  /\ edit[e].step = "save"
  /\ file' = {} /\ edit' = [edit EXCEPT ![e].step = "write"]
  /\ UNCHANGED <<tick, taskId, orphans, told, history>>

Write(e) ==
  /\ edit[e].step = "write"
  /\ file' = edit[e].jobs /\ edit' = [edit EXCEPT ![e] = NoEdit]
  /\ UNCHANGED <<tick, taskId, orphans, told, history>>

\* The person points the task file at another contract.
ChangeTask ==
  /\ edits < MaxEdits /\ edits' = edits + 1
  /\ taskId' \in TaskIds \ {taskId}
  /\ UNCHANGED <<store, tick, orphans, told, accepted, late, excused, ticks, kills>>

-----------------------------------------------------------------------------
Works(d) ==
  \/ Lock(d) \/ Load(d) \/ SkipLegacy(d) \/ (\E j \in Jobs : Start(d, j))
  \/ \E out \in Outcomes : ChildEnds(d, out)
  \/ Judge(d) \/ (\E ok \in BOOLEAN : Deliver(d, ok)) \/ Record(d) \/ Finish(d)

Edits == \E e \in Editors : (\E j \in Jobs : ReadJobs(e, j)) \/ Truncate(e) \/ Write(e)

Next ==
  \/ \E d \in Dispatchers : Tick(d) \/ Works(d) \/ Kill(d)
  \/ (\E id \in TaskIds : OrphanEnds(id)) \/ Edits \/ ChangeTask

Spec == Init /\ [][Next]_vars

-----------------------------------------------------------------------------
Phases == {"idle", "lock", "locked", "load", "next", "running", "judge", "deliver", "record"}

AtWork(d) == pc[d] \in {"running", "judge", "deliver", "record"}
AtContract(d) == AtWork(d) /\ Mode(current[d]) = "shift"

\* A tick that is over holds nothing; one at work has a job and the lock it asked for.
Shape(d) ==
  /\ pc[d] \in {"idle", "lock", "load"} => lock # d
  /\ pc[d] = "locked" => lock = d
  /\ AtWork(d) <=> current[d] # None
  /\ pc[d] = "judge" => child[d].out \in Outcomes
  /\ pc[d] \in {"running", "judge"} /\ Mode(current[d]) = "shift" => child[d].id \in TaskIds
  /\ pc[d] \in {"deliver", "record"} <=> signal[d] # None

\* Every variable keeps its type, and a dispatcher its shape.
TypeOK ==
  /\ file \subseteq Jobs
  /\ edit \in [Editors -> [step : {"idle", "save", "write"}, jobs : SUBSET Jobs]]
  /\ pc \in [Dispatchers -> Phases]
  /\ now \in [Dispatchers -> Moments \cup {None}] /\ queue \in [Dispatchers -> SUBSET Jobs]
  /\ current \in [Dispatchers -> Jobs \cup {None}]
  /\ lock \in Dispatchers \cup {None}
  /\ child \in [Dispatchers -> [id : TaskIds \cup {None},
                                out : Outcomes \cup {"none", "working", "refused"}]]
  /\ signal \in [Dispatchers -> Signals \cup {None}] /\ taskId \in TaskIds
  /\ orphans \subseteq TaskIds
  /\ notified \in [Jobs -> Signals \cup {None}] /\ last \in [Jobs -> Signals \cup {None}]
  /\ repeated \subseteq Jobs /\ accepted \subseteq TaskIds /\ late \subseteq Dispatchers
  /\ excused \in BOOLEAN /\ {ticks, edits, kills} \subseteq Nat
  /\ \A d \in Dispatchers : Shape(d)

\* A tick runs exactly the jobs of cron.yaml that crontab(5) would run in its minute.
DueIsCron ==
  [][\A d \in Dispatchers : pc[d] \in {"locked", "load"} /\ pc'[d] = "next" =>
       queue'[d] = {j \in file : CronMatches(Job[j].schedule, now[d])}]_vars

\* Two dispatchers are at work on contract jobs at once only if one of them met a
\* job that was added between its two reads of cron.yaml.
Serialized ==
  \A c, d \in Dispatchers : c # d /\ AtContract(c) /\ AtContract(d) => c \in late \/ d \in late

\* As long as the lock was held and nobody died between telling and recording, the
\* same news of a contract job are not told twice in a row.
ToldOnce == ~excused => repeated = {}

\* Who tells of a success tells it of a task that was accepted.
SuccessIsAccepted ==
  \A d \in Dispatchers : AtContract(d) /\ signal[d] # None /\ signal[d].status = "success" =>
    signal[d].id \in accepted

\* With the same proviso, the state file holds what was delivered last, so news that
\* could not be delivered is told at the next opportunity.
RecordIsDelivery ==
  ~excused => \A j \in Jobs : \/ notified[j] = last[j]
                             \/ \E d \in Dispatchers : pc[d] = "record" /\ current[d] = j

\* What a contract job has to tell is told once, and not forgotten before it is.
NewsAreTold == ToldOnce /\ RecordIsDelivery
=============================================================================
