------------------------- MODULE BackgroundTaskProofs -------------------------
(***************************************************************************)
(* Proofs about BackgroundTask.  Every actor writes whole records from      *)
(* copies that may be stale, so what is to hold of the record has to hold   *)
(* of every copy in flight, and every pending job has to be justified.      *)
(***************************************************************************)
EXTENDS BackgroundTask, TLAPS

Dead == proc \in {"zombie", "gone"}

\* What a record says is true of the processes.
Sound(r) ==
  /\ r.pid => proc # "none"
  /\ r.by = "check" => Dead
  /\ r.status = "success" => agent = "ok"

\* An actor about to write this has a reason to.
Justified(j) ==
  /\ j = "pid" => proc # "none"
  /\ j = "presume" => Dead
  /\ j = "success" => agent = "ok"

CopiesSound == Sound(rec) /\ \A a \in Actors : Sound(copy[a]) /\ Justified(job[a])

\* The life of the runner, as far as the records depend on it.
RunnerLife ==
  /\ start \in {"create", "spawn"} => proc = "none" /\ main = "none" /\ agent = "none"
  /\ main # "none" => proc # "none"
  /\ main \in {"boot", "booting"} => agent = "none"
  /\ main \in {"report", "handler"} => job["main"] \in {"success", "error"}
  /\ agent = "ok" => main \notin {"boot", "booting"}

IInv == TypeOK /\ CopiesSound /\ RunnerLife

-----------------------------------------------------------------------------
\* A copy is patched into a record of the same type.
LEMMA PatchedType ==
  ASSUME NEW r \in Task, NEW j \in Jobs \ {"none", "check", "kill"}
  PROVE  Patched(j, r) \in Task
<1>1. CASE j \in {"pid", "beat", "note"}
  BY <1>1 DEF Patched, Task, ProvisionalPid
<1>2. CASE j \in {"success", "error", "fail", "presume", "cancel"}
  BY <1>2 DEF Patched, Task
<1> QED
  BY <1>1, <1>2 DEF Jobs

\* A justified patch of a sound copy is sound.
LEMMA PatchedSound ==
  ASSUME NEW r \in Task, NEW j \in Jobs \ {"none", "check", "kill"},
         Sound(r), Justified(j)
  PROVE  Sound(Patched(j, r))
BY DEF Patched, Task, Jobs, ProvisionalPid, Sound, Justified

\* The empty record says nothing, and is no task.
LEMMA NoTaskSound == Sound(NoTask) /\ NoTask \notin Task
BY DEF NoTask, Sound, Task

\* The steps of the invariant, one per action.
LEMMA Preserved == IInv /\ [Next]_vars => IInv'
<1> SUFFICES ASSUME IInv, [Next]_vars PROVE IInv'
  OBVIOUS
<1> USE DEF IInv, TypeOK, CopiesSound, RunnerLife
<1> USE NoTaskSound, ClientAssumption, BoundAssumption
<1>0. "start" \in Actors /\ "main" \in Actors /\ "beat" \in Actors
  BY DEF Actors
<1>1. ASSUME NEW a \in Actors, Get(a) PROVE IInv'
  BY <1>1 DEF Get, Sound, Justified, Dead
<1>2. ASSUME NEW a \in Actors, Create(a)
      PROVE  /\ rec' \in Task
             /\ Sound(rec')
             /\ job' \in [Actors -> Jobs] /\ copy' \in [Actors -> Task \cup {NoTask}]
             /\ \A b \in Actors : (b # a => job'[b] = job[b] /\ copy'[b] = copy[b])
             /\ job'[a] = "none" /\ copy'[a] = NoTask
  <2>1. copy[a] \in Task /\ job[a] \in Jobs \ {"none", "check", "kill"}
    BY <1>2 DEF Create
  <2>2. rec' \in Task /\ Sound(rec')
    BY <1>2, <2>1, PatchedType, PatchedSound DEF Create
  <2>3. job' = [job EXCEPT ![a] = "none"] /\ copy' = [copy EXCEPT ![a] = NoTask]
    BY <1>2 DEF Create, Begin
  <2> QED
    BY <2>2, <2>3 DEF Jobs
<1>3. CASE CreateRecord
  BY <1>3 DEF CreateRecord, Sound, Justified, Dead, Fresh, NoTask, Task
<1>4. CASE SpawnRunner
  BY <1>0, <1>4 DEF SpawnRunner, Begin, Sound, Justified, Dead, Jobs
<1>5. CASE RecordStart
  BY <1>0, <1>2, <1>5 DEF RecordStart, Sound, Justified, Dead
<1>6. CASE SessionEnds
  BY <1>0, <1>6 DEF SessionEnds, Begin, Sound, Justified, Dead, Jobs
<1>7. CASE Reap
  BY <1>7 DEF Reap, Sound, Justified, Dead
<1>8. CASE Boot
  BY <1>0, <1>8 DEF Boot, Begin, Sound, Justified, Dead, Jobs
<1>9. CASE RecordBoot
  BY <1>0, <1>2, <1>9 DEF RecordBoot, Sound, Justified, Dead
<1>10. CASE Heartbeat
  BY <1>0, <1>10 DEF Heartbeat, Begin, Sound, Justified, Dead, Jobs
<1>11. CASE RecordBeat
  BY <1>0, <1>2, <1>11 DEF RecordBeat, Sound, Justified, Dead
<1>12. ASSUME NEW how \in {"ok", "failed"}, AgentExits(how) PROVE IInv'
  BY <1>0, <1>12 DEF AgentExits, Verdict, Begin, Sound, Justified, Dead, Jobs
<1>13. CASE Report
  <2>1. copy["main"] \in Task /\ job["main"] \in {"success", "error"}
    BY <1>0, <1>13 DEF Report
  <2>2. rec' \in Task /\ Sound(rec')
    BY <1>0, <1>13, <2>1, PatchedType, PatchedSound DEF Report, Jobs
  <2> QED
    BY <1>0, <1>13, <2>2 DEF Report, Begin, Sound, Justified, Dead, Jobs
<1>14. CASE ReportFails
  BY <1>0, <1>14 DEF ReportFails, Begin, Sound, Justified, Dead, Jobs
<1>15. CASE FinalBeat
  <2>1. rec' \in Task /\ Sound(rec)' /\ rec' = copy["main"]
    BY <1>0, <1>15 DEF FinalBeat, RunnerGone, Patched, Sound, Dead
  <2> QED
    BY <1>0, <1>15, <2>1 DEF FinalBeat, RunnerGone, Sound, Justified, Dead, Jobs
<1>16. CASE RunnerDies
  BY <1>0, <1>16 DEF RunnerDies, RunnerGone, Sound, Justified, Dead, Jobs
<1>17. ASSUME NEW c \in Clients PROVE c \in Actors /\ c \notin {"start", "main", "beat"}
  BY DEF Actors
<1>18. ASSUME NEW c \in Clients, CheckTask(c) PROVE IInv'
  BY <1>17, <1>18 DEF CheckTask, Sound, Justified, Dead, Jobs
<1>19. ASSUME NEW c \in Clients, Reconcile(c) PROVE IInv'
  BY <1>17, <1>19 DEF Reconcile, LooksDead, PidAlive, Begin, Sound, Justified, Dead, Jobs
<1>20. ASSUME NEW c \in Clients, UpdateTask(c) PROVE IInv'
  BY <1>17, <1>20 DEF UpdateTask, Sound, Justified, Dead, Jobs
<1>21. ASSUME NEW c \in Clients, CancelTask(c) PROVE IInv'
  BY <1>17, <1>21 DEF CancelTask, Sound, Justified, Dead, Jobs
<1>22. ASSUME NEW c \in Clients, Signal(c) PROVE IInv'
  BY <1>0, <1>17, <1>22 DEF Signal, Begin, Sound, Justified, Dead, Jobs
<1>23. ASSUME NEW c \in Clients, RecordTool(c) PROVE IInv'
  <2>1. Create(c) /\ c \in Actors /\ c # "main"
    BY <1>17, <1>23 DEF RecordTool
  <2>2. UNCHANGED <<start, main, proc, agent, notes, cancels>>
    BY <1>23 DEF RecordTool
  <2>3. TypeOK'
    BY <1>2, <2>1, <2>2
  <2>4. CopiesSound'
    BY <1>2, <2>1, <2>2 DEF Sound, Justified, Dead
  <2>5. RunnerLife'
    BY <1>0, <1>2, <2>1, <2>2
  <2> QED
    BY <2>3, <2>4, <2>5
<1>24. CASE UNCHANGED vars
  BY <1>24 DEF vars, Sound, Justified, Dead
<1> QED
  BY <1>1, <1>3, <1>4, <1>5, <1>6, <1>7, <1>8, <1>9, <1>10, <1>11, <1>12, <1>13,
     <1>14, <1>15, <1>16, <1>18, <1>19, <1>20, <1>21, <1>22, <1>23, <1>24
     DEF Next, Session, Runner, Tools

LEMMA Initially == Init => IInv
BY BoundAssumption
   DEF Init, IInv, TypeOK, CopiesSound, RunnerLife, Sound, Justified, Dead, NoTask, Jobs

LEMMA Invariance == Spec => []IInv
BY Initially, Preserved, PTL DEF Spec

\* Every variable keeps its type.
THEOREM TypeCorrect == Spec => []TypeOK
BY Invariance, PTL DEF IInv

\* Whatever stale copies the actors write over each other, a record that says
\* "success" belongs to an agent that exited with 0; and however late CheckTask
\* settles a record it read long ago, a runner it declares dead is dead.
THEOREM RecordHolds == Spec => []RecordIsTrue
<1>1. IInv => SuccessIsReal
  BY DEF IInv, CopiesSound, Sound, SuccessIsReal
<1>2. IInv => NoFalseDeath
  BY DEF IInv, CopiesSound, Sound, Dead, NoFalseDeath
<1> QED
  BY <1>1, <1>2, Invariance, PTL DEF RecordIsTrue
=============================================================================
