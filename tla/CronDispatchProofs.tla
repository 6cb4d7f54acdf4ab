------------------------- MODULE CronDispatchProofs -------------------------
(***************************************************************************)
(* Proofs about CronDispatch.  A dispatcher that met a contract job either *)
(* has the lock or is counted as late; so, as long as nothing is excused,  *)
(* one dispatcher at most is between comparing the news of a job and       *)
(* recording them, and what it compared with is still there.  What is due  *)
(* is what crontab(5) names, by arithmetic on ranges and steps.            *)
(***************************************************************************)
EXTENDS CronDispatch, TLAPS

\* The steps that one dispatcher takes, with their parameters.
StepOf(d) ==
  \/ Tick(d) \/ Lock(d) \/ Load(d) \/ SkipLegacy(d) \/ (\E j \in Jobs : Start(d, j))
  \/ (\E out \in Outcomes : ChildEnds(d, out)) \/ Judge(d)
  \/ (\E ok \in BOOLEAN : Deliver(d, ok)) \/ Record(d) \/ Finish(d) \/ Kill(d)

\* Steps of others that leave every tick and all news alone.
Elsewhere == Edits \/ ChangeTask \/ \E id \in TaskIds : OrphanEnds(id)

LEMMA NextSplit == Next => (\E d \in Dispatchers : StepOf(d)) \/ Elsewhere
BY DEF Next, Works, StepOf, Elsewhere

-----------------------------------------------------------------------------
\* What is told about a job is a signal.
LEMMA SignalType ==
  ASSUME NEW mode \in Modes, NEW c \in [id : TaskIds \cup {None}, out : Outcomes]
  PROVE  Signal(mode, c) \in Signals
<1>1. Status(mode, c) \in Statuses
  BY DEF Status, Statuses
<1>2. c.out \in Outcomes /\ (IF c.out = "garbage" THEN None ELSE c.id) \in TaskIds \cup {None}
  OBVIOUS
<1> DEFINE st == Status(mode, c)
           id == IF c.out = "garbage" THEN None ELSE c.id
<1>3. Signal(mode, c) = [status |-> st, reason |-> c.out, id |-> id]
  BY DEF Signal
<1>4. st \in Statuses /\ c.out \in Outcomes /\ id \in TaskIds \cup {None}
  BY <1>1, <1>2
<1> HIDE DEF st, id
<1> QED
  BY <1>3, <1>4 DEF Signals

LEMMA InitType == Init => TypeOK
<1> SUFFICES ASSUME Init PROVE TypeOK
  OBVIOUS
<1>1. \A d \in Dispatchers : Shape(d)
  BY CronAssumption DEF Init, Shape, AtWork
<1>2. /\ file \subseteq Jobs
      /\ edit \in [Editors -> [step : {"idle", "save", "write"}, jobs : SUBSET Jobs]]
  BY CronAssumption DEF Init, NoEdit
<1>3. child \in [Dispatchers -> [id : TaskIds \cup {None},
                                 out : Outcomes \cup {"none", "working", "refused"}]]
  BY DEF Init, NoChild
<1>4. /\ pc \in [Dispatchers -> Phases] /\ now \in [Dispatchers -> Moments \cup {None}]
      /\ queue \in [Dispatchers -> SUBSET Jobs] /\ current \in [Dispatchers -> Jobs \cup {None}]
      /\ signal \in [Dispatchers -> Signals \cup {None}]
  BY DEF Init, Phases
<1>5. notified \in [Jobs -> Signals \cup {None}] /\ last \in [Jobs -> Signals \cup {None}]
  BY DEF Init
<1>6. /\ lock \in Dispatchers \cup {None} /\ taskId \in TaskIds /\ orphans \subseteq TaskIds
      /\ repeated \subseteq Jobs /\ accepted \subseteq TaskIds /\ late \subseteq Dispatchers
  BY DEF Init
<1>7. excused \in BOOLEAN
  BY DEF Init
<1>8. {ticks, edits, kills} \subseteq Nat
  BY DEF Init
<1> QED
  BY <1>1, <1>2, <1>3, <1>4, <1>5, <1>6, <1>7, <1>8, Zenon DEF TypeOK

LEMMA StepType ==
  ASSUME TypeOK, NEW d \in Dispatchers, StepOf(d)
  PROVE  TypeOK'
<1> USE CronAssumption
<1>1. CASE Tick(d)
  BY <1>1 DEF TypeOK, Tick, Shape, AtWork, Phases, store, told
<1>2. CASE Lock(d)
  <2>1. CASE lock' = d /\ pc' = [pc EXCEPT ![d] = "locked"]
    BY <1>2, <2>1 DEF TypeOK, Lock, Acquire, Shape, AtWork, Phases, store, told, history
  <2>2. CASE UNCHANGED lock /\ pc' = [pc EXCEPT ![d] = "idle"]
    BY <1>2, <2>2 DEF TypeOK, Lock, Shape, AtWork, Phases, store, told, history
  <2> QED
    BY <1>2, <2>1, <2>2 DEF Lock, Acquire
<1>3. CASE Load(d)
  BY <1>3 DEF TypeOK, Load, Shape, AtWork, Phases, store, told
<1>4. CASE SkipLegacy(d)
  BY <1>4 DEF TypeOK, SkipLegacy, Shape, AtWork, Phases, store, told, history
<1>5. ASSUME NEW j \in Jobs, Start(d, j) PROVE TypeOK'
  BY <1>5 DEF TypeOK, Start, Shape, AtWork, Phases, store, told, history
<1>6. ASSUME NEW out \in Outcomes, ChildEnds(d, out) PROVE TypeOK'
  <2>1. child[d].id \in TaskIds \cup {None}
    BY DEF TypeOK
  <2>2. child' \in [Dispatchers -> [id : TaskIds \cup {None},
                                    out : Outcomes \cup {"none", "working", "refused"}]]
    BY <1>6, <2>1 DEF TypeOK, ChildEnds
  <2>3. accepted' \subseteq TaskIds
    BY <1>6 DEF TypeOK, ChildEnds, Shape
  <2> QED
    BY <1>6, <2>2, <2>3 DEF TypeOK, ChildEnds, Shape, AtWork, Phases, store, told
<1>7. CASE Judge(d)
  <2> DEFINE j == current[d]
             s == Signal(Mode(j), child[d])
  <2>1. j \in Jobs /\ Mode(j) \in Modes
    BY <1>7 DEF TypeOK, Judge, Shape, AtWork, Mode
  <2>2. s \in Signals /\ s # None
    <3>1. child[d] \in [id : TaskIds \cup {None}, out : Outcomes]
      BY <1>7 DEF TypeOK, Judge, Shape
    <3> QED
      BY <2>1, <3>1, SignalType
  <2>3. CASE /\ pc' = [pc EXCEPT ![d] = "deliver"]
             /\ signal' = [signal EXCEPT ![d] = s]
             /\ child' = [child EXCEPT ![d] = NoChild] /\ UNCHANGED current
    BY <1>7, <2>2, <2>3 DEF TypeOK, Judge, NoChild, Shape, AtWork, Phases, store, told, history
  <2>4. CASE Proceed(d)
    BY <1>7, <2>4 DEF TypeOK, Judge, Proceed, NoChild, Shape, AtWork, Phases, store, told,
       history
  <2> QED
    BY <1>7, <2>3, <2>4 DEF Judge
<1>8. ASSUME NEW ok \in BOOLEAN, Deliver(d, ok) PROVE TypeOK'
  <2>1. current[d] \in Jobs /\ signal[d] \in Signals
    BY <1>8 DEF TypeOK, Deliver, Shape, AtWork
  <2>2. last' \in [Jobs -> Signals \cup {None}] /\ repeated' \subseteq Jobs
    BY <1>8, <2>1 DEF TypeOK, Deliver
  <2>3. CASE pc' = [pc EXCEPT ![d] = "record"] /\ UNCHANGED <<current, child, signal>>
    BY <1>8, <2>2, <2>3 DEF TypeOK, Deliver, Shape, AtWork, Phases, store, history
  <2>4. CASE Proceed(d)
    BY <1>8, <2>2, <2>4 DEF TypeOK, Deliver, Proceed, NoChild, Shape, AtWork, Phases, store,
       history
  <2> QED
    BY <1>8, <2>3, <2>4 DEF Deliver
<1>9. CASE Record(d)
  BY <1>9 DEF TypeOK, Record, Proceed, NoChild, Shape, AtWork, Phases, store, told, history
<1>10. CASE Finish(d)
  BY <1>10 DEF TypeOK, Finish, Release, Shape, AtWork, Phases, store, told, history
<1>11. CASE Kill(d)
  BY <1>11 DEF TypeOK, Kill, Release, NoChild, Shape, AtWork, Phases, store, told, history
<1> QED
  BY <1>1, <1>2, <1>3, <1>4, <1>5, <1>6, <1>7, <1>8, <1>9, <1>10, <1>11 DEF StepOf

LEMMA ElsewhereType == TypeOK /\ Elsewhere => TypeOK'
<1> SUFFICES ASSUME TypeOK, Elsewhere PROVE TypeOK'
  OBVIOUS
<1> USE CronAssumption
<1>1. ASSUME NEW e \in Editors, NEW j \in Jobs, ReadJobs(e, j) PROVE TypeOK'
  <2>1. edit' \in [Editors -> [step : {"idle", "save", "write"}, jobs : SUBSET Jobs]]
    BY <1>1 DEF TypeOK, ReadJobs
  <2> QED
    BY <1>1, <2>1 DEF TypeOK, ReadJobs, Shape, AtWork, tick, told
<1>2. ASSUME NEW e \in Editors, Truncate(e) PROVE TypeOK'
  BY <1>2 DEF TypeOK, Truncate, Shape, AtWork, tick, told, history
<1>3. ASSUME NEW e \in Editors, Write(e) PROVE TypeOK'
  BY <1>3 DEF TypeOK, Write, NoEdit, Shape, AtWork, tick, told, history
<1>4. CASE ChangeTask
  BY <1>4 DEF TypeOK, ChangeTask, Shape, AtWork, store, tick, told
<1>5. ASSUME NEW id \in TaskIds, OrphanEnds(id) PROVE TypeOK'
  BY <1>5 DEF TypeOK, OrphanEnds, Shape, AtWork, store, tick, told
<1> QED
  BY <1>1, <1>2, <1>3, <1>4, <1>5 DEF Elsewhere, Edits

LEMMA StutterType == TypeOK /\ UNCHANGED vars => TypeOK'
BY DEF TypeOK, vars, Shape, AtWork

\* Every variable keeps its type and every dispatcher its shape, for any jobs,
\* moments, tasks and number of dispatchers and editors.
THEOREM TypeCorrect == Spec => []TypeOK
<1>1. TypeOK /\ [Next]_vars => TypeOK'
  BY StepType, ElsewhereType, StutterType, NextSplit
<1> QED
  BY InitType, <1>1, PTL DEF Spec

-----------------------------------------------------------------------------
(* The lock.                                                                *)

\* Who has a contract job, waiting or at work, has the lock or is counted as late.
Guarded(d) ==
  (\E j \in queue[d] : Mode(j) = "shift") \/ AtContract(d) => lock = d \/ d \in late

Late == late # {} => excused

LockInv == TypeOK /\ Late /\ \A d \in Dispatchers : Guarded(d)

\* A step of one dispatcher is none of another's.
LEMMA OthersStay ==
  ASSUME TypeOK, NEW d \in Dispatchers, StepOf(d), NEW c \in Dispatchers \ {d}
  PROVE  /\ pc'[c] = pc[c] /\ queue'[c] = queue[c] /\ current'[c] = current[c]
         /\ child'[c] = child[c] /\ signal'[c] = signal[c]
         /\ lock = c => lock' = c
         /\ c \in late => c \in late'
<1> USE CronAssumption DEF TypeOK
<1>1. CASE Tick(d)
  BY <1>1 DEF Tick
<1>2. CASE Lock(d)
  BY <1>2 DEF Lock, Acquire, history
<1>3. CASE Load(d)
  BY <1>3 DEF Load
<1>4. CASE SkipLegacy(d)
  BY <1>4 DEF SkipLegacy, history
<1>5. ASSUME NEW j \in Jobs, Start(d, j)
      PROVE  /\ pc'[c] = pc[c] /\ queue'[c] = queue[c] /\ current'[c] = current[c]
             /\ child'[c] = child[c] /\ signal'[c] = signal[c] /\ lock' = lock /\ late' = late
  BY <1>5 DEF Start, history
<1>6. ASSUME NEW out \in Outcomes, ChildEnds(d, out)
      PROVE  /\ pc'[c] = pc[c] /\ queue'[c] = queue[c] /\ current'[c] = current[c]
             /\ child'[c] = child[c] /\ signal'[c] = signal[c] /\ lock' = lock /\ late' = late
  BY <1>6 DEF ChildEnds
<1>7. CASE Judge(d)
  <2> DEFINE s == Signal(Mode(current[d]), child[d])
  <2>1. /\ pc' = [pc EXCEPT ![d] = "deliver"] \/ pc' = [pc EXCEPT ![d] = "next"]
        /\ signal' = [signal EXCEPT ![d] = s] \/ signal' = [signal EXCEPT ![d] = None]
        /\ child' = [child EXCEPT ![d] = NoChild]
        /\ current' = current \/ current' = [current EXCEPT ![d] = None]
        /\ queue' = queue /\ lock' = lock /\ late' = late
    BY <1>7 DEF Judge, Proceed, history
  <2> HIDE DEF s
  <2> QED
    BY <2>1
<1>8. ASSUME NEW ok \in BOOLEAN, Deliver(d, ok)
      PROVE  /\ pc'[c] = pc[c] /\ queue'[c] = queue[c] /\ current'[c] = current[c]
             /\ child'[c] = child[c] /\ signal'[c] = signal[c] /\ lock' = lock /\ late' = late
  BY <1>8 DEF Deliver, Proceed, history
<1>9. CASE Record(d)
  BY <1>9 DEF Record, Proceed, history
<1>10. CASE Finish(d)
  BY <1>10 DEF Finish, Release
<1>11. CASE Kill(d)
  BY <1>11 DEF Kill, Release
<1> QED
  BY <1>1, <1>2, <1>3, <1>4, <1>5, <1>6, <1>7, <1>8, <1>9, <1>10, <1>11 DEF StepOf

\* A dispatcher keeps its own lock, or the note that it has none, for as long as it needs one.
LEMMA OwnGuard ==
  ASSUME LockInv, TypeOK', NEW d \in Dispatchers, StepOf(d)
  PROVE  Guarded(d)'
<1> USE CronAssumption DEF LockInv, TypeOK, Guarded, Mode
<1> USE DEF AtContract, AtWork
<1>1. CASE Tick(d)
  BY <1>1 DEF Tick
<1>2. CASE Lock(d)
  BY <1>2 DEF Lock, Acquire, history
<1>3. CASE Load(d)
  BY <1>3 DEF Load, Shape
<1>4. CASE SkipLegacy(d)
  BY <1>4 DEF SkipLegacy, history
<1>5. ASSUME NEW j \in Jobs, Start(d, j) PROVE Guarded(d)'
  BY <1>5 DEF Start, history
<1>6. ASSUME NEW out \in Outcomes, ChildEnds(d, out) PROVE Guarded(d)'
  BY <1>6 DEF ChildEnds
<1>7. CASE Judge(d)
  BY <1>7 DEF Judge, Proceed, history
<1>8. ASSUME NEW ok \in BOOLEAN, Deliver(d, ok) PROVE Guarded(d)'
  BY <1>8 DEF Deliver, Proceed, history
<1>9. CASE Record(d)
  BY <1>9 DEF Record, Proceed, history
<1>10. CASE Finish(d)
  BY <1>10 DEF Finish
<1>11. CASE Kill(d)
  BY <1>11 DEF Kill
<1> QED
  BY <1>1, <1>2, <1>3, <1>4, <1>5, <1>6, <1>7, <1>8, <1>9, <1>10, <1>11 DEF StepOf

\* What is counted as late is excused.
LEMMA StepLate ==
  ASSUME LockInv, NEW d \in Dispatchers, StepOf(d)
  PROVE  Late' /\ (excused => excused')
<1> USE DEF LockInv, TypeOK, Late
<1>1. CASE Load(d)
  BY <1>1 DEF Load
<1>2. CASE Finish(d)
  BY <1>2 DEF Finish
<1>3. CASE Kill(d)
  BY <1>3 DEF Kill
<1>4. ASSUME ~Load(d), ~Finish(d), ~Kill(d)
      PROVE  late' = late /\ excused' = excused
  BY <1>4 DEF StepOf, Tick, Lock, SkipLegacy, Start, ChildEnds, Judge, Deliver, Record, history
<1> QED
  BY <1>1, <1>2, <1>3, <1>4

\* Steps elsewhere leave every tick and all news alone.
LEMMA ElsewhereStays ==
  ASSUME Elsewhere
  PROVE  UNCHANGED <<tick, told, late, excused>> /\ accepted \subseteq accepted'
BY DEF Elsewhere, Edits, ReadJobs, Truncate, Write, ChangeTask, OrphanEnds, history

LEMMA LockInductive == LockInv /\ [Next]_vars => LockInv'
<1> SUFFICES ASSUME LockInv, [Next]_vars PROVE LockInv'
  OBVIOUS
<1>1. TypeOK /\ TypeOK'
  BY StepType, ElsewhereType, StutterType, NextSplit DEF LockInv
<1>2. ASSUME NEW d \in Dispatchers, StepOf(d) PROVE LockInv'
  <2>1. Guarded(d)'
    BY <1>1, <1>2, OwnGuard
  <2>2. ASSUME NEW c \in Dispatchers \ {d} PROVE Guarded(c)'
    BY <1>1, <1>2, <2>2, OthersStay DEF LockInv, Guarded, AtContract, AtWork, Mode
  <2>3. Late'
    BY <1>2, StepLate
  <2> QED
    BY <1>1, <2>1, <2>2, <2>3 DEF LockInv
<1>3. CASE Elsewhere \/ UNCHANGED vars
  <2>1. UNCHANGED <<tick, told, late, excused>>
    BY <1>3, ElsewhereStays DEF vars, tick, told
  <2>2. ASSUME NEW d \in Dispatchers PROVE Guarded(d)'
    BY <2>1, <2>2 DEF LockInv, Guarded, AtContract, AtWork, Mode, tick
  <2> QED
    BY <1>1, <2>1, <2>2 DEF LockInv, Late
<1> QED
  BY <1>2, <1>3, NextSplit

LEMMA LockInit == Init => LockInv
<1> SUFFICES ASSUME Init PROVE LockInv
  OBVIOUS
<1>1. Late /\ \A d \in Dispatchers : Guarded(d)
  BY CronAssumption DEF Init, Late, Guarded, AtContract, AtWork
<1> QED
  BY <1>1, InitType DEF LockInv

\* Two contract jobs are at work at once only if one of their dispatchers is late.
THEOREM SerializedHolds == Spec => []Serialized
<1>1. LockInv => Serialized
  BY CronAssumption DEF LockInv, Guarded, Serialized
<1> QED
  BY LockInit, LockInductive, <1>1, PTL DEF Spec

-----------------------------------------------------------------------------
(* The news.                                                                *)

\* While nothing is excused: what is about to be told differs from the record, and
\* what is about to be recorded is what was told.
Fresh(d) ==
  /\ pc[d] = "deliver" /\ Mode(current[d]) = "shift" => notified[current[d]] # signal[d]
  /\ pc[d] = "record" => Mode(current[d]) = "shift" /\ last[current[d]] = signal[d]

Recorded(j) ==
  notified[j] = last[j] \/ \E d \in Dispatchers : pc[d] = "record" /\ current[d] = j

News ==
  /\ repeated = {}
  /\ \A d \in Dispatchers : Fresh(d)
  /\ \A j \in Jobs : Recorded(j)

NewsInv == LockInv /\ (~excused => News)

\* Without an excuse one dispatcher at most is at work on a contract job.
LEMMA Alone ==
  ASSUME LockInv, ~excused, NEW c \in Dispatchers, NEW d \in Dispatchers,
         AtContract(c), AtContract(d)
  PROVE  c = d
BY CronAssumption DEF LockInv, Late, Guarded

\* Steps that touch neither the news nor a dispatcher that tells them.
LEMMA QuietStep ==
  ASSUME TypeOK, TypeOK', News, UNCHANGED told, NEW d \in Dispatchers, StepOf(d),
         pc[d] # "record", pc'[d] \notin {"deliver", "record"}
  PROVE  News'
<1>1. \A c \in Dispatchers : Fresh(c)'
  BY OthersStay DEF News, Fresh, told, Mode
<1>2. ASSUME NEW j \in Jobs PROVE Recorded(j)'
  BY <1>2, OthersStay DEF News, Recorded, told
<1> QED
  BY <1>1, <1>2 DEF News, told

LEMMA DeliverNews ==
  ASSUME LockInv, TypeOK', ~excused, News, NEW d \in Dispatchers, NEW ok \in BOOLEAN,
         Deliver(d, ok)
  PROVE  News'
<1> DEFINE j == current[d]
<1>0. StepOf(d)
  BY DEF StepOf
<1>1. /\ j \in Jobs /\ pc[d] = "deliver" /\ AtWork(d)
  BY DEF LockInv, TypeOK, Deliver, Shape, AtWork
<1>2. CASE ok /\ Mode(j) = "shift"
  <2>1. /\ pc' = [pc EXCEPT ![d] = "record"] /\ UNCHANGED <<current, signal, notified>>
        /\ last' = [last EXCEPT ![j] = signal[d]]
        /\ repeated' = IF last[j] = signal[d] THEN repeated \cup {j} ELSE repeated
    BY <1>2 DEF Deliver, Acknowledged
  <2>2. AtContract(d)
    BY <1>1, <1>2 DEF AtContract
  <2>3. notified[j] = last[j]
    BY <1>1, <2>2, Alone DEF News, Recorded, Fresh, AtContract, AtWork
  <2>4. repeated' = {}
    BY <1>1, <1>2, <2>1, <2>3 DEF News, Fresh
  <2>5. Fresh(d)'
    BY <1>1, <1>2, <2>1 DEF Fresh, LockInv, TypeOK, Mode
  <2>6. ASSUME NEW c \in Dispatchers \ {d} PROVE Fresh(c)'
    <3>1. ~AtContract(c)
      BY <2>2, <2>6, Alone
    <3> QED
      BY <2>1, <2>6, <3>1 DEF Fresh, AtContract, AtWork, News, Mode, LockInv, TypeOK
  <2>7. ASSUME NEW i \in Jobs PROVE Recorded(i)'
    BY <1>1, <2>1, <2>7 DEF Recorded, News, LockInv, TypeOK
  <2> QED
    BY <2>4, <2>5, <2>6, <2>7 DEF News
<1>3. CASE ~(ok /\ Mode(j) = "shift")
  <2>1. UNCHANGED told /\ pc' = [pc EXCEPT ![d] = "next"]
    BY <1>3 DEF Deliver, Acknowledged, Proceed, told
  <2> QED
    BY <1>0, <1>1, <2>1, QuietStep DEF LockInv, TypeOK
<1> QED
  BY <1>2, <1>3

LEMMA RecordNews ==
  ASSUME LockInv, TypeOK', ~excused, News, NEW d \in Dispatchers, Record(d)
  PROVE  News'
<1> DEFINE j == current[d]
<1>1. /\ j \in Jobs /\ AtContract(d) /\ last[j] = signal[d]
  BY DEF LockInv, TypeOK, Record, Shape, AtWork, AtContract, News, Fresh
<1>2. /\ pc' = [pc EXCEPT ![d] = "next"] /\ current' = [current EXCEPT ![d] = None]
      /\ signal' = [signal EXCEPT ![d] = None]
      /\ notified' = [notified EXCEPT ![j] = signal[d]] /\ UNCHANGED <<last, repeated>>
  BY DEF Record, Proceed
<1>3. Fresh(d)'
  BY <1>2 DEF Fresh, LockInv, TypeOK
<1>4. ASSUME NEW c \in Dispatchers \ {d} PROVE Fresh(c)'
  <2>1. ~AtContract(c)
    BY <1>1, <1>4, Alone
  <2> QED
    BY <1>2, <1>4, <2>1 DEF Fresh, AtContract, AtWork, News, Mode, LockInv, TypeOK
<1>5. ASSUME NEW i \in Jobs PROVE Recorded(i)'
  BY <1>1, <1>2, <1>5 DEF Recorded, News, LockInv, TypeOK
<1> QED
  BY <1>2, <1>3, <1>4, <1>5 DEF News

LEMMA JudgeNews ==
  ASSUME LockInv, TypeOK', News, NEW d \in Dispatchers, Judge(d)
  PROVE  News'
<1> DEFINE j == current[d]
           s == Signal(Mode(j), child[d])
<1>0. StepOf(d) /\ pc[d] = "judge" /\ UNCHANGED told
  BY DEF StepOf, Judge
<1>1. CASE Proceed(d)
  BY <1>0, <1>1, QuietStep DEF Proceed, LockInv, TypeOK
<1>2. CASE ~Proceed(d)
  <2>1. /\ pc' = [pc EXCEPT ![d] = "deliver"] /\ signal' = [signal EXCEPT ![d] = s]
        /\ UNCHANGED current /\ (Mode(j) = "shift" => notified[j] # s)
    BY <1>2 DEF Judge
  <2> HIDE DEF s
  <2>2. Fresh(d)'
    BY <1>0, <2>1 DEF Fresh, told, Mode, LockInv, TypeOK
  <2>3. ASSUME NEW c \in Dispatchers \ {d} PROVE Fresh(c)'
    BY <1>0, <2>1, <2>3 DEF Fresh, told, Mode, News, LockInv, TypeOK
  <2>4. ASSUME NEW i \in Jobs PROVE Recorded(i)'
    BY <1>0, <2>1, <2>4 DEF Recorded, told, News, LockInv, TypeOK
  <2> QED
    BY <1>0, <2>2, <2>3, <2>4 DEF News, told
<1> QED
  BY <1>1, <1>2

LEMMA StepNews ==
  ASSUME NewsInv, TypeOK', NEW d \in Dispatchers, StepOf(d), ~excused'
  PROVE  News'
<1>1. LockInv /\ TypeOK /\ ~excused /\ News
  BY StepLate DEF NewsInv, LockInv
<1>2. ASSUME UNCHANGED told, pc[d] # "record", pc'[d] \notin {"deliver", "record"} PROVE News'
  BY <1>1, <1>2, QuietStep
<1>3. CASE Judge(d)
  BY <1>1, <1>3, JudgeNews
<1>4. ASSUME NEW ok \in BOOLEAN, Deliver(d, ok) PROVE News'
  BY <1>1, <1>4, DeliverNews
<1>5. CASE Record(d)
  BY <1>1, <1>5, RecordNews
<1> USE <1>1 DEF LockInv, TypeOK, told, history
<1>6. CASE Tick(d)
  BY <1>2, <1>6 DEF Tick
<1>7. CASE Lock(d)
  BY <1>2, <1>7 DEF Lock
<1>8. CASE Load(d)
  BY <1>2, <1>8 DEF Load
<1>9. CASE SkipLegacy(d)
  BY <1>2, <1>9 DEF SkipLegacy
<1>10. ASSUME NEW j \in Jobs, Start(d, j) PROVE News'
  BY <1>2, <1>10 DEF Start
<1>11. ASSUME NEW out \in Outcomes, ChildEnds(d, out) PROVE News'
  BY <1>2, <1>11 DEF ChildEnds
<1>12. CASE Finish(d)
  BY <1>2, <1>12 DEF Finish
<1>13. CASE Kill(d)
  BY <1>2, <1>13 DEF Kill
<1> QED
  BY <1>3, <1>4, <1>5, <1>6, <1>7, <1>8, <1>9, <1>10, <1>11, <1>12, <1>13 DEF StepOf

LEMMA NewsInductive == NewsInv /\ [Next]_vars => NewsInv'
<1> SUFFICES ASSUME NewsInv, [Next]_vars PROVE NewsInv'
  OBVIOUS
<1>1. LockInv' /\ TypeOK'
  BY LockInductive DEF NewsInv, LockInv
<1>2. ASSUME NEW d \in Dispatchers, StepOf(d) PROVE NewsInv'
  BY <1>1, <1>2, StepNews DEF NewsInv
<1>3. CASE Elsewhere \/ UNCHANGED vars
  <2>1. UNCHANGED <<tick, told, late, excused>>
    BY <1>3, ElsewhereStays DEF vars, tick, told
  <2>2. ASSUME News PROVE News'
    BY <2>1, <2>2 DEF News, Fresh, Recorded, Mode, tick, told
  <2> QED
    BY <1>1, <2>1, <2>2 DEF NewsInv
<1> QED
  BY <1>2, <1>3, NextSplit

LEMMA NewsInit == Init => NewsInv
<1> SUFFICES ASSUME Init PROVE NewsInv
  OBVIOUS
<1>1. News
  BY DEF Init, News, Fresh, Recorded
<1> QED
  BY <1>1, LockInit DEF NewsInv

\* No news is told twice in a row while the lock is held and nobody dies in
\* between, and the state file follows the deliveries.
THEOREM NewsHold == Spec => []NewsAreTold
<1>1. NewsInv => ToldOnce
  BY DEF NewsInv, News, ToldOnce
<1>2. NewsInv => RecordIsDelivery
  BY DEF NewsInv, News, Recorded, RecordIsDelivery
<1> QED
  BY NewsInit, NewsInductive, <1>1, <1>2, PTL DEF Spec, NewsAreTold

-----------------------------------------------------------------------------
(* The verdict.                                                             *)

\* A PASS that waits to be judged is of an accepted task.
Passed(d) ==
  AtContract(d) /\ pc[d] = "judge" /\ child[d].out = "PASS" => child[d].id \in accepted

Tells(d) ==
  AtContract(d) /\ signal[d] # None /\ signal[d].status = "success" => signal[d].id \in accepted

PassInv == TypeOK /\ \A d \in Dispatchers : Passed(d) /\ Tells(d)

LEMMA SuccessMeansPass ==
  ASSUME NEW c, Signal("shift", c).status = "success"
  PROVE  c.out = "PASS" /\ Signal("shift", c).id = c.id
BY DEF Signal, Status

LEMMA AcceptedGrows ==
  ASSUME NEW d \in Dispatchers, StepOf(d)
  PROVE  accepted \subseteq accepted'
BY DEF StepOf, Tick, Lock, Load, SkipLegacy, Start, ChildEnds, Judge, Deliver, Record, Finish,
       Kill, history

LEMMA OwnPass ==
  ASSUME PassInv, TypeOK', NEW d \in Dispatchers, StepOf(d)
  PROVE  Passed(d)' /\ Tells(d)'
<1> USE CronAssumption DEF PassInv, TypeOK
<1>1. ASSUME ~AtWork(d)' PROVE Passed(d)' /\ Tells(d)'
  BY <1>1 DEF Passed, Tells, AtContract
<1>2. CASE Tick(d) \/ Lock(d) \/ Load(d) \/ SkipLegacy(d) \/ Record(d) \/ Finish(d) \/ Kill(d)
  BY <1>1, <1>2 DEF Tick, Lock, Load, SkipLegacy, Record, Proceed, Finish, Kill, AtWork
<1>3. ASSUME NEW j \in Jobs, Start(d, j) PROVE Passed(d)' /\ Tells(d)'
  BY <1>3 DEF Start, Shape, Passed, Tells
<1>4. ASSUME NEW out \in Outcomes, ChildEnds(d, out) PROVE Passed(d)' /\ Tells(d)'
  BY <1>4 DEF ChildEnds, Shape, Passed, Tells, AtContract, AtWork, Mode
<1>5. CASE Judge(d)
  <2> DEFINE j == current[d]
             s == Signal(Mode(j), child[d])
  <2>1. CASE Proceed(d)
    BY <1>1, <2>1 DEF Proceed, AtWork
  <2>2. CASE ~Proceed(d)
    <3>1. /\ pc' = [pc EXCEPT ![d] = "deliver"] /\ signal' = [signal EXCEPT ![d] = s]
          /\ UNCHANGED <<current, accepted>> /\ pc[d] = "judge"
      BY <1>5, <2>2 DEF Judge, history
    <3>2. ASSUME Mode(j) = "shift", s.status = "success" PROVE s.id \in accepted
      BY <3>1, <3>2, SuccessMeansPass DEF Passed, AtContract, AtWork
    <3> HIDE DEF s
    <3>3. Tells(d)'
      BY <3>1, <3>2 DEF Tells, AtContract, AtWork, Mode
    <3>4. Passed(d)'
      BY <3>1 DEF Passed
    <3> QED
      BY <3>3, <3>4
  <2> QED
    BY <2>1, <2>2
<1>6. ASSUME NEW ok \in BOOLEAN, Deliver(d, ok) PROVE Passed(d)' /\ Tells(d)'
  <2>1. CASE Proceed(d)
    BY <1>1, <2>1 DEF Proceed, AtWork
  <2>2. CASE pc' = [pc EXCEPT ![d] = "record"] /\ UNCHANGED <<current, child, signal, accepted>>
    BY <1>6, <2>2 DEF Deliver, Passed, Tells, AtContract, AtWork, Mode
  <2> QED
    BY <1>6, <2>1, <2>2 DEF Deliver, history
<1> QED
  BY <1>2, <1>3, <1>4, <1>5, <1>6 DEF StepOf

LEMMA PassInductive == PassInv /\ [Next]_vars => PassInv'
<1> SUFFICES ASSUME PassInv, [Next]_vars PROVE PassInv'
  OBVIOUS
<1>1. TypeOK /\ TypeOK'
  BY StepType, ElsewhereType, StutterType, NextSplit DEF PassInv
<1>2. ASSUME NEW d \in Dispatchers, StepOf(d) PROVE PassInv'
  <2>1. ASSUME NEW c \in Dispatchers \ {d} PROVE Passed(c)' /\ Tells(c)'
    BY <1>1, <1>2, <2>1, OthersStay, AcceptedGrows
       DEF PassInv, Passed, Tells, AtContract, AtWork, Mode
  <2> QED
    BY <1>1, <1>2, <2>1, OwnPass DEF PassInv
<1>3. CASE Elsewhere \/ UNCHANGED vars
  <2>1. UNCHANGED tick /\ accepted \subseteq accepted'
    BY <1>3, ElsewhereStays DEF vars, tick
  <2> QED
    BY <1>1, <2>1 DEF PassInv, Passed, Tells, AtContract, AtWork, Mode, tick
<1> QED
  BY <1>2, <1>3, NextSplit

LEMMA PassInit == Init => PassInv
<1> SUFFICES ASSUME Init PROVE PassInv
  OBVIOUS
<1>1. \A d \in Dispatchers : Passed(d) /\ Tells(d)
  BY DEF Init, Passed, Tells
<1> QED
  BY <1>1, InitType DEF PassInv

\* Nobody is told of a success that no acceptance stands behind.
THEOREM SuccessHolds == Spec => []SuccessIsAccepted
<1>1. PassInv => SuccessIsAccepted
  BY DEF PassInv, Tells, SuccessIsAccepted
<1> QED
  BY PassInit, PassInductive, <1>1, PTL DEF Spec

-----------------------------------------------------------------------------
(* The schedule: cron_store.py counts through ranges, crontab(5) names      *)
(* numbers.                                                                 *)

LEMMA Multiples ==
  ASSUME NEW n \in Nat, NEW step \in Nat \ {0}
  PROVE  n % step = 0 <=> \E k \in 0..n : n = k * step
<1>1. ASSUME n % step = 0 PROVE \E k \in 0..n : n = k * step
  <2>1. PICK k \in Int : k = n \div step
    OBVIOUS
  <2>2. n = step * (n \div step) + (n % step)
    OBVIOUS
  <2>3. n \div step \in 0..n
    OBVIOUS
  <2>4. k \in 0..n /\ n = step * k
    BY <1>1, <2>1, <2>2, <2>3
  <2>5. step * k = k * step
    BY <2>4
  <2> QED
    BY <2>4, <2>5
<1>2. ASSUME NEW k \in 0..n, n = k * step PROVE n % step = 0
  <2>1. (k * step) % step = 0
    OBVIOUS
  <2> QED
    BY <1>2, <2>1
<1> QED
  BY <1>1, <1>2

\* range(start, end + 1, step) holds what a step from start reaches.
RangeIsSteps(start, end, step, v) ==
  (v \in start..end /\ (v - start) % step = 0)
    <=> (start <= v /\ v <= end /\ \E k \in 0..v : v = start + k * step)

LEMMA RangesAreSteps ==
  ASSUME NEW start \in Nat, NEW end \in Nat, NEW step \in Nat \ {0}, NEW v \in Nat
  PROVE  RangeIsSteps(start, end, step, v)
<1> USE DEF RangeIsSteps
<1>1. CASE start <= v
  <2>1. PICK n \in Nat : n = v - start
    BY <1>1
  <2>2. n % step = 0 <=> \E k \in 0..n : n = k * step
    BY <2>1, Multiples
  <2>3. ASSUME NEW k \in 0..n, n = k * step PROVE k \in 0..v /\ v = start + k * step
    <3>1. PICK x \in Int : x = k * step
      OBVIOUS
    <3>2. v = start + x /\ k \in 0..v
      BY <2>1, <2>3, <3>1
    <3> QED
      BY <3>1, <3>2
  <2>4. ASSUME NEW k \in 0..v, v = start + k * step PROVE k \in 0..n /\ n = k * step
    <3>1. PICK x \in Int : x = k * step
      OBVIOUS
    <3>2. n = x
      BY <2>1, <2>4, <3>1
    <3>3. k <= k * step
      OBVIOUS
    <3> QED
      BY <3>1, <3>2, <3>3
  <2>5. (\E k \in 0..n : n = k * step) <=> (\E k \in 0..v : v = start + k * step)
    BY <2>3, <2>4
  <2>6. v \in start..end <=> start <= v /\ v <= end
    OBVIOUS
  <2>7. (v - start) % step = n % step
    BY <2>1
  <2> QED
    BY <2>2, <2>5, <2>6, <2>7, Zenon
<1>2. CASE ~(start <= v)
  BY <1>2
<1> QED
  BY <1>1, <1>2

LEMMA BoundsType ==
  ASSUME NEW f \in Fields
  PROVE  Bounds[f][1] \in Nat /\ Bounds[f][2] \in Nat
<1>1. /\ Bounds["minute"] = <<0, 59>> /\ Bounds["hour"] = <<0, 23>> /\ Bounds["dom"] = <<1, 31>>
      /\ Bounds["month"] = <<1, 12>> /\ Bounds["dow"] = <<0, 7>>
  BY DEF Bounds
<1>2. CASE f = "minute"
  BY <1>1, <1>2
<1>3. CASE f = "hour"
  BY <1>1, <1>3
<1>4. CASE f = "dom"
  BY <1>1, <1>4
<1>5. CASE f = "month"
  BY <1>1, <1>5
<1>6. CASE f = "dow"
  BY <1>1, <1>6
<1> QED
  BY <1>2, <1>3, <1>4, <1>5, <1>6 DEF Fields

\* A field counts the numbers it names.
LEMMA ValuesAreNamed ==
  ASSUME NEW expr, Parsed(expr), NEW f \in Fields, NEW v \in Nat
  PROVE  v \in Values(expr, f) <=> NamedBy(expr, f, v)
<1>1. ASSUME NEW i \in DOMAIN expr[f]
      PROVE  Names(expr[f][i], f, v) <=>
             v \in LET p     == expr[f][i]
                       start == IF p.star THEN Bounds[f][1] ELSE p.lo
                       end   == IF p.star THEN Bounds[f][2] ELSE p.hi
                       step  == IF p.step = 0 THEN 1 ELSE p.step
                   IN  {x \in start..end : (x - start) % step = 0}
  <2>1. PICK p : p = expr[f][i]
    OBVIOUS
  <2>2. p.star \in BOOLEAN /\ p.lo \in Nat /\ p.hi \in Nat /\ p.step \in Nat
    BY <2>1 DEF Parsed
  <2>3. PICK start \in Nat : start = IF p.star THEN Bounds[f][1] ELSE p.lo
    BY <2>2, BoundsType
  <2>4. PICK end \in Nat : end = IF p.star THEN Bounds[f][2] ELSE p.hi
    BY <2>2, BoundsType
  <2>5. PICK step \in Nat \ {0} : step = IF p.step = 0 THEN 1 ELSE p.step
    BY <2>2
  <2>6. Names(p, f, v) <=> (start <= v /\ v <= end /\ \E k \in 0..v : v = start + k * step)
    <3>1. CASE p.star
      BY <2>3, <2>4, <2>5, <3>1 DEF Names
    <3>2. CASE ~p.star
      BY <2>3, <2>4, <2>5, <3>2 DEF Names
    <3> QED
      BY <3>1, <3>2
  <2>7. v \in {x \in start..end : (x - start) % step = 0} <=> (v \in start..end /\ (v - start) % step = 0)
    OBVIOUS
  <2>8. Names(p, f, v) <=> v \in {x \in start..end : (x - start) % step = 0}
    <3>1. RangeIsSteps(start, end, step, v)
      BY RangesAreSteps
    <3> QED
      BY <2>6, <2>7, <3>1, Zenon DEF RangeIsSteps
  <2> QED
    BY <2>1, <2>3, <2>4, <2>5, <2>8
<1> QED
  BY <1>1 DEF Values, NamedBy

\* 0 and 7 are one day, and every other number is a day of its own.
LEMMA DowsAreNamed ==
  ASSUME NEW expr, Parsed(expr), NEW w \in 0..6
  PROVE  (w + 1) % 7 \in Dows(expr) <=> \E n \in CronNumbers(w) : NamedBy(expr, "dow", n)
<1>1. \A n \in 0..7 : n \in Values(expr, "dow") <=> NamedBy(expr, "dow", n)
  BY ValuesAreNamed DEF Fields
<1>2. CASE w = 6
  <2>1. (w + 1) % 7 = 0 /\ CronNumbers(w) = {0, 7}
    BY <1>2 DEF CronNumbers
  <2>2. 0 \in Dows(expr) <=> (0 \in Values(expr, "dow") \/ 7 \in Values(expr, "dow"))
    BY DEF Dows
  <2> QED
    BY <1>1, <2>1, <2>2
<1>3. CASE w # 6
  <2>1. (w + 1) % 7 = w + 1 /\ CronNumbers(w) = {w + 1} /\ w + 1 \in 1..6
    BY <1>3 DEF CronNumbers
  <2>2. w + 1 \in Dows(expr) <=> w + 1 \in Values(expr, "dow")
    BY <2>1 DEF Dows
  <2> QED
    BY <1>1, <2>1, <2>2
<1> QED
  BY <1>2, <1>3

\* is_due() is crontab(5), for every expression that parses and every moment.
THEOREM IsDueIsCron ==
  ASSUME NEW expr, Parsed(expr), NEW moment, IsMoment(moment)
  PROVE  IsDue(expr, moment) <=> CronMatches(expr, moment)
<1>1. moment.minute \in Nat /\ moment.hour \in Nat /\ moment.day \in Nat /\ moment.month \in Nat /\ moment.weekday \in 0..6
  BY DEF IsMoment
<1>2. \A f \in Fields : \A v \in Nat : v \in Values(expr, f) <=> NamedBy(expr, f, v)
  BY ValuesAreNamed
<1>3. /\ moment.minute \in Values(expr, "minute") <=> NamedBy(expr, "minute", moment.minute)
      /\ moment.hour \in Values(expr, "hour") <=> NamedBy(expr, "hour", moment.hour)
      /\ moment.day \in Values(expr, "dom") <=> NamedBy(expr, "dom", moment.day)
      /\ moment.month \in Values(expr, "month") <=> NamedBy(expr, "month", moment.month)
  BY <1>1, <1>2 DEF Fields
<1>4. (moment.weekday + 1) % 7 \in Dows(expr) <=> \E n \in CronNumbers(moment.weekday) : NamedBy(expr, "dow", n)
  BY <1>1, DowsAreNamed
<1>5. /\ Restricted(expr, "dom") <=> expr.dom # Any
      /\ Restricted(expr, "dow") <=> expr.dow # Any
  BY DEF Restricted
<1> QED
  BY <1>3, <1>4, <1>5 DEF IsDue, CronMatches

-----------------------------------------------------------------------------
\* A dispatcher that has yet to choose its jobs has its minute.
HasMinute == \A d \in Dispatchers : pc[d] \in {"lock", "locked", "load"} => now[d] \in Moments

LEMMA MinuteStep == TypeOK /\ HasMinute /\ [Next]_vars => HasMinute'
<1> SUFFICES ASSUME TypeOK, HasMinute, [Next]_vars PROVE HasMinute'
  OBVIOUS
<1> USE DEF HasMinute
<1>1. ASSUME NEW d \in Dispatchers, StepOf(d) PROVE HasMinute'
  <2>1. CASE Tick(d)
    BY <2>1 DEF Tick, TypeOK
  <2>2. CASE Lock(d)
    BY <2>2 DEF Lock, Acquire, TypeOK
  <2>3. CASE Load(d)
    BY <2>3 DEF Load, TypeOK
  <2>4. CASE ~Tick(d) /\ ~Lock(d) /\ ~Load(d)
    <3>1. /\ \A c \in Dispatchers \ {d} : pc'[c] = pc[c] /\ now'[c] = now[c]
          /\ pc'[d] \in {"lock", "locked", "load"} => pc'[d] = pc[d] /\ now'[d] = now[d]
      BY <1>1, <2>4 DEF StepOf, SkipLegacy, Start, ChildEnds, Judge, Deliver, Record, Finish, Kill, Proceed, TypeOK
    <3> QED
      BY <3>1
  <2> QED
    BY <2>1, <2>2, <2>3, <2>4
<1>2. CASE Elsewhere
  <2>1. UNCHANGED <<pc, now>>
    BY <1>2 DEF Elsewhere, Edits, ReadJobs, Truncate, Write, ChangeTask, OrphanEnds, tick
  <2> QED
    BY <2>1
<1>3. CASE UNCHANGED vars
  BY <1>3 DEF vars, tick
<1> QED
  BY <1>1, <1>2, <1>3, NextSplit

\* A dispatcher chooses what crontab(5) would, of the jobs that cron.yaml has then.
THEOREM DueHolds == Spec => DueIsCron
<1>1. Init => HasMinute
  BY DEF Init, HasMinute
<1>2. ASSUME TypeOK, HasMinute, [Next]_vars, NEW d \in Dispatchers, pc[d] \in {"locked", "load"}, pc'[d] = "next"
      PROVE  queue'[d] = {j \in file : CronMatches(Job[j].schedule, now[d])}
  <2>1. Load(d)
    <3>1. ASSUME NEW c \in Dispatchers, StepOf(c), ~Load(d) PROVE FALSE
      BY <1>2, <3>1 DEF StepOf, Tick, Lock, Load, SkipLegacy, Start, ChildEnds, Judge, Deliver, Record, Finish, Kill, Proceed, TypeOK
    <3>2. CASE Elsewhere
      <4>1. UNCHANGED pc
        BY <3>2 DEF Elsewhere, Edits, ReadJobs, Truncate, Write, ChangeTask, OrphanEnds, tick
      <4> QED
        BY <1>2, <4>1
    <3>3. CASE UNCHANGED vars
      BY <1>2, <3>3 DEF vars, tick
    <3> QED
      BY <1>2, <3>1, <3>2, <3>3, NextSplit
  <2>2. queue'[d] = {j \in file : IsDue(Job[j].schedule, now[d])}
    BY <1>2, <2>1 DEF Load, Due, TypeOK
  <2>3. IsMoment(now[d])
    BY <1>2, CronAssumption DEF HasMinute
  <2>4. \A j \in file : IsDue(Job[j].schedule, now[d]) <=> CronMatches(Job[j].schedule, now[d])
    BY <1>2, <2>3, CronAssumption, IsDueIsCron DEF TypeOK
  <2> QED
    BY <2>2, <2>4
<1>3. TypeOK /\ HasMinute /\ [Next]_vars =>
        [\A d \in Dispatchers : pc[d] \in {"locked", "load"} /\ pc'[d] = "next" =>
           queue'[d] = {j \in file : CronMatches(Job[j].schedule, now[d])}]_vars
  BY <1>2
<1> QED
  BY <1>1, <1>3, TypeCorrect, MinuteStep, PTL DEF Spec, DueIsCron

=============================================================================
