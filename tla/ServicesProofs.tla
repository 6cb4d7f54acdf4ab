---------------------------- MODULE ServicesProofs ----------------------------
(***************************************************************************)
(* Proofs about the smaller components: the cached configurations, the     *)
(* sandboxes, the permissions, the one-shot verifications, the databases   *)
(* of the memory that several processes share, the facts a memory session  *)
(* writes, the hook registry, the saved history of a session, the choice   *)
(* of a model and the answers it streams.  Each has an inductive invariant *)
(* of its own.                                                             *)
(***************************************************************************)
EXTENDS ConfigCache, Sandbox, PermissionGuard, Verification, Conversation,
        KnowledgeBase, MemorySession, HookReload, ModelChoice, ModelStream,
        WellFoundedInduction, SequenceTheorems, FiniteSetTheorems, TLAPS

-----------------------------------------------------------------------------
(* ConfigCache.                                                             *)

CacheTypes ==
  /\ conf \in [Caches -> [time : Nat, parses : BOOLEAN]]
  /\ cache \in [Caches -> [time : Nat, text : Nat]]
  /\ rd \in [Readers -> [pc : {"idle", "lock", "got"}, x : Caches \cup {"none"}, seen : Nat, got : Nat]]

\* What is cached under a time was read at that time or later, and a caller that
\* waits for the lock has looked at the file before.
CacheInv ==
  /\ CacheTypes
  /\ \A x \in Caches : cache[x].time <= cache[x].text /\ cache[x].text <= conf[x].time
  /\ \A r \in Readers : rd[r].pc = "lock" => rd[r].x \in Caches /\ rd[r].seen <= conf[rd[r].x].time
  /\ NeverOlder

LEMMA CacheStep == CacheInv /\ [CacheNext]_cacheVars => CacheInv'
<1> SUFFICES ASSUME CacheInv, [CacheNext]_cacheVars PROVE CacheInv'
  OBVIOUS
<1> USE DEF CacheInv, CacheTypes, NeverOlder
<1>1. ASSUME NEW x \in Caches, SaveConf(x) PROVE CacheInv'
  BY <1>1 DEF SaveConf
<1>2. ASSUME NEW r \in Readers, NEW x \in Caches, AskStat(r, x) PROVE CacheInv'
  BY <1>2 DEF AskStat
<1>3. ASSUME NEW r \in Readers, UnderLock(r) PROVE CacheInv'
  <2> DEFINE x == rd[r].x
  <2>1. x \in Caches /\ rd[r].pc = "lock" /\ rd[r].seen <= conf[x].time /\ UNCHANGED conf
    BY <1>3 DEF UnderLock
  <2>2. CASE cache[x].time = rd[r].seen
    <3>1. rd' = [rd EXCEPT ![r].pc = "got", ![r].got = cache[x].text] /\ UNCHANGED cache
      BY <1>3, <2>2 DEF UnderLock, CacheHit
    <3> QED
      BY <2>1, <2>2, <3>1
  <2>3. CASE /\ rd' = [rd EXCEPT ![r].pc = "got", ![r].got = conf[x].time]
             /\ cache' = [cache EXCEPT ![x] = [time |-> rd[r].seen, text |-> conf[x].time]]
    <3>1. cache' \in [Caches -> [time : Nat, text : Nat]]
      BY <2>1, <2>3
    <3>2. \A y \in Caches : cache'[y].time <= cache'[y].text /\ cache'[y].text <= conf[y].time
      BY <2>1, <2>3
    <3>3. /\ rd' \in [Readers -> [pc : {"idle", "lock", "got"}, x : Caches \cup {"none"}, seen : Nat, got : Nat]]
          /\ rd'[r].pc = "got" /\ rd'[r].got = conf[x].time /\ rd'[r].seen = rd[r].seen
          /\ \A q \in Readers \ {r} : rd'[q] = rd[q]
      BY <2>1, <2>3
    <3> QED
      BY <2>1, <3>1, <3>2, <3>3
  <2>4. CASE rd' = [rd EXCEPT ![r].pc = "idle"] /\ UNCHANGED cache
    BY <2>1, <2>4
  <2> QED
    BY <1>3, <2>2, <2>3, <2>4 DEF UnderLock, CacheHit
<1>4. CASE UNCHANGED cacheVars
  BY <1>4 DEF cacheVars
<1> QED
  BY <1>1, <1>2, <1>3, <1>4 DEF CacheNext

\* However saves, looks at the file and fills of the cache interleave, nobody is
\* handed a configuration older than its file was when it asked.
THEOREM CacheHolds == CacheSpec => []NeverOlder
<1>1. CacheInit => CacheInv
  BY DEF CacheInit, CacheInv, CacheTypes, NeverOlder
<1>2. CacheInv => NeverOlder
  BY DEF CacheInv
<1> QED
  BY <1>1, <1>2, CacheStep, PTL DEF CacheSpec

-----------------------------------------------------------------------------
(* Sandbox.                                                                 *)

BoxTypes ==
  /\ made \in Nat
  /\ \A b \in boxes : b.n \in 1..made /\ b.by \in Procs
  /\ provider = [p \in Procs |-> [backend |-> provider[p].backend, known |-> provider[p].known]]
  /\ boxCall \in [Procs -> [pc : {"idle", "run"}, sid : BoxNames \cup {"default", "none"}, box : Int, count : Nat]]
  /\ boxAnswer \in [Procs -> [ok : BOOLEAN, ran : Procs \cup {"nowhere"}, exit : Int, timed : BOOLEAN]]

\* A number that p holds has been given away, and to no container of another.
Holds(p, n) == n \in Int /\ n <= made /\ \A b \in boxes : b.n = n => b.by = p

BoxInv ==
  /\ BoxTypes
  /\ \A p \in Procs : \A s \in DOMAIN provider[p].known : Holds(p, provider[p].known[s])
  /\ \A p \in Procs : Holds(p, boxCall[p].box)
  /\ SuccessRanAtHome

\* Neither a nonzero code nor a command that was given up reads as a success.
LEMMA FailureIsRead ==
  ASSUME NEW printed \in Prints, NEW exit \in {0, 1}, NEW timed \in BOOLEAN, exit # 0 \/ timed
  PROVE  ExitCode(Output(printed, exit, timed)) # 0
BY DEF Prints, Output, ExitCode

\* Fewer containers, and the same numbers, take nothing away from anybody.
LEMMA BoxesGo ==
  ASSUME BoxInv, boxes' \subseteq boxes, UNCHANGED <<provider, boxCall, boxAnswer, made>>
  PROVE  BoxInv'
BY DEF BoxInv, BoxTypes, Holds, SuccessRanAtHome

\* An answer that is right leaves the containers alone.
LEMMA Replied ==
  ASSUME BoxInv, NEW p \in Procs, NEW ok \in BOOLEAN, NEW ran \in Procs \cup {"nowhere"},
         NEW exit \in Int, NEW timed \in BOOLEAN, BoxReply(p, ok, ran, exit, timed),
         ok => ran = p /\ exit = 0 /\ ~timed
  PROVE  BoxInv'
<1> USE DEF BoxInv, BoxTypes, Holds
<1>1. boxAnswer' = [boxAnswer EXCEPT ![p] = [ok |-> ok, ran |-> ran, exit |-> exit, timed |-> timed]]
      /\ UNCHANGED <<boxes, provider, made>>
  BY DEF BoxReply
<1>2. /\ boxCall' \in [Procs -> [pc : {"idle", "run"}, sid : BoxNames \cup {"default", "none"}, box : Int, count : Nat]]
      /\ \A q \in Procs : boxCall'[q].box \in {boxCall[q].box, 0}
  <2> DEFINE idle == [NoBoxCall EXCEPT !.count = @ + boxCall[p].count]
  <2>1. idle \in [pc : {"idle", "run"}, sid : BoxNames \cup {"default", "none"}, box : Int, count : Nat] /\ idle.box = 0
    BY DEF NoBoxCall
  <2>2. boxCall' = [boxCall EXCEPT ![p] = idle]
    BY DEF BoxReply
  <2> HIDE DEF idle
  <2> QED
    BY <2>1, <2>2
<1>3. ASSUME NEW q \in Procs PROVE Holds(q, boxCall'[q].box)
  <2>1. Holds(q, 0)
    <3>1. \A b \in boxes : b.n # 0
      BY DEF BoxInv, BoxTypes
    <3> QED
      BY <3>1
  <2>2. CASE boxCall'[q].box = boxCall[q].box
    BY <2>2
  <2> QED
    BY <1>2, <2>1, <2>2
<1>4. SuccessRanAtHome'
  <2>1. boxAnswer'[p].ok = ok /\ boxAnswer'[p].ran = ran /\ boxAnswer'[p].exit = exit /\ boxAnswer'[p].timed = timed
    BY <1>1
  <2>2. \A q \in Procs \ {p} : boxAnswer'[q] = boxAnswer[q]
    BY <1>1
  <2>3. SuccessRanAtHome
    OBVIOUS
  <2> HIDE DEF BoxInv, BoxTypes, Holds
  <2>4. ASSUME NEW q \in Procs, boxAnswer'[q].ok
        PROVE  boxAnswer'[q].ran = q /\ boxAnswer'[q].exit = 0 /\ ~boxAnswer'[q].timed
    <3>1. CASE q = p
      BY <2>1, <2>4, <3>1
    <3>2. CASE q # p
      BY <2>2, <2>3, <2>4, <3>2 DEF SuccessRanAtHome
    <3> QED
      BY <3>1, <3>2
  <2> QED
    BY <2>4 DEF SuccessRanAtHome
<1>5. boxAnswer' \in [Procs -> [ok : BOOLEAN, ran : Procs \cup {"nowhere"}, exit : Int, timed : BOOLEAN]]
  BY <1>1
<1> QED
  BY <1>1, <1>2, <1>3, <1>4, <1>5

\* A container that starts takes the next number.
LEMMA BoxStarts ==
  ASSUME BoxTypes, NEW p \in Procs, NEW sid \in BoxNames \cup {"default"},
         boxes' = boxes \cup {Started(p, sid)}, made' = made + 1
  PROVE  /\ made' \in Nat /\ \A b \in boxes' : b.n \in 1..made' /\ b.by \in Procs
         /\ \A q \in Procs : \A n : Holds(q, n) => Holds(q, n)'
         /\ Holds(p, made)'
<1>1. /\ made \in Nat /\ made' = made + 1
      /\ \A b \in boxes' : b \in boxes \/ (b.n = made + 1 /\ b.by = p)
      /\ \A b \in boxes : b.n \in 1..made /\ b.by \in Procs
  <2>1. Started(p, sid).n = made + 1 /\ Started(p, sid).by = p
    BY DEF Started
  <2>2. made \in Nat /\ \A b \in boxes : b.n \in 1..made /\ b.by \in Procs
    BY DEF BoxTypes
  <2>3. \A b \in boxes' : b \in boxes \/ b = Started(p, sid)
    OBVIOUS
  <2>4. \A b \in boxes' : b \in boxes \/ (b.n = made + 1 /\ b.by = p)
    BY <2>1, <2>3
  <2> QED
    BY <2>2, <2>4
<1>2. \A b \in boxes' : b.n \in 1..made' /\ b.by \in Procs
  BY <1>1
<1>3. \A q \in Procs : \A n : Holds(q, n) => Holds(q, n)'
  BY <1>1 DEF Holds
<1>4. Holds(p, made)'
  BY <1>1 DEF Holds
<1> QED
  BY <1>1, <1>2, <1>3, <1>4

\* A recorded sandbox adds one number, and the call that takes it another.
LEMMA RecordedKnown ==
  ASSUME BoxTypes, NEW p \in Procs, NEW sid, NEW n, provider' = Recorded(p, sid, n)
  PROVE  /\ provider' = [q \in Procs |-> [backend |-> provider'[q].backend, known |-> provider'[q].known]]
         /\ \A q \in Procs : \A s \in DOMAIN provider'[q].known :
              \/ q = p /\ provider'[q].known[s] = n
              \/ s \in DOMAIN provider[q].known /\ provider'[q].known[s] = provider[q].known[s]
<1> DEFINE after == [s \in DOMAIN provider[p].known \cup {sid} |-> IF s = sid THEN n ELSE provider[p].known[s]]
<1>1. provider = [q \in Procs |-> [backend |-> provider[q].backend, known |-> provider[q].known]]
  BY DEF BoxTypes
<1>2. provider' = [provider EXCEPT ![p].known = after]
  BY DEF Recorded
<1>3. \A s \in DOMAIN after : after[s] = n \/ (s \in DOMAIN provider[p].known /\ after[s] = provider[p].known[s])
  <2> SUFFICES ASSUME NEW s \in DOMAIN provider[p].known \cup {sid}
               PROVE  after[s] = n \/ (s \in DOMAIN provider[p].known /\ after[s] = provider[p].known[s])
    OBVIOUS
  <2>1. after[s] = IF s = sid THEN n ELSE provider[p].known[s]
    OBVIOUS
  <2> QED
    BY <2>1
<1> HIDE DEF after
<1>4. provider[p] = [backend |-> provider[p].backend, known |-> provider[p].known]
  BY <1>1
<1>5. [provider[p] EXCEPT !.known = after] = [backend |-> provider[p].backend, known |-> after]
  BY <1>4
<1>6. provider' = [q \in Procs |-> IF q = p THEN [backend |-> provider[p].backend, known |-> after] ELSE provider[q]]
  BY <1>1, <1>2, <1>5
<1>7. \A q \in Procs : provider'[q] = [backend |-> provider'[q].backend, known |-> provider'[q].known]
  BY <1>1, <1>6
<1>8. \A q \in Procs : provider'[q].known = IF q = p THEN after ELSE provider[q].known
  BY <1>6
<1> QED
  BY <1>3, <1>6, <1>7, <1>8

LEMMA TakenCall ==
  ASSUME BoxTypes, NEW p \in Procs, NEW sid \in BoxNames \cup {"default"}, NEW n \in Int, Take(p, sid, n)
  PROVE  /\ boxCall' \in [Procs -> [pc : {"idle", "run"}, sid : BoxNames \cup {"default", "none"}, box : Int, count : Nat]]
         /\ \A q \in Procs : boxCall'[q].box = boxCall[q].box \/ (q = p /\ boxCall'[q].box = n)
<1> DEFINE taken == [pc |-> "run", sid |-> sid, box |-> n, count |-> boxCall[p].count + 1]
<1>1. boxCall \in [Procs -> [pc : {"idle", "run"}, sid : BoxNames \cup {"default", "none"}, box : Int, count : Nat]]
  BY DEF BoxTypes
<1>2. taken \in [pc : {"idle", "run"}, sid : BoxNames \cup {"default", "none"}, box : Int, count : Nat]
  BY <1>1
<1>3. boxCall' = [boxCall EXCEPT ![p] = taken] /\ taken.box = n
  BY DEF Take
<1> HIDE DEF taken
<1> QED
  BY <1>1, <1>2, <1>3

LEMMA RefusedCall ==
  ASSUME BoxTypes, SuccessRanAtHome, NEW p \in Procs, Refuse(p)
  PROVE  /\ boxCall' \in [Procs -> [pc : {"idle", "run"}, sid : BoxNames \cup {"default", "none"}, box : Int, count : Nat]]
         /\ \A q \in Procs : boxCall'[q].box = boxCall[q].box
         /\ boxAnswer' \in [Procs -> [ok : BOOLEAN, ran : Procs \cup {"nowhere"}, exit : Int, timed : BOOLEAN]]
         /\ SuccessRanAtHome'
<1>1. NoReply \in [ok : BOOLEAN, ran : Procs \cup {"nowhere"}, exit : Int, timed : BOOLEAN] /\ ~NoReply.ok
  BY DEF NoReply
<1>2. /\ boxCall \in [Procs -> [pc : {"idle", "run"}, sid : BoxNames \cup {"default", "none"}, box : Int, count : Nat]]
      /\ boxAnswer \in [Procs -> [ok : BOOLEAN, ran : Procs \cup {"nowhere"}, exit : Int, timed : BOOLEAN]]
  BY DEF BoxTypes
<1>3. boxAnswer' = [boxAnswer EXCEPT ![p] = NoReply] /\ boxCall' = [boxCall EXCEPT ![p].count = @ + 1]
  BY DEF Refuse
<1>4. SuccessRanAtHome'
  BY <1>1, <1>2, <1>3 DEF SuccessRanAtHome
<1>5. /\ boxCall' \in [Procs -> [pc : {"idle", "run"}, sid : BoxNames \cup {"default", "none"}, box : Int, count : Nat]]
      /\ \A q \in Procs : boxCall'[q].box = boxCall[q].box
  BY <1>2, <1>3
<1> QED
  BY <1>1, <1>2, <1>3, <1>4, <1>5

\* Whichever way `docker run' ends, the caller takes a container of its own or none.
LEMMA AcquireStep ==
  ASSUME BoxInv, NEW p \in Procs, NEW sid \in BoxNames \cup {"default"}, Acquire(p, sid)
  PROVE  BoxInv'
<1> BoxTypes /\ SuccessRanAtHome
  BY DEF BoxInv
<1>1. CASE /\ boxes' = boxes \cup {Started(p, sid)} /\ made' = made + 1
           /\ provider' = Recorded(p, sid, made + 1) /\ Take(p, sid, made + 1) /\ UNCHANGED boxAnswer
  <2>1. /\ made' \in Nat /\ \A b \in boxes' : b.n \in 1..made' /\ b.by \in Procs
        /\ \A q \in Procs : \A n : Holds(q, n) => Holds(q, n)'
        /\ Holds(p, made)'
    BY <1>1, BoxStarts
  <2>2. made + 1 \in Int /\ made' = made + 1
    BY <1>1 DEF BoxTypes
  <2>3. BoxTypes' /\ SuccessRanAtHome'
    BY <1>1, <2>1, <2>2, RecordedKnown, TakenCall DEF BoxTypes, SuccessRanAtHome
  <2>4. ASSUME NEW q \in Procs, NEW s \in DOMAIN provider'[q].known
        PROVE  Holds(q, provider[q].known[s])'
    <3>1. \/ q = p /\ provider'[q].known[s] = made + 1
          \/ s \in DOMAIN provider[q].known /\ provider'[q].known[s] = provider[q].known[s]
      <4>1. PICK m : m = made + 1
        OBVIOUS
      <4>2. provider' = Recorded(p, sid, m)
        BY <1>1, <4>1
      <4>3. \/ q = p /\ provider'[q].known[s] = m
            \/ s \in DOMAIN provider[q].known /\ provider'[q].known[s] = provider[q].known[s]
        BY <4>2, RecordedKnown
      <4> QED
        BY <4>1, <4>3
    <3>2. CASE q = p /\ provider'[q].known[s] = made'
      BY <2>1, <3>2 DEF Holds
    <3>3. CASE s \in DOMAIN provider[q].known /\ provider'[q].known[s] = provider[q].known[s]
      <4>1. Holds(q, provider[q].known[s])
        BY <3>3 DEF BoxInv
      <4> QED
        BY <2>1, <3>3, <4>1 DEF Holds
    <3> QED
      BY <2>2, <3>1, <3>2, <3>3
  <2>5. ASSUME NEW q \in Procs PROVE Holds(q, boxCall[q].box)'
    <3>1. boxCall'[q].box = boxCall[q].box \/ (q = p /\ boxCall'[q].box = made + 1)
      BY <1>1, <2>2, TakenCall
    <3> QED
      BY <2>1, <2>2, <3>1 DEF BoxInv, Holds
  <2> QED
    BY <2>3, <2>4, <2>5 DEF BoxInv
<1>2. CASE /\ boxes' = boxes \cup {Started(p, sid)} /\ made' = made + 1
           /\ Refuse(p) /\ UNCHANGED provider
  <2>1. /\ made' \in Nat /\ \A b \in boxes' : b.n \in 1..made' /\ b.by \in Procs
        /\ \A q \in Procs : \A n : Holds(q, n) => Holds(q, n)'
    BY <1>2, BoxStarts
  <2>2. BoxTypes' /\ SuccessRanAtHome'
    BY <1>2, <2>1, RefusedCall DEF BoxTypes
  <2>3. /\ \A q \in Procs : \A s \in DOMAIN provider'[q].known : Holds(q, provider[q].known[s])'
        /\ \A q \in Procs : Holds(q, boxCall[q].box)'
    <3>1. \A q \in Procs : boxCall'[q].box = boxCall[q].box
      BY <1>2, RefusedCall
    <3>2. \A q \in Procs : Holds(q, boxCall[q].box) /\ \A s \in DOMAIN provider[q].known : Holds(q, provider[q].known[s])
      BY DEF BoxInv
    <3>3. provider' = provider
      BY <1>2
    <3> QED
      BY ONLY <2>1, <3>1, <3>2, <3>3 DEF Holds
  <2> QED
    BY <2>2, <2>3 DEF BoxInv
<1>3. CASE Refuse(p) /\ UNCHANGED <<boxes, provider, made>>
  BY <1>3, RefusedCall DEF BoxInv, BoxTypes, Holds
<1> QED
  BY <1>1, <1>2, <1>3 DEF Acquire

LEMMA AcquireLocalStep ==
  ASSUME BoxInv, NEW p \in Procs, NEW sid \in BoxNames \cup {"default"}, AcquireLocal(p, sid)
  PROVE  BoxInv'
<1>1. PICK m \in Int : m = -1
  OBVIOUS
<1>2. provider' = Recorded(p, sid, m) /\ Take(p, sid, m) /\ UNCHANGED <<boxes, boxAnswer, made>>
  BY <1>1 DEF AcquireLocal
<1>3. BoxTypes
  BY DEF BoxInv
<1>4. \A q \in Procs : Holds(q, m) /\ \A n : Holds(q, n)' <=> Holds(q, n)
  <2>1. made \in Nat /\ \A b \in boxes : b.n \in 1..made
    BY <1>3 DEF BoxTypes
  <2> QED
    BY <1>1, <1>2, <2>1 DEF Holds
<1>5. BoxTypes' /\ SuccessRanAtHome'
  BY <1>2, <1>3, RecordedKnown, TakenCall DEF BoxTypes, BoxInv, SuccessRanAtHome
<1>6. ASSUME NEW q \in Procs, NEW s \in DOMAIN provider'[q].known
      PROVE  Holds(q, provider[q].known[s])'
  <2>1. \/ q = p /\ provider'[q].known[s] = m
        \/ s \in DOMAIN provider[q].known /\ provider'[q].known[s] = provider[q].known[s]
    BY <1>2, <1>3, RecordedKnown
  <2> QED
    BY <1>2, <1>4, <2>1 DEF BoxInv, Holds
<1>7. ASSUME NEW q \in Procs PROVE Holds(q, boxCall[q].box)'
  <2>1. boxCall'[q].box = boxCall[q].box \/ (q = p /\ boxCall'[q].box = m)
    BY <1>2, <1>3, TakenCall
  <2> QED
    BY <1>2, <1>4, <2>1 DEF BoxInv, Holds
<1> QED
  BY <1>5, <1>6, <1>7 DEF BoxInv

LEMMA RunStep ==
  ASSUME BoxInv, NEW p \in Procs, RunInBox(p) \/ RunLocally(p)
  PROVE  BoxInv'
<1>1. CASE RunLocally(p)
  <2>1. PICK exit \in {0, 1}, timed \in BOOLEAN : BoxReply(p, exit = 0 /\ ~timed, p, exit, timed)
    BY <1>1 DEF RunLocally
  <2> DEFINE ok == exit = 0 /\ ~timed
  <2>2. ok \in BOOLEAN /\ exit \in Int
    OBVIOUS
  <2> QED
    BY <2>1, <2>2, Replied
<1>2. ASSUME NEW printed \in Prints, ~printed.gaveUp,
             BoxReply(p, ExitCode(Output(printed, 1, FALSE)) = 0, "nowhere", 1, FALSE)
      PROVE  BoxInv'
  <2>1. ExitCode(Output(printed, 1, FALSE)) # 0
    BY DEF Prints, Output, ExitCode
  <2> DEFINE ok == ExitCode(Output(printed, 1, FALSE)) = 0
             code == 1
             timed == FALSE
  <2>2. ok \in BOOLEAN /\ ~ok
    BY <2>1
  <2>3. code \in Int /\ timed \in BOOLEAN
    OBVIOUS
  <2>4. BoxReply(p, ok, "nowhere", code, timed)
    BY <1>2
  <2> HIDE DEF ok, code, timed
  <2> QED
    BY <2>2, <2>3, <2>4, Replied
<1>3. ASSUME NEW b \in Target(p), NEW printed \in Prints, NEW exit \in {0, 1}, NEW timed \in BOOLEAN,
             boxCall[p].box > 0, BoxReply(p, ExitCode(Output(printed, exit, timed)) = 0, b.by, exit, timed)
      PROVE  BoxInv'
  <2> DEFINE ok == ExitCode(Output(printed, exit, timed)) = 0
  <2>1. ok \in BOOLEAN /\ (ok => exit = 0 /\ ~timed)
    BY FailureIsRead
  <2>2. b.by = p
    BY DEF Target, BoxInv, Holds
  <2>3. BoxReply(p, ok, p, exit, timed)
    BY <1>3, <2>2
  <2> HIDE DEF ok
  <2> QED
    BY <2>1, <2>3, Replied
<1> QED
  BY <1>1, <1>2, <1>3 DEF RunInBox

LEMMA BoxStep == BoxInv /\ [BoxNext]_boxVars => BoxInv'
<1> SUFFICES ASSUME BoxInv, [BoxNext]_boxVars PROVE BoxInv'
  OBVIOUS
<1>1. CASE BoxEnds \/ DaemonStops \/ DaemonStarts \/ UNCHANGED boxVars
  BY <1>1, BoxesGo DEF BoxEnds, DaemonStops, DaemonStarts, boxVars
<1>2. ASSUME NEW p \in Procs, BuildTool(p) PROVE BoxInv'
  <2>1. PICK engine : provider' = [provider EXCEPT ![p].backend = engine]
    BY <1>2 DEF BuildTool
  <2>2. /\ provider' = [q \in Procs |-> [backend |-> provider'[q].backend, known |-> provider'[q].known]]
        /\ \A q \in Procs : provider'[q].known = provider[q].known
    <3>1. provider = [q \in Procs |-> [backend |-> provider[q].backend, known |-> provider[q].known]]
      BY DEF BoxInv, BoxTypes
    <3>2. [provider[p] EXCEPT !.backend = engine] = [backend |-> engine, known |-> provider[p].known]
      BY <3>1
    <3>3. provider' = [q \in Procs |-> IF q = p THEN [backend |-> engine, known |-> provider[p].known] ELSE provider[q]]
      BY <2>1, <3>1, <3>2
    <3>4. \A q \in Procs : provider'[q] = [backend |-> provider'[q].backend, known |-> provider'[q].known]
      BY <3>1, <3>3
    <3> QED
      BY <3>3, <3>4
  <2> QED
    BY <1>2, <2>2 DEF BuildTool, BoxInv, BoxTypes, Holds, SuccessRanAtHome
<1>3. ASSUME NEW p \in Procs, Verify(p) PROVE BoxInv'
  <2>1. PICK exit \in {0, 1}, timed \in BOOLEAN :
          boxAnswer' = [boxAnswer EXCEPT ![p] = [ok |-> exit = 0 /\ ~timed, ran |-> p, exit |-> exit, timed |-> timed]]
    BY <1>3 DEF Verify
  <2> DEFINE reply == [ok |-> exit = 0 /\ ~timed, ran |-> p, exit |-> exit, timed |-> timed]
  <2>2. /\ reply \in [ok : BOOLEAN, ran : Procs \cup {"nowhere"}, exit : Int, timed : BOOLEAN]
        /\ reply.ok => reply.ran = p /\ reply.exit = 0 /\ ~reply.timed
    <3>1. PICK ok \in BOOLEAN : ok = (exit = 0 /\ ~timed)
      OBVIOUS
    <3>2. reply = [ok |-> ok, ran |-> p, exit |-> exit, timed |-> timed]
      BY <3>1
    <3>3. reply.ok = ok /\ reply.ran = p /\ reply.exit = exit /\ reply.timed = timed
      BY <3>2
    <3> HIDE DEF reply
    <3>4. reply.ok => reply.ran = p /\ reply.exit = 0 /\ ~reply.timed
      BY <3>1, <3>3
    <3>5. reply \in [ok : BOOLEAN, ran : Procs \cup {"nowhere"}, exit : Int, timed : BOOLEAN]
      BY <3>2
    <3> QED
      BY <3>4, <3>5
  <2>3. boxAnswer' = [boxAnswer EXCEPT ![p] = reply]
    BY <2>1
  <2> HIDE DEF reply
  <2>4. boxAnswer' \in [Procs -> [ok : BOOLEAN, ran : Procs \cup {"nowhere"}, exit : Int, timed : BOOLEAN]] /\ SuccessRanAtHome'
    BY <2>2, <2>3 DEF BoxInv, BoxTypes, SuccessRanAtHome
  <2>5. /\ boxCall' \in [Procs -> [pc : {"idle", "run"}, sid : BoxNames \cup {"default", "none"}, box : Int, count : Nat]]
        /\ \A q \in Procs : boxCall'[q].box = boxCall[q].box
    <3>1. boxCall \in [Procs -> [pc : {"idle", "run"}, sid : BoxNames \cup {"default", "none"}, box : Int, count : Nat]]
      BY DEF BoxInv, BoxTypes
    <3>2. boxCall' = [boxCall EXCEPT ![p].count = @ + 1]
      BY <1>3 DEF Verify
    <3> QED
      BY <3>1, <3>2
  <2> QED
    BY <1>3, <2>4, <2>5 DEF Verify, BoxInv, BoxTypes, Holds
<1>4. ASSUME NEW p \in Procs, ProcessEnds(p) PROVE BoxInv'
  <2> DEFINE idle == [NoBoxCall EXCEPT !.count = boxCall[p].count]
  <2>1. /\ provider' = [provider EXCEPT ![p] = NoProvider] /\ boxCall' = [boxCall EXCEPT ![p] = idle]
        /\ boxAnswer' = [boxAnswer EXCEPT ![p] = NoReply] /\ UNCHANGED <<boxes, made>>
    BY <1>4 DEF ProcessEnds
  <2>2. idle \in [pc : {"idle", "run"}, sid : BoxNames \cup {"default", "none"}, box : Int, count : Nat] /\ idle.box = 0
    BY DEF NoBoxCall, BoxInv, BoxTypes
  <2> HIDE DEF idle
  <2>3. /\ provider' = [q \in Procs |-> [backend |-> provider'[q].backend, known |-> provider'[q].known]]
        /\ \A q \in Procs : \A s \in DOMAIN provider'[q].known :
             s \in DOMAIN provider[q].known /\ provider'[q].known[s] = provider[q].known[s]
    <3>1. provider = [q \in Procs |-> [backend |-> provider[q].backend, known |-> provider[q].known]]
      BY DEF BoxInv, BoxTypes
    <3>2. provider' = [q \in Procs |-> IF q = p THEN NoProvider ELSE provider[q]]
      BY <2>1, <3>1
    <3>3. NoProvider = [backend |-> NoProvider.backend, known |-> NoProvider.known] /\ DOMAIN NoProvider.known = {}
      BY DEF NoProvider
    <3>4. \A q \in Procs : provider'[q] = [backend |-> provider'[q].backend, known |-> provider'[q].known]
      BY <3>1, <3>2, <3>3
    <3> QED
      BY <3>2, <3>3, <3>4
  <2>4. NoReply \in [ok : BOOLEAN, ran : Procs \cup {"nowhere"}, exit : Int, timed : BOOLEAN] /\ ~NoReply.ok
    BY DEF NoReply
  <2>5. boxAnswer' \in [Procs -> [ok : BOOLEAN, ran : Procs \cup {"nowhere"}, exit : Int, timed : BOOLEAN]] /\ SuccessRanAtHome'
    BY <2>1, <2>4 DEF BoxInv, BoxTypes, SuccessRanAtHome
  <2>6. /\ boxCall' \in [Procs -> [pc : {"idle", "run"}, sid : BoxNames \cup {"default", "none"}, box : Int, count : Nat]]
        /\ \A q \in Procs : boxCall'[q].box \in {boxCall[q].box, 0}
    BY <2>1, <2>2 DEF BoxInv, BoxTypes
  <2>7. \A q \in Procs : Holds(q, 0)
    BY DEF BoxInv, BoxTypes, Holds
  <2>8. ASSUME NEW q \in Procs, NEW s \in DOMAIN provider'[q].known
        PROVE  Holds(q, provider[q].known[s])'
    <3>1. Holds(q, provider[q].known[s]) /\ provider'[q].known[s] = provider[q].known[s]
      BY <2>3, <2>8 DEF BoxInv
    <3> QED
      BY <2>1, <3>1 DEF Holds
  <2>9. ASSUME NEW q \in Procs PROVE Holds(q, boxCall[q].box)'
    <3>1. Holds(q, boxCall'[q].box)
      BY <2>6, <2>7 DEF BoxInv
    <3> QED
      BY <2>1, <3>1 DEF Holds
  <2>10. BoxTypes'
    BY <2>1, <2>3, <2>5, <2>6 DEF BoxInv, BoxTypes
  <2> QED
    BY <2>5, <2>8, <2>9, <2>10 DEF BoxInv
<1>5. ASSUME NEW p \in Procs, NEW sid \in BoxNames \cup {"default"}, Reuse(p, sid) PROVE BoxInv'
  <2>1. PICK n : n = KnownBox(p, sid)
    OBVIOUS
  <2>2. Take(p, sid, n) /\ n # 0 /\ UNCHANGED <<boxes, provider, boxAnswer, made>>
    BY <1>5, <2>1 DEF Reuse
  <2>3. Holds(p, n)
    BY <2>1, <2>2 DEF KnownBox, BoxInv
  <2>4. n \in Int /\ BoxTypes
    BY <2>3 DEF Holds, BoxInv
  <2>5. /\ boxCall' \in [Procs -> [pc : {"idle", "run"}, sid : BoxNames \cup {"default", "none"}, box : Int, count : Nat]]
        /\ \A q \in Procs : boxCall'[q].box = boxCall[q].box \/ (q = p /\ boxCall'[q].box = n)
    BY <2>2, <2>4, TakenCall
  <2> QED
    BY <2>2, <2>3, <2>5 DEF BoxInv, BoxTypes, Holds, SuccessRanAtHome
<1> QED
  BY <1>1, <1>2, <1>3, <1>4, <1>5, RunStep, AcquireStep, AcquireLocalStep DEF BoxNext

\* Whatever containers and daemons do, and however many processes ask for the
\* same names: what is reported as a success ran to its end in a container of
\* the caller, or on the host, with code 0.
THEOREM SandboxHolds == BoxSpec => []SuccessRanAtHome
<1>1. BoxInit => BoxInv
  BY DEF BoxInit, BoxInv, BoxTypes, Holds, SuccessRanAtHome, NoProvider, NoBoxCall, NoReply
<1>2. BoxInv => SuccessRanAtHome
  BY DEF BoxInv
<1> QED
  BY <1>1, <1>2, BoxStep, PTL DEF BoxSpec

-----------------------------------------------------------------------------
(* PermissionGuard.                                                         *)

\* A directory holds itself, and what those in it hold.
LEMMA PrefixAt ==
  ASSUME NEW r \in Seq(PathNames), NEW s \in Seq(PathNames)
  PROVE  IsPrefix(r, s) <=> Len(r) <= Len(s) /\ \A i \in 1..Len(r) : r[i] = s[i]
<1>1. CASE Len(r) <= Len(s)
  <2>1. /\ SubSeq(r, 1, Len(r)) = [i \in 1..Len(r) |-> r[i]]
        /\ SubSeq(s, 1, Len(r)) = [i \in 1..Len(r) |-> s[i]]
    BY <1>1, SubSeqProperties
  <2> QED
    BY <1>1, <2>1 DEF IsPrefix
<1>2. CASE ~(Len(r) <= Len(s))
  BY <1>2 DEF IsPrefix
<1> QED
  BY <1>1, <1>2

LEMMA PrefixOrder ==
  ASSUME NEW r \in Seq(PathNames), NEW s \in Seq(PathNames), NEW t \in Seq(PathNames)
  PROVE  IsPrefix(r, r) /\ (IsPrefix(r, s) /\ IsPrefix(s, t) => IsPrefix(r, t))
<1>1. Len(r) \in Nat /\ Len(s) \in Nat /\ Len(t) \in Nat
  OBVIOUS
<1>2. IsPrefix(r, r)
  BY PrefixAt
<1>3. ASSUME IsPrefix(r, s), IsPrefix(s, t) PROVE IsPrefix(r, t)
  <2>1. Len(r) <= Len(s) /\ \A i \in 1..Len(r) : r[i] = s[i]
    BY <1>3, PrefixAt
  <2>2. Len(s) <= Len(t) /\ \A i \in 1..Len(s) : s[i] = t[i]
    BY <1>3, PrefixAt
  <2> QED
    BY <1>1, <2>1, <2>2, PrefixAt
<1> QED
  BY <1>2, <1>3

LEMMA Resolved ==
  ASSUME NEW path \in Seq(PathNames)
  PROVE  ResolvePath(path) \in Seq(PathNames) \ DOMAIN Links /\ ResolvePath(ResolvePath(path)) = ResolvePath(path)
BY GuardAssumption DEF ResolvePath

\* What the mode permits scores below the threshold, whatever the file.
LEMMA NeverTooRisky ==
  ASSUME NEW tool \in Tools, NEW path \in Paths \cup {<<>>}, NEW cmd \in Commanded,
         cmd # "none" <=> tool = "SandboxBash", mode \in Modes, Required(tool, cmd) \in AllowedLevels
  PROVE  ~TooRisky(tool, path, cmd)
<1> SUFFICES ASSUME mode # "danger-full-access"
             PROVE  /\ ToolRisk(tool) \in Int /\ FileRisk(path) \in Int /\ ScopeRisk(tool, cmd) \in Int /\ UndoRisk(tool, cmd) \in Int
                    /\ ToolRisk(tool) + FileRisk(path) + ScopeRisk(tool, cmd) + UndoRisk(tool, cmd) <= 15
  BY DEF TooRisky, RiskThreshold
<1>1. FileRisk(path) \in 1..5
  BY GuardAssumption DEF FileRisk
<1>2. AllowedLevels \subseteq {"safe", "review"}
  BY DEF AllowedLevels, Modes
<1>5. ToolLevel["SandboxBash"] = "dangerous"
  BY DEF ToolLevel, Tools, SafeTools, ReviewTools, DangerousTools
<1>3. CASE tool = "SandboxBash"
  <2>1. cmd = "verify"
    BY <1>2, <1>3, <1>5 DEF Required, OnlyTests
  <2>2. ToolRisk(tool) = 3 /\ ScopeRisk(tool, cmd) = 1 /\ UndoRisk(tool, cmd) = 1
    BY <1>3, <2>1 DEF ToolRisk, ScopeRisk, UndoRisk, CommandRisk, OnlyTests, SafeTools
  <2> QED
    BY <1>1, <2>2
<1>4. CASE tool # "SandboxBash"
  <2>1. ToolRisk(tool) \in 1..4 /\ ScopeRisk(tool, cmd) \in {1, 3} /\ UndoRisk(tool, cmd) \in {1, 2}
    BY <1>4 DEF ToolRisk, ScopeRisk, UndoRisk
  <2> QED
    BY <1>1, <2>1
<1> QED
  BY <1>3, <1>4

\* Everybody works in a resolved directory, inside the root agent's unless the
\* mode is full access.
GuardInv ==
  /\ mode \in Modes
  /\ DOMAIN cwds \in {{"root"}, Agents} /\ cwds["root"] = Workspace
  /\ \A a \in DOMAIN cwds : cwds[a] \in Seq(PathNames) \ DOMAIN Links
  /\ mode # "danger-full-access" => \A a \in DOMAIN cwds : IsPrefix(Workspace, cwds[a])
  /\ wrote \subseteq [file : Seq(PathNames), by : Tools]
  /\ GuardHolds

\* The guard is the matrix and the rule about the directory, no more and no less.
LEMMA GuardIsMatrix ==
  ASSUME GuardInv, NEW a \in DOMAIN cwds, NEW tool \in Tools, NEW path \in Paths \cup {<<>>},
         NEW cmd \in Commanded, cmd # "none" <=> tool = "SandboxBash"
  PROVE  GoesThrough(a, tool, path, cmd) <=>
           /\ Matrix(Required(tool, cmd))
           /\ mode = "danger-full-access" \/ \A w \in Declared(a, tool, path) : IsPrefix(cwds[a], ResolvePath(w))
<1>1. Required(tool, cmd) \in Levels
  BY DEF Required, OnlyTests, ToolLevel, Levels, Tools
<1>2. Matrix(Required(tool, cmd)) <=> Required(tool, cmd) \in AllowedLevels
  BY <1>1 DEF Matrix, AllowedLevels, Levels, GuardInv, Modes
<1>3. ResolvePath(cwds[a]) = cwds[a]
  BY DEF ResolvePath, GuardInv
<1>4. \A w : Authorized(cwds[a], w, TRUE) <=> (mode = "danger-full-access" \/ IsPrefix(cwds[a], ResolvePath(w)))
  BY <1>3 DEF Authorized
<1>5. mode \in Modes
  BY DEF GuardInv
<1>6. Required(tool, cmd) \in AllowedLevels => ~TooRisky(tool, path, cmd)
  BY <1>5, NeverTooRisky
<1> QED
  BY <1>2, <1>4, <1>6 DEF GoesThrough

LEMMA WrittenPaths ==
  ASSUME GuardInv, NEW a \in DOMAIN cwds, NEW tool, NEW path \in Paths \cup {<<>>}
  PROVE  Declared(a, tool, path) \subseteq Seq(PathNames)
<1>1. path \in Seq(PathNames)
  <2>1. <<>> \in Seq(PathNames)
    BY EmptySeq
  <2> QED
    BY <2>1, GuardAssumption
<1>2. Append(cwds[a], "todos.json") \in Seq(PathNames)
  <2>1. cwds[a] \in Seq(PathNames)
    BY DEF GuardInv
  <2>2. "todos.json" \in PathNames
    BY GuardAssumption
  <2> QED
    BY <2>1, <2>2, AppendProperties
<1> QED
  BY <1>1, <1>2 DEF Declared

LEMMA GuardStep == GuardInv /\ [GuardNext]_guardVars => GuardInv'
<1> SUFFICES ASSUME GuardInv, [GuardNext]_guardVars PROVE GuardInv'
  OBVIOUS
<1>1. ASSUME NEW a \in DOMAIN cwds, AskTool(a) PROVE GuardInv'
  <2>1. PICK tool \in Tools, path \in Paths \cup {<<>>}, cmd \in Commanded :
          /\ cmd # "none" <=> tool = "SandboxBash"
          /\ decided' = [cwd |-> cwds[a], level |-> Required(tool, cmd), writes |-> Declared(a, tool, path),
                          allowed |-> GoesThrough(a, tool, path, cmd)]
          /\ IF GoesThrough(a, tool, path, cmd)
               THEN \E files \in MayWrite(a, tool, path) :
                      wrote' = wrote \cup {[file |-> ResolvePath(w), by |-> WrittenBy(tool, cmd)] : w \in files}
               ELSE UNCHANGED wrote
    BY <1>1 DEF AskTool
  <2>2. UNCHANGED <<mode, cwds>>
    BY <1>1 DEF AskTool
  <2>3. PICK files \in SUBSET Seq(PathNames) :
          /\ files # {} => GoesThrough(a, tool, path, cmd)
          /\ files \subseteq Declared(a, tool, path) \/ tool \in Undeclared
          /\ wrote' = wrote \cup {[file |-> ResolvePath(w), by |-> WrittenBy(tool, cmd)] : w \in files}
    <3>1. CASE GoesThrough(a, tool, path, cmd)
      <4>1. PICK files \in MayWrite(a, tool, path) :
              wrote' = wrote \cup {[file |-> ResolvePath(w), by |-> WrittenBy(tool, cmd)] : w \in files}
        BY <2>1, <3>1
      <4>2. files \subseteq Seq(PathNames)
        BY <4>1, WrittenPaths, GuardAssumption DEF MayWrite
      <4>3. files = Declared(a, tool, path) \/ tool \in Undeclared
        BY <4>1 DEF MayWrite
      <4> QED
        BY <3>1, <4>1, <4>2, <4>3
    <3>2. CASE ~GoesThrough(a, tool, path, cmd)
      <4>1. wrote' = wrote \cup {[file |-> ResolvePath(w), by |-> WrittenBy(tool, cmd)] : w \in {}}
        BY <2>1, <3>2
      <4> QED
        BY <4>1
    <3> QED
      BY <3>1, <3>2
  <2>4. wrote' \subseteq [file : Seq(PathNames), by : Tools]
    <3>1. WrittenBy(tool, cmd) \in Tools
      BY DEF WrittenBy, Tools, ReviewTools
    <3>2. \A w \in files : [file |-> ResolvePath(w), by |-> WrittenBy(tool, cmd)] \in [file : Seq(PathNames), by : Tools]
      BY <2>3, <3>1, Resolved
    <3> QED
      BY <2>3, <3>2 DEF GuardInv
  <2>5. GuardIsItsMatrix'
    <3>1. /\ decided'.cwd = cwds[a] /\ decided'.level = Required(tool, cmd)
          /\ decided'.writes = Declared(a, tool, path) /\ decided'.allowed = GoesThrough(a, tool, path, cmd)
      BY <2>1
    <3> QED
      BY <2>1, <2>2, <3>1, GuardIsMatrix DEF GuardIsItsMatrix, Matrix
  <2>6. ASSUME mode # "danger-full-access", NEW w \in files
        PROVE  /\ mode = "workspace-write"
               /\ IsPrefix(Workspace, ResolvePath(w)) \/ WrittenBy(tool, cmd) \in {"AstGrepReplace", "McpTool", "VerifyCommand"}
    <3>1. GoesThrough(a, tool, path, cmd) /\ Matrix(Required(tool, cmd))
      BY <2>1, <2>3, <2>6, GuardIsMatrix
    <3>2. tool \in Undeclared \/ w \in Declared(a, tool, path)
      BY <2>3
    <3>3. tool \notin SafeTools
      BY <3>2 DEF Undeclared, Declared, FileTools, SafeTools
    <3>4. Required(tool, cmd) # "safe"
      BY <2>1, <3>3 DEF Required, ToolLevel
    <3>5. mode = "workspace-write" /\ Required(tool, cmd) = "review"
      BY <2>6, <3>1, <3>4 DEF Matrix, GuardInv, Modes
    <3>6. CASE tool \in Undeclared
      <4>1. tool # "InteractiveBash" /\ (tool = "SandboxBash" => OnlyTests(cmd))
        BY <2>1, <3>5 DEF Required, ToolLevel, SafeTools, ReviewTools, OnlyTests
      <4>2. WrittenBy(tool, cmd) \in {"AstGrepReplace", "McpTool", "VerifyCommand"}
        BY <3>6, <4>1 DEF WrittenBy, Undeclared
      <4> QED
        BY <3>5, <4>2
    <3>7. CASE w \in Declared(a, tool, path)
      <4>1. IsPrefix(cwds[a], ResolvePath(w))
        BY <2>1, <2>6, <3>1, <3>7, GuardIsMatrix
      <4>2. IsPrefix(Workspace, ResolvePath(w))
        BY <2>3, <2>6, <4>1, PrefixOrder, Resolved, GuardAssumption DEF GuardInv
      <4> QED
        BY <3>5, <4>2
    <3> QED
      BY <3>2, <3>6, <3>7
  <2>7. WritesStayHome'
    <3>1. ASSUME NEW v \in wrote', v \notin wrote
          PROVE  \E w \in files : v.file = ResolvePath(w) /\ v.by = WrittenBy(tool, cmd)
      BY <2>3, <3>1
    <3>2. ASSUME mode = "workspace-write", NEW v \in wrote'
          PROVE  IsPrefix(Workspace, v.file) \/ v.by \in {"AstGrepReplace", "McpTool", "VerifyCommand"}
      <4>1. CASE v \in wrote
        BY <3>2, <4>1 DEF WritesStayHome, GuardInv, GuardHolds
      <4>2. CASE v \notin wrote
        BY <2>6, <3>1, <3>2, <4>2
      <4> QED
        BY <4>1, <4>2
    <3>3. ASSUME mode = "read-only" PROVE wrote' = {}
      <4>1. wrote = {}
        BY <3>3 DEF WritesStayHome, GuardInv, GuardHolds
      <4>2. files = {}
        BY <2>6, <3>3
      <4> QED
        BY <2>3, <4>1, <4>2
    <3> QED
      BY <2>2, <3>2, <3>3 DEF WritesStayHome
  <2> QED
    BY <2>2, <2>4, <2>5, <2>7 DEF GuardInv, GuardHolds
<1>2. CASE Delegate
  <2>1. PICK lines \in {<<>>} \cup {<<d>> : d \in Paths} :
          cwds' = [a \in Agents |-> IF a = "root" THEN cwds[a] ELSE DelegatedCwd(lines)]
    BY <1>2 DEF Delegate
  <2>2. UNCHANGED <<mode, decided, wrote>> /\ mode # "read-only"
    BY <1>2 DEF Delegate, AllowedLevels
  <2>3. ResolvePath(Workspace) = Workspace /\ Workspace \in Seq(PathNames) \ DOMAIN Links
    BY GuardAssumption DEF ResolvePath
  <2>4. /\ DelegatedCwd(lines) \in Seq(PathNames) \ DOMAIN Links
        /\ mode # "danger-full-access" => IsPrefix(Workspace, DelegatedCwd(lines))
    <3>1. CASE DelegatedCwd(lines) = Workspace
      BY <2>3, <3>1, PrefixOrder
    <3>2. CASE DelegatedCwd(lines) # Workspace
      <4>1. /\ lines # <<>> /\ DelegatedCwd(lines) = ResolvePath(Head(lines))
            /\ Authorized(Workspace, Head(lines), TRUE)
        BY <2>3, <3>2 DEF DelegatedCwd
      <4>2. PICK d \in Paths : Head(lines) = d
        BY <2>1, <4>1
      <4>3. d \in Seq(PathNames)
        BY <4>2, GuardAssumption
      <4> QED
        BY <2>3, <4>1, <4>2, <4>3, Resolved DEF Authorized
    <3> QED
      BY <3>1, <3>2
  <2> QED
    BY <2>1, <2>2, <2>3, <2>4 DEF GuardInv, GuardHolds, GuardIsItsMatrix, WritesStayHome, Matrix, Agents
<1>3. CASE SubagentEnds
  BY <1>3 DEF SubagentEnds, GuardInv, GuardHolds, GuardIsItsMatrix, WritesStayHome, Matrix, Agents
<1>4. CASE UNCHANGED guardVars
  BY <1>4 DEF guardVars, GuardInv, GuardHolds, GuardIsItsMatrix, WritesStayHome, Matrix
<1> QED
  BY <1>1, <1>2, <1>3, <1>4 DEF GuardNext

\* For every workspace, whatever links lead out of it: the guard is the matrix of
\* its docstring, its risk threshold refuses nothing more, and in workspace-write
\* a file outside the root agent's workspace is written by nobody but those who
\* declare nothing; in read-only mode nothing is written.
THEOREM GuardStands == GuardSpec => []GuardHolds
<1>1. GuardInit => GuardInv
  <2> SUFFICES ASSUME GuardInit PROVE GuardInv
    OBVIOUS
  <2>1. IsPrefix(Workspace, Workspace)
    BY PrefixOrder, GuardAssumption
  <2> QED
    BY <2>1, GuardAssumption DEF GuardInit, GuardInv, GuardHolds, GuardIsItsMatrix, WritesStayHome
<1>2. GuardInv => GuardHolds
  BY DEF GuardInv
<1> QED
  BY <1>1, <1>2, GuardStep, PTL DEF GuardSpec

-----------------------------------------------------------------------------
(* Verification.                                                            *)

\* The runtime is before the verifier's start, and after it.
Early == \/ stage \in {"boot", "reserve", "reserving", "dispatch"}
         \/ stage \in {"boundary", "adapter"} /\ phase # "post"
Late == \/ stage \in {"verifier", "validate"}
        \/ stage \in {"boundary", "adapter"} /\ phase = "post"
Over == stage \in {"stamp", "exited", "failed", "none"}

\* What a pass stands on.
Witnessed == /\ starts = 1 /\ judged = basis
             /\ report.by = "verifier" /\ report.tests = {"passed"} /\ exitCode = 0

VerTypes ==
  /\ basis \in [sources : Int, policy : Int] /\ now \in [sources : Int, policy : Int]
  /\ drifts \in Nat /\ starts \in {0, 1} /\ died \in BOOLEAN

\* Nothing has happened before the runtime is launched.
Untouched ==
  /\ keeper \in {"identity", "look", "open", "launch"} => frozen
  /\ ~frozen => keeper = "idle"
  /\ ~frozen \/ keeper \in {"identity", "look", "open"} => outcome.status = "none"
  /\ ~frozen \/ keeper \in {"identity", "look", "open", "launch"} =>
       /\ marker = "none" /\ starts = 0 /\ stage = "none"
       /\ outcome.status \in {"none", "RUNNING"} /\ outcome.counted = Unsaid

\* The marker is whole before the verifier starts, and it starts once.
Marked ==
  /\ marker # "full" => starts = 0
  /\ stage = "reserving" => marker = "torn"
  /\ stage \in {"boundary", "adapter", "dispatch", "verifier", "validate"} => marker = "full"
  /\ stage \in {"dispatch", "verifier"} => phase = "post"
  /\ Early => starts = 0
  /\ Late => starts = 1
  /\ counted = 0 => starts = 0

\* Contents are fresh: what the verifier saw moved cannot move back.
Compared ==
  /\ basis.sources <= drifts /\ basis.policy <= drifts
  /\ now.sources <= drifts /\ now.policy <= drifts
  /\ stage \in {"reserve", "reserving", "boundary", "adapter", "dispatch", "verifier", "validate"} =>
       began = basis
  /\ Late => judged = basis \/ now # basis
  /\ Late => report = NoReport \/ report.by = "verifier"

\* From the verdict of the runtime to the file.
Carried ==
  /\ stage \in {"drift", "write", "stamp"} /\ saying = "PASS" => Witnessed
  /\ outcome.status = "PASS" => Over /\ Witnessed
  /\ outcome.counted # Unsaid => Over
  /\ outcome.counted = 0 => starts = 0

\* Who is gone has concluded, or was killed.
Concluded ==
  /\ keeper = "report" => stage = "none"
  /\ keeper = "idle" => died \/ (stage = "none" /\ outcome.status # "RUNNING")

VerInv == VerTypes /\ Untouched /\ Marked /\ Compared /\ Carried /\ Concluded

LEMMA VerStart == VerInit => VerInv
<1> SUFFICES ASSUME VerInit PROVE VerInv
  OBVIOUS
<1>1. VerTypes /\ Compared
  <2>1. /\ basis = [sources |-> -1, policy |-> -1] /\ now = [sources |-> 0, policy |-> 0]
        /\ drifts = 0 /\ starts = 0 /\ died = FALSE /\ stage = "none"
    BY DEF VerInit, Nothing
  <2>2. VerTypes
    <3>1. basis \in [sources : Int, policy : Int]
      BY <2>1
    <3>2. now \in [sources : Int, policy : Int]
      BY <2>1
    <3> QED
      BY <2>1, <3>1, <3>2 DEF VerTypes
  <2>3. Compared
    BY <2>1 DEF Compared, Late
  <2> QED
    BY <2>2, <2>3
<1>2. Untouched /\ Marked /\ Concluded
  BY DEF VerInit, Untouched, Marked, Concluded, Early, Late
<1>3. Carried
  BY DEF VerInit, Carried, Unsaid
<1> QED
  BY <1>1, <1>2, <1>3 DEF VerInv

LEMMA VerStep == VerInv /\ [VerNext]_verVars => VerInv'
<1> SUFFICES ASSUME VerInv, [VerNext]_verVars PROVE VerInv'
  OBVIOUS
<1> USE DEF VerInv, VerTypes, Untouched, Marked, Compared, Carried, Concluded, Early, Late, Over,
            Witnessed, disk, locals, ghosts
<1>1. CASE Authorise
  BY <1>1 DEF Authorise, Running
<1>2. CASE FreezeBasis
  BY <1>2 DEF FreezeBasis
<1>3. CASE Look
  BY <1>3 DEF Look
<1>4. CASE OpenAttempt
  BY <1>4 DEF OpenAttempt, Unsaid
<1>5. CASE StartRuntime
  BY <1>5 DEF StartRuntime, Unsaid
<1>6. CASE StopWaiting
  BY <1>6 DEF StopWaiting, Running
<1>7. CASE Terminated
  BY <1>7 DEF Terminated
<1>8. CASE Conclude
  BY <1>8 DEF Conclude, Final, Unsaid
<1>9. CASE KeeperDies
  BY <1>9 DEF KeeperDies
<1>10. CASE Boot
  BY <1>10 DEF Boot, StopSaying
<1>11. CASE Reserve
  BY <1>11 DEF Reserve
<1>12. CASE BoundaryLooks
  BY <1>12 DEF BoundaryLooks, StopSaying, Unmoved
<1>13. CASE AdapterReturns
  BY <1>13 DEF AdapterReturns, Unmoved, NoReport
<1>14. CASE GivesUp
  BY <1>14 DEF GivesUp, StopSaying
<1>15. CASE StartVerifier
  BY <1>15 DEF StartVerifier, Unsaid
<1>16. CASE VerifierReturns
  BY <1>16, ReportsAssumption DEF VerifierReturns, NoReport
<1>17. CASE Validate
  BY <1>17 DEF Validate, StopSaying, Acceptable, Unmoved, Said, Code, NoReport
<1>18. CASE LastLook
  BY <1>18 DEF LastLook, Unmoved
<1>19. CASE WriteResult
  <2>1. /\ stage \in {"write", "stamp"} /\ stage' \in {"stamp", "exited"}
        /\ outcome'.status = saying /\ outcome'.counted = counted
        /\ UNCHANGED <<frozen, basis, marker, report, now, drifts, keeper, phase, began, saying, counted, exitCode,
                       starts, judged, died>>
    BY <1>19 DEF WriteResult
  <2>2. frozen /\ keeper \notin {"identity", "look", "open", "launch", "report"}
    BY <2>1
  <2>3. Untouched' /\ Concluded' /\ VerTypes'
    BY <2>1, <2>2
  <2>4. Marked' /\ Compared'
    BY <2>1
  <2>5. Carried'
    BY <2>1
  <2> QED
    BY <2>3, <2>4, <2>5
<1>20. CASE RuntimeEnds
  BY <1>20 DEF RuntimeEnds, Running
<1>21. CASE Cancel
  BY <1>21 DEF Cancel
<1>22. CASE Drift
  BY <1>22 DEF Drift
<1>23. CASE UNCHANGED verVars
  BY <1>23 DEF verVars
<1> QED
  BY <1>1, <1>2, <1>3, <1>4, <1>5, <1>6, <1>7, <1>8, <1>9, <1>10, <1>11, <1>12, <1>13, <1>14, <1>15, <1>16,
     <1>17, <1>18, <1>19, <1>20, <1>21, <1>22, <1>23 DEF VerNext, Keeper, Executing

\* The invariant is what is promised.
LEMMA VerPromise == VerInv => VerificationHolds
  BY DEF VerInv, VerTypes, Marked, Carried, Concluded, Witnessed, VerificationHolds, SingleUse, PassIsWitnessed,
         EndIsReported, Running

(* What docs/verification-tasks.md promises of a one-shot verification holds  *)
(* for every set of reports and any number of edits: it is started once at    *)
(* most and only after its marker, a pass was said by the verifier on the     *)
(* sources and controls of the first entry, and a result is not left open.    *)
THEOREM VerificationStands == VerSpec => []VerificationHolds
  BY VerStart, VerStep, VerPromise, PTL DEF VerSpec

-----------------------------------------------------------------------------
(* KnowledgeBase.                                                           *)

Row == [triple : Triples, from : Nat, to : Nat, batch : Nat]
Entity == UNION {Ends[t] : t \in Triples}
Txn == [at : {"idle", "open"}, todo : Seq(Triples), rows : SUBSET Row, ents : SUBSET Entity, batch : Nat]

GraphTypes ==
  /\ rows \subseteq Row /\ entities \subseteq Entity /\ txn \in [Workers -> Txn]
  /\ rolledBack \subseteq Nat /\ today \in Nat \ {0} /\ steps \in Nat

Open(p) == txn[p].at # "idle"
Single(set) == \A r, s \in set : r.triple = s.triple /\ r.to = 0 /\ s.to = 0 => r = s

\* A row that is there: of an earlier operation, of no failed batch, and seen.
Written(r) == r.batch <= steps /\ r.batch \notin rolledBack /\ Ends[r.triple] \subseteq entities

\* What an open transaction would leave if it committed now.
Committable(p) ==
  /\ txn[p].batch <= steps /\ txn[p].batch \notin rolledBack
  /\ \A r \in rows : r.batch # txn[p].batch
  /\ \A r \in txn[p].rows : /\ r.batch = txn[p].batch
                            /\ Ends[r.triple] \subseteq entities \cup txn[p].ents
  /\ Single(rows \cup txn[p].rows)

\* At most one process writes, and may commit at any time; a batch number is
\* used once.
GraphInv ==
  /\ GraphTypes
  /\ \A p, q \in Workers : Open(p) /\ Open(q) => p = q
  /\ \A p \in Workers : Open(p) => Committable(p)
  /\ \A r \in rows : Written(r)
  /\ \A b \in rolledBack : b <= steps
  /\ Single(rows)

\* What the transaction of a process does not touch.
LEMMA OthersIdle ==
  ASSUME GraphInv, NEW p \in Workers, Open(p), NEW q \in Workers, q # p
  PROVE  ~Open(q)
  BY DEF GraphInv

\* Nothing of the graph moves; the counter of operations may.
LEMMA GraphLeft ==
  ASSUME GraphInv, UNCHANGED <<kbGraph, today>>, steps' \in {steps, steps + 1}
  PROVE  GraphInv'
<1>1. GraphTypes'
  BY DEF GraphInv, GraphTypes, kbGraph
<1>2. steps \in Nat /\ rolledBack \subseteq Nat /\ \A r \in rows : r.batch \in Nat
  BY DEF GraphInv, GraphTypes, Row
<1>3. \A p \in Workers : txn[p].batch \in Nat
  BY DEF GraphInv, GraphTypes, Txn
<1>4. \A n \in Nat : n <= steps => n <= steps'
  BY <1>2
<1>5. \A p \in Workers : Open(p)' => Open(p)
  BY DEF Open, kbGraph
<1>6. \A p \in Workers : Open(p)' => Committable(p)'
  BY <1>3, <1>4, <1>5 DEF GraphInv, Committable, Single, kbGraph
<1>7. \A r \in rows' : Written(r)'
  BY <1>2, <1>4 DEF GraphInv, Written, kbGraph
<1>8. \A b \in rolledBack' : b <= steps'
  BY <1>2, <1>4 DEF GraphInv, kbGraph
<1>9. Single(rows')
  BY DEF GraphInv, kbGraph
<1> QED
  BY <1>1, <1>5, <1>6, <1>7, <1>8, <1>9 DEF GraphInv

LEMMA GraphStep == GraphInv /\ [KbNext]_kbVars => GraphInv'
<1> SUFFICES ASSUME GraphInv, [KbNext]_kbVars PROVE GraphInv'
  OBVIOUS
<1>0. /\ steps \in Nat /\ rows \subseteq Row /\ rolledBack \subseteq Nat /\ entities \subseteq Entity
      /\ txn \in [Workers -> Txn] /\ today \in Nat \ {0}
  BY DEF GraphInv, GraphTypes
<1>1. ASSUME NEW p \in Workers, NEW todo \in Seq(Triples), Begin(p, todo) PROVE GraphInv'
  <2> DEFINE new == [at |-> "open", todo |-> todo, rows |-> {}, ents |-> {}, batch |-> steps + 1]
  <2>1. /\ txn' = [txn EXCEPT ![p] = new] /\ steps' = steps + 1
        /\ rows' = rows /\ entities' = entities /\ rolledBack' = rolledBack /\ today' = today
        /\ \A q \in Workers : ~Open(q)
    BY <1>1 DEF Begin, Step, Writer, Open
  <2>2. new \in Txn
    BY <1>0 DEF Txn
  <2>3. GraphTypes'
    BY <1>0, <2>1, <2>2 DEF GraphTypes
  <2>4. \A q \in Workers : Open(q)' => q = p
    BY <1>0, <2>1 DEF Open
  <2>5. txn'[p] = new
    BY <1>0, <2>1
  <2>6. /\ \A r \in rows : r.batch \in Nat /\ r.batch <= steps
        /\ \A b \in rolledBack : b \in Nat /\ b <= steps
    BY <1>0 DEF GraphInv, Written, Row
  <2>7. Committable(p)'
    BY <1>0, <2>1, <2>5, <2>6 DEF Committable, Single, GraphInv
  <2>8. \A r \in rows' : Written(r)'
    BY <1>0, <2>1, <2>6 DEF GraphInv, Written
  <2>9. \A b \in rolledBack' : b <= steps'
    BY <1>0, <2>1, <2>6
  <2> QED
    BY <2>1, <2>3, <2>4, <2>7, <2>8, <2>9 DEF GraphInv
<1>2. ASSUME NEW p \in Workers, AddNext(p) PROVE GraphInv'
  <2> DEFINE t == Head(txn[p].todo)
             new == [triple |-> t, from |-> 0, to |-> 0, batch |-> txn[p].batch]
             more == IF IsCurrent(t, rows \cup txn[p].rows) THEN txn[p].rows ELSE txn[p].rows \cup {new}
             rest == Tail(txn[p].todo)
             named == txn[p].ents \cup Ends[t]
             after == [txn[p] EXCEPT !.todo = rest, !.ents = named, !.rows = more]
  <2>1. /\ steps' = steps /\ rows' = rows /\ entities' = entities
        /\ rolledBack' = rolledBack /\ today' = today /\ Open(p)
        /\ txn[p].todo # <<>> /\ txn' = [txn EXCEPT ![p] = after]
    <3>1. /\ txn[p].at = "open" /\ txn[p].todo # <<>>
          /\ UNCHANGED <<rows, entities, rolledBack, today, steps>>
          /\ txn' = [txn EXCEPT ![p].todo = Tail(@), ![p].ents = @ \cup Ends[t],
                       ![p].rows = IF IsCurrent(t, rows \cup @) THEN @ ELSE @ \cup {new}]
      BY <1>2 DEF AddNext
    <3> HIDE DEF t, new
    <3> QED
      BY <1>0, <3>1 DEF Open
  <2>2. /\ t \in Triples /\ rest \in Seq(Triples)
        /\ txn[p].batch \in Nat /\ txn[p].rows \subseteq Row /\ txn[p].ents \subseteq Entity
    BY <1>0, <2>1 DEF Txn
  <2>3. named \subseteq Entity
    BY <2>2 DEF Entity
  <2>4. new \in Row /\ more \subseteq Row
    BY <2>2 DEF Row
  <2> HIDE DEF rest, named, more, new, t
  <2>5. after \in Txn /\ after.rows = more /\ after.ents = named /\ after.batch = txn[p].batch
    BY <1>0, <2>2, <2>3, <2>4 DEF Txn
  <2>6. GraphTypes' /\ txn'[p] = after /\ \A q \in Workers \ {p} : txn'[q] = txn[q]
    BY <1>0, <2>1, <2>5 DEF GraphTypes
  <2> HIDE DEF after
  <2>7. Single(rows \cup more)
    <3>1. Single(rows \cup txn[p].rows)
      BY <2>1 DEF GraphInv, Committable
    <3>2. CASE IsCurrent(t, rows \cup txn[p].rows)
      BY <3>1, <3>2 DEF more
    <3>3. CASE ~IsCurrent(t, rows \cup txn[p].rows)
      BY <3>1, <3>3 DEF IsCurrent, Single, more, new
    <3> QED
      BY <3>2, <3>3
  <2>8. \A r \in more : /\ r.batch = txn[p].batch
                        /\ Ends[r.triple] \subseteq entities \cup named
    <3> SUFFICES ASSUME NEW r \in more
                 PROVE  /\ r.batch = txn[p].batch
                        /\ Ends[r.triple] \subseteq entities \cup named
      OBVIOUS
    <3>1. CASE r \in txn[p].rows
      BY <2>1, <3>1 DEF GraphInv, Committable, named
    <3>2. CASE r = new
      BY <3>2 DEF new, named
    <3> QED
      BY <3>1, <3>2 DEF more
  <2>9. Committable(p)'
    <3>1. Committable(p)
      BY <2>1 DEF GraphInv
    <3>2. Single((rows \cup txn[p].rows)')
      BY <2>1, <2>5, <2>6, <2>7
    <3> QED
      BY <2>1, <2>5, <2>6, <2>8, <3>1, <3>2 DEF Committable
  <2>10. \A q \in Workers : Open(q)' => q = p
    BY <2>1, <2>6 DEF Open, GraphInv
  <2>11. \A r \in rows' : Written(r)'
    BY <2>1 DEF GraphInv, Written
  <2> QED
    BY <2>1, <2>6, <2>9, <2>10, <2>11 DEF GraphInv
<1>3. ASSUME NEW p \in Workers, Commit(p) PROVE GraphInv'
  <2>1. /\ txn' = [txn EXCEPT ![p] = NoTxn] /\ steps' = steps /\ rows' = rows \cup txn[p].rows
        /\ entities' = entities \cup txn[p].ents /\ rolledBack' = rolledBack /\ today' = today
        /\ Open(p)
    BY <1>3 DEF Commit, Open
  <2>2. NoTxn \in Txn
    BY DEF NoTxn, Txn
  <2>3. txn[p].rows \subseteq Row /\ txn[p].ents \subseteq Entity
    BY <1>0 DEF Txn
  <2>4. GraphTypes'
    BY <1>0, <2>1, <2>2, <2>3 DEF GraphTypes
  <2>5. \A q \in Workers : ~Open(q)'
    BY <1>0, <2>1, OthersIdle DEF Open, NoTxn
  <2>6. Committable(p)
    BY <2>1 DEF GraphInv
  <2>7. \A r \in rows' : Written(r)'
    BY <2>1, <2>6 DEF GraphInv, Written, Committable
  <2> QED
    BY <2>1, <2>4, <2>5, <2>6, <2>7 DEF GraphInv, Committable
<1>4. ASSUME NEW p \in Workers, Rollback(p) PROVE GraphInv'
  <2>1. /\ txn' = [txn EXCEPT ![p] = NoTxn] /\ steps' = steps /\ rows' = rows
        /\ entities' = entities /\ rolledBack' = rolledBack \cup {txn[p].batch} /\ today' = today
        /\ Open(p)
    BY <1>4 DEF Rollback, Open
  <2>2. NoTxn \in Txn /\ txn[p].batch \in Nat
    BY <1>0 DEF NoTxn, Txn
  <2>3. GraphTypes'
    BY <1>0, <2>1, <2>2 DEF GraphTypes
  <2>4. \A q \in Workers : ~Open(q)'
    BY <1>0, <2>1, OthersIdle DEF Open, NoTxn
  <2>5. Committable(p)
    BY <2>1 DEF GraphInv
  <2>6. \A r \in rows' : Written(r)'
    BY <2>1, <2>5 DEF GraphInv, Written, Committable
  <2> QED
    BY <2>1, <2>3, <2>4, <2>5, <2>6 DEF GraphInv, Committable
<1>5. ASSUME NEW p \in Workers, NEW t \in Triples, Invalidate(p, t) PROVE GraphInv'
  <2>1. /\ rows' = {Ended(r, t) : r \in rows} /\ steps' = steps + 1
        /\ txn' = txn /\ entities' = entities /\ rolledBack' = rolledBack /\ today' = today
        /\ \A q \in Workers : ~Open(q)
    BY <1>5 DEF Invalidate, Step, Writer, Open
  <2>2. \A r \in rows : /\ Ended(r, t) \in Row /\ Ended(r, t).batch = r.batch
                        /\ Ended(r, t).triple = r.triple
                        /\ Ended(r, t).to = 0 => Ended(r, t) = r
    BY <1>0 DEF Ended, Row
  <2>3. GraphTypes'
    BY <1>0, <2>1, <2>2 DEF GraphTypes
  <2>4. \A r \in rows : r.batch \in Nat /\ r.batch <= steps
    BY <1>0 DEF GraphInv, Written, Row
  <2>5. \A r \in rows' : Written(r)'
    BY <1>0, <2>1, <2>2, <2>4 DEF GraphInv, Written
  <2>6. Single(rows')
    BY <2>1, <2>2 DEF GraphInv, Single
  <2>7. \A b \in rolledBack' : b <= steps'
    BY <1>0, <2>1 DEF GraphInv
  <2> QED
    BY <2>1, <2>3, <2>5, <2>6, <2>7 DEF GraphInv, Open
<1>6. ASSUME NEW p \in Workers, NEW c \in Contents, LookUp(p, c) \/ DeleteFact(p, c) PROVE GraphInv'
  BY <1>6, GraphLeft DEF LookUp, DeleteFact, Step
<1>7. ASSUME NEW p \in Workers,
             StoreFact(p) \/ SyncVectors(p) \/ CountExps(p) \/ StoreExp(p) \/ Inject(p) \/ Search(p)
      PROVE  GraphInv'
  BY <1>7, GraphLeft DEF StoreFact, SyncVectors, CountExps, StoreExp, Inject, Search, Step
<1>8. CASE NextDay
  <2>1. UNCHANGED <<kbGraph, steps>> /\ today' = today + 1
    BY <1>8 DEF NextDay
  <2>2. GraphTypes'
    BY <1>0, <2>1 DEF GraphTypes, kbGraph
  <2> QED
    BY <2>1, <2>2 DEF GraphInv, Open, Committable, Written, kbGraph
<1>9. CASE UNCHANGED kbVars
  BY <1>9, GraphLeft DEF kbVars
<1>10. \A t, u \in Triples : <<t>> \in Seq(Triples) /\ <<t, u>> \in Seq(Triples)
  OBVIOUS
<1>11. ASSUME NEW p \in Workers, NEW t \in Triples, NEW u \in Triples, WriteTriples(p, t, u) \/ Migrate(p, t)
       PROVE  GraphInv'
  BY <1>1, <1>10, <1>11 DEF WriteTriples, Migrate
<1> QED
  BY <1>2, <1>3, <1>4, <1>5, <1>6, <1>7, <1>8, <1>9, <1>11 DEF KbNext

\* The facts a process is about to insert, and the processes that found room
\* for an experience: each of them may add a row.
Adding(c) == {p \in Workers : found[p] = <<c, 0>>}
Below == {p \in Workers : tally[p] \in 0 .. MaxExp - 1}

FactInv ==
  /\ factRows \in [Contents -> Nat] /\ found \in [Workers -> {<<>>} \cup (Contents \X Nat)]
  /\ \A c \in Contents : factRows[c] + Cardinality(Adding(c)) <= Cardinality(Workers)

ExpInv ==
  /\ exps \in Nat /\ tally \in [Workers -> Nat \cup {None}]
  /\ exps + Cardinality(Below) <= MaxExp + Cardinality(Workers) - 1

\* Sets of processes are finite, and no larger than the set of all of them.
LEMMA SomeWorkers ==
  ASSUME NEW S \in SUBSET Workers
  PROVE  IsFiniteSet(S) /\ Cardinality(S) \in Nat /\ Cardinality(S) <= Cardinality(Workers)
         /\ Cardinality(Workers) \in Nat
  BY KnowledgeAssumption, FS_Subset, FS_CardinalityType

LEMMA FactStep == FactInv /\ [KbNext]_kbVars => FactInv'
<1> SUFFICES ASSUME FactInv, [KbNext]_kbVars PROVE FactInv'
  OBVIOUS
<1>0. /\ factRows \in [Contents -> Nat] /\ found \in [Workers -> {<<>>} \cup (Contents \X Nat)]
      /\ \A d, e, b : <<d, b>> # <<>> /\ (<<e, b>> = <<d, 0>> => e = d /\ b = 0)
  BY DEF FactInv
<1>1. \A d \in Contents : /\ Cardinality(Adding(d)) \in Nat /\ IsFiniteSet(Adding(d))
                          /\ Cardinality(Adding(d)') \in Nat /\ Cardinality(Adding(d)') <= Cardinality(Workers)
                          /\ Cardinality(Workers) \in Nat
  BY SomeWorkers DEF Adding
\* Nobody joins those who are adding, and the rows do not grow.
<1>2. ASSUME found' \in [Workers -> {<<>>} \cup (Contents \X Nat)], factRows' \in [Contents -> Nat],
             NEW d \in Contents, factRows'[d] <= factRows[d], Adding(d)' \subseteq Adding(d)
      PROVE  factRows'[d] + Cardinality(Adding(d)') <= Cardinality(Workers)
  <2>1. Cardinality(Adding(d)') <= Cardinality(Adding(d))
    BY <1>1, <1>2, FS_Subset
  <2>2. factRows[d] + Cardinality(Adding(d)) <= Cardinality(Workers)
    BY DEF FactInv
  <2>3. factRows[d] \in Nat /\ factRows'[d] \in Nat
    BY <1>0, <1>2
  <2> HIDE DEF FactInv
  <2> QED
    BY <1>1, <1>2, <2>1, <2>2, <2>3
<1>3. ASSUME NEW p \in Workers, NEW c \in Contents, LookUp(p, c) PROVE FactInv'
  <2>1. /\ found[p] = <<>> /\ found' = [found EXCEPT ![p] = <<c, factRows[c]>>]
        /\ factRows' = factRows
    BY <1>3 DEF LookUp, Idle
  <2>2. /\ found' \in [Workers -> {<<>>} \cup (Contents \X Nat)]
        /\ found'[p] = <<c, factRows[c]>> /\ \A q \in Workers \ {p} : found'[q] = found[q]
    <3>1. <<c, factRows[c]>> \in Contents \X Nat
      BY <1>0
    <3> QED
      BY <1>0, <2>1, <3>1
  <2>3. ASSUME NEW d \in Contents PROVE factRows'[d] + Cardinality(Adding(d)') <= Cardinality(Workers)
    <3>1. CASE d = c /\ factRows[c] = 0
      BY <1>1, <2>1, <3>1
    <3>2. CASE ~(d = c /\ factRows[c] = 0)
      <4>1. found'[p] # <<d, 0>>
        BY <1>0, <2>2, <3>2
      <4>2. Adding(d)' \subseteq Adding(d)
        BY <2>2, <4>1 DEF Adding
      <4>3. factRows'[d] <= factRows[d]
        BY <1>0, <2>1
      <4> QED
        BY <1>0, <1>2, <2>1, <2>2, <4>2, <4>3
    <3> QED
      BY <3>1, <3>2
  <2> QED
    BY <1>0, <2>1, <2>2, <2>3 DEF FactInv
<1>4. ASSUME NEW p \in Workers, StoreFact(p) PROVE FactInv'
  <2>1. PICK c \in Contents, old \in Nat : found[p] = <<c, old>>
    BY <1>0, <1>4 DEF StoreFact
  <2>2. /\ factRows' = IF old > 0 THEN factRows ELSE [factRows EXCEPT ![c] = factRows[c] + 1]
        /\ found' = [found EXCEPT ![p] = <<>>]
    BY <1>4, <2>1 DEF StoreFact
  <2>3. /\ found' \in [Workers -> {<<>>} \cup (Contents \X Nat)] /\ factRows' \in [Contents -> Nat]
        /\ found'[p] = <<>> /\ \A q \in Workers \ {p} : found'[q] = found[q]
    BY <1>0, <2>2
  <2>4. \A d \in Contents : Adding(d)' \subseteq Adding(d) \ {p}
    BY <1>0, <2>3 DEF Adding
  <2>5. ASSUME NEW d \in Contents PROVE factRows'[d] + Cardinality(Adding(d)') <= Cardinality(Workers)
    <3>1. CASE d = c /\ old = 0
      <4>1. p \in Adding(d) /\ factRows'[d] = factRows[d] + 1
        BY <1>0, <2>1, <2>2, <3>1 DEF Adding
      <4>2. IsFiniteSet(Adding(d) \ {p}) /\ Cardinality(Adding(d) \ {p}) = Cardinality(Adding(d)) - 1
        BY <1>1, <4>1, FS_RemoveElement
      <4>3. Cardinality(Adding(d)') <= Cardinality(Adding(d)) - 1
        BY <2>4, <4>2, FS_Subset
      <4>4. factRows[d] + Cardinality(Adding(d)) <= Cardinality(Workers) /\ factRows[d] \in Nat
        BY <1>0 DEF FactInv
      <4> QED
        BY <1>1, <4>1, <4>3, <4>4
    <3>2. CASE ~(d = c /\ old = 0)
      <4>1. factRows'[d] <= factRows[d]
        BY <1>0, <2>2, <3>2
      <4> QED
        BY <1>2, <2>3, <2>4, <4>1
    <3> QED
      BY <3>1, <3>2
  <2> QED
    BY <2>3, <2>5 DEF FactInv
<1>5. ASSUME NEW p \in Workers, NEW c \in Contents, DeleteFact(p, c) PROVE FactInv'
  <2>1. /\ factRows' = [factRows EXCEPT ![c] = factRows[c] - 1] /\ factRows[c] > 0 /\ found' = found
    BY <1>5 DEF DeleteFact
  <2>2. factRows' \in [Contents -> Nat] /\ \A d \in Contents : factRows'[d] <= factRows[d]
    BY <1>0, <2>1
  <2>3. \A d \in Contents : Adding(d)' \subseteq Adding(d)
    BY <2>1 DEF Adding
  <2>4. ASSUME NEW d \in Contents PROVE factRows'[d] + Cardinality(Adding(d)') <= Cardinality(Workers)
    BY <1>0, <1>2, <2>1, <2>2, <2>3
  <2> QED
    BY <1>0, <2>1, <2>2, <2>4 DEF FactInv
<1>6. CASE UNCHANGED <<factRows, found>>
  BY <1>6 DEF FactInv, Adding
<1>7. ASSUME NEW p \in Workers, NEW todo, Begin(p, todo) PROVE FactInv'
  BY <1>6, <1>7 DEF Begin, kbFacts
<1>8. ASSUME NEW p \in Workers, NEW t \in Triples, Invalidate(p, t) PROVE FactInv'
  BY <1>6, <1>8 DEF Invalidate, kbFacts
<1>9. ASSUME NEW p \in Workers,
             AddNext(p) \/ Commit(p) \/ Rollback(p) \/ SyncVectors(p) \/ CountExps(p) \/ StoreExp(p)
               \/ Inject(p) \/ Search(p)
      PROVE  FactInv'
  BY <1>6, <1>9 DEF AddNext, Commit, Rollback, SyncVectors, CountExps, StoreExp, Inject, Search, kbFacts
<1>10. CASE NextDay \/ UNCHANGED kbVars
  BY <1>6, <1>10 DEF NextDay, kbVars, kbFacts
<1> QED
  BY <1>3, <1>4, <1>5, <1>7, <1>8, <1>9, <1>10 DEF KbNext, WriteTriples, Migrate

LEMMA ExpStep == ExpInv /\ [KbNext]_kbVars => ExpInv'
<1> SUFFICES ASSUME ExpInv, [KbNext]_kbVars PROVE ExpInv'
  OBVIOUS
<1>0. /\ exps \in Nat /\ tally \in [Workers -> Nat \cup {None}] /\ MaxExp \in Nat \ {0}
      /\ exps + Cardinality(Below) <= MaxExp + Cardinality(Workers) - 1
  BY KnowledgeAssumption DEF ExpInv
<1>1. /\ Cardinality(Below) \in Nat /\ IsFiniteSet(Below) /\ Cardinality(Workers) \in Nat
      /\ Cardinality(Below') \in Nat /\ Cardinality(Below') <= Cardinality(Workers)
  BY SomeWorkers DEF Below
<1>2. ASSUME NEW p \in Workers, CountExps(p) PROVE ExpInv'
  <2>1. tally' = [tally EXCEPT ![p] = exps] /\ exps' = exps
    BY <1>2 DEF CountExps
  <2>2. tally' \in [Workers -> Nat \cup {None}]
    BY <1>0, <2>1
  <2>3. CASE exps < MaxExp
    BY <1>0, <1>1, <2>1, <2>2, <2>3 DEF ExpInv
  <2>4. CASE exps >= MaxExp
    <3>1. Below' \subseteq Below
      BY <1>0, <2>1, <2>4 DEF Below
    <3>2. Cardinality(Below') <= Cardinality(Below)
      BY <1>1, <3>1, FS_Subset
    <3> QED
      BY <1>0, <1>1, <2>1, <2>2, <3>2 DEF ExpInv
  <2> QED
    BY <1>0, <2>3, <2>4
<1>3. ASSUME NEW p \in Workers, StoreExp(p) PROVE ExpInv'
  <2>1. /\ tally[p] \in Nat /\ exps' = Kept(tally[p]) + 1 /\ tally' = [tally EXCEPT ![p] = None]
    BY <1>0, <1>3 DEF StoreExp
  <2>2. tally' \in [Workers -> Nat \cup {None}] /\ Below' \subseteq Below \ {p}
    BY <1>0, <2>1 DEF Below, None
  <2>3. CASE tally[p] < MaxExp
    <3>1. p \in Below /\ exps' = exps + 1
      BY <1>0, <2>1, <2>3 DEF Below, Kept
    <3>2. IsFiniteSet(Below \ {p}) /\ Cardinality(Below \ {p}) = Cardinality(Below) - 1
      BY <1>1, <3>1, FS_RemoveElement
    <3>3. Cardinality(Below') <= Cardinality(Below) - 1
      BY <2>2, <3>2, FS_Subset
    <3> QED
      BY <1>0, <1>1, <2>2, <3>1, <3>3 DEF ExpInv
  <2>4. CASE tally[p] >= MaxExp
    <3>1. exps' \in Nat /\ exps' <= (IF exps = 0 THEN 1 ELSE exps)
      BY <1>0, <2>1, <2>4 DEF Kept
    <3>2. Cardinality(Below') <= Cardinality(Below)
      BY <1>1, <2>2, FS_Subset
    \* p itself is not below the cap
    <3>3. Cardinality(Below') <= Cardinality(Workers) - 1
      <4>1. IsFiniteSet(Workers \ {p}) /\ Cardinality(Workers \ {p}) = Cardinality(Workers) - 1
        BY KnowledgeAssumption, FS_RemoveElement
      <4>2. Below' \subseteq Workers \ {p}
        BY <2>2 DEF Below
      <4> QED
        BY <4>1, <4>2, FS_Subset
    <3> QED
      BY <1>0, <1>1, <2>2, <3>1, <3>2, <3>3 DEF ExpInv
  <2> QED
    BY <1>0, <2>1, <2>3, <2>4
<1>4. CASE UNCHANGED kbExps
  BY <1>4 DEF ExpInv, Below, kbExps
<1>5. ASSUME NEW p \in Workers, NEW todo, Begin(p, todo) PROVE ExpInv'
  BY <1>4, <1>5 DEF Begin
<1>6. ASSUME NEW p \in Workers, NEW t \in Triples, Invalidate(p, t) PROVE ExpInv'
  BY <1>4, <1>6 DEF Invalidate
<1>7. ASSUME NEW p \in Workers, NEW c \in Contents, LookUp(p, c) \/ DeleteFact(p, c) PROVE ExpInv'
  BY <1>4, <1>7 DEF LookUp, DeleteFact
<1>8. ASSUME NEW p \in Workers,
             AddNext(p) \/ Commit(p) \/ Rollback(p) \/ StoreFact(p) \/ SyncVectors(p) \/ Inject(p) \/ Search(p)
      PROVE  ExpInv'
  BY <1>4, <1>8 DEF AddNext, Commit, Rollback, StoreFact, SyncVectors, Inject, Search
<1>9. CASE NextDay \/ UNCHANGED kbVars
  BY <1>4, <1>9 DEF NextDay, kbVars
<1> QED
  BY <1>2, <1>3, <1>5, <1>6, <1>7, <1>8, <1>9 DEF KbNext, WriteTriples, Migrate

LEMMA KbStart == KbInit => GraphInv /\ FactInv /\ ExpInv
<1> SUFFICES ASSUME KbInit PROVE GraphInv /\ FactInv /\ ExpInv
  OBVIOUS
<1>0. KbInit /\ GraphInit /\ StoreInit
  BY DEF KbInit
<1> USE DEF KbInit, GraphInit, StoreInit
<1>1. GraphInv
  <2>1. <<>> \in Seq(Triples)
    OBVIOUS
  <2>2. NoTxn \in Txn
    BY <2>1 DEF NoTxn, Txn
  <2>3. \A p \in Workers : ~Open(p)
    BY DEF Open, NoTxn
  <2>4. GraphTypes
    BY <2>2 DEF GraphTypes
  <2> QED
    BY <2>3, <2>4 DEF GraphInv, Single
<1>2. \A c \in Contents : Adding(c) = {}
  BY DEF Adding
<1>3. Below = {}
  BY DEF Below, None
<1>4. Cardinality(Workers) \in Nat /\ Cardinality({}) = 0
  BY KnowledgeAssumption, FS_CardinalityType, FS_EmptySet
<1>5. FactInv
  <2>1. factRows = [c \in Contents |-> 0] /\ found = [p \in Workers |-> <<>>]
    OBVIOUS
  <2>2. factRows \in [Contents -> Nat] /\ found \in [Workers -> {<<>>} \cup (Contents \X Nat)]
    BY <2>1
  <2>3. ASSUME NEW c \in Contents PROVE factRows[c] + Cardinality(Adding(c)) <= Cardinality(Workers)
    <3>1. factRows[c] = 0 /\ Cardinality(Adding(c)) = 0
      BY <1>2, <1>4, <2>1
    <3> QED
      BY <1>4, <3>1
  <2> QED
    BY <2>2, <2>3 DEF FactInv
<1>6. ExpInv
  BY <1>3, <1>4, KnowledgeAssumption DEF ExpInv
<1> QED
  BY <1>1, <1>5, <1>6

\* Every row is seen, and what is current is so once; no failed batch left a
\* row; and the rows that are too many are at most one for each other process.
LEMMA KbPromise == GraphInv /\ FactInv /\ ExpInv => KnowledgeIsSound
<1> SUFFICES ASSUME GraphInv, FactInv, ExpInv PROVE KnowledgeIsSound
  OBVIOUS
<1>1. OneCurrent
  BY DEF GraphInv, OneCurrent, Single, Seen, Written
<1>2. BatchIsAtomic
  BY DEF GraphInv, BatchIsAtomic, Written
<1>3. OvershootIsBounded
  <2>1. Cardinality(Below) \in Nat /\ Cardinality(Workers) \in Nat
    BY SomeWorkers DEF Below
  <2>2. exps <= MaxExp + Cardinality(Workers) - 1
    BY <2>1, KnowledgeAssumption DEF ExpInv
  <2>3. \A c \in Contents : factRows[c] <= Cardinality(Workers)
    <3> TAKE c \in Contents
    <3>1. Cardinality(Adding(c)) \in Nat
      BY SomeWorkers DEF Adding
    <3> QED
      BY <2>1, <3>1 DEF FactInv
  <2> QED
    BY <2>2, <2>3 DEF OvershootIsBounded
<1> QED
  BY <1>1, <1>2, <1>3 DEF KnowledgeIsSound

\* For any number of processes, triples and facts the SQLite memory is sound:
\* one current row for a triple, batches whole, the caps passed by less than
\* the number of processes.
THEOREM KnowledgeHolds == KbSpec => []KnowledgeIsSound
<1>1. KbInit => GraphInv /\ FactInv /\ ExpInv
  BY KbStart
<1>2. (GraphInv /\ FactInv /\ ExpInv) /\ [KbNext]_kbVars => (GraphInv /\ FactInv /\ ExpInv)'
  BY GraphStep, FactStep, ExpStep
<1> QED
  BY <1>1, <1>2, KbPromise, PTL DEF KbSpec

-----------------------------------------------------------------------------
(* MemorySession.                                                           *)

Files   == [facts : SUBSET Facts, ver : Nat]
Tasks   == [at : {"none", "llm", "loaded", "vec", "done"}, prompt : SUBSET Facts,
            found : SUBSET Facts, copy : SUBSET Facts, base : Nat]
Entries == [held : BOOLEAN, ver : Nat, facts : SUBSET Facts]
InCalls == [at : {"idle", "read", "loaded"}, op : {"none", "store", "delete", "get"},
            fact : SUBSET Facts, raw : SUBSET Facts, base : Nat]

MemTypes ==
  /\ file \in Files /\ task \in Tasks /\ entry \in Entries /\ call \in InCalls
  /\ said \subseteq Facts /\ episodic \subseteq Facts
  /\ task.base <= file.ver /\ call.base <= file.ver /\ entry.ver <= file.ver

\* What a writer has read is the file's as long as its mtime is; the server's
\* entry, which a failed write may have changed, misses at most what is
\* explained.
Reads ==
  /\ task.at = "loaded" /\ task.base = file.ver => task.copy = file.facts
  /\ call.at = "read" /\ call.base = file.ver => call.raw = file.facts
  /\ call.at = "loaded" => entry.held
  /\ call.at = "loaded" /\ call.base = file.ver /\ ~overlap => entry.ver = file.ver
  /\ entry.held /\ entry.ver = file.ver /\ ~overlap
       => \A f \in file.facts : f \in entry.facts \/ f \in explained

Lossless == ~overlap => \A f \in kept : f \in file.facts \/ f \in explained

MemInv == MemTypes /\ Reads /\ Lossless /\ DrainedAtClose

\* The steps that leave the file alone.
LEMMA QuietStep ==
  ASSUME MemInv, \/ \E f \in Facts : FinalAnswer({f})
                 \/ Debounced \/ ExtractionFails \/ AfterUpsert \/ CompoundEnds
                 \/ \E new \in SUBSET task.prompt : Extracted(new)
                 \/ EndRun \/ Drained \/ DrainTimeout
                 \/ \E o \in ServerOps, f \in Facts : ServerLoad(o, {f})
                 \/ ServerStamp \/ ServerReturns
  PROVE  MemInv'
<1> USE DEF MemInv, memFiles, memServer, memSession
<1>1. ASSUME NEW f \in Facts, FinalAnswer({f}) PROVE MemInv'
  <2>1. MemTypes'
    <3>1. said' \in SUBSET Facts
      BY <1>1 DEF MemTypes, FinalAnswer
    <3>2. task' \in Tasks /\ task'.base \in {0, task.base}
      <4>1. \/ task' = task
            \/ task' = [at |-> "llm", prompt |-> said', found |-> {}, copy |-> {}, base |-> 0]
        BY <1>1 DEF FinalAnswer, NoTask
      <4> QED
        BY <3>1, <4>1 DEF MemTypes, NoTask, Tasks
    <3> QED
      BY <1>1, <3>1, <3>2 DEF MemTypes, FinalAnswer, Files
  <2>2. Reads'
    BY <1>1 DEF MemTypes, Files, Tasks, Entries, InCalls, Reads, FinalAnswer, NoTask, LoopFree
  <2>3. Lossless'
    BY <1>1 DEF Lossless, FinalAnswer, NoTask, LoopFree
  <2>4. DrainedAtClose'
    BY <1>1 DEF DrainedAtClose, Pending, FinalAnswer, NoTask, LoopFree
  <2> QED
    BY <2>1, <2>2, <2>3, <2>4
<1>2. CASE Debounced
  <2>1. MemTypes'
    BY <1>2 DEF MemTypes, Files, Tasks, Entries, InCalls, Debounced
  <2>2. Reads'
    BY <1>2 DEF MemTypes, Files, Tasks, Entries, InCalls, Reads, Debounced
  <2>3. Lossless'
    BY <1>2 DEF Lossless, Debounced
  <2>4. DrainedAtClose'
    BY <1>2 DEF DrainedAtClose, Pending, Debounced
  <2> QED
    BY <2>1, <2>2, <2>3, <2>4
<1>3. CASE ExtractionFails
  <2>1. MemTypes'
    BY <1>3 DEF MemTypes, Files, Tasks, Entries, InCalls, ExtractionFails, NoTask
  <2>2. Reads'
    BY <1>3 DEF MemTypes, Files, Tasks, Entries, InCalls, Reads, ExtractionFails, NoTask
  <2>3. Lossless'
    BY <1>3 DEF Lossless, ExtractionFails, NoTask
  <2>4. DrainedAtClose'
    BY <1>3 DEF DrainedAtClose, Pending, ExtractionFails, NoTask
  <2> QED
    BY <2>1, <2>2, <2>3, <2>4
<1>4. CASE AfterUpsert
  <2>1. MemTypes'
    BY <1>4 DEF MemTypes, Files, Tasks, Entries, InCalls, AfterUpsert, NoTask, EpisodicWith
  <2>2. Reads'
    BY <1>4 DEF MemTypes, Files, Tasks, Entries, InCalls, Reads, AfterUpsert, NoTask, EpisodicWith
  <2>3. Lossless'
    BY <1>4 DEF Lossless, AfterUpsert, NoTask, EpisodicWith
  <2>4. DrainedAtClose'
    BY <1>4 DEF DrainedAtClose, Pending, AfterUpsert, NoTask, EpisodicWith
  <2> QED
    BY <2>1, <2>2, <2>3, <2>4
<1>5. CASE CompoundEnds
  <2>1. MemTypes'
    BY <1>5 DEF MemTypes, Files, Tasks, Entries, InCalls, CompoundEnds
  <2>2. Reads'
    BY <1>5 DEF MemTypes, Files, Tasks, Entries, InCalls, Reads, CompoundEnds
  <2>3. Lossless'
    BY <1>5 DEF Lossless, CompoundEnds
  <2>4. DrainedAtClose'
    BY <1>5 DEF DrainedAtClose, Pending, CompoundEnds
  <2> QED
    BY <2>1, <2>2, <2>3, <2>4
<1>6. ASSUME NEW new \in SUBSET task.prompt, Extracted(new) PROVE MemInv'
  <2>1. MemTypes'
    <3>1. file.facts \subseteq Facts /\ file.ver \in Nat /\ new \subseteq Facts
      BY DEF MemTypes, Files, Tasks
    <3>2. task' \in Tasks /\ task'.base = file.ver
      <4>1. task' = [task EXCEPT !.at = "loaded", !.prompt = {}, !.found = new,
                                 !.copy = file.facts, !.base = file.ver]
        BY <1>6 DEF Extracted, Loaded
      <4> QED
        BY <3>1, <4>1 DEF MemTypes, Tasks
    <3>3. UNCHANGED <<file, entry, call, said, episodic>>
      BY <1>6 DEF Extracted
    <3> QED
      BY <3>1, <3>2, <3>3 DEF MemTypes
  <2>2. Reads'
    BY <1>6 DEF MemTypes, Files, Tasks, Entries, InCalls, Reads, Extracted, Loaded
  <2>3. Lossless'
    BY <1>6 DEF Lossless, Extracted, Loaded
  <2>4. DrainedAtClose'
    BY <1>6 DEF DrainedAtClose, Pending, Extracted, Loaded
  <2> QED
    BY <2>1, <2>2, <2>3, <2>4
<1>7. CASE EndRun
  <2>1. MemTypes'
    BY <1>7 DEF MemTypes, Files, Tasks, Entries, InCalls, EndRun, LoopFree
  <2>2. Reads'
    BY <1>7 DEF MemTypes, Files, Tasks, Entries, InCalls, Reads, EndRun, LoopFree
  <2>3. Lossless'
    BY <1>7 DEF Lossless, EndRun, LoopFree
  <2>4. DrainedAtClose'
    BY <1>7 DEF DrainedAtClose, Pending, EndRun, LoopFree
  <2> QED
    BY <2>1, <2>2, <2>3, <2>4
<1>8. CASE Drained
  <2>1. MemTypes'
    BY <1>8 DEF MemTypes, Files, Tasks, Entries, InCalls, Drained
  <2>2. Reads'
    BY <1>8 DEF MemTypes, Files, Tasks, Entries, InCalls, Reads, Drained
  <2>3. Lossless'
    BY <1>8 DEF Lossless, Drained
  <2>4. DrainedAtClose'
    BY <1>8 DEF DrainedAtClose, Pending, Drained
  <2> QED
    BY <2>1, <2>2, <2>3, <2>4
<1>9. CASE DrainTimeout
  <2>1. MemTypes'
    BY <1>9 DEF MemTypes, Files, Tasks, Entries, InCalls, DrainTimeout, LoopFree
  <2>2. Reads'
    BY <1>9 DEF MemTypes, Files, Tasks, Entries, InCalls, Reads, DrainTimeout, LoopFree
  <2>3. Lossless'
    BY <1>9 DEF Lossless, DrainTimeout, LoopFree
  <2>4. DrainedAtClose'
    BY <1>9 DEF DrainedAtClose, Pending, DrainTimeout, LoopFree
  <2> QED
    BY <2>1, <2>2, <2>3, <2>4
<1>10. ASSUME NEW o \in ServerOps, NEW f \in Facts, ServerLoad(o, {f}) PROVE MemInv'
  <2>1. MemTypes'
    BY <1>10 DEF MemTypes, Files, Tasks, Entries, InCalls, ServerLoad, FreshEntry, ServerOps
  <2>2. Reads'
    BY <1>10 DEF MemTypes, Files, Tasks, Entries, InCalls, Reads, ServerLoad, FreshEntry, ServerOps
  <2>3. Lossless'
    BY <1>10 DEF Lossless, ServerLoad, FreshEntry, ServerOps
  <2>4. DrainedAtClose'
    BY <1>10 DEF DrainedAtClose, Pending, ServerLoad, FreshEntry, ServerOps
  <2> QED
    BY <2>1, <2>2, <2>3, <2>4
<1>11. CASE ServerStamp
  <2>1. MemTypes'
    <3>1. file.ver \in Nat /\ call.raw \subseteq Facts
      BY DEF MemTypes, Files, InCalls
    <3>2. entry' \in Entries /\ entry'.ver = file.ver
      BY <1>11, <3>1 DEF ServerStamp, Entries
    <3>3. call' \in InCalls /\ call'.base = call.base
      BY <1>11 DEF ServerStamp, MemTypes, InCalls
    <3> QED
      BY <1>11, <3>1, <3>2, <3>3 DEF MemTypes, ServerStamp
  <2>2. Reads'
    BY <1>11 DEF MemTypes, Files, Tasks, Entries, InCalls, Reads, ServerStamp
  <2>3. Lossless'
    BY <1>11 DEF Lossless, ServerStamp
  <2>4. DrainedAtClose'
    BY <1>11 DEF DrainedAtClose, Pending, ServerStamp
  <2> QED
    BY <2>1, <2>2, <2>3, <2>4
<1>12. CASE ServerReturns
  <2>1. MemTypes'
    BY <1>12 DEF MemTypes, Files, Tasks, Entries, InCalls, ServerReturns, NoCall
  <2>2. Reads'
    BY <1>12 DEF MemTypes, Files, Tasks, Entries, InCalls, Reads, ServerReturns, NoCall
  <2>3. Lossless'
    BY <1>12 DEF Lossless, ServerReturns, NoCall
  <2>4. DrainedAtClose'
    BY <1>12 DEF DrainedAtClose, Pending, ServerReturns, NoCall
  <2> QED
    BY <2>1, <2>2, <2>3, <2>4
<1> QED
  BY <1>1, <1>2, <1>3, <1>4, <1>5, <1>6, <1>7, <1>8, <1>9, <1>10, <1>11, <1>12

\* The steps that replace the file: what their writer had read and does not write
\* gave way to the cap, or was deleted.
LEMMA SaveStep == MemInv /\ SaveMerged => MemInv'
<1> SUFFICES ASSUME MemInv, SaveMerged PROVE MemInv'
  OBVIOUS
<1> USE DEF MemInv, memFiles, memServer
<1>1. PICK merged \in Capped(task.copy \cup task.found) :
        \/ /\ Replace(merged, task.base)
           /\ explained' = explained \cup ((task.copy \cup task.found) \ merged)
        \/ UNCHANGED memFiles
  BY DEF SaveMerged
<1>2. merged \subseteq task.copy \cup task.found
  BY DEF Capped
<1>3. DrainedAtClose'
  BY DEF SaveMerged, DrainedAtClose, Pending, MemTypes, Tasks
<1>4. CASE UNCHANGED memFiles
  <2>1. MemTypes'
    <3>1. task' \in Tasks /\ task'.base = 0
      BY DEF SaveMerged, MemTypes, Tasks
    <3> QED
      BY <1>4, <3>1 DEF SaveMerged, MemTypes, Files
  <2>2. Reads' /\ Lossless'
    BY <1>4 DEF SaveMerged, Reads, Lossless, MemTypes, Files, Tasks, Entries, InCalls
  <2> QED
    BY <1>3, <2>1, <2>2
<1>5. CASE /\ Replace(merged, task.base)
           /\ explained' = explained \cup ((task.copy \cup task.found) \ merged)
  <2>1. MemTypes'
    <3>1. task' \in Tasks /\ task'.base = 0
      BY DEF SaveMerged, MemTypes, Tasks
    <3>2. file' \in Files /\ file'.ver = file.ver + 1
      BY <1>2, <1>5 DEF Replace, MemTypes, Files, Tasks
    <3> QED
      BY <3>1, <3>2 DEF SaveMerged, MemTypes, Files, Entries, InCalls
  <2>2. Reads'
    BY <1>5 DEF SaveMerged, Replace, Reads, MemTypes, Files, Tasks, Entries, InCalls
  <2>3. Lossless'
    BY <1>5 DEF SaveMerged, Replace, Reads, Lossless, MemTypes, Files, Tasks, Entries, InCalls
  <2> QED
    BY <1>3, <2>1, <2>2, <2>3
<1> QED
  BY <1>1, <1>4, <1>5

LEMMA ServerStep == MemInv /\ (ServerWrites \/ ServerWriteFails) => MemInv'
<1> SUFFICES ASSUME MemInv, ServerWrites \/ ServerWriteFails PROVE MemInv'
  OBVIOUS
<1> USE DEF MemInv, memSession
<1>1. \A facts \in Changes(entry.facts) : facts \subseteq entry.facts \cup call.fact
  BY DEF Changes, Capped
<1>2. CASE ServerWrites
  <2>1. PICK facts \in Changes(entry.facts) :
          /\ Replace(facts, call.base)
          /\ explained' = explained \cup ((entry.facts \cup call.fact) \ facts)
    BY <1>2 DEF ServerWrites
  <2>2. MemTypes'
    BY <1>1, <1>2, <2>1 DEF ServerWrites, Replace, MemTypes, Files, Tasks, Entries, InCalls, NoCache, NoCall
  <2>3. Reads'
    BY <1>2, <2>1 DEF ServerWrites, Replace, Reads, MemTypes, Files, Tasks, Entries, InCalls, NoCache, NoCall
  <2>4. Lossless'
    BY <1>2, <2>1 DEF ServerWrites, Replace, Reads, Lossless, MemTypes, Files, Tasks, Entries, InCalls
  <2>5. DrainedAtClose'
    BY <1>2 DEF ServerWrites, DrainedAtClose, Pending
  <2> QED
    BY <2>2, <2>3, <2>4, <2>5
<1>3. CASE ServerWriteFails
  <2>1. PICK facts \in Changes(entry.facts) :
          /\ entry' = [entry EXCEPT !.facts = facts]
          /\ explained' = explained \cup ((entry.facts \cup call.fact) \ facts)
    BY <1>3 DEF ServerWriteFails
  <2>2. MemTypes'
    BY <1>1, <1>3, <2>1 DEF ServerWriteFails, MemTypes, Files, Tasks, Entries, InCalls, NoCall
  <2>3. Reads'
    BY <1>3, <2>1 DEF ServerWriteFails, Reads, MemTypes, Files, Tasks, Entries, InCalls, NoCall
  <2>4. Lossless'
    BY <1>3, <2>1 DEF ServerWriteFails, Lossless
  <2>5. DrainedAtClose'
    BY <1>3 DEF ServerWriteFails, DrainedAtClose, Pending
  <2> QED
    BY <2>2, <2>3, <2>4, <2>5
<1> QED
  BY <1>2, <1>3

\* A fact of memory.json is lost only by a deletion, the cap or an overlap of the
\* two writers, and a session that did not time out closes with no extraction in
\* flight: for any number of answers and calls.
THEOREM MemoryHolds == MemSpec => []NothingIsLost
<1>1. MemInit => MemInv
  BY DEF MemInit, MemInv, MemTypes, Files, Tasks, Entries, InCalls, Reads, Lossless, DrainedAtClose, Pending, NoTask, NoCall, NoCache
<1>2. MemInv /\ UNCHANGED memVars => MemInv'
  BY DEF MemInv, MemTypes, Reads, Lossless, DrainedAtClose, Pending, memVars, memFiles, memServer,
         memSession
<1>3. MemInv /\ [MemNext]_memVars => MemInv'
  BY <1>2, QuietStep, SaveStep, ServerStep DEF MemNext
<1>4. MemInv => NothingIsLost
  BY DEF MemInv, Lossless, NothingIsLost, LossIsExplained
<1> QED
  BY <1>1, <1>3, <1>4, PTL DEF MemSpec

-----------------------------------------------------------------------------
(* HookReload.                                                              *)

HookFilesTyped == onDisk \in [HookFiles -> [ver : Versions, time : Nat, parses : BOOLEAN]]
RegistryTyped  == reg \in [Sources -> [Hooks -> Nat]] /\ loaded \in [HookFiles -> Nat]
TurnTyped ==
  /\ turn \in [pc : {"idle", "build", "read", "model", "tool"}, n : Nat, call : Nat,
               left : SUBSET HookFiles, f : Sources, seen : Nat]
  /\ turn.pc = "read" => turn.f \in HookFiles

\* No time is recorded that a file does not have yet, and a file that is being
\* read has nothing registered.
TimesKnown ==
  /\ \A f \in HookFiles : loaded[f] <= onDisk[f].time
  /\ turn.pc = "read" => /\ turn.seen <= onDisk[turn.f].time /\ loaded[turn.f] < turn.seen
                         /\ reg[turn.f] = NoHooks

\* What has been looked at since the session began to look is up to date.
LookedAt ==
  /\ turn.pc = "tool" => turn.left = HookFiles
  /\ turn.pc = "build" => \A f \in HookFiles \ (touched \cup turn.left) : UpToDate(f)
  /\ turn.pc = "read" =>
       /\ \A f \in HookFiles \ (touched \cup turn.left \cup {turn.f}) : UpToDate(f)
       /\ turn.f \notin touched => turn.seen = onDisk[turn.f].time
  /\ RegistryIsFresh

HookInv == HookFilesTyped /\ RegistryTyped /\ TurnTyped /\ TimesKnown /\ RegistryIsWhole /\ LookedAt

\* How often a list has a hook is a number, whatever finite list it is.
LEMMA TimesTyped ==
  ASSUME NEW l, IsFiniteSet(DOMAIN l)
  PROVE  Times(l) \in [Hooks -> Nat]
<1>1. ASSUME NEW h \in Hooks PROVE Cardinality({i \in Leading(l) : l[i] = h}) \in Nat
  <2>1. {i \in Leading(l) : l[i] = h} \in SUBSET DOMAIN l
    BY DEF Leading
  <2> QED
    BY <2>1, FS_Subset, FS_CardinalityType
<1> QED
  BY <1>1 DEF Times

\* Of a text without a malformed entry all is registered.
LEMMA AllRegistered ==
  ASSUME NEW v \in Versions, NoneMalformed(HooksIn[v])
  PROVE  Times(HooksIn[v]) = Declares(v)
<1>1. Leading(HooksIn[v]) = DOMAIN HooksIn[v]
  BY DEF Leading, NoneMalformed
<1> QED
  BY <1>1 DEF Times, Declares

LEMMA NoHooksTyped == NoHooks \in [Hooks -> Nat]
  BY DEF NoHooks

\* Registering a list where nothing is registered leaves the list.
LEMMA RegisterFirst ==
  ASSUME NEW r \in [Sources -> [Hooks -> Nat]], NEW s \in Sources, NEW l, IsFiniteSet(DOMAIN l)
  PROVE  /\ RegisterAll(r, l, s) \in [Sources -> [Hooks -> Nat]]
         /\ \A o \in Sources \ {s} : RegisterAll(r, l, s)[o] = r[o]
         /\ r[s] = NoHooks => RegisterAll(r, l, s)[s] = Times(l)
<1>1. Times(l) \in [Hooks -> Nat]
  BY TimesTyped
<1> DEFINE sum == [h \in Hooks |-> r[s][h] + Times(l)[h]]
<1>2. sum \in [Hooks -> Nat]
  BY <1>1
<1>3. RegisterAll(r, l, s) = [r EXCEPT ![s] = sum]
  BY DEF RegisterAll
<1>4. r[s] = NoHooks => sum = Times(l)
  BY <1>1 DEF NoHooks
<1> HIDE DEF sum
<1> QED
  BY <1>2, <1>3, <1>4

\* What reading a file leaves.
LEMMA ReadMakes ==
  ASSUME HookInv, ReadHooks
  PROVE  /\ turn.pc = "read" /\ turn'.pc = "build" /\ turn'.left = turn.left /\ UNCHANGED <<onDisk, touched>>
         /\ turn'.f = turn.f
         /\ turn.f \in HookFiles /\ onDisk[turn.f].ver \in Versions /\ turn.seen \in Nat
         /\ reg' \in [Sources -> [Hooks -> Nat]] /\ loaded' \in [HookFiles -> Nat]
         /\ \A g \in HookFiles \ {turn.f} : reg'[g] = reg[g] /\ loaded'[g] = loaded[g]
         /\ reg'[turn.f] = IF onDisk[turn.f].parses THEN Times(HooksIn[onDisk[turn.f].ver]) ELSE NoHooks
         /\ loaded'[turn.f] = IF onDisk[turn.f].parses /\ NoneMalformed(HooksIn[onDisk[turn.f].ver])
                                THEN turn.seen ELSE loaded[turn.f]
<1> USE HookReloadAssumption DEF HookInv
<1>1. /\ turn.pc = "read" /\ turn'.pc = "build" /\ turn'.left = turn.left /\ UNCHANGED <<onDisk, touched>>
      /\ turn'.f = turn.f
  BY DEF ReadHooks, TurnTyped
<1>2. turn.f \in HookFiles /\ turn.f \in Sources /\ turn.seen \in Nat /\ reg[turn.f] = NoHooks
  BY DEF ReadHooks, TurnTyped, TimesKnown, Sources
<1>3. onDisk[turn.f].ver \in Versions
  BY <1>2 DEF HookFilesTyped
<1> DEFINE text == HooksIn[onDisk[turn.f].ver]
           r == RegisterAll(reg, text, turn.f)
<1>4. /\ r \in [Sources -> [Hooks -> Nat]] /\ r[turn.f] = Times(text)
      /\ \A o \in HookFiles \ {turn.f} : r[o] = reg[o]
  <2>1. IsFiniteSet(DOMAIN text) /\ reg \in [Sources -> [Hooks -> Nat]]
    BY <1>3 DEF RegistryTyped
  <2>2. /\ r \in [Sources -> [Hooks -> Nat]] /\ r[turn.f] = Times(text)
        /\ \A o \in Sources \ {turn.f} : r[o] = reg[o]
    BY <1>2, <2>1, RegisterFirst
  <2> QED
    BY <2>2 DEF Sources
<1>5. /\ reg' = IF onDisk[turn.f].parses THEN r ELSE reg
      /\ loaded' = IF onDisk[turn.f].parses /\ NoneMalformed(text) THEN [loaded EXCEPT ![turn.f] = turn.seen] ELSE loaded
  BY DEF ReadHooks
<1> HIDE DEF r, text
<1>6. reg' \in [Sources -> [Hooks -> Nat]] /\ loaded' \in [HookFiles -> Nat]
  BY <1>2, <1>4, <1>5 DEF RegistryTyped
<1>7. /\ \A g \in HookFiles \ {turn.f} : reg'[g] = reg[g] /\ loaded'[g] = loaded[g]
      /\ reg'[turn.f] = IF onDisk[turn.f].parses THEN Times(text) ELSE NoHooks
      /\ loaded'[turn.f] = IF onDisk[turn.f].parses /\ NoneMalformed(text) THEN turn.seen ELSE loaded[turn.f]
  BY <1>2, <1>4, <1>5 DEF RegistryTyped
<1> QED
  BY <1>1, <1>2, <1>3, <1>6, <1>7 DEF text

\* The settings are registered beside the files.
LEMMA SettingsMake ==
  ASSUME HookInv, LoadSettings
  PROVE  reg' \in [Sources -> [Hooks -> Nat]] /\ \A f \in HookFiles : reg'[f] = reg[f]
<1>1. "settings" \in Sources /\ reg \in [Sources -> [Hooks -> Nat]] /\ IsFiniteSet(DOMAIN SettingHooks)
  BY HookReloadAssumption DEF RegistryTyped, Sources, HookInv
<1>2. /\ RegisterAll(reg, SettingHooks, "settings") \in [Sources -> [Hooks -> Nat]]
      /\ \A o \in Sources \ {"settings"} : RegisterAll(reg, SettingHooks, "settings")[o] = reg[o]
  BY <1>1, RegisterFirst
<1> QED
  BY <1>2, HookReloadAssumption DEF LoadSettings, Sources

\* The types, step by step.
LEMMA HookFilesStep == HookInv /\ [HookNext]_hookVars => HookFilesTyped'
<1> SUFFICES ASSUME HookInv, [HookNext]_hookVars PROVE HookFilesTyped'
  OBVIOUS
<1> USE HookReloadAssumption DEF HookInv
<1>1. ASSUME NEW f \in HookFiles, WriteBegins(f) PROVE HookFilesTyped'
  BY <1>1 DEF WriteBegins, HookFilesTyped
<1>2. ASSUME NEW f \in HookFiles, NEW v \in Versions, WriteEnds(f, v) PROVE HookFilesTyped'
  BY <1>2 DEF WriteEnds, HookFilesTyped
<1>3. ASSUME NEW f \in HookFiles, StatHooks(f) PROVE HookFilesTyped'
  BY <1>3 DEF StatHooks, HookFilesTyped
<1>4. CASE TurnBegins
  BY <1>4 DEF TurnBegins, HookFilesTyped
<1>5. CASE ReadHooks
  BY <1>5 DEF ReadHooks, HookFilesTyped
<1>6. CASE LoadSettings
  BY <1>6 DEF LoadSettings, HookFilesTyped
<1>7. CASE ModelCall
  BY <1>7 DEF ModelCall, HookFilesTyped
<1>8. ASSUME NEW blocked \in BOOLEAN, BeforeTool(blocked) PROVE HookFilesTyped'
  BY <1>8 DEF BeforeTool, HookFilesTyped
<1>9. CASE ToolRuns
  BY <1>9 DEF ToolRuns, HookFilesTyped
<1>10. CASE TurnEnds
  BY <1>10 DEF TurnEnds, HookFilesTyped
<1>11. CASE UNCHANGED hookVars
  BY <1>11 DEF hookVars, HookFilesTyped
<1> QED
  BY <1>1, <1>2, <1>3, <1>4, <1>5, <1>6, <1>7, <1>8, <1>9, <1>10, <1>11 DEF HookNext

\* The registry, step by step.
LEMMA RegistryStep == HookInv /\ [HookNext]_hookVars => RegistryTyped'
<1> SUFFICES ASSUME HookInv, [HookNext]_hookVars PROVE RegistryTyped'
  OBVIOUS
<1> USE HookReloadAssumption DEF HookInv
<1>1. ASSUME NEW f \in HookFiles, WriteBegins(f) PROVE RegistryTyped'
  BY <1>1 DEF WriteBegins, RegistryTyped
<1>2. ASSUME NEW f \in HookFiles, NEW v \in Versions, WriteEnds(f, v) PROVE RegistryTyped'
  BY <1>2 DEF WriteEnds, RegistryTyped
<1>3. ASSUME NEW f \in HookFiles, StatHooks(f) PROVE RegistryTyped'
  BY <1>3, NoHooksTyped DEF StatHooks, WithoutFile, RegistryTyped, Sources
<1>4. CASE TurnBegins
  BY <1>4 DEF TurnBegins, RegistryTyped
<1>5. CASE ReadHooks
  BY <1>5, ReadMakes DEF RegistryTyped
<1>6. CASE LoadSettings
  BY <1>6, SettingsMake DEF LoadSettings, RegistryTyped
<1>7. CASE ModelCall
  BY <1>7 DEF ModelCall, RegistryTyped
<1>8. ASSUME NEW blocked \in BOOLEAN, BeforeTool(blocked) PROVE RegistryTyped'
  BY <1>8 DEF BeforeTool, RegistryTyped
<1>9. CASE ToolRuns
  BY <1>9 DEF ToolRuns, RegistryTyped
<1>10. CASE TurnEnds
  BY <1>10 DEF TurnEnds, RegistryTyped
<1>11. CASE UNCHANGED hookVars
  BY <1>11 DEF hookVars, RegistryTyped
<1> QED
  BY <1>1, <1>2, <1>3, <1>4, <1>5, <1>6, <1>7, <1>8, <1>9, <1>10, <1>11 DEF HookNext

\* The session, step by step.
LEMMA TurnStep == HookInv /\ [HookNext]_hookVars => TurnTyped'
<1> SUFFICES ASSUME HookInv, [HookNext]_hookVars PROVE TurnTyped'
  OBVIOUS
<1> USE HookReloadAssumption DEF HookInv
<1>1. ASSUME NEW f \in HookFiles, WriteBegins(f) PROVE TurnTyped'
  BY <1>1 DEF WriteBegins, TurnTyped
<1>2. ASSUME NEW f \in HookFiles, NEW v \in Versions, WriteEnds(f, v) PROVE TurnTyped'
  BY <1>2 DEF WriteEnds, TurnTyped
<1>3. ASSUME NEW f \in HookFiles, StatHooks(f) PROVE TurnTyped'
  <2>1. \/ turn' = [turn EXCEPT !.left = @ \ {f}]
        \/ turn' = [turn EXCEPT !.left = @ \ {f}, !.f = f, !.seen = onDisk[f].time, !.pc = "read"]
    BY <1>3 DEF StatHooks
  <2>2. onDisk[f].time \in Nat /\ f \in Sources /\ turn.pc = "build"
    BY <1>3 DEF StatHooks, HookFilesTyped, Sources
  <2> QED
    BY <2>1, <2>2 DEF TurnTyped
<1>4. CASE TurnBegins
  <2>1. turn' = [pc |-> "build", n |-> turn.n + 1, call |-> 0, left |-> HookFiles,
                 f |-> turn.f, seen |-> turn.seen]
    BY <1>4 DEF TurnBegins, TurnTyped
  <2>2. turn.n + 1 \in Nat
    BY DEF TurnTyped
  <2> QED
    BY <2>1, <2>2 DEF TurnTyped
<1>5. CASE ReadHooks
  BY <1>5 DEF ReadHooks, TurnTyped
<1>6. CASE LoadSettings
  BY <1>6 DEF LoadSettings, TurnTyped
<1>7. CASE ModelCall
  BY <1>7 DEF ModelCall, TurnTyped
<1>8. ASSUME NEW blocked \in BOOLEAN, BeforeTool(blocked) PROVE TurnTyped'
  <2>1. /\ turn' = [pc |-> turn'.pc, n |-> turn.n, call |-> turn.call + 1, left |-> HookFiles,
                     f |-> turn.f, seen |-> turn.seen]
        /\ turn'.pc \in {"build", "tool"}
    BY <1>8, Zenon DEF BeforeTool, TurnTyped
  <2>2. turn.call + 1 \in Nat
    BY DEF TurnTyped
  <2> QED
    BY <2>1, <2>2 DEF TurnTyped
<1>9. CASE ToolRuns
  BY <1>9 DEF ToolRuns, TurnTyped
<1>10. CASE TurnEnds
  BY <1>10 DEF TurnEnds, TurnTyped
<1>11. CASE UNCHANGED hookVars
  BY <1>11 DEF hookVars, TurnTyped
<1> QED
  BY <1>1, <1>2, <1>3, <1>4, <1>5, <1>6, <1>7, <1>8, <1>9, <1>10, <1>11 DEF HookNext

\* The times, step by step.
LEMMA TimesStep == HookInv /\ [HookNext]_hookVars => TimesKnown'
<1> SUFFICES ASSUME HookInv, [HookNext]_hookVars PROVE TimesKnown'
  OBVIOUS
<1> USE HookReloadAssumption DEF HookInv
<1>1. ASSUME NEW f \in HookFiles, WriteBegins(f) PROVE TimesKnown'
  BY <1>1 DEF WriteBegins, TimesKnown, HookFilesTyped, RegistryTyped, TurnTyped
<1>2. ASSUME NEW f \in HookFiles, NEW v \in Versions, WriteEnds(f, v) PROVE TimesKnown'
  BY <1>2 DEF WriteEnds, TimesKnown, HookFilesTyped, RegistryTyped, TurnTyped
<1>3. ASSUME NEW f \in HookFiles, StatHooks(f) PROVE TimesKnown'
  <2>1. CASE loaded[f] = onDisk[f].time
    BY <1>3, <2>1 DEF StatHooks, TimesKnown, TurnTyped
  <2>2. CASE loaded[f] # onDisk[f].time
    <3>1. turn'.pc = "read" /\ turn'.f = f /\ turn'.seen = onDisk[f].time /\ UNCHANGED <<onDisk, loaded>>
      BY <1>3, <2>2 DEF StatHooks, TurnTyped
    <3>2. reg'[f] = NoHooks
      BY <1>3, <2>2 DEF StatHooks, WithoutFile, RegistryTyped, Sources
    <3>3. loaded[f] \in Nat /\ onDisk[f].time \in Nat /\ loaded[f] <= onDisk[f].time
      BY DEF TimesKnown, RegistryTyped, HookFilesTyped
    <3> QED
      BY <2>2, <3>1, <3>2, <3>3 DEF TimesKnown
  <2> QED
    BY <2>1, <2>2
<1>4. CASE TurnBegins
  BY <1>4 DEF TurnBegins, TimesKnown, HookFilesTyped, RegistryTyped, TurnTyped
<1>5. CASE ReadHooks
  BY <1>5, ReadMakes DEF TimesKnown, HookFilesTyped, RegistryTyped
<1>6. CASE LoadSettings
  BY <1>6 DEF LoadSettings, TimesKnown, HookFilesTyped, TurnTyped
<1>7. CASE ModelCall
  BY <1>7 DEF ModelCall, TimesKnown, HookFilesTyped, RegistryTyped, TurnTyped
<1>8. ASSUME NEW blocked \in BOOLEAN, BeforeTool(blocked) PROVE TimesKnown'
  BY <1>8 DEF BeforeTool, TimesKnown, HookFilesTyped, RegistryTyped, TurnTyped
<1>9. CASE ToolRuns
  BY <1>9 DEF ToolRuns, TimesKnown, HookFilesTyped, RegistryTyped, TurnTyped
<1>10. CASE TurnEnds
  BY <1>10 DEF TurnEnds, TimesKnown, HookFilesTyped, RegistryTyped, TurnTyped
<1>11. CASE UNCHANGED hookVars
  BY <1>11 DEF hookVars, TimesKnown, HookFilesTyped, RegistryTyped, TurnTyped
<1> QED
  BY <1>1, <1>2, <1>3, <1>4, <1>5, <1>6, <1>7, <1>8, <1>9, <1>10, <1>11 DEF HookNext

\* What is registered of each file, step by step.
LEMMA WholeStep == HookInv /\ [HookNext]_hookVars => RegistryIsWhole'
<1> SUFFICES ASSUME HookInv, [HookNext]_hookVars PROVE RegistryIsWhole'
  OBVIOUS
<1> USE HookReloadAssumption DEF HookInv
<1>1. ASSUME NEW f \in HookFiles, WriteBegins(f) PROVE RegistryIsWhole'
  <2>1. \A g \in HookFiles : loaded[g] = onDisk'[g].time => onDisk'[g] = onDisk[g]
    BY <1>1 DEF WriteBegins, TimesKnown, HookFilesTyped, RegistryTyped
  <2> QED
    BY <1>1, <2>1 DEF WriteBegins, RegistryIsWhole
<1>2. ASSUME NEW f \in HookFiles, NEW v \in Versions, WriteEnds(f, v) PROVE RegistryIsWhole'
  <2>1. \A g \in HookFiles : loaded[g] = onDisk'[g].time => onDisk'[g] = onDisk[g]
    BY <1>2 DEF WriteEnds, TimesKnown, HookFilesTyped, RegistryTyped
  <2> QED
    BY <1>2, <2>1 DEF WriteEnds, RegistryIsWhole
<1>3. ASSUME NEW f \in HookFiles, StatHooks(f) PROVE RegistryIsWhole'
  <2>1. CASE loaded[f] = onDisk[f].time
    BY <1>3, <2>1 DEF StatHooks, RegistryIsWhole
  <2>2. CASE loaded[f] # onDisk[f].time
    <3>1. reg' = [reg EXCEPT ![f] = NoHooks] /\ UNCHANGED <<onDisk, loaded>>
      BY <1>3, <2>2 DEF StatHooks, WithoutFile
    <3>2. \A g \in HookFiles : reg'[g] = IF g = f THEN NoHooks ELSE reg[g]
      BY <3>1 DEF RegistryTyped, Sources
    <3> QED
      BY <2>2, <3>1, <3>2 DEF RegistryIsWhole
  <2> QED
    BY <2>1, <2>2
<1>4. CASE TurnBegins
  BY <1>4 DEF TurnBegins, RegistryIsWhole
<1>5. CASE ReadHooks
  <2>1. ASSUME loaded'[turn.f] = onDisk[turn.f].time
        PROVE  NoneMalformed(HooksIn[onDisk[turn.f].ver]) /\ reg'[turn.f] = Declares(onDisk[turn.f].ver)
    <3>1. loaded[turn.f] < turn.seen /\ turn.seen <= onDisk[turn.f].time
          /\ loaded[turn.f] \in Nat /\ onDisk[turn.f].time \in Nat /\ turn.seen \in Nat
      BY <1>5, ReadMakes DEF TimesKnown, RegistryTyped, HookFilesTyped
    <3>2. onDisk[turn.f].parses /\ NoneMalformed(HooksIn[onDisk[turn.f].ver])
      BY <1>5, <2>1, <3>1, ReadMakes
    <3> QED
      BY <1>5, <3>2, ReadMakes, AllRegistered
  <2>2. ASSUME NEW g \in HookFiles
        PROVE  /\ reg'[g] = NoHooks \/ \E v \in Versions : reg'[g] = Times(HooksIn[v])
               /\ loaded'[g] = onDisk[g].time => NoneMalformed(HooksIn[onDisk[g].ver]) /\ reg'[g] = Declares(onDisk[g].ver)
    <3>1. CASE g = turn.f
      BY <1>5, <2>1, <3>1, ReadMakes
    <3>2. CASE g # turn.f
      BY <1>5, <3>2, ReadMakes DEF RegistryIsWhole
    <3> QED
      BY <3>1, <3>2
  <2>3. UNCHANGED onDisk
    BY <1>5, ReadMakes
  <2> QED
    BY <2>2, <2>3 DEF RegistryIsWhole
<1>6. CASE LoadSettings
  BY <1>6, SettingsMake DEF LoadSettings, RegistryIsWhole
<1>7. CASE ModelCall
  BY <1>7 DEF ModelCall, RegistryIsWhole
<1>8. ASSUME NEW blocked \in BOOLEAN, BeforeTool(blocked) PROVE RegistryIsWhole'
  BY <1>8 DEF BeforeTool, RegistryIsWhole
<1>9. CASE ToolRuns
  BY <1>9 DEF ToolRuns, RegistryIsWhole
<1>10. CASE TurnEnds
  BY <1>10 DEF TurnEnds, RegistryIsWhole
<1>11. CASE UNCHANGED hookVars
  BY <1>11 DEF hookVars, RegistryIsWhole
<1> QED
  BY <1>1, <1>2, <1>3, <1>4, <1>5, <1>6, <1>7, <1>8, <1>9, <1>10, <1>11 DEF HookNext

\* A write elsewhere leaves what was looked at.
LEMMA LookedElsewhere ==
  ASSUME HookInv, NEW f \in HookFiles, touched' = touched \cup {f}, UNCHANGED <<reg, loaded, turn>>,
         \A g \in HookFiles \ {f} : onDisk'[g] = onDisk[g]
  PROVE  LookedAt'
<1>1. \A g \in HookFiles \ touched' : g \notin touched /\ onDisk'[g] = onDisk[g] /\ (UpToDate(g)' <=> UpToDate(g))
  BY DEF UpToDate
<1>2. turn'.pc = "tool" => turn'.left = HookFiles
  BY DEF LookedAt, HookInv
<1>3. RegistryIsFresh'
  BY <1>1, Zenon DEF LookedAt, RegistryIsFresh, HookInv
<1>4. turn'.pc = "build" => \A g \in HookFiles \ (touched' \cup turn'.left) : UpToDate(g)'
  BY <1>1 DEF LookedAt, HookInv
<1>5. turn'.pc = "read" =>
        /\ \A g \in HookFiles \ (touched' \cup turn'.left \cup {turn'.f}) : UpToDate(g)'
        /\ turn'.f \notin touched' => turn'.seen = onDisk'[turn'.f].time
  BY <1>1 DEF LookedAt, TurnTyped, HookInv
<1> QED
  BY <1>2, <1>3, <1>4, <1>5 DEF LookedAt

\* What has been looked at, step by step.
LEMMA LookedStep == HookInv /\ [HookNext]_hookVars => LookedAt'
<1> SUFFICES ASSUME HookInv, [HookNext]_hookVars PROVE LookedAt'
  OBVIOUS
<1> USE HookReloadAssumption DEF HookInv
<1>1. ASSUME NEW f \in HookFiles, WriteBegins(f) PROVE LookedAt'
  <2>1. \A g \in HookFiles \ {f} : onDisk'[g] = onDisk[g]
    BY <1>1 DEF WriteBegins, HookFilesTyped
  <2>2. touched' = touched \cup {f} /\ UNCHANGED <<reg, loaded, turn>>
    BY <1>1 DEF WriteBegins
  <2> QED
    BY <2>1, <2>2, LookedElsewhere
<1>2. ASSUME NEW f \in HookFiles, NEW v \in Versions, WriteEnds(f, v) PROVE LookedAt'
  <2>1. \A g \in HookFiles \ {f} : onDisk'[g] = onDisk[g]
    BY <1>2 DEF WriteEnds, HookFilesTyped
  <2>2. touched' = touched \cup {f} /\ UNCHANGED <<reg, loaded, turn>>
    BY <1>2 DEF WriteEnds
  <2> QED
    BY <2>1, <2>2, LookedElsewhere
<1>3. ASSUME NEW f \in HookFiles, StatHooks(f) PROVE LookedAt'
  <2>1. CASE loaded[f] = onDisk[f].time
    <3>1. turn'.pc = "build" /\ turn'.left = turn.left \ {f} /\ turn.pc = "build"
          /\ UNCHANGED <<onDisk, reg, loaded, touched>>
      BY <1>3, <2>1 DEF StatHooks, TurnTyped
    <3>2. UpToDate(f)
      <4>1. onDisk[f].ver \in Versions
        BY DEF HookFilesTyped
      <4> QED
        BY <2>1, <4>1, AllRegistered DEF RegistryIsWhole, UpToDate
    <3>3. \A g \in HookFiles : UpToDate(g)' <=> UpToDate(g)
      BY <3>1 DEF UpToDate
    <3> QED
      BY <3>1, <3>2, <3>3 DEF LookedAt, RegistryIsFresh
  <2>2. CASE loaded[f] # onDisk[f].time
    <3>1. turn'.pc = "read" /\ turn'.f = f /\ turn'.seen = onDisk[f].time /\ turn'.left = turn.left \ {f}
          /\ turn.pc = "build" /\ UNCHANGED <<onDisk, loaded, touched>>
      BY <1>3, <2>2 DEF StatHooks, TurnTyped
    <3>2. \A g \in HookFiles \ {f} : reg'[g] = reg[g]
      BY <1>3, <2>2 DEF StatHooks, WithoutFile, RegistryTyped, Sources
    <3>3. \A g \in HookFiles \ {f} : UpToDate(g)' <=> UpToDate(g)
      BY <3>1, <3>2 DEF UpToDate
    <3> QED
      BY <3>1, <3>3 DEF LookedAt, RegistryIsFresh
  <2> QED
    BY <2>1, <2>2
<1>4. CASE TurnBegins
  BY <1>4 DEF TurnBegins, LookedAt, RegistryIsFresh, TurnTyped
<1>5. CASE ReadHooks
  <2>1. /\ turn.pc = "read" /\ turn'.pc = "build" /\ turn'.left = turn.left /\ UNCHANGED <<touched, onDisk>>
        /\ \A g \in HookFiles \ {turn.f} : reg'[g] = reg[g] /\ loaded'[g] = loaded[g]
    BY <1>5, ReadMakes
  <2>2. \A g \in HookFiles \ {turn.f} : UpToDate(g)' <=> UpToDate(g)
    BY <2>1 DEF UpToDate
  <2>3. ASSUME NEW g \in HookFiles, g = turn.f, g \notin touched
        PROVE  UpToDate(g)'
    <3>1. turn.seen = onDisk[g].time
      BY <2>1, <2>3 DEF LookedAt
    <3>2. onDisk[g].parses => /\ reg'[g] = Times(HooksIn[onDisk[g].ver])
                              /\ NoneMalformed(HooksIn[onDisk[g].ver]) => loaded'[g] = onDisk[g].time
      BY <1>5, <2>3, <3>1, ReadMakes
    <3> QED
      BY <2>1, <3>2 DEF UpToDate
  <2> QED
    BY <2>1, <2>2, <2>3 DEF LookedAt, RegistryIsFresh
<1>6. CASE LoadSettings
  BY <1>6 DEF LoadSettings, LookedAt, RegistryIsFresh, TurnTyped
<1>7. CASE ModelCall
  BY <1>7 DEF ModelCall, LookedAt, RegistryIsFresh, UpToDate, TurnTyped
<1>8. ASSUME NEW blocked \in BOOLEAN, BeforeTool(blocked) PROVE LookedAt'
  BY <1>8 DEF BeforeTool, LookedAt, RegistryIsFresh, TurnTyped
<1>9. CASE ToolRuns
  BY <1>9 DEF ToolRuns, LookedAt, RegistryIsFresh, UpToDate, TurnTyped
<1>10. CASE TurnEnds
  BY <1>10 DEF TurnEnds, LookedAt, RegistryIsFresh, UpToDate, TurnTyped
<1>11. CASE UNCHANGED hookVars
  BY <1>11 DEF hookVars, LookedAt, RegistryIsFresh, UpToDate, TurnTyped
<1> QED
  BY <1>1, <1>2, <1>3, <1>4, <1>5, <1>6, <1>7, <1>8, <1>9, <1>10, <1>11 DEF HookNext

\* For any files, texts with or without malformed entries, settings and writes, while
\* the session looks or not: the registry holds of each hook file nothing or the
\* entries of one text from its first on, all of them once its time is recorded, and
\* a tool runs under what can be registered of every file that parses and was not
\* written since the last look.
THEOREM HooksHold == HookSpec => []HooksMatchFiles
<1>1. HookInit => HookInv
  BY HookReloadAssumption, NoHooksTyped
  DEF HookInit, HookInv, HookFilesTyped, RegistryTyped, TurnTyped, TimesKnown, RegistryIsWhole,
      LookedAt, RegistryIsFresh, Sources
<1>2. HookInv /\ [HookNext]_hookVars => HookInv'
  BY HookFilesStep, RegistryStep, TurnStep, TimesStep, WholeStep, LookedStep DEF HookInv
<1>3. HookInv => HooksMatchFiles
  BY DEF HookInv, HooksMatchFiles, LookedAt
<1> QED
  BY <1>1, <1>2, <1>3, PTL DEF HookSpec

-----------------------------------------------------------------------------
(* Conversation.  First what its operators keep of a sound history.         *)

\* A history that may be sent or saved, when n commands have been given.
Wellformed(h, n) == h \in Seq(Messages) /\ Orderly(h) /\ \A j \in DOMAIN h : h[j].of \subseteq 0..n
\* The task and what attempt a did for it, and nothing of another attempt.
OwnWork(h, job, a) ==
  /\ \A j, l \in DOMAIN h : (h[j].k = "task" /\ h[l].k = "task" /\ job \in h[j].of /\ job \in h[l].of) => j = l
  /\ \A j \in DOMAIN h : h[j].k \in {"call", "result"} /\ job \in h[j].of => h[j].att = a

LEMMA MsgType ==
  ASSUME NEW kind \in {"task", "note", "call", "result", "summary"}, NEW tasks \in SUBSET Nat, NEW a \in Nat, NEW l \in Nat
  PROVE  /\ Msg(kind, tasks, a, l) \in Messages
         /\ Msg(kind, tasks, a, l).k = kind /\ Msg(kind, tasks, a, l).of = tasks
         /\ Msg(kind, tasks, a, l).att = a /\ Msg(kind, tasks, a, l).i = l
BY DEF Msg, Messages

LEMMA KnownGrows ==
  ASSUME NEW h \in Seq(Messages), NEW g \in Seq(Messages), Len(h) <= Len(g),
         \A j \in 1..Len(h) : g[j] = h[j]
  PROVE  Known(h) \subseteq Known(g)
<1>1. DOMAIN h = 1..Len(h) /\ DOMAIN g = 1..Len(g) /\ Len(h) \in Nat /\ Len(g) \in Nat
  BY LenProperties
<1> QED
  BY <1>1 DEF Known

LEMMA KnownInBound ==
  ASSUME NEW n \in Nat, NEW h, Wellformed(h, n)
  PROVE  Known(h) \subseteq 0..n
BY DEF Known, Wellformed

\* A message that is neither call nor result.
LEMMA AppendPlain ==
  ASSUME NEW n \in Nat, NEW h, Wellformed(h, n), NEW m \in Messages,
         m.k \notin {"call", "result"}, m.of \subseteq 0..n
  PROVE  /\ Wellformed(Append(h, m), n) /\ Len(Append(h, m)) = Len(h) + 1
         /\ Known(h) \subseteq Known(Append(h, m))
<1> DEFINE g == Append(h, m)
<1>1. h \in Seq(Messages) /\ DOMAIN h = 1..Len(h) /\ Len(h) \in Nat
  BY LenProperties DEF Wellformed
<1>2. /\ g \in Seq(Messages) /\ Len(g) = Len(h) + 1 /\ DOMAIN g = 1..(Len(h) + 1)
      /\ \A j \in 1..Len(h) : g[j] = h[j]
      /\ g[Len(h) + 1] = m
  BY <1>1, AppendProperties, LenProperties
<1> HIDE DEF g
<1>3. Orderly(g)
  <2> SUFFICES ASSUME NEW j \in 1..(Len(h) + 1)
               PROVE  /\ g[j].k = "call" => j < Len(g) /\ AnswersCall(g[j], g[j + 1])
                      /\ g[j].k = "result" => j > 1 /\ (AnswersCall(g[j - 1], g[j]) \/ g[j - 1].k = "summary")
    BY <1>2 DEF Orderly
  <2>1. CASE j = Len(h) + 1
    BY <1>2, <2>1
  <2>2. CASE j \in 1..Len(h)
    <3>1. /\ h[j].k = "call" => j < Len(h) /\ AnswersCall(h[j], h[j + 1])
          /\ h[j].k = "result" => j > 1 /\ (AnswersCall(h[j - 1], h[j]) \/ h[j - 1].k = "summary")
      BY <1>1, <2>2 DEF Wellformed, Orderly
    <3>2. g[j] = h[j] /\ (j < Len(h) => g[j + 1] = h[j + 1]) /\ (j > 1 => g[j - 1] = h[j - 1])
      BY <1>1, <1>2, <2>2
    <3> QED
      BY <1>1, <1>2, <2>2, <3>1, <3>2
  <2> QED
    BY <1>1, <2>1, <2>2
<1>4. \A j \in DOMAIN g : g[j].of \subseteq 0..n
  BY <1>1, <1>2 DEF Wellformed
<1>5. Known(h) \subseteq Known(g)
  BY <1>1, <1>2, KnownGrows
<1> QED
  BY <1>2, <1>3, <1>4, <1>5 DEF Wellformed, g

\* A call and the result that answers it.
LEMMA AppendRound ==
  ASSUME NEW n \in Nat, NEW h, Wellformed(h, n), NEW c \in Messages, NEW r \in Messages,
         AnswersCall(c, r), c.of \subseteq 0..n
  PROVE  /\ Wellformed(Append(Append(h, c), r), n) /\ Len(Append(Append(h, c), r)) = Len(h) + 2
         /\ Append(h, c) \in Seq(Messages) /\ Len(Append(h, c)) = Len(h) + 1
         /\ Known(h) \subseteq Known(Append(h, c))
         /\ Known(Append(h, c)) \subseteq Known(Append(Append(h, c), r))
<1> DEFINE f == Append(h, c)
           g == Append(f, r)
<1>1. h \in Seq(Messages) /\ DOMAIN h = 1..Len(h) /\ Len(h) \in Nat
  BY LenProperties DEF Wellformed
<1>2. f \in Seq(Messages) /\ Len(f) = Len(h) + 1 /\ (\A j \in 1..Len(h) : f[j] = h[j]) /\ f[Len(h) + 1] = c
  BY <1>1, AppendProperties
<1> HIDE DEF f
<1>3. g \in Seq(Messages) /\ Len(g) = Len(h) + 2 /\ (\A j \in 1..(Len(h) + 1) : g[j] = f[j]) /\ g[Len(h) + 2] = r
  <2>1. g \in Seq(Messages) /\ Len(g) = Len(f) + 1 /\ (\A j \in 1..Len(f) : g[j] = f[j]) /\ g[Len(f) + 1] = r
    BY <1>2, AppendProperties
  <2> QED
    BY <1>1, <1>2, <2>1
<1> HIDE DEF g
<1>4. /\ \A j \in 1..Len(h) : g[j] = h[j]
      /\ g[Len(h) + 1] = c /\ DOMAIN g = 1..(Len(h) + 2)
  BY <1>1, <1>2, <1>3, LenProperties
<1>5. Orderly(g)
  <2> SUFFICES ASSUME NEW j \in 1..(Len(h) + 2)
               PROVE  /\ g[j].k = "call" => j < Len(g) /\ AnswersCall(g[j], g[j + 1])
                      /\ g[j].k = "result" => j > 1 /\ (AnswersCall(g[j - 1], g[j]) \/ g[j - 1].k = "summary")
    BY <1>4 DEF Orderly
  <2>1. CASE j = Len(h) + 2
    <3>1. g[j] = r /\ j - 1 = Len(h) + 1 /\ g[j - 1] = c /\ j > 1
      BY <1>1, <1>3, <1>4, <2>1
    <3> QED
      BY <3>1 DEF AnswersCall
  <2>2. CASE j = Len(h) + 1
    <3>1. g[j] = c /\ j + 1 = Len(h) + 2 /\ g[j + 1] = r /\ j < Len(g)
      BY <1>1, <1>3, <1>4, <2>2
    <3> QED
      BY <3>1 DEF AnswersCall
  <2>3. CASE j \in 1..Len(h)
    <3>1. /\ h[j].k = "call" => j < Len(h) /\ AnswersCall(h[j], h[j + 1])
          /\ h[j].k = "result" => j > 1 /\ (AnswersCall(h[j - 1], h[j]) \/ h[j - 1].k = "summary")
      BY <1>1, <2>3 DEF Wellformed, Orderly
    <3>2. g[j] = h[j] /\ (j < Len(h) => g[j + 1] = h[j + 1]) /\ (j > 1 => g[j - 1] = h[j - 1])
      BY <1>1, <1>4, <2>3
    <3> QED
      BY <1>1, <1>3, <2>3, <3>1, <3>2
  <2> QED
    BY <1>1, <2>1, <2>2, <2>3
<1>6. \A j \in DOMAIN g : g[j].of \subseteq 0..n
  <2>1. r.of \subseteq 0..n
    BY DEF AnswersCall
  <2> QED
    BY <1>1, <1>3, <1>4, <2>1 DEF Wellformed
<1>7. Known(h) \subseteq Known(f) /\ Known(f) \subseteq Known(g)
  BY <1>1, <1>2, <1>3, KnownGrows
<1> QED
  BY <1>2, <1>3, <1>5, <1>6, <1>7 DEF Wellformed, f, g

\* The notes of the middlewares.
LEMMA NotesKeep ==
  ASSUME NEW n \in Nat, NEW h, Wellformed(h, n), NEW a \in Nat, NEW job \in Nat, NEW add \in Nat
  PROVE  /\ Wellformed(Noted(h, add), n) /\ Len(Noted(h, add)) = Len(h) + add
         /\ Known(h) \subseteq Known(Noted(h, add))
         /\ OwnWork(h, job, a) => OwnWork(Noted(h, add), job, a)
<1> DEFINE note == Msg("note", {}, 0, 0)
           more == [j \in 1..add |-> note]
           g == h \o more
<1>1. h \in Seq(Messages) /\ DOMAIN h = 1..Len(h) /\ Len(h) \in Nat
  BY LenProperties DEF Wellformed
<1>2. note \in Messages /\ note.k = "note" /\ note.of = {}
  BY MsgType
<1> HIDE DEF note
<1>3. more \in Seq(Messages) /\ Len(more) = add /\ (\A j \in 1..add : more[j] = note)
  BY <1>2
<1> HIDE DEF more
<1>4. /\ g \in Seq(Messages) /\ Len(g) = Len(h) + add
      /\ \A j \in 1..(Len(h) + add) : g[j] = IF j <= Len(h) THEN h[j] ELSE more[j - Len(h)]
  BY <1>1, <1>3, ConcatProperties
<1>5. /\ DOMAIN g = 1..(Len(h) + add) /\ (\A j \in 1..Len(h) : g[j] = h[j])
      /\ \A j \in (Len(h) + 1)..(Len(h) + add) : g[j] = note
  BY <1>1, <1>3, <1>4, LenProperties
<1>6. Noted(h, add) = g
  BY DEF Noted, g, more, note
<1> HIDE DEF g
<1>7. Orderly(g)
  <2> SUFFICES ASSUME NEW j \in 1..(Len(h) + add)
               PROVE  /\ g[j].k = "call" => j < Len(g) /\ AnswersCall(g[j], g[j + 1])
                      /\ g[j].k = "result" => j > 1 /\ (AnswersCall(g[j - 1], g[j]) \/ g[j - 1].k = "summary")
    BY <1>5 DEF Orderly
  <2>1. CASE j > Len(h)
    BY <1>1, <1>2, <1>5, <2>1
  <2>2. CASE j \in 1..Len(h)
    <3>1. /\ h[j].k = "call" => j < Len(h) /\ AnswersCall(h[j], h[j + 1])
          /\ h[j].k = "result" => j > 1 /\ (AnswersCall(h[j - 1], h[j]) \/ h[j - 1].k = "summary")
      BY <1>1, <2>2 DEF Wellformed, Orderly
    <3>2. g[j] = h[j] /\ (j < Len(h) => g[j + 1] = h[j + 1]) /\ (j > 1 => g[j - 1] = h[j - 1])
      BY <1>1, <1>5, <2>2
    <3> QED
      BY <1>1, <1>4, <2>2, <3>1, <3>2
  <2> QED
    BY <1>1, <2>1, <2>2
<1>8. \A j \in DOMAIN g : g[j].of \subseteq 0..n
  BY <1>1, <1>2, <1>5 DEF Wellformed
<1>9. Known(h) \subseteq Known(g)
  BY <1>1, <1>4, <1>5, KnownGrows
<1>10. OwnWork(h, job, a) => OwnWork(g, job, a)
  <2> SUFFICES ASSUME OwnWork(h, job, a) PROVE OwnWork(g, job, a)
    OBVIOUS
  <2>1. \A j \in DOMAIN g : g[j].k # "note" => j \in DOMAIN h /\ g[j] = h[j]
    BY <1>1, <1>2, <1>5
  <2> QED
    BY <2>1 DEF OwnWork
<1> QED
  BY <1>4, <1>6, <1>7, <1>8, <1>9, <1>10 DEF Wellformed

\* A history whose first messages have become one summary.
LEMMA CutKeeps ==
  ASSUME NEW n \in Nat, NEW h, Wellformed(h, n), NEW skip \in 0..Len(h), NEW g \in Seq(Messages),
         Len(g) = Len(h) - skip + 1, g[1].k = "summary", g[1].of \subseteq 0..n,
         \A j \in 2..Len(g) : g[j] = h[skip + j - 1],
         NEW job, NEW a
  PROVE  Wellformed(g, n) /\ (OwnWork(h, job, a) => OwnWork(g, job, a))
<1>1. h \in Seq(Messages) /\ DOMAIN h = 1..Len(h) /\ Len(h) \in Nat
  BY LenProperties DEF Wellformed
<1>2. DOMAIN g = 1..Len(g) /\ Len(g) \in Nat /\ skip \in Nat /\ Len(g) >= 1
  BY <1>1, LenProperties
<1>3. \A j \in 2..Len(g) : skip + j - 1 \in 1..Len(h)
  BY <1>1, <1>2
<1>4. \A j \in 1..Len(g) : j = 1 \/ j \in 2..Len(g)
  BY <1>2
<1>5. Orderly(g)
  <2> SUFFICES ASSUME NEW j \in 1..Len(g)
               PROVE  /\ g[j].k = "call" => j < Len(g) /\ AnswersCall(g[j], g[j + 1])
                      /\ g[j].k = "result" => j > 1 /\ (AnswersCall(g[j - 1], g[j]) \/ g[j - 1].k = "summary")
    BY <1>2 DEF Orderly
  <2>1. CASE j = 1
    BY <2>1
  <2>2. CASE j \in 2..Len(g)
    <3>1. PICK l \in 1..Len(h) : l = skip + j - 1
      BY <1>3, <2>2
    <3>2. g[j] = h[l]
      BY <2>2, <3>1
    <3>3. /\ h[l].k = "call" => l < Len(h) /\ AnswersCall(h[l], h[l + 1])
          /\ h[l].k = "result" => l > 1 /\ (AnswersCall(h[l - 1], h[l]) \/ h[l - 1].k = "summary")
      BY <1>1, <3>1 DEF Wellformed, Orderly
    <3>4. l < Len(h) => j + 1 \in 2..Len(g) /\ skip + (j + 1) - 1 = l + 1
      BY <1>1, <1>2, <2>2, <3>1
    <3>5. l < Len(h) => j < Len(g) /\ g[j + 1] = h[l + 1]
      <4>1. \A x \in 2..Len(g) : g[x] = h[skip + x - 1]
        OBVIOUS
      <4>2. l < Len(h) => g[j + 1] = h[l + 1]
        BY <3>4, <4>1
      <4>3. j + 1 \in 2..Len(g) => j < Len(g)
        BY <1>2, <2>2
      <4> QED
        BY <3>4, <4>2, <4>3
    <3>6. j > 2 => j - 1 \in 2..Len(g) /\ skip + (j - 1) - 1 = l - 1
      BY <1>1, <1>2, <2>2, <3>1
    <3>7. j > 2 => g[j - 1] = h[l - 1]
      BY <3>6
    <3>8. j > 1 /\ (j = 2 \/ j > 2) /\ (j = 2 => g[j - 1].k = "summary")
      BY <1>2, <2>2
    <3> QED
      BY <3>2, <3>3, <3>5, <3>7, <3>8
  <2> QED
    BY <1>4, <2>1, <2>2
<1>6. \A j \in DOMAIN g : g[j].of \subseteq 0..n
  BY <1>1, <1>2, <1>3, <1>4 DEF Wellformed
<1>7. OwnWork(h, job, a) => OwnWork(g, job, a)
  <2> SUFFICES ASSUME OwnWork(h, job, a) PROVE OwnWork(g, job, a)
    OBVIOUS
  <2>1. \A j \in DOMAIN g : g[j].k # "summary" => skip + j - 1 \in DOMAIN h /\ g[j] = h[skip + j - 1]
    BY <1>1, <1>2, <1>3, <1>4
  <2>2. \A j, l \in DOMAIN g : skip + j - 1 = skip + l - 1 => j = l
    BY <1>2
  <2>3. ASSUME NEW j \in DOMAIN g, NEW l \in DOMAIN g, g[j].k = "task", g[l].k = "task", job \in g[j].of, job \in g[l].of
        PROVE  j = l
    <3>1. /\ skip + j - 1 \in DOMAIN h /\ skip + l - 1 \in DOMAIN h
          /\ h[skip + j - 1] = g[j] /\ h[skip + l - 1] = g[l]
      BY <2>1, <2>3
    <3>2. skip + j - 1 = skip + l - 1
      BY <2>3, <3>1 DEF OwnWork
    <3> QED
      BY <2>2, <3>2
  <2>4. \A j \in DOMAIN g : g[j].k \in {"call", "result"} /\ job \in g[j].of => g[j].att = a
    BY <2>1 DEF OwnWork
  <2> QED
    BY <2>3, <2>4 DEF OwnWork
<1> QED
  BY <1>5, <1>6, <1>7 DEF Wellformed

\* What is kept are the last messages.
LEMMA RecentIsLast ==
  ASSUME NEW h \in Seq(Messages), NEW len \in Nat, len = Len(h)
  PROVE  \E skip \in 0..len :
           /\ Recent(h) \in Seq(Messages) /\ Len(Recent(h)) = len - skip
           /\ \A j \in 1..(len - skip) : Recent(h)[j] = h[skip + j]
           /\ len > KeepRecent => len - skip = KeepRecent
           /\ ~(len > KeepRecent) => skip = 0
<1>1. KeepRecent \in Nat
  BY ConversationAssumption
<1>2. ASSUME NEW skip \in 0..len, Recent(h) = SubSeq(h, skip + 1, len)
      PROVE  /\ Recent(h) \in Seq(Messages) /\ Len(Recent(h)) = len - skip
             /\ \A j \in 1..(len - skip) : Recent(h)[j] = h[skip + j]
  <2>1. skip + 1 \in Int /\ len \in Int /\ \A j \in (skip + 1)..len : h[j] \in Messages
    BY ElementOfSeq
  <2>2. /\ SubSeq(h, skip + 1, len) \in Seq(Messages)
        /\ Len(SubSeq(h, skip + 1, len)) = IF skip + 1 <= len THEN len - (skip + 1) + 1 ELSE 0
        /\ \A j \in 1..(len - (skip + 1) + 1) : SubSeq(h, skip + 1, len)[j] = h[(skip + 1) + j - 1]
    BY <2>1, SubSeqProperties
  <2>3. len - (skip + 1) + 1 = len - skip /\ (skip + 1 <= len \/ len - skip = 0)
    OBVIOUS
  <2>4. \A j \in 1..(len - skip) : (skip + 1) + j - 1 = skip + j
    OBVIOUS
  <2> QED
    BY <1>2, <2>2, <2>3, <2>4
<1>3. CASE len > KeepRecent
  <2>1. PICK skip \in 0..len : skip = len - KeepRecent
    BY <1>1, <1>3
  <2>2. Recent(h) = SubSeq(h, skip + 1, len) /\ len - skip = KeepRecent
    BY <1>1, <1>3, <2>1 DEF Recent
  <2> QED
    BY <1>2, <1>3, <2>2
<1>4. CASE ~(len > KeepRecent)
  <2>1. Recent(h) = SubSeq(h, 0 + 1, len) /\ 0 \in 0..len
    BY <1>4 DEF Recent
  <2>2. /\ Recent(h) \in Seq(Messages) /\ Len(Recent(h)) = len - 0
        /\ \A j \in 1..(len - 0) : Recent(h)[j] = h[0 + j]
    BY <1>2, <2>1
  <2> QED
    BY <1>4, <2>1, <2>2
<1> QED
  BY <1>3, <1>4

LEMMA OneInFront ==
  ASSUME NEW m \in Messages, NEW h \in Seq(Messages), NEW len \in Nat, Len(h) = len
  PROVE  /\ <<m>> \o h \in Seq(Messages) /\ Len(<<m>> \o h) = len + 1 /\ (<<m>> \o h)[1] = m
         /\ \A j \in 2..(len + 1) : (<<m>> \o h)[j] = h[j - 1]
<1>1. PICK one \in Seq(Messages) : one = <<m>> /\ Len(one) = 1 /\ one[1] = m
  <2>1. <<m>> \in Seq(Messages) /\ Len(<<m>>) = 1 /\ <<m>>[1] = m
    OBVIOUS
  <2> QED
    BY <2>1
<1>2. /\ one \o h \in Seq(Messages) /\ Len(one \o h) = 1 + len
      /\ \A j \in 1..(1 + len) : (one \o h)[j] = IF j <= 1 THEN one[j] ELSE h[j - 1]
  <2>1. /\ one \o h \in Seq(Messages) /\ Len(one \o h) = Len(one) + Len(h)
        /\ \A j \in 1..(Len(one) + Len(h)) : (one \o h)[j] = IF j <= Len(one) THEN one[j] ELSE h[j - Len(one)]
    BY ConcatProperties
  <2> QED
    BY <1>1, <2>1
<1>3. (one \o h)[1] = m
  <2>1. 1 \in 1..(1 + len) /\ 1 <= 1
    OBVIOUS
  <2> QED
    BY <1>1, <1>2, <2>1
<1>4. \A j \in 2..(len + 1) : (one \o h)[j] = h[j - 1]
  <2>1. \A j \in 2..(len + 1) : j \in 1..(1 + len) /\ ~(j <= 1)
    OBVIOUS
  <2> QED
    BY <1>2, <2>1
<1>5. 1 + len = len + 1
  OBVIOUS
<1> QED
  BY <1>1, <1>2, <1>3, <1>4, <1>5

\* A summary in the place of the older messages.
LEMMA SummaryKeeps ==
  ASSUME NEW n \in Nat, NEW h, Wellformed(h, n), NEW a, NEW job, NEW works \in BOOLEAN
  PROVE  /\ Wellformed(Summarised(h, works), n)
         /\ Len(h) > KeepRecent => Len(Summarised(h, works)) = KeepRecent + 1
         /\ ~(Len(h) > KeepRecent) => Len(Summarised(h, works)) = Len(h) + 1
         /\ OwnWork(h, job, a) => OwnWork(Summarised(h, works), job, a)
<1>1. h \in Seq(Messages)
  BY DEF Wellformed
<1>2. PICK len \in Nat : len = Len(h)
  BY <1>1, LenProperties
<1>3. PICK skip \in 0..len :
           /\ Recent(h) \in Seq(Messages) /\ Len(Recent(h)) = len - skip
           /\ \A j \in 1..(len - skip) : Recent(h)[j] = h[skip + j]
           /\ len > KeepRecent => len - skip = KeepRecent
           /\ ~(len > KeepRecent) => skip = 0
  BY <1>1, <1>2, RecentIsLast
<1>4. PICK tells \in SUBSET (0..n) : tells = IF works THEN Known(h) ELSE {}
  BY KnownInBound
<1>5. Msg("summary", tells, 0, 0) \in Messages /\ Msg("summary", tells, 0, 0).k = "summary" /\ Msg("summary", tells, 0, 0).of = tells
  BY MsgType
<1>6. PICK m \in Messages : m = Msg("summary", tells, 0, 0)
  BY <1>5
<1>7. PICK g : g = <<m>> \o Recent(h)
  OBVIOUS
<1>8. Summarised(h, works) = g
  BY <1>4, <1>6, <1>7 DEF Summarised
<1>9. PICK rest \in Nat : rest = len - skip
  OBVIOUS
<1>10. /\ g \in Seq(Messages) /\ Len(g) = rest + 1 /\ g[1] = m
       /\ \A j \in 2..(rest + 1) : g[j] = Recent(h)[j - 1]
  <2>1. Recent(h) \in Seq(Messages) /\ Len(Recent(h)) = rest
    BY <1>3, <1>9
  <2>2. /\ <<m>> \o Recent(h) \in Seq(Messages) /\ Len(<<m>> \o Recent(h)) = rest + 1 /\ (<<m>> \o Recent(h))[1] = m
        /\ \A j \in 2..(rest + 1) : (<<m>> \o Recent(h))[j] = Recent(h)[j - 1]
    BY <2>1, OneInFront
  <2> QED
    BY <1>7, <2>2
<1>11. Len(g) = len - skip + 1
  BY <1>9, <1>10
<1>12. \A j \in 2..Len(g) : g[j] = h[skip + j - 1]
  <2>1. ASSUME NEW j \in 2..(rest + 1) PROVE g[j] = h[skip + j - 1]
    <3>1. j - 1 \in 1..(len - skip) /\ skip + (j - 1) = skip + j - 1
      BY <1>9
    <3>2. Recent(h)[j - 1] = h[skip + (j - 1)]
      BY <1>3, <3>1
    <3> QED
      BY <1>10, <3>1, <3>2
  <2> QED
    BY <1>10, <2>1
<1>13. Wellformed(g, n) /\ (OwnWork(h, job, a) => OwnWork(g, job, a))
  <2>1. skip \in 0..Len(h) /\ Len(g) = Len(h) - skip + 1 /\ g[1].k = "summary" /\ g[1].of \subseteq 0..n
    BY <1>2, <1>5, <1>6, <1>10, <1>11
  <2> QED
    BY <1>10, <1>12, <2>1, CutKeeps
<1>14. /\ len > KeepRecent => Len(g) = KeepRecent + 1
       /\ ~(len > KeepRecent) => Len(g) = len + 1
  BY <1>3, <1>11
<1> QED
  BY <1>2, <1>8, <1>13, <1>14

\* A new attempt of a task no earlier message tells of.
LEMMA FreshIsOwn ==
  ASSUME NEW job \in Nat \ {0}, NEW h, Wellformed(h, job - 1), NEW a
  PROVE  OwnWork(Append(h, Msg("task", {job}, 0, 0)), job, a)
<1> DEFINE m == Msg("task", {job}, 0, 0)
           g == Append(h, m)
<1>1. h \in Seq(Messages) /\ DOMAIN h = 1..Len(h) /\ Len(h) \in Nat
  BY LenProperties DEF Wellformed
<1>2. m \in Messages /\ m.k = "task" /\ m.of = {job}
  BY MsgType
<1> HIDE DEF m
<1>3. /\ g \in Seq(Messages) /\ Len(g) = Len(h) + 1 /\ DOMAIN g = 1..(Len(h) + 1)
      /\ (\A j \in 1..Len(h) : g[j] = h[j]) /\ g[Len(h) + 1] = m
  BY <1>1, <1>2, AppendProperties, LenProperties
<1> HIDE DEF g
<1>4. \A j \in 1..Len(h) : job \notin h[j].of
  BY <1>1 DEF Wellformed
<1>5. \A j \in DOMAIN g : job \in g[j].of => j = Len(h) + 1 /\ g[j] = m
  BY <1>1, <1>3, <1>4
<1>6. OwnWork(g, job, a)
  BY <1>2, <1>5 DEF OwnWork
<1> QED
  BY <1>6 DEF g, m

\* A call or a result of the attempt.
LEMMA AppendIsOwn ==
  ASSUME NEW h \in Seq(Messages), NEW job, NEW a, OwnWork(h, job, a),
         NEW m \in Messages, m.k \in {"call", "result"}, m.att = a
  PROVE  OwnWork(Append(h, m), job, a)
<1> DEFINE g == Append(h, m)
<1>1. DOMAIN h = 1..Len(h) /\ Len(h) \in Nat
  BY LenProperties
<1>2. /\ g \in Seq(Messages) /\ Len(g) = Len(h) + 1 /\ DOMAIN g = 1..(Len(h) + 1)
      /\ (\A j \in 1..Len(h) : g[j] = h[j]) /\ g[Len(h) + 1] = m
  BY AppendProperties, LenProperties
<1> HIDE DEF g
<1>3. \A j \in DOMAIN g : (g[j] = m) \/ (j \in DOMAIN h /\ g[j] = h[j])
  BY <1>1, <1>2
<1>4. OwnWork(g, job, a)
  BY <1>3 DEF OwnWork
<1> QED
  BY <1>4 DEF g

LEMMA MoreGiven ==
  ASSUME NEW n \in Nat, NEW k \in Nat, n <= k, NEW h, Wellformed(h, n)
  PROVE  Wellformed(h, k)
<1>1. 0..n \subseteq 0..k
  OBVIOUS
<1> QED
  BY <1>1 DEF Wellformed

-----------------------------------------------------------------------------
(* The inductive invariant of Conversation.                                 *)

TermRecords == [pc : {"idle", "turn", "asked", "tools", "saving"}, task : Nat, base : Seq(Messages), hist : Seq(Messages),
                seen : SUBSET Nat, dropped : SUBSET Nat, att : Nat, i : Nat, fails : Nat, errors : BOOLEAN]

\* A command that has loaded the session, when n commands have been given: what it
\* loaded is sound and what it has seen is there or dropped for a reason.
HasLoaded(t, n) ==
  /\ Wellformed(t.base, n) /\ Len(t.base) <= MaxMessages + 2
  /\ t.seen \subseteq Known(t.base) /\ t.seen \subseteq Known(t.hist) \cup t.dropped
\* Nothing a turn loaded tells of its own task.
InTurn(t, n) == t.task \in 1..n /\ Wellformed(t.base, t.task - 1)
Proper(t, n) ==
  /\ t.pc # "idle" => HasLoaded(t, n)
  /\ t.pc \in {"turn", "asked", "tools"} => InTurn(t, n)
  /\ t.pc \in {"turn", "asked"} => Wellformed(t.hist, n) /\ OwnWork(t.hist, t.task, t.att)
  /\ t.pc = "turn" => Len(t.hist) <= MaxMessages + 3 /\ (t.i > 0 => Len(t.hist) <= MaxMessages + 2)
  /\ t.pc = "asked" => Len(t.hist) <= MaxMessages
  /\ t.pc = "tools" => \E h : /\ t.hist = Append(h, Msg("call", {t.task}, t.att, t.i))
                             /\ Wellformed(h, n) /\ Len(h) <= MaxMessages /\ OwnWork(h, t.task, t.att)
  /\ t.pc = "saving" => Wellformed(t.hist, n) /\ Len(t.hist) <= MaxMessages + 2

ConvInv ==
  /\ given \in 0..Given /\ term \in [Terms -> TermRecords]
  /\ Wellformed(history, given) /\ Len(history) <= MaxMessages + 2
  /\ \A p \in Terms : Proper(term[p], given)

LEMMA ConvConstants == MaxMessages \in Nat \ {0} /\ KeepRecent \in Nat /\ KeepRecent < MaxMessages
                       /\ Given \in Nat /\ Notes \in Nat /\ Models \in Nat \ {0} /\ Iterations \in Nat \ {0}
                       /\ TrimAbove \in Nat /\ TrimAbove > MaxMessages + 2
BY ConversationAssumption

LEMMA ProperLater ==
  ASSUME NEW n \in Nat, NEW t \in TermRecords, Proper(t, n)
  PROVE  Proper(t, n + 1)
<1>1. \A h : Wellformed(h, n) => Wellformed(h, n + 1)
  BY MoreGiven
<1>2. 1..n \subseteq 1..(n + 1)
  OBVIOUS
<1>3. t.pc # "idle" => HasLoaded(t, n + 1)
  BY <1>1 DEF Proper, HasLoaded
<1>4. t.pc \in {"turn", "asked", "tools"} => InTurn(t, n + 1)
  BY <1>2 DEF Proper, InTurn
<1>5. t.pc \in {"turn", "asked"} => Wellformed(t.hist, n + 1) /\ OwnWork(t.hist, t.task, t.att)
  BY <1>1 DEF Proper
<1>6. t.pc = "tools" => \E h : /\ t.hist = Append(h, Msg("call", {t.task}, t.att, t.i))
                             /\ Wellformed(h, n + 1) /\ Len(h) <= MaxMessages /\ OwnWork(h, t.task, t.att)
  BY <1>1 DEF Proper
<1>7. t.pc = "saving" => Wellformed(t.hist, n + 1) /\ Len(t.hist) <= MaxMessages + 2
  BY <1>1 DEF Proper
<1> QED
  BY <1>3, <1>4, <1>5, <1>6, <1>7 DEF Proper

\* A step of one terminal.
LEMMA TermMoves ==
  ASSUME ConvInv, NEW p \in Terms, NEW t \in TermRecords, term' = [term EXCEPT ![p] = t],
         given' \in 0..Given, given' = given \/ given' = given + 1, Proper(t, given'), UNCHANGED history
  PROVE  ConvInv'
<1>1. given \in Nat
  BY ConvConstants DEF ConvInv
<1>2. Wellformed(history, given') /\ Len(history) <= MaxMessages + 2
  BY <1>1, MoreGiven DEF ConvInv
<1>3. \A q \in Terms : Proper(term[q], given')
  BY <1>1, ProperLater DEF ConvInv
<1>4. term' \in [Terms -> TermRecords] /\ \A q \in Terms : term'[q] = IF q = p THEN t ELSE term[q]
  BY DEF ConvInv
<1>5. \A q \in Terms : Proper(term'[q], given')
  BY <1>3, <1>4
<1>6. Wellformed(history', given') /\ Len(history') <= MaxMessages + 2
  BY <1>2
<1> QED
  BY <1>4, <1>5, <1>6 DEF ConvInv

LEMMA NewAttemptProper ==
  ASSUME NEW n \in Nat, NEW t \in TermRecords, InTurn(t, n), Wellformed(t.base, n),
         Len(t.base) <= MaxMessages + 2, t.seen \subseteq Known(t.base)
  PROVE  NewAttempt(t) \in TermRecords /\ Proper(NewAttempt(t), n)
<1>1. t.task \in Nat \ {0} /\ t.task \in 1..n /\ Wellformed(t.base, t.task - 1) /\ t.att + 1 \in Nat
  BY DEF InTurn, TermRecords
<1>2. PICK m \in Messages : m = Msg("task", {t.task}, 0, 0) /\ m.k = "task" /\ m.of = {t.task}
  BY <1>1, MsgType
<1>3. PICK h : h = Fresh(t)
  OBVIOUS
<1>4. h = Append(t.base, m)
  BY <1>2, <1>3 DEF Fresh
<1>5. /\ Wellformed(h, n) /\ Len(h) = Len(t.base) + 1 /\ Known(t.base) \subseteq Known(h)
      /\ OwnWork(h, t.task, t.att + 1)
  <2>1. m.of \subseteq 0..n /\ m.k \notin {"call", "result"}
    <3>1. t.task \in 0..n
      BY <1>1
    <3> QED
      BY <1>2, <3>1
  <2>2. Wellformed(h, n) /\ Len(h) = Len(t.base) + 1 /\ Known(t.base) \subseteq Known(h)
    BY <1>4, <2>1, AppendPlain
  <2>3. OwnWork(h, t.task, t.att + 1)
    BY <1>1, <1>2, <1>4, FreshIsOwn
  <2> QED
    BY <2>2, <2>3
<1>6. Len(t.base) \in Nat /\ h \in Seq(Messages)
  BY <1>5, LenProperties DEF Wellformed
<1>7. PICK u : u = NewAttempt(t)
  OBVIOUS
<1>8. u = [t EXCEPT !.pc = "turn", !.hist = h, !.dropped = {}, !.att = @ + 1, !.i = 0, !.fails = 0, !.errors = FALSE]
  BY <1>3, <1>7 DEF NewAttempt
<1>9. /\ u.pc = "turn" /\ u.task = t.task /\ u.base = t.base /\ u.hist = h /\ u.seen = t.seen /\ u.dropped = {}
      /\ u.att = t.att + 1 /\ u.i = 0
  BY <1>8 DEF TermRecords
<1>10. u \in TermRecords
  BY <1>1, <1>6, <1>8 DEF TermRecords
<1>11. HasLoaded(u, n)
  BY <1>5, <1>9 DEF HasLoaded
<1>12. InTurn(u, n)
  BY <1>9 DEF InTurn
<1>13. Len(u.hist) <= MaxMessages + 3 /\ ~(u.i > 0)
  BY <1>5, <1>6, <1>9, ConvConstants
<1>14. Proper(u, n)
  BY <1>5, <1>9, <1>11, <1>12, <1>13 DEF Proper
<1> QED
  BY <1>7, <1>10, <1>14

\* A turn is over: what it has is saved.
LEMMA CompletesProper ==
  ASSUME ConvInv, NEW p \in Terms, term[p].pc \in {"turn", "asked"}, Len(term[p].hist) <= MaxMessages + 2, Completes(p)
  PROVE  ConvInv'
<1> DEFINE t == term[p]
           u == [t EXCEPT !.pc = "saving"]
<1>1. t \in TermRecords /\ Proper(t, given) /\ given \in 0..Given
  BY DEF ConvInv
<1>2. term' = [term EXCEPT ![p] = u] /\ UNCHANGED <<history, given>>
  BY DEF Completes
<1>3. /\ u \in TermRecords
      /\ u.pc = "saving" /\ u.base = t.base /\ u.hist = t.hist /\ u.seen = t.seen /\ u.dropped = t.dropped
  BY <1>1 DEF TermRecords
<1>4. HasLoaded(t, given) /\ Wellformed(t.hist, given) /\ Len(t.hist) <= MaxMessages + 2
  BY <1>1 DEF Proper
<1> HIDE DEF t, u
<1>5. Proper(u, given)
  BY <1>3, <1>4 DEF Proper, HasLoaded
<1> QED
  BY <1>1, <1>2, <1>3, <1>5, TermMoves

LEMMA NextModelProper ==
  ASSUME ConvInv, NEW p \in Terms, term[p].pc \in {"turn", "asked", "tools"}, NextModel(p)
  PROVE  ConvInv'
<1> DEFINE t == term[p]
<1>1. t \in TermRecords /\ Proper(t, given) /\ given \in 0..Given /\ given \in Nat
  BY ConvConstants DEF ConvInv
<1>2. HasLoaded(t, given) /\ InTurn(t, given)
  BY <1>1 DEF Proper
<1>3. NewAttempt(t) \in TermRecords /\ Proper(NewAttempt(t), given)
  BY <1>1, <1>2, NewAttemptProper DEF HasLoaded
<1>4. term' = [term EXCEPT ![p] = NewAttempt(t)] /\ UNCHANGED <<history, given>>
  BY DEF NextModel
<1> QED
  BY <1>1, <1>3, <1>4, TermMoves

LEMMA IdleIsProper ==
  ASSUME NEW n \in Nat
  PROVE  NoCommand \in TermRecords /\ Proper(NoCommand, n)
<1>1. <<>> \in Seq(Messages) /\ {} \in SUBSET Nat
  OBVIOUS
<1>2. NoCommand.pc = "idle"
  BY DEF NoCommand
<1> QED
  BY <1>1, <1>2 DEF NoCommand, TermRecords, Proper

LEMMA StartTurnProper ==
  ASSUME ConvInv, NEW p \in Terms, StartTurn(p)
  PROVE  ConvInv'
<1>1. /\ given \in 0..Given /\ given \in Nat /\ given' = given + 1 /\ given' \in 0..Given
      /\ Wellformed(history, given) /\ Len(history) <= MaxMessages + 2
  BY ConvConstants DEF ConvInv, StartTurn
<1>2. history \in Seq(Messages) /\ Known(history) \in SUBSET Nat
  <2>1. Known(history) \subseteq 0..given
    BY <1>1, KnownInBound
  <2> QED
    BY <1>1, <2>1 DEF Wellformed
<1>3. PICK k \in Nat : k = given + 1
  BY <1>1
<1>4. PICK t : t = [NoCommand EXCEPT !.task = k, !.base = history, !.hist = history, !.seen = Known(history)]
  OBVIOUS
<1>5. t \in TermRecords /\ t.task = k /\ t.base = history /\ t.seen = Known(history)
  <2>1. NoCommand \in TermRecords
    BY <1>1, IdleIsProper
  <2> QED
    BY <1>2, <1>4, <2>1 DEF TermRecords
<1>6. term' = [term EXCEPT ![p] = NewAttempt(t)] /\ UNCHANGED history
  BY <1>3, <1>4 DEF StartTurn, SavedMessages
<1>7. InTurn(t, given') /\ Wellformed(t.base, given')
  <2>1. t.task \in 1..given' /\ t.task - 1 = given /\ given' \in Nat /\ given <= given'
    BY <1>1, <1>3, <1>5
  <2> QED
    BY <1>1, <1>5, <2>1, MoreGiven DEF InTurn
<1>8. given' \in Nat /\ Len(t.base) <= MaxMessages + 2 /\ t.seen \subseteq Known(t.base)
  BY <1>1, <1>5
<1>9. NewAttempt(t) \in TermRecords /\ Proper(NewAttempt(t), given')
  BY <1>5, <1>7, <1>8, NewAttemptProper
<1> QED
  BY <1>1, <1>6, <1>9, TermMoves

LEMMA BeforeModelProper ==
  ASSUME ConvInv, NEW p \in Terms, NEW add \in 0..Notes, NEW heavy \in BOOLEAN, NEW works \in BOOLEAN,
         BeforeModel(p, add, heavy, works)
  PROVE  ConvInv'
<1>1. PICK t \in TermRecords : t = term[p]
  BY DEF ConvInv
<1>2. Proper(t, given) /\ given \in 0..Given /\ given \in Nat /\ add \in Nat
  BY <1>1, ConvConstants DEF ConvInv
<1>3. PICK noted : noted = Noted(t.hist, add)
  OBVIOUS
<1>4. PICK h : h = IF TooLong(noted, heavy) THEN Summarised(noted, works) ELSE noted
  OBVIOUS
<1>5. t.pc = "turn" /\ UNCHANGED <<history, given>>
  BY <1>1 DEF BeforeModel
<1>6. PICK lost : lost = t.dropped \cup (Known(noted) \ Known(h))
  OBVIOUS
<1>7. term' = [term EXCEPT ![p].pc = "asked", ![p].hist = h, ![p].dropped = lost]
  BY <1>1, <1>3, <1>4, <1>6 DEF BeforeModel
<1>8. /\ HasLoaded(t, given) /\ InTurn(t, given) /\ Wellformed(t.hist, given) /\ OwnWork(t.hist, t.task, t.att)
      /\ t.task \in Nat /\ t.att \in Nat
  BY <1>2, <1>5 DEF Proper, TermRecords
<1>9. /\ Wellformed(noted, given) /\ OwnWork(noted, t.task, t.att) /\ Known(t.hist) \subseteq Known(noted)
      /\ Len(noted) \in Nat
  BY <1>2, <1>3, <1>8, NotesKeep, LenProperties DEF Wellformed
<1>10. Wellformed(h, given) /\ OwnWork(h, t.task, t.att) /\ Len(h) <= MaxMessages
  <2>1. CASE TooLong(noted, heavy)
    <3>1. h = Summarised(noted, works)
      BY <1>4, <2>1
    <3>2. /\ Wellformed(h, given) /\ OwnWork(h, t.task, t.att)
          /\ Len(noted) > KeepRecent => Len(h) = KeepRecent + 1
          /\ ~(Len(noted) > KeepRecent) => Len(h) = Len(noted) + 1
      BY <1>2, <1>9, <3>1, SummaryKeeps
    <3>3. Len(h) <= MaxMessages
      BY <1>9, <3>2, ConvConstants
    <3> QED
      BY <3>2, <3>3
  <2>2. CASE ~TooLong(noted, heavy)
    <3>1. h = noted /\ ~(Len(noted) > MaxMessages)
      BY <1>4, <2>2 DEF TooLong
    <3>2. Len(noted) <= MaxMessages
      BY <1>9, <3>1, ConvConstants
    <3> QED
      BY <1>9, <3>1, <3>2
  <2> QED
    BY <2>1, <2>2
<1>11. Known(noted) \subseteq Nat
  BY <1>2, <1>9, KnownInBound
<1>12. PICK u : u = [t EXCEPT !.pc = "asked", !.hist = h, !.dropped = lost]
  OBVIOUS
<1>13. term' = [term EXCEPT ![p] = u]
  BY <1>1, <1>7, <1>12 DEF ConvInv
<1>14. lost \in SUBSET Nat /\ h \in Seq(Messages)
  BY <1>6, <1>10, <1>11 DEF TermRecords, Wellformed
<1>15. /\ u \in TermRecords
       /\ u.pc = "asked" /\ u.task = t.task /\ u.base = t.base /\ u.hist = h /\ u.seen = t.seen /\ u.dropped = lost
       /\ u.att = t.att
  BY <1>12, <1>14 DEF TermRecords
<1>16. HasLoaded(u, given) /\ InTurn(u, given)
  <2>1. t.seen \subseteq Known(h) \cup lost
    BY <1>6, <1>8, <1>9 DEF HasLoaded
  <2> QED
    BY <1>8, <1>15, <2>1 DEF HasLoaded, InTurn
<1>17. Proper(u, given)
  BY <1>10, <1>15, <1>16 DEF Proper
<1> QED
  BY <1>2, <1>5, <1>13, <1>15, <1>17, TermMoves

\* The call and its result.
LEMMA RoundMessages ==
  ASSUME NEW t \in TermRecords
  PROVE  /\ Msg("call", {t.task}, t.att, t.i) \in Messages /\ Msg("result", {t.task}, t.att, t.i) \in Messages
         /\ AnswersCall(Msg("call", {t.task}, t.att, t.i), Msg("result", {t.task}, t.att, t.i))
         /\ \A kind \in {"call", "result"} : /\ Msg(kind, {t.task}, t.att, t.i).k = kind
                                           /\ Msg(kind, {t.task}, t.att, t.i).of = {t.task}
                                           /\ Msg(kind, {t.task}, t.att, t.i).att = t.att
<1>1. {t.task} \in SUBSET Nat /\ t.att \in Nat /\ t.i \in Nat
  BY DEF TermRecords
<1> QED
  BY <1>1, MsgType DEF AnswersCall

LEMMA AsksToolsProper ==
  ASSUME ConvInv, NEW p \in Terms, AsksTools(p)
  PROVE  ConvInv'
<1>1. PICK t \in TermRecords : t = term[p]
  BY DEF ConvInv
<1>2. Proper(t, given) /\ given \in 0..Given /\ given \in Nat
  BY <1>1, ConvConstants DEF ConvInv
<1>3. PICK query : query = Msg("call", {t.task}, t.att, t.i)
  OBVIOUS
<1>4. PICK h : h = Append(t.hist, query)
  OBVIOUS
<1>5. t.pc = "asked" /\ UNCHANGED <<history, given>>
  BY <1>1 DEF AsksTools
<1>6. /\ HasLoaded(t, given) /\ InTurn(t, given) /\ Wellformed(t.hist, given) /\ OwnWork(t.hist, t.task, t.att)
      /\ Len(t.hist) <= MaxMessages
  BY <1>2, <1>5 DEF Proper
<1>7. PICK result : result = Msg("result", {t.task}, t.att, t.i)
  OBVIOUS
<1>8. query \in Messages /\ result \in Messages /\ AnswersCall(query, result) /\ query.of \subseteq 0..given
  <2>1. t.task \in 0..given
    BY <1>2, <1>6 DEF InTurn
  <2>2. query.of = {t.task}
    BY <1>3, RoundMessages
  <2> QED
    BY <1>3, <1>7, <2>1, <2>2, RoundMessages
<1>9. h \in Seq(Messages) /\ Known(t.hist) \subseteq Known(h)
  BY <1>2, <1>4, <1>6, <1>8, AppendRound
<1>10. PICK u : u = [t EXCEPT !.pc = "tools", !.fails = 0, !.hist = h]
  OBVIOUS
<1>11. term' = [term EXCEPT ![p].pc = "tools", ![p].fails = 0, ![p].hist = h]
  BY <1>1, <1>3, <1>4 DEF AsksTools
<1>12. term' = [term EXCEPT ![p] = u]
  BY <1>1, <1>10, <1>11 DEF ConvInv
<1>13. /\ u \in TermRecords
       /\ u.pc = "tools" /\ u.task = t.task /\ u.base = t.base /\ u.hist = h /\ u.seen = t.seen /\ u.dropped = t.dropped
       /\ u.att = t.att /\ u.i = t.i
  BY <1>9, <1>10 DEF TermRecords
<1>14. HasLoaded(u, given) /\ InTurn(u, given)
  BY <1>6, <1>9, <1>13 DEF HasLoaded, InTurn
<1>15. /\ u.hist = Append(t.hist, Msg("call", {u.task}, u.att, u.i))
       /\ Wellformed(t.hist, given) /\ Len(t.hist) <= MaxMessages /\ OwnWork(t.hist, u.task, u.att)
  BY <1>3, <1>4, <1>6, <1>13
<1>16. Proper(u, given)
  BY <1>13, <1>14, <1>15 DEF Proper
<1> QED
  BY <1>2, <1>5, <1>12, <1>13, <1>16, TermMoves

LEMMA ResultsProper ==
  ASSUME ConvInv, NEW p \in Terms, NEW bad \in BOOLEAN, Results(p, bad)
  PROVE  ConvInv'
<1>1. PICK t \in TermRecords : t = term[p]
  BY DEF ConvInv
<1>2. Proper(t, given) /\ given \in 0..Given /\ given \in Nat
  BY <1>1, ConvConstants DEF ConvInv
<1>3. t.pc = "tools" /\ UNCHANGED <<history, given>>
  BY <1>1 DEF Results
<1>4. HasLoaded(t, given) /\ InTurn(t, given)
  BY <1>2, <1>3 DEF Proper
<1>5. PICK query : query = Msg("call", {t.task}, t.att, t.i)
  OBVIOUS
<1>6. PICK result : result = Msg("result", {t.task}, t.att, t.i)
  OBVIOUS
<1>7. PICK g : t.hist = Append(g, query) /\ Wellformed(g, given) /\ Len(g) <= MaxMessages /\ OwnWork(g, t.task, t.att)
  BY <1>2, <1>3, <1>5 DEF Proper
<1>8. PICK h : h = Append(t.hist, result)
  OBVIOUS
<1>9. /\ query \in Messages /\ result \in Messages /\ AnswersCall(query, result) /\ query.of \subseteq 0..given
      /\ query.k \in {"call", "result"} /\ result.k \in {"call", "result"} /\ query.att = t.att /\ result.att = t.att
  <2>1. t.task \in 0..given
    BY <1>2, <1>4 DEF InTurn
  <2>2. query.of = {t.task}
    BY <1>5, RoundMessages
  <2>3. query.k \in {"call", "result"} /\ result.k \in {"call", "result"} /\ query.att = t.att /\ result.att = t.att
    BY <1>5, <1>6, RoundMessages
  <2>4. query \in Messages /\ result \in Messages /\ AnswersCall(query, result)
    BY <1>5, <1>6, RoundMessages
  <2> QED
    BY <2>1, <2>2, <2>3, <2>4
<1>10. /\ Wellformed(h, given) /\ Len(h) = Len(g) + 2 /\ Known(t.hist) \subseteq Known(h)
       /\ t.hist \in Seq(Messages) /\ Len(g) \in Nat
  <2>1. given \in Nat /\ h = Append(Append(g, query), result) /\ t.hist = Append(g, query)
    BY <1>2, <1>7, <1>8
  <2>2. /\ Wellformed(Append(Append(g, query), result), given) /\ Len(Append(Append(g, query), result)) = Len(g) + 2
        /\ Append(g, query) \in Seq(Messages)
        /\ Known(Append(g, query)) \subseteq Known(Append(Append(g, query), result))
    BY <1>7, <1>9, <2>1, AppendRound
  <2>3. Len(g) \in Nat
    BY <1>7, LenProperties DEF Wellformed
  <2> QED
    BY <2>1, <2>2, <2>3
<1>11. OwnWork(h, t.task, t.att)
  <2>1. g \in Seq(Messages)
    BY <1>7 DEF Wellformed
  <2>2. OwnWork(t.hist, t.task, t.att)
    BY <1>7, <1>9, <2>1, AppendIsOwn
  <2> QED
    BY <1>8, <1>9, <1>10, <2>2, AppendIsOwn
<1>12. PICK e \in BOOLEAN : e = (t.errors \/ bad)
  OBVIOUS
<1>13. PICK k \in Nat : k = t.i + 1
  BY DEF TermRecords
<1>14. PICK u : u = [t EXCEPT !.pc = "turn", !.i = k, !.errors = e, !.hist = h]
  OBVIOUS
<1>15. term' = [term EXCEPT ![p].pc = "turn", ![p].i = k, ![p].errors = e, ![p].hist = h]
  BY <1>1, <1>6, <1>8, <1>12, <1>13 DEF Results
<1>16. term' = [term EXCEPT ![p] = u]
  BY <1>1, <1>15, <1>14 DEF ConvInv
<1>17. h \in Seq(Messages)
  BY <1>10 DEF Wellformed
<1>18. /\ u \in TermRecords
       /\ u.pc = "turn" /\ u.task = t.task /\ u.base = t.base /\ u.hist = h /\ u.seen = t.seen /\ u.dropped = t.dropped
       /\ u.att = t.att
  BY <1>17, <1>14 DEF TermRecords
<1>19. HasLoaded(u, given) /\ InTurn(u, given)
  BY <1>4, <1>10, <1>18 DEF HasLoaded, InTurn
<1>20. Len(h) <= MaxMessages + 2
  BY <1>7, <1>10, ConvConstants
<1>21. Len(h) <= MaxMessages + 3
  BY <1>7, <1>10, ConvConstants
<1>22. Proper(u, given)
  BY <1>10, <1>11, <1>18, <1>19, <1>20, <1>21 DEF Proper
<1> QED
  BY <1>2, <1>3, <1>16, <1>18, <1>22, TermMoves

\* The length of a history in the turn, where it may be saved.
LEMMA ShortEnough ==
  ASSUME ConvInv, NEW p \in Terms,
         term[p].pc = "asked" \/ (term[p].pc = "turn" /\ term[p].i = Iterations)
  PROVE  Len(term[p].hist) <= MaxMessages + 2
<1>1. PICK t \in TermRecords : t = term[p]
  BY DEF ConvInv
<1>2. Proper(t, given)
  BY <1>1 DEF ConvInv
<1>3. CASE t.pc = "asked"
  <2>1. Len(t.hist) <= MaxMessages /\ Len(t.hist) \in Nat
    BY <1>2, <1>3, LenProperties DEF Proper, Wellformed
  <2> QED
    BY <1>1, <2>1, ConvConstants
<1>4. CASE t.pc = "turn" /\ t.i = Iterations
  <2>1. t.i > 0
    BY <1>4, ConvConstants
  <2> QED
    BY <1>1, <1>2, <1>4, <2>1 DEF Proper
<1> QED
  BY <1>1, <1>3, <1>4

LEMMA AnswerProper ==
  ASSUME ConvInv, NEW p \in Terms, NEW retry \in BOOLEAN, Answer(p, retry)
  PROVE  ConvInv'
<1>1. term[p].pc = "asked" /\ (NextModel(p) \/ Completes(p))
  BY DEF Answer
<1> QED
  BY <1>1, ShortEnough, NextModelProper, CompletesProper

LEMMA OutOfIterationsProper ==
  ASSUME ConvInv, NEW p \in Terms, NEW verified \in BOOLEAN, OutOfIterations(p, verified)
  PROVE  ConvInv'
<1>1. term[p].pc = "turn" /\ term[p].i = Iterations /\ (NextModel(p) \/ Completes(p))
  BY DEF OutOfIterations
<1> QED
  BY <1>1, ShortEnough, NextModelProper, CompletesProper

LEMMA FailsProper ==
  ASSUME ConvInv, NEW p \in Terms, NEW verified \in BOOLEAN, Fails(p, verified)
  PROVE  ConvInv'
<1>1. PICK t \in TermRecords : t = term[p]
  BY DEF ConvInv
<1>2. Proper(t, given) /\ given \in 0..Given /\ given \in Nat
  BY <1>1, ConvConstants DEF ConvInv
<1>3. t.pc = "asked"
  BY <1>1 DEF Fails
<1>4. CASE NextModel(p) \/ Completes(p)
  BY <1>1, <1>3, <1>4, ShortEnough, NextModelProper, CompletesProper
<1>5. CASE /\ term' = [term EXCEPT ![p].pc = "turn", ![p].fails = @ + 1, ![p].i = @ + 1]
           /\ UNCHANGED <<history, given>>
  <2>1. PICK k \in Nat, l \in Nat : k = t.i + 1 /\ l = t.fails + 1
    BY DEF TermRecords
  <2>2. PICK u : u = [t EXCEPT !.pc = "turn", !.fails = l, !.i = k]
    OBVIOUS
  <2>3. term' = [term EXCEPT ![p] = u]
    BY <1>1, <1>5, <2>2, <2>1 DEF ConvInv
  <2>4. /\ u \in TermRecords
        /\ u.pc = "turn" /\ u.task = t.task /\ u.base = t.base /\ u.hist = t.hist /\ u.seen = t.seen /\ u.dropped = t.dropped
        /\ u.att = t.att
    BY <2>2 DEF TermRecords
  <2>5. /\ HasLoaded(t, given) /\ InTurn(t, given) /\ Wellformed(t.hist, given) /\ OwnWork(t.hist, t.task, t.att)
        /\ Len(t.hist) <= MaxMessages /\ Len(t.hist) \in Nat
    BY <1>2, <1>3, LenProperties DEF Proper, Wellformed
  <2>6. HasLoaded(u, given) /\ InTurn(u, given)
    BY <2>4, <2>5 DEF HasLoaded, InTurn
  <2>7. Len(t.hist) <= MaxMessages + 3 /\ Len(t.hist) <= MaxMessages + 2
    BY <2>5, ConvConstants
  <2>8. Proper(u, given)
    BY <2>4, <2>5, <2>6, <2>7 DEF Proper
  <2> QED
    BY <1>2, <1>5, <2>3, <2>4, <2>8, TermMoves
<1> QED
  BY <1>4, <1>5 DEF Fails

LEMMA RaisesProper ==
  ASSUME ConvInv, NEW p \in Terms, NEW transient \in BOOLEAN, Raises(p, transient)
  PROVE  ConvInv'
<1>1. PICK t \in TermRecords : t = term[p]
  BY DEF ConvInv
<1>2. Proper(t, given) /\ given \in 0..Given /\ given \in Nat
  BY <1>1, ConvConstants DEF ConvInv
<1>3. t.pc \in {"turn", "asked", "tools"}
  BY <1>1 DEF Raises
<1>4. CASE NextModel(p)
  BY <1>1, <1>3, <1>4, NextModelProper
<1>5. CASE /\ term' = [term EXCEPT ![p].pc = "saving", ![p].hist = AfterError(term[p]), ![p].dropped = {}]
           /\ UNCHANGED <<history, given>>
  <2>1. PICK u : u = [t EXCEPT !.pc = "saving", !.hist = t.base, !.dropped = {}]
    OBVIOUS
  <2>2. term' = [term EXCEPT ![p] = u]
    BY <1>1, <1>5, <2>1 DEF ConvInv, AfterError
  <2>3. /\ u \in TermRecords
        /\ u.pc = "saving" /\ u.base = t.base /\ u.hist = t.base /\ u.seen = t.seen
    BY <2>1 DEF TermRecords
  <2>4. HasLoaded(t, given)
    BY <1>2, <1>3 DEF Proper
  <2>5. Proper(u, given)
    BY <2>3, <2>4 DEF Proper, HasLoaded
  <2> QED
    BY <1>2, <1>5, <2>2, <2>3, <2>5, TermMoves
<1> QED
  BY <1>4, <1>5 DEF Raises

\* /compact has nothing to cut.
LEMMA EditProper ==
  ASSUME ConvInv, NEW p \in Terms, NEW h, h \in {<<>>, Trimmed(history)}, Edit(p, h)
  PROVE  ConvInv'
<1>1. /\ given \in 0..Given /\ given \in Nat /\ given' = given + 1 /\ given' \in 0..Given /\ UNCHANGED history
      /\ Wellformed(history, given) /\ Len(history) <= MaxMessages + 2
  BY ConvConstants DEF ConvInv, Edit
<1>2. history \in Seq(Messages) /\ Len(history) \in Nat
  BY <1>1, LenProperties DEF Wellformed
<1>3. h = <<>> \/ h = history
  <2>1. ~(Len(history) > TrimAbove)
    BY <1>1, <1>2, ConvConstants
  <2> QED
    BY <2>1 DEF Trimmed
<1>4. Wellformed(h, given') /\ Wellformed(history, given') /\ Len(h) <= MaxMessages + 2
  <2>1. Wellformed(<<>>, given') /\ Len(<<>>) <= MaxMessages + 2
    BY ConvConstants DEF Wellformed, Orderly
  <2>2. given <= given' /\ given' \in Nat
    BY <1>1
  <2> QED
    BY <1>1, <1>3, <2>1, <2>2, MoreGiven
<1>5. Known(history) \in SUBSET Nat
  <2>1. Known(history) \subseteq 0..given
    BY <1>1, KnownInBound
  <2> QED
    BY <1>1, <2>1
<1>6. PICK u : u = [NoCommand EXCEPT !.pc = "saving", !.hist = h, !.base = history,
                     !.seen = Known(history), !.dropped = Known(history) \ Known(h)]
  OBVIOUS
<1>7. NoCommand \in TermRecords
  BY <1>1, IdleIsProper
<1>8. h \in Seq(Messages)
  BY <1>4 DEF Wellformed
<1>9. /\ u \in TermRecords
      /\ u.pc = "saving" /\ u.base = history /\ u.hist = h /\ u.seen = Known(history) /\ u.dropped = Known(history) \ Known(h)
  BY <1>2, <1>5, <1>6, <1>7, <1>8 DEF TermRecords
<1>10. Proper(u, given')
  BY <1>1, <1>4, <1>9 DEF Proper, HasLoaded
<1>11. term' = [term EXCEPT ![p] = u]
  BY <1>6 DEF Edit
<1> QED
  BY <1>1, <1>9, <1>10, <1>11, TermMoves

LEMMA SaveProper ==
  ASSUME ConvInv, NEW p \in Terms, Save(p)
  PROVE  ConvInv'
<1>1. /\ given \in 0..Given /\ given \in Nat /\ given' = given /\ term \in [Terms -> TermRecords]
      /\ \A q \in Terms : Proper(term[q], given)
  BY ConvConstants DEF ConvInv, Save
<1>2. Wellformed(history', given) /\ Len(history') <= MaxMessages + 2
  BY <1>1 DEF Save, Proper
<1>3. term' = [term EXCEPT ![p] = NoCommand]
  BY DEF Save
<1>4. NoCommand \in TermRecords /\ Proper(NoCommand, given)
  BY <1>1, IdleIsProper
<1>5. term' \in [Terms -> TermRecords] /\ \A q \in Terms : Proper(term'[q], given)
  BY <1>1, <1>3, <1>4
<1> QED
  BY <1>1, <1>2, <1>5 DEF ConvInv

LEMMA KilledProper ==
  ASSUME ConvInv, NEW p \in Terms, Killed(p)
  PROVE  ConvInv'
<1>1. given \in 0..Given /\ given \in Nat /\ UNCHANGED <<history, given>> /\ term' = [term EXCEPT ![p] = NoCommand]
  BY ConvConstants DEF ConvInv, Killed
<1>2. NoCommand \in TermRecords /\ Proper(NoCommand, given)
  BY <1>1, IdleIsProper
<1> QED
  BY <1>1, <1>2, TermMoves

LEMMA ConvStep == ConvInv /\ [ConvNext]_convVars => ConvInv'
<1> SUFFICES ASSUME ConvInv, [ConvNext]_convVars PROVE ConvInv'
  OBVIOUS
<1>1. ASSUME NEW p \in Terms, StartTurn(p) \/ AsksTools(p) \/ Save(p) \/ Killed(p)
      PROVE  ConvInv'
  BY <1>1, StartTurnProper, AsksToolsProper, SaveProper, KilledProper
<1>2. ASSUME NEW p \in Terms, NEW add \in 0..Notes, NEW heavy \in BOOLEAN, NEW works \in BOOLEAN,
             BeforeModel(p, add, heavy, works)
      PROVE  ConvInv'
  BY <1>2, BeforeModelProper
<1>3. ASSUME NEW p \in Terms, NEW b \in BOOLEAN,
             Results(p, b) \/ Answer(p, b) \/ Fails(p, b) \/ Raises(p, b) \/ OutOfIterations(p, b)
      PROVE  ConvInv'
  BY <1>3, ResultsProper, AnswerProper, FailsProper, RaisesProper, OutOfIterationsProper
<1>4. ASSUME NEW p \in Terms, Edit(p, <<>>) \/ Edit(p, Trimmed(history))
      PROVE  ConvInv'
  BY <1>4, EditProper
<1>5. CASE UNCHANGED convVars
  BY <1>5 DEF convVars, ConvInv, Wellformed, Proper, HasLoaded, InTurn
<1> QED
  BY <1>1, <1>2, <1>3, <1>4, <1>5 DEF ConvNext

LEMMA ConvStart == ConvInit => ConvInv
<1> SUFFICES ASSUME ConvInit PROVE ConvInv
  OBVIOUS
<1>1. /\ history \in Seq(Messages) /\ Len(history) <= MaxMessages + 2 /\ Orderly(history)
      /\ \A j \in DOMAIN history : history[j].of \subseteq {0}
      /\ given = 0
  BY ConversationAssumption DEF ConvInit
<1>2. Wellformed(history, 0)
  BY <1>1 DEF Wellformed
<1>3. NoCommand \in TermRecords /\ Proper(NoCommand, 0)
  BY IdleIsProper
<1>4. term \in [Terms -> TermRecords] /\ \A p \in Terms : Proper(term[p], 0)
  BY <1>3 DEF ConvInit
<1>5. 0 \in 0..Given
  BY ConvConstants
<1> QED
  BY <1>1, <1>2, <1>4, <1>5 DEF ConvInv

\* What a terminal sends, and what it saves, is sound.
LEMMA ConvInvIsSound == ConvInv => HistoryIsSound
<1> SUFFICES ASSUME ConvInv PROVE HistoryIsSound
  OBVIOUS
<1>1. HistoryIsBounded
  BY DEF ConvInv, HistoryIsBounded
<1>2. OrphansOnlyAfterSummary
  <2>1. Orderly(history)
    BY DEF ConvInv, Wellformed
  <2>2. ASSUME NEW p \in Terms, term[p].pc = "asked" PROVE Orderly(term[p].hist)
    BY <2>2 DEF ConvInv, Proper, Wellformed
  <2> QED
    BY <2>1, <2>2 DEF OrphansOnlyAfterSummary, Requests
<1>3. CleanAttempt
  <2> SUFFICES ASSUME NEW p \in Terms, term[p].pc = "asked"
               PROVE  /\ Cardinality({j \in DOMAIN term[p].hist : term[p].hist[j].k = "task" /\ term[p].task \in term[p].hist[j].of}) <= 1
                      /\ \A j \in DOMAIN term[p].hist : term[p].hist[j].k \in {"call", "result"} /\ term[p].task \in term[p].hist[j].of
                                                         => term[p].hist[j].att = term[p].att
    BY DEF CleanAttempt
  <2>1. OwnWork(term[p].hist, term[p].task, term[p].att)
    BY DEF ConvInv, Proper
  <2> DEFINE J == {j \in DOMAIN term[p].hist : term[p].hist[j].k = "task" /\ term[p].task \in term[p].hist[j].of}
  <2>2. \A j, l \in J : j = l
    BY <2>1 DEF OwnWork
  <2>3. Cardinality(J) <= 1
    <3>1. CASE J = {}
      BY <3>1, FS_EmptySet
    <3>2. CASE J # {}
      <4>1. PICK j \in J : TRUE
        BY <3>2
      <4>2. J = {j}
        BY <2>2, <4>1
      <4>3. Cardinality({j}) = 1
        BY FS_Singleton
      <4> HIDE DEF J
      <4> QED
        BY <4>2, <4>3
    <3> QED
      BY <3>1, <3>2
  <2> QED
    BY <2>1, <2>3 DEF OwnWork
<1> QED
  BY <1>1, <1>2, <1>3 DEF HistoryIsSound

LEMMA ConvReaches == ConvSpec => []ConvInv
BY ConvStart, ConvStep, PTL DEF ConvSpec

\* However terminals, models, summaries, errors and kills interleave: no request and no saved
\* history holds a tool call without its result, a result without its call stands
\* only behind a summary, an attempt sees its task once and no work of another
\* attempt, and the file stays within one round of the bound.
THEOREM HistoryHolds == ConvSpec => []HistoryIsSound
BY ConvReaches, ConvInvIsSound, PTL

\* A save forgets a task only if the command dropped it or had not seen it.
LEMMA SaveExplains ==
  ASSUME ConvInv, [ConvNext]_convVars, NEW p \in Terms, term[p].pc = "saving", term'[p].pc = "idle",
         NEW job \in Known(history) \ Known(history')
  PROVE  job \in term[p].dropped \/ job \notin term[p].seen
<1> USE DEF ConvInv
<1>1. ASSUME UNCHANGED history PROVE FALSE
  BY <1>1
<1>2. ASSUME NEW q \in Terms, Save(q) PROVE job \in term[p].dropped \/ job \notin term[p].seen
  <2>1. CASE q = p
    <3>1. history' = term[p].hist
      BY <1>2, <2>1 DEF Save
    <3>2. term[p].seen \subseteq Known(term[p].hist) \cup term[p].dropped
      BY DEF Proper, HasLoaded
    <3> QED
      BY <3>1, <3>2
  <2>2. CASE q # p
    <3>1. term'[p] = term[p]
      BY <1>2, <2>2 DEF Save
    <3> QED
      BY <3>1
  <2> QED
    BY <2>1, <2>2
<1>3. (\E q \in Terms : Save(q)) \/ UNCHANGED history
  <2>1. ASSUME NEW q \in Terms, StartTurn(q) \/ AsksTools(q) \/ Killed(q) PROVE UNCHANGED history
    BY <2>1 DEF StartTurn, AsksTools, Killed
  <2>2. ASSUME NEW q \in Terms, NEW add, NEW heavy, NEW works, BeforeModel(q, add, heavy, works) PROVE UNCHANGED history
    BY <2>2 DEF BeforeModel
  <2>3. ASSUME NEW q \in Terms, NEW b \in BOOLEAN,
               Results(q, b) \/ Answer(q, b) \/ Fails(q, b) \/ Raises(q, b) \/ OutOfIterations(q, b)
        PROVE  UNCHANGED history
    BY <2>3 DEF Results, Answer, Fails, Raises, OutOfIterations, NextModel, Completes
  <2>4. ASSUME NEW q \in Terms, NEW h, Edit(q, h) PROVE UNCHANGED history
    BY <2>4 DEF Edit
  <2>5. UNCHANGED convVars => UNCHANGED history
    BY DEF convVars
  <2> QED
    BY <2>1, <2>2, <2>3, <2>4, <2>5 DEF ConvNext
<1> QED
  BY <1>1, <1>2, <1>3

\* Also when two terminals save over each other: what is lost was cut or cleared by the
\* command, was in a summary that failed, or was saved after the command had loaded.
THEOREM HistoryLossHolds == ConvSpec => HistoryLossIsExplained
<1>1. ConvInv /\ [ConvNext]_convVars =>
        [\A p \in Terms : (term[p].pc = "saving" /\ term'[p].pc = "idle") =>
           \A t \in Known(history) \ Known(history') : t \in term[p].dropped \/ t \notin term[p].seen]_convVars
  BY SaveExplains
<1> QED
  BY <1>1, ConvReaches, PTL DEF ConvSpec, HistoryLossIsExplained

-----------------------------------------------------------------------------
(* ModelChoice.                                                             *)

\* There is a first of any places.
LEMMA FirstIsThere ==
  ASSUME NEW places \in SUBSET DOMAIN Providers, places # {}
  PROVE  First(places) \in places
<1>1. DOMAIN Providers \subseteq Nat
  BY ModelChoiceAssumption
<1>2. \E i \in places : \A j \in places : ~(<<j, i>> \in OpToRel(<, Nat))
  BY <1>1, NatLessThanWellFounded, WFMin, Zenon
<1>3. \A i, j \in Nat : j < i => <<j, i>> \in OpToRel(<, Nat)
  BY DEF OpToRel
<1>4. \E i \in places : \A j \in places : ~(j < i)
  BY <1>1, <1>2, <1>3, Zenon
<1>5. \E i \in places : \A j \in places : i <= j
  BY <1>1, <1>4
<1> QED
  BY <1>5 DEF First

\* A provider with a key, a base_url and the filled-in model is one the client
\* finds, or finds another with base_url and key before it.
LEMMA PathOrExcuse ==
  ASSUME NEW m, Available(m)
  PROVE  \/ Resolve(m) # 0 /\ HasKey(Resolve(m)) /\ Filled(Resolve(m), m)
         \/ \E i \in Declaring(m) : HasKey(i) /\ ~HasUrl(i)
         \/ \E i \in Declaring(m) : HasKey(i) /\ ~Filled(i, m)
<1> DEFINE url == {i \in Declaring(m) : HasUrl(i)}
           withKey == {i \in url : HasKey(i)}
<1>1. PICK i \in Declaring(m) : HasKey(i) /\ Filled(i, m)
  BY DEF Available
<1>2. SUFFICES ASSUME HasUrl(i), \A j \in Declaring(m) : HasKey(j) => Filled(j, m)
               PROVE  Resolve(m) # 0 /\ HasKey(Resolve(m)) /\ Filled(Resolve(m), m)
  BY <1>1
<1>3. i \in withKey
  BY <1>1, <1>2
<1>4. withKey \in SUBSET DOMAIN Providers
  BY DEF Declaring
<1>5. First(withKey) \in withKey
  BY <1>3, <1>4, FirstIsThere
<1>6. Resolve(m) = First(withKey)
  BY <1>3 DEF Resolve
<1>7. First(withKey) # 0
  BY <1>4, <1>5, ModelChoiceAssumption
<1> QED
  BY <1>2, <1>5, <1>6, <1>7

\* A path that was chosen is the one the catalog gives.
ChoiceInv == /\ DOMAIN choice = {"pc", "prov", "model", "path"}
             /\ choice.pc = "done" => choice.path = UpgradePath(choice.model)

\* The path depends on the merged files, the chain and the environment only.
LEMMA SamePath ==
  ASSUME choice.prov' = choice.prov, env' = env, cfgs' = cfgs
  PROVE  \A m : UpgradePath(m)' = UpgradePath(m)
<1> SUFFICES ASSUME NEW m PROVE UpgradePath(m)' = UpgradePath(m)
  OBVIOUS
<1>1. Candidates(m)' = Candidates(m)
  BY DEF Candidates, First
<1>2. ASSUME NEW c PROVE Available(c)' <=> Available(c)
  <2>1. Declaring(c)' = Declaring(c)
    BY DEF Declaring
  <2> QED
    BY <2>1 DEF Available, HasKey, Filled
<1> QED
  BY <1>1, <1>2 DEF UpgradePath

LEMMA ChoiceKept == ASSUME ChoiceInv, [ChoiceNext]_choiceVars PROVE ChoiceInv'
<1>1. CASE LoadModels
  BY <1>1 DEF LoadModels, ChoiceInv
<1>2. CASE Hydrate
  BY <1>2 DEF Hydrate, ChoiceInv
<1>3. CASE Choose
  <2>1. choice'.path = UpgradePath(choice.model) /\ choice'.model = choice.model
        /\ choice'.prov = choice.prov /\ env' = env /\ cfgs' = cfgs /\ DOMAIN choice' = DOMAIN choice
    BY <1>3 DEF Choose, ChoiceInv
  <2>2. UpgradePath(choice.model)' = UpgradePath(choice.model)
    <3>1. \A m : UpgradePath(m)' = UpgradePath(m)
      BY <2>1, SamePath
    <3> QED
      BY <3>1, <2>1
  <2> QED
    BY <2>1, <2>2 DEF ChoiceInv
<1>4. CASE UNCHANGED choiceVars
  <2>1. choice' = choice /\ \A m : UpgradePath(m)' = UpgradePath(m)
    BY <1>4, SamePath DEF choiceVars
  <2> QED
    BY <2>1 DEF ChoiceInv
<1> QED
  BY <1>1, <1>2, <1>3, <1>4 DEF ChoiceNext

\* A model of the upgrade path can be called, but for the two differences
\* between the searches of catalog and client.
THEOREM PathHolds == ChoiceSpec => []PathIsCallable
<1>1. ChoiceInit => ChoiceInv
  <2>1. SUFFICES ASSUME NEW m, choice = [pc |-> "load", prov |-> <<>>, model |-> m, path |-> {}]
                 PROVE  ChoiceInv
    BY DEF ChoiceInit
  <2>2. choice.pc = "load" /\ DOMAIN choice = {"pc", "prov", "model", "path"}
    BY <2>1
  <2> QED
    BY <2>2 DEF ChoiceInv
<1>2. ChoiceInv => PathIsCallable
  <2>1. SUFFICES ASSUME ChoiceInv, choice.pc = "done", NEW m \in choice.path, Available(m)
                 PROVE  \/ Resolve(m) # 0 /\ HasKey(Resolve(m)) /\ Filled(Resolve(m), m)
                        \/ \E i \in Declaring(m) : HasKey(i) /\ ~HasUrl(i)
                        \/ \E i \in Declaring(m) : HasKey(i) /\ ~Filled(i, m)
    BY DEF ChoiceInv, PathIsCallable, UpgradePath
  <2> QED
    BY <2>1, PathOrExcuse
<1> QED
  BY <1>1, <1>2, ChoiceKept, PTL DEF ChoiceSpec
-----------------------------------------------------------------------------
(* ModelStream.                                                             *)

CallEntries == [i : Nat, id : Asked, got : Seq(Asked)]

StreamTypes ==
  /\ sent \in [fmt : Formats, text : BOOLEAN, calls : Seq(ToSet(CallIds)), indexed : BOOLEAN]
  /\ at \in [text : BOOLEAN, calls : Nat, pieces : 0..Parts, stop : BOOLEAN,
             end : {"open", "whole", "cut", "error", "failed"}, err : BOOLEAN]
  /\ acc \in [text : BOOLEAN, calls : Seq(CallEntries), stop : BOOLEAN, error : BOOLEAN]
  /\ at.calls <= Len(sent.calls)

\* What has arrived, and how it ended, as the client knows it.
Arrived ==
  /\ acc.stop = at.stop /\ acc.text = at.text /\ (at.text => sent.text)
  /\ at.stop => at.text = sent.text /\ at.pieces = Parts /\ at.calls = Len(sent.calls)
  /\ at.pieces < Parts => at.calls > 0
  /\ at.end = "whole" => at.stop
  /\ at.end \in {"cut", "error"} => ~at.stop
  /\ at.err => at.end = "error"
  /\ acc.error <=> at.end = "error" /\ sent.fmt \in Clis
  /\ sent.fmt = "json" /\ at.end = "open" => at.calls = 0 /\ at.pieces = Parts /\ ~at.stop /\ ~at.text

\* Each call has an index of its own.
Apart1 == \A i, j \in DOMAIN sent.calls : Index(i) = Index(j) => i = j

\* The client then has the calls that were opened, in order, and of each what
\* arrived of it.
Gathered ==
  Apart1 =>
    /\ Len(acc.calls) = at.calls
    /\ \A e \in 1..at.calls :
         /\ acc.calls[e].i = Index(e) /\ acc.calls[e].id = sent.calls[e]
         /\ Len(acc.calls[e].got) = IF e = at.calls THEN at.pieces ELSE Parts
         /\ \A k \in 1..Len(acc.calls[e].got) : acc.calls[e].got[k] = sent.calls[e]

\* What was handed on is what the client had when the stream had ended.
HandedOn ==
  \/ out = NoAnswer \/ out = [NoAnswer EXCEPT !.kind = "error"]
  \/ /\ out = [kind |-> "response", text |-> acc.text, calls |-> Assembled, stop |-> acc.stop]
     /\ at.end \in {"whole", "cut", "error"} /\ ~acc.error

StreamInv == StreamTypes /\ Arrived /\ Gathered /\ HandedOn

LEMMA StreamStarts == StreamInit => StreamInv
<1> SUFFICES ASSUME StreamInit PROVE StreamInv
  OBVIOUS
<1>1. PICK f \in Formats, t \in BOOLEAN, n \in 0..Len(CallIds), x \in BOOLEAN :
        sent = [fmt |-> f, text |-> t, calls |-> SubSeq(CallIds, 1, n), indexed |-> x]
  BY DEF StreamInit
<1>2. SubSeq(CallIds, 1, n) \in Seq(ToSet(CallIds))
  BY ModelStreamAssumption
<1>3. at = [text |-> FALSE, calls |-> 0, pieces |-> Parts, stop |-> FALSE, end |-> "open", err |-> FALSE]
      /\ acc = [text |-> FALSE, calls |-> <<>>, stop |-> FALSE, error |-> FALSE] /\ out = NoAnswer
  BY DEF StreamInit
<1>4. Len(sent.calls) \in Nat
  BY <1>1, <1>2
<1>5. StreamTypes
  BY <1>1, <1>2, <1>3, <1>4, ModelStreamAssumption DEF StreamTypes
<1>6. Arrived
  BY <1>3, ModelStreamAssumption DEF Arrived
<1>7. Gathered
  <2>1. Len(acc.calls) = 0 /\ at.calls = 0
    BY <1>3
  <2> QED
    BY <2>1 DEF Gathered
<1>8. HandedOn
  BY <1>3 DEF HandedOn
<1> QED
  BY <1>5, <1>6, <1>7, <1>8 DEF StreamInv

\* The calls of an answer are among its own.
LEMMA AskedFor ==
  ASSUME StreamTypes
  PROVE  /\ Len(sent.calls) \in Nat /\ DOMAIN sent.calls = 1..Len(sent.calls)
         /\ \A i \in 1..Len(sent.calls) : sent.calls[i] \in Asked
         /\ \A i \in Nat : Index(i) \in Nat
         /\ at.calls \in Nat /\ at.pieces \in 0..Parts /\ Parts \in Nat \ {0}
BY ModelStreamAssumption DEF StreamTypes, Asked, ToSet, Index

LEMMA EntryTypes ==
  ASSUME NEW x \in CallEntries, NEW a \in Asked
  PROVE  [x EXCEPT !.id = a] \in CallEntries /\ [x EXCEPT !.got = Append(@, a)] \in CallEntries
BY DEF CallEntries

LEMMA OfFunction ==
  ASSUME NEW S, NEW n \in Nat, NEW f \in [1..n -> S]
  PROVE  f \in Seq(S) /\ Len(f) = n
OBVIOUS

LEMMA OpenedTypes ==
  ASSUME StreamTypes, NEW c \in Seq(CallEntries), NEW i \in Nat, i \in 1..Len(sent.calls)
  PROVE  Opened(c, i) \in Seq(CallEntries) /\ Added(c, i) \in Seq(CallEntries) /\ Whole(i) \in CallEntries
<1>1. sent.calls[i] \in Asked /\ Index(i) \in Nat
  BY AskedFor
<1>a. Parts \in Nat
  BY AskedFor
<1>2. [i |-> Index(i), id |-> sent.calls[i], got |-> <<>>] \in CallEntries
  BY <1>1 DEF CallEntries
<1>3. Append(c, [i |-> Index(i), id |-> sent.calls[i], got |-> <<>>]) \in Seq(CallEntries)
  BY <1>2
<1>4. \A e \in DOMAIN c : c[e] \in CallEntries
  OBVIOUS
<1>5. \A e \in DOMAIN c : [c[e] EXCEPT !.id = sent.calls[i]] \in CallEntries
                        /\ [c[e] EXCEPT !.got = Append(@, sent.calls[i])] \in CallEntries
  BY <1>1, <1>4, EntryTypes
<1>6. DOMAIN c = 1..Len(c) /\ Len(c) \in Nat
  OBVIOUS
<1>7. [e \in DOMAIN c |-> IF e \in Entry(c, Index(i)) THEN [c[e] EXCEPT !.id = sent.calls[i]] ELSE c[e]]
        \in [1..Len(c) -> CallEntries]
  BY <1>4, <1>5, <1>6, Zenon
<1>8. Added(c, i) \in [1..Len(c) -> CallEntries]
  BY <1>4, <1>5, <1>6, Zenon DEF Added
<1>9. [k \in 1..Parts |-> sent.calls[i]] \in [1..Parts -> Asked]
  BY <1>1
<1>10. Opened(c, i) \in Seq(CallEntries) /\ Added(c, i) \in Seq(CallEntries)
  BY <1>3, <1>6, <1>7, <1>8, OfFunction DEF Opened
<1>11. [k \in 1..Parts |-> sent.calls[i]] \in Seq(Asked)
  BY <1>a, <1>9, OfFunction
<1> QED
  BY <1>1, <1>10, <1>11 DEF Whole, CallEntries

\* What the events before the end change.
LEMMA EventTypes ==
  ASSUME StreamInv, Event
  PROVE  StreamTypes'
<1>0. /\ sent' = sent /\ Asked' = Asked /\ CallEntries' = CallEntries
      /\ StreamTypes /\ acc.calls \in Seq(CallEntries)
  BY DEF Event, TextArrives, CallOpens, PieceArrives, ItemArrives, StopArrives, Arriving, Asked, CallEntries,
         StreamInv, StreamTypes
<1>a. /\ Len(sent.calls) \in Nat /\ at.calls \in Nat /\ at.calls <= Len(sent.calls)
      /\ at.pieces \in 0..Parts /\ Parts \in Nat \ {0}
  BY <1>0, AskedFor DEF StreamTypes
<1>1. CASE TextArrives
  BY <1>0, <1>1 DEF TextArrives, StreamTypes
<1>2. CASE CallOpens
  <2>1. Opened(acc.calls, at.calls + 1) \in Seq(CallEntries)
    <3>1. at.calls + 1 \in Nat /\ at.calls + 1 \in 1..Len(sent.calls)
      BY <1>2, <1>a DEF CallOpens
    <3> QED
      BY <1>0, <3>1, OpenedTypes
  <2> QED
    <3>1. at.calls + 1 \in Nat /\ at.calls + 1 <= Len(sent.calls) /\ 0 \in 0..Parts
      BY <1>2, <1>a DEF CallOpens
    <3>2. at' = [at EXCEPT !.calls = at.calls + 1, !.pieces = 0]
          /\ acc' = [acc EXCEPT !.calls = Opened(acc.calls, at.calls + 1)]
      BY <1>2 DEF CallOpens
    <3> QED
      BY <1>0, <2>1, <3>1, <3>2 DEF StreamTypes
<1>3. CASE PieceArrives
  <2>1. Added(acc.calls, at.calls) \in Seq(CallEntries)
    <3>1. at.calls \in 1..Len(sent.calls)
      BY <1>3, <1>a DEF PieceArrives, StreamInv, Arrived
    <3> QED
      BY <1>0, <1>a, <3>1, OpenedTypes
  <2> QED
    <3>1. at.pieces + 1 \in 0..Parts
      BY <1>3, <1>a DEF PieceArrives
    <3>2. at' = [at EXCEPT !.pieces = at.pieces + 1]
          /\ acc' = [acc EXCEPT !.calls = Added(acc.calls, at.calls)]
      BY <1>3 DEF PieceArrives
    <3> QED
      BY <1>0, <2>1, <3>1, <3>2 DEF StreamTypes
<1>4. CASE ItemArrives
  <2>1. Whole(at.calls + 1) \in CallEntries
    <3>1. at.calls + 1 \in Nat /\ at.calls + 1 \in 1..Len(sent.calls)
      BY <1>4, <1>a DEF ItemArrives
    <3> QED
      BY <1>0, <3>1, OpenedTypes
  <2>2. Append(acc.calls, Whole(at.calls + 1)) \in Seq(CallEntries)
    BY <1>0, <2>1
  <2> QED
    <3>1. at.calls + 1 \in Nat /\ at.calls + 1 <= Len(sent.calls)
      BY <1>4, <1>a DEF ItemArrives
    <3>2. at' = [at EXCEPT !.calls = at.calls + 1]
          /\ acc' = [acc EXCEPT !.calls = Append(acc.calls, Whole(at.calls + 1))]
      BY <1>4 DEF ItemArrives
    <3> QED
      BY <1>0, <2>2, <3>1, <3>2 DEF StreamTypes
<1>5. CASE StopArrives
  BY <1>0, <1>5 DEF StopArrives, StreamTypes
<1> QED
  BY <1>1, <1>2, <1>3, <1>4, <1>5 DEF Event

LEMMA EventArrived == ASSUME StreamInv, Event PROVE Arrived'
<1>0. StreamTypes /\ Arrived /\ Arriving
  BY DEF StreamInv, Event, TextArrives, CallOpens, PieceArrives, ItemArrives, StopArrives
<1>a. at.calls \in Nat /\ at.pieces \in 0..Parts /\ Parts \in Nat \ {0}
  BY <1>0, AskedFor
<1> USE <1>0, <1>a DEF StreamTypes, Arrived, Arriving, Streams
<1>1. CASE TextArrives
  BY <1>1 DEF TextArrives
<1>2. CASE CallOpens
  BY <1>2 DEF CallOpens, BetweenCalls
<1>3. CASE PieceArrives
  BY <1>3 DEF PieceArrives
<1>4. CASE ItemArrives
  BY <1>4 DEF ItemArrives, BetweenCalls
<1>5. CASE StopArrives
  BY <1>5 DEF StopArrives, BetweenCalls
<1> QED
  BY <1>1, <1>2, <1>3, <1>4, <1>5 DEF Event

\* One entry of the client, of which so many pieces have arrived.
IsCall(c, e, size) ==
  /\ c.i = Index(e) /\ c.id = sent.calls[e] /\ Len(c.got) = size
  /\ \A k \in 1..size : c.got[k] = sent.calls[e]

LEMMA GatheredCalls ==
  Gathered <=> (Apart1 => /\ Len(acc.calls) = at.calls
                          /\ \A e \in 1..at.calls :
                               IsCall(acc.calls[e], e, IF e = at.calls THEN at.pieces ELSE Parts))
BY DEF Gathered, IsCall

LEMMA OneMore ==
  ASSUME NEW S, NEW s \in Seq(S), NEW x \in S, NEW n \in Nat, Len(s) = n, \A k \in 1..n : s[k] = x
  PROVE  Len(Append(s, x)) = n + 1 /\ \A k \in 1..n + 1 : Append(s, x)[k] = x
OBVIOUS

LEMMA EventGathered == ASSUME StreamInv, Event PROVE Gathered'
<1>0. StreamTypes /\ Arrived /\ Gathered /\ Arriving /\ acc.calls \in Seq(CallEntries)
  BY DEF StreamInv, StreamTypes, Event, TextArrives, CallOpens, PieceArrives, ItemArrives, StopArrives
<1>a. /\ at.calls \in Nat /\ at.pieces \in 0..Parts /\ Parts \in Nat \ {0} /\ Len(sent.calls) \in Nat
      /\ DOMAIN sent.calls = 1..Len(sent.calls) /\ at.calls <= Len(sent.calls)
  BY <1>0, AskedFor DEF StreamTypes
<1>b. sent' = sent /\ (Apart1' <=> Apart1)
  BY <1>0 DEF Arriving, Apart1, Index
<1>c. \A c, e, size : IsCall(c, e, size)' <=> IsCall(c, e, size)
  BY <1>b DEF IsCall, Index
<1> SUFFICES ASSUME Apart1
             PROVE  /\ Len(acc'.calls) = at'.calls
                    /\ \A e \in 1..at'.calls :
                          IsCall(acc'.calls[e], e, IF e = at'.calls THEN at'.pieces ELSE Parts)
  BY <1>b, <1>c DEF Gathered, IsCall, Index
<1>d. /\ Len(acc.calls) = at.calls
      /\ \A e \in 1..at.calls : IsCall(acc.calls[e], e, IF e = at.calls THEN at.pieces ELSE Parts)
  BY <1>0, GatheredCalls
<1>e. \A e, d \in 1..Len(sent.calls) : Index(e) = Index(d) => e = d
  BY <1>a DEF Apart1
<1>1. CASE TextArrives \/ StopArrives
  <2>1. acc'.calls = acc.calls /\ at'.calls = at.calls /\ at'.pieces = at.pieces
    BY <1>0, <1>1 DEF TextArrives, StopArrives, StreamTypes
  <2> QED
    BY <1>d, <2>1
<1>2. CASE CallOpens
  <2> DEFINE n == at.calls + 1
             new == [i |-> Index(n), id |-> sent.calls[n], got |-> <<>>]
  <2>1. n \in 1..Len(sent.calls) /\ n \in Nat /\ at.pieces = Parts
    BY <1>2, <1>a DEF CallOpens, BetweenCalls
  <2>2. Entry(acc.calls, Index(n)) = {}
    <3>1. SUFFICES ASSUME NEW e \in 1..at.calls, acc.calls[e].i = Index(n) PROVE FALSE
      BY <1>0, <1>d DEF Entry
    <3>2. acc.calls[e].i = Index(e)
      BY <1>d DEF IsCall
    <3>3. e \in 1..Len(sent.calls) /\ e # n
      BY <1>a, <2>1
    <3> QED
      BY <1>e, <2>1, <3>1, <3>2, <3>3
  <2>3. acc'.calls = Append(acc.calls, new)
    BY <1>0, <1>2, <2>2 DEF CallOpens, Opened, StreamTypes
  <2>4. at'.calls = n /\ at'.pieces = 0
    BY <1>0, <1>2 DEF CallOpens, StreamTypes
  <2>5. Len(acc'.calls) = n /\ acc'.calls[n] = new /\ \A e \in 1..at.calls : acc'.calls[e] = acc.calls[e]
    BY <1>0, <1>a, <1>d, <2>3
  <2>6. IsCall(new, n, 0)
    BY DEF IsCall
  <2>7. \A e \in 1..at.calls : IsCall(acc'.calls[e], e, Parts)
    BY <1>d, <2>1, <2>5
  <2>8. \A e \in 1..n : e = n \/ e \in 1..at.calls
    BY <1>a
  <2>9. n \notin 1..at.calls
    BY <1>a
  <2> QED
    BY <2>4, <2>5, <2>6, <2>7, <2>8, <2>9
<1>3. CASE PieceArrives
  <2> DEFINE n == at.calls
             id == sent.calls[n]
             c == acc.calls[n]
  <2>1. n \in 1..Len(sent.calls) /\ n \in 1..at.calls /\ at.pieces + 1 \in 0..Parts
    BY <1>0, <1>3, <1>a DEF PieceArrives, Arrived
  <2>2. DOMAIN acc.calls = 1..at.calls
    BY <1>0, <1>d
  <2>3. \A e \in 1..at.calls : e \in Entry(acc.calls, Index(n)) <=> e = n
    <3>1. \A e \in 1..at.calls : acc.calls[e].i = Index(e)
      BY <1>d DEF IsCall
    <3>2. \A e \in 1..at.calls : e \in 1..Len(sent.calls)
      BY <1>a
    <3> QED
      BY <1>e, <2>1, <2>2, <3>1, <3>2 DEF Entry
  <2>4. acc'.calls = Added(acc.calls, n) /\ at'.calls = n /\ at'.pieces = at.pieces + 1
    BY <1>0, <1>3 DEF PieceArrives, StreamTypes
  <2>5. /\ DOMAIN acc'.calls = 1..at.calls
        /\ acc'.calls[n] = [c EXCEPT !.got = Append(@, id)]
        /\ \A e \in 1..at.calls : e # n => acc'.calls[e] = acc.calls[e]
    BY <2>1, <2>2, <2>3, <2>4 DEF Added
  <2>6. acc'.calls \in Seq(CallEntries)
    BY <1>0, <1>a, <2>1, <2>4, OpenedTypes
  <2>7. Len(acc'.calls) = n
    BY <1>a, <2>5, <2>6
  <2>8. IsCall(acc'.calls[n], n, at.pieces + 1)
    <3>1. c \in CallEntries /\ IsCall(c, n, at.pieces)
      <4>1. c \in CallEntries
        BY <1>0, <2>1, <2>2
      <4> QED
        BY <1>d, <2>1, <4>1
    <3>2. c.got \in Seq(Asked) /\ acc'.calls[n].got = Append(c.got, id)
          /\ acc'.calls[n].i = c.i /\ acc'.calls[n].id = c.id
      BY <2>5, <3>1 DEF CallEntries
    <3>3. id \in Asked
      BY <1>0, <2>1, AskedFor
    <3>4. Len(c.got) = at.pieces /\ \A k \in 1..at.pieces : c.got[k] = id
      BY <3>1 DEF IsCall
    <3>5. Len(Append(c.got, id)) = at.pieces + 1 /\ \A k \in 1..at.pieces + 1 : Append(c.got, id)[k] = id
      <4> HIDE DEF n, id, c
      <4>1. at.pieces \in Nat
        BY <1>a
      <4> QED
        BY <3>2, <3>3, <3>4, <4>1, OneMore
    <3> QED
      BY <3>1, <3>2, <3>5 DEF IsCall
  <2> QED
    BY <1>d, <2>4, <2>5, <2>7, <2>8
<1>4. CASE ItemArrives
  <2> DEFINE n == at.calls + 1
  <2>1. n \in 1..Len(sent.calls) /\ n \in Nat /\ at.pieces = Parts /\ Index(n) = n
    BY <1>4, <1>a DEF ItemArrives, BetweenCalls, Index, Clis
  <2>2. acc'.calls = Append(acc.calls, Whole(n)) /\ at'.calls = n /\ at'.pieces = Parts
    BY <1>0, <1>4, <2>1 DEF ItemArrives, StreamTypes
  <2>3. Len(acc'.calls) = n /\ acc'.calls[n] = Whole(n) /\ \A e \in 1..at.calls : acc'.calls[e] = acc.calls[e]
    BY <1>0, <1>a, <1>d, <2>2
  <2>4. IsCall(Whole(n), n, Parts)
    <3>1. Len([k \in 1..Parts |-> sent.calls[n]]) = Parts
      BY <1>a
    <3> QED
      BY <2>1, <3>1 DEF IsCall, Whole
  <2>5. \A e \in 1..at.calls : IsCall(acc'.calls[e], e, Parts)
    BY <1>d, <2>1, <2>3
  <2>6. \A e \in 1..n : e = n \/ e \in 1..at.calls
    BY <1>a
  <2> QED
    BY <2>2, <2>3, <2>4, <2>5, <2>6
<1> QED
  BY <1>1, <1>2, <1>3, <1>4 DEF Event

\* What ends a stream leaves the types and what was gathered.
LEMMA EndKept ==
  ASSUME StreamInv, ErrorEvent \/ StreamEnds \/ StreamFails
  PROVE  StreamTypes' /\ Arrived' /\ Gathered'
<1>0. StreamTypes /\ Arrived /\ Gathered
  BY DEF StreamInv
<1>1. /\ sent' = sent /\ acc'.calls = acc.calls /\ at'.calls = at.calls /\ at'.pieces = at.pieces
  BY <1>0 DEF ErrorEvent, Arriving, StreamEnds, StreamFails, StreamTypes
<1>2. StreamTypes'
  <2>1. CallEntries' = CallEntries
    BY <1>1 DEF CallEntries, Asked
  <2>2. at' = [at EXCEPT !.end = "error", !.err = TRUE] \/ at' = [at EXCEPT !.end = "failed"]
        \/ at' = [at EXCEPT !.end = "whole"] \/ at' = [at EXCEPT !.end = "cut"]
    BY DEF ErrorEvent, StreamEnds, StreamFails
  <2>3. acc' = [acc EXCEPT !.error = sent.fmt \in Clis] \/ acc' = acc
    BY DEF ErrorEvent, StreamEnds, StreamFails
  <2>4. at' \in [text : BOOLEAN, calls : Nat, pieces : 0..Parts, stop : BOOLEAN,
                 end : {"open", "whole", "cut", "error", "failed"}, err : BOOLEAN]
    <3> DEFINE AtTypes(x) == x \in [text : BOOLEAN, calls : Nat, pieces : 0..Parts, stop : BOOLEAN,
                 end : {"open", "whole", "cut", "error", "failed"}, err : BOOLEAN]
    <3>1. AtTypes(at)
      BY <1>0 DEF StreamTypes
    <3>2. CASE at' = [at EXCEPT !.end = "error", !.err = TRUE]
      BY <3>1, <3>2
    <3>3. CASE at' = [at EXCEPT !.end = "failed"]
      BY <3>1, <3>3
    <3>4. CASE at' = [at EXCEPT !.end = "whole"]
      BY <3>1, <3>4
    <3>5. CASE at' = [at EXCEPT !.end = "cut"]
      BY <3>1, <3>5
    <3> QED
      BY <2>2, <3>2, <3>3, <3>4, <3>5
  <2>5. acc' \in [text : BOOLEAN, calls : Seq(CallEntries), stop : BOOLEAN, error : BOOLEAN]
    <3>1. acc \in [text : BOOLEAN, calls : Seq(CallEntries), stop : BOOLEAN, error : BOOLEAN]
          /\ (sent.fmt \in Clis) \in BOOLEAN
      BY <1>0 DEF StreamTypes
    <3>2. CASE acc' = [acc EXCEPT !.error = sent.fmt \in Clis]
      BY <3>1, <3>2
    <3> QED
      BY <2>3, <3>1, <3>2
  <2> QED
    <3>1. sent' \in [fmt : Formats, text : BOOLEAN, calls : Seq(ToSet(CallIds)), indexed : BOOLEAN]
          /\ at'.calls <= Len(sent'.calls)
      BY <1>0, <1>1 DEF StreamTypes
    <3> QED
      BY <2>1, <2>4, <2>5, <3>1 DEF StreamTypes
<1>3. Arrived'
  <2>1. CASE ErrorEvent
    BY <1>0, <2>1 DEF ErrorEvent, Arriving, Streams, StreamTypes, Arrived
  <2>2. CASE StreamEnds
    BY <1>0, <2>2 DEF StreamEnds, Streams, StreamTypes, Arrived
  <2>3. CASE StreamFails
    BY <1>0, <2>3 DEF StreamFails, StreamTypes, Arrived
  <2> QED
    BY <1>0, <2>1, <2>2, <2>3
<1>4. Gathered'
  BY <1>0, <1>1 DEF Gathered, Apart1, Index
<1> QED
  BY <1>2, <1>3, <1>4

LEMMA DocumentKept ==
  ASSUME StreamInv, Document
  PROVE  StreamTypes' /\ Arrived' /\ Gathered'
<1>0. StreamTypes /\ Arrived /\ Gathered /\ sent' = sent
  BY DEF StreamInv, Document
<1>a. /\ Len(sent.calls) \in Nat /\ DOMAIN sent.calls = 1..Len(sent.calls) /\ Parts \in Nat \ {0}
      /\ sent.fmt = "json" /\ at.end = "open" /\ at.pieces = Parts
  BY <1>0, AskedFor DEF Document, Arrived
<1>1. /\ at' = [at EXCEPT !.end = "whole", !.text = sent.text, !.calls = Len(sent.calls), !.stop = TRUE]
      /\ acc' = [text |-> sent.text, stop |-> TRUE, error |-> FALSE, calls |-> [i \in DOMAIN sent.calls |-> Whole(i)]]
  BY DEF Document
<1>2. \A i \in 1..Len(sent.calls) : Whole(i) \in CallEntries
  <2>1. SUFFICES ASSUME NEW i \in 1..Len(sent.calls) PROVE Whole(i) \in CallEntries
    OBVIOUS
  <2>2. <<>> \in Seq(CallEntries) /\ i \in Nat
    BY <1>a
  <2> QED
    BY <1>0, <2>1, <2>2, OpenedTypes
<1>3. [i \in DOMAIN sent.calls |-> Whole(i)] \in [1..Len(sent.calls) -> CallEntries]
  BY <1>a, <1>2
<1>4. [i \in DOMAIN sent.calls |-> Whole(i)] \in Seq(CallEntries)
      /\ Len([i \in DOMAIN sent.calls |-> Whole(i)]) = Len(sent.calls)
  BY <1>a, <1>3, OfFunction
<1>5. StreamTypes'
  <2>1. CallEntries' = CallEntries
    BY <1>0 DEF CallEntries, Asked
  <2>2. at' \in [text : BOOLEAN, calls : Nat, pieces : 0..Parts, stop : BOOLEAN,
                 end : {"open", "whole", "cut", "error", "failed"}, err : BOOLEAN]
        /\ at'.calls = Len(sent.calls)
    BY <1>0, <1>a, <1>1 DEF StreamTypes
  <2>3. acc' \in [text : BOOLEAN, calls : Seq(CallEntries), stop : BOOLEAN, error : BOOLEAN]
    BY <1>0, <1>1, <1>4 DEF StreamTypes
  <2> QED
    BY <1>0, <1>a, <2>1, <2>2, <2>3 DEF StreamTypes
<1>6. Arrived'
  BY <1>0, <1>a, <1>1 DEF StreamTypes, Arrived
<1>7. Gathered'
  <2>1. \A e \in 1..Len(sent.calls) :
          /\ Whole(e).i = Index(e) /\ Whole(e).id = sent.calls[e] /\ Len(Whole(e).got) = Parts
          /\ \A k \in 1..Parts : Whole(e).got[k] = sent.calls[e]
    BY <1>a DEF Whole, Index
  <2>2. /\ acc'.calls = [i \in DOMAIN sent.calls |-> Whole(i)] /\ at'.calls = Len(sent.calls) /\ at'.pieces = Parts
    BY <1>0, <1>a, <1>1 DEF StreamTypes
  <2>3. \A e \in 1..Len(sent.calls) : acc'.calls[e] = Whole(e)
    BY <1>a, <2>2
  <2>4. \A e \in 1..Len(sent.calls) : Index(e)' = Index(e)
    BY <1>0 DEF Index
  <2>5. SUFFICES ASSUME NEW e \in 1..Len(sent.calls)
                 PROVE  /\ acc'.calls[e].i = Index(e)' /\ acc'.calls[e].id = sent.calls[e]
                        /\ Len(acc'.calls[e].got) = Parts
                        /\ \A k \in 1..Parts : acc'.calls[e].got[k] = sent.calls[e]
    BY <1>0, <1>4, <2>2 DEF Gathered
  <2> QED
    BY <2>1, <2>3, <2>4
<1> QED
  BY <1>5, <1>6, <1>7

LEMMA StreamKept == ASSUME StreamInv, [StreamNext]_streamVars PROVE StreamInv'
<1>1. CASE Event
  <2>1. out' = out /\ at.end = "open" /\ StreamTypes /\ Arrived
    BY <1>1 DEF StreamInv, Event, TextArrives, CallOpens, PieceArrives, ItemArrives, StopArrives, Arriving
  <2>2. HandedOn'
    BY <2>1 DEF HandedOn, StreamInv
  <2> QED
    BY <1>1, <2>2, EventTypes, EventArrived, EventGathered DEF StreamInv
<1>2. CASE ErrorEvent \/ StreamEnds \/ StreamFails
  <2>1. HandedOn'
    BY <1>2 DEF HandedOn, StreamInv, ErrorEvent, Arriving, StreamEnds, StreamFails
  <2> QED
    BY <1>2, <2>1, EndKept DEF StreamInv
<1>3. CASE Document
  <2>1. HandedOn'
    BY <1>3 DEF HandedOn, StreamInv, Document
  <2> QED
    BY <1>3, <2>1, DocumentKept DEF StreamInv
<1>4. CASE Assemble
  <2>1. sent' = sent /\ at' = at /\ acc' = acc
    BY <1>4 DEF Assemble
  <2>2. Assembled' = Assembled
    BY <2>1 DEF Assembled, Input
  <2>3. HandedOn'
    BY <1>4, <2>1, <2>2 DEF Assemble, HandedOn, CliRaises
  <2>4. StreamTypes'
    BY <2>1 DEF StreamInv, StreamTypes, Asked, CallEntries
  <2>5. Arrived'
    BY <2>1 DEF StreamInv, Arrived
  <2>6. Gathered'
    BY <2>1 DEF StreamInv, Gathered, Apart1, Index
  <2> QED
    BY <2>3, <2>4, <2>5, <2>6 DEF StreamInv
<1>5. CASE UNCHANGED streamVars
  <2>1. sent' = sent /\ at' = at /\ acc' = acc /\ out' = out
    BY <1>5 DEF streamVars
  <2>2. HandedOn'
    BY <2>1 DEF StreamInv, HandedOn, Assembled, Input
  <2>3. StreamTypes'
    BY <2>1 DEF StreamInv, StreamTypes, Asked, CallEntries
  <2>4. Arrived'
    BY <2>1 DEF StreamInv, Arrived
  <2>5. Gathered'
    BY <2>1 DEF StreamInv, Gathered, Apart1, Index
  <2> QED
    BY <2>2, <2>3, <2>4, <2>5 DEF StreamInv
<1> QED
  BY <1>1, <1>2, <1>3, <1>4, <1>5 DEF StreamNext

\* r is three sequences, one after the other.
InRow(r, T, C, R) ==
  /\ Len(r) = Len(T) + Len(C) + Len(R) /\ DOMAIN r = 1..Len(r)
  /\ \A j \in 1..Len(T) : r[j] = T[j]
  /\ \A j \in 1..Len(C) : r[Len(T) + j] = C[j]
  /\ \A j \in 1..Len(R) : r[Len(T) + Len(C) + j] = R[j]

LEMMA RowOfThree ==
  ASSUME NEW S, NEW T \in Seq(S), NEW C \in Seq(S), NEW R \in Seq(S)
  PROVE  InRow(T \o C \o R, T, C, R)
<1>1. T \o C \in Seq(S) /\ Len(T \o C) = Len(T) + Len(C) /\ Len(T) \in Nat /\ Len(C) \in Nat /\ Len(R) \in Nat
  OBVIOUS
<1>2. \A j \in 1..Len(T) : (T \o C)[j] = T[j]
  OBVIOUS
<1>3. \A j \in 1..Len(C) : (T \o C)[Len(T) + j] = C[j]
  OBVIOUS
<1> DEFINE B == T \o C
<1>4. B \in Seq(S) /\ Len(B) = Len(T) + Len(C)
  BY <1>1
<1> HIDE DEF B
<1>5. Len(B \o R) = Len(B) + Len(R) /\ DOMAIN (B \o R) = 1..Len(B \o R)
  <2>1. Len(B \o R) = Len(B) + Len(R) /\ B \o R \in Seq(S)
    BY <1>4, ConcatProperties
  <2> QED
    BY <2>1, LenProperties
<1>6. \A j \in 1..Len(B) : (B \o R)[j] = B[j]
  BY <1>4
<1>7. \A j \in 1..Len(R) : (B \o R)[Len(B) + j] = R[j]
  BY <1>4
<1>8. \A j \in 1..Len(T) : (B \o R)[j] = T[j]
  BY <1>1, <1>2, <1>4, <1>6 DEF B
<1>9. \A j \in 1..Len(C) : (B \o R)[Len(T) + j] = C[j]
  <2>1. SUFFICES ASSUME NEW j \in 1..Len(C) PROVE (B \o R)[Len(T) + j] = C[j]
    OBVIOUS
  <2>2. Len(T) + j \in 1..Len(B)
    BY <1>1, <1>4
  <2>3. (B \o R)[Len(T) + j] = B[Len(T) + j]
    BY <1>6, <2>2
  <2>4. B[Len(T) + j] = C[j]
    BY <1>3 DEF B
  <2> QED
    BY <2>3, <2>4
<1> QED
  BY <1>1, <1>4, <1>5, <1>7, <1>8, <1>9 DEF B, InRow

\* What is handed on is one entry per call the client had.
LEMMA AssembledCalls ==
  ASSUME StreamInv, Answered
  PROVE  /\ out.text = acc.text /\ out.stop = acc.stop /\ ~acc.error /\ at.end \in {"whole", "cut", "error"}
         /\ Len(acc.calls) \in Nat /\ Len(out.calls) = Len(acc.calls) /\ DOMAIN out.calls = 1..Len(out.calls)
         /\ out.calls = Assembled
         /\ \A i \in 1..Len(out.calls) : out.calls[i].id = acc.calls[i].id /\ out.calls[i].id \in Asked
         /\ out.calls \in Seq([id : Asked, input : {"empty", "whole", "raw"}])
<1>1. out = [kind |-> "response", text |-> acc.text, calls |-> Assembled, stop |-> acc.stop]
      /\ at.end \in {"whole", "cut", "error"} /\ ~acc.error
  BY DEF StreamInv, HandedOn, Answered, NoAnswer
<1>2. acc.calls \in Seq(CallEntries) /\ DOMAIN acc.calls = 1..Len(acc.calls) /\ Len(acc.calls) \in Nat
  BY DEF StreamInv, StreamTypes
<1>3. \A i \in 1..Len(acc.calls) : acc.calls[i].id \in Asked
  <2>1. \A i \in 1..Len(acc.calls) : acc.calls[i] \in CallEntries
    BY <1>2
  <2> QED
    BY <2>1 DEF CallEntries
<1>4. \A c : Input(c) \in {"empty", "whole", "raw"}
  BY DEF Input
<1> DEFINE Handed == [id : Asked, input : {"empty", "whole", "raw"}]
<1>5. Assembled \in [1..Len(acc.calls) -> Handed]
  BY <1>2, <1>3, <1>4 DEF Assembled
<1>6. Assembled \in Seq(Handed) /\ Len(Assembled) = Len(acc.calls)
  <2> HIDE DEF Handed
  <2> QED
    BY <1>2, <1>5, OfFunction
<1>7. \A i \in 1..Len(acc.calls) : Assembled[i].id = acc.calls[i].id
  BY <1>2 DEF Assembled
<1> QED
  BY <1>1, <1>2, <1>3, <1>6, <1>7

\* The next request answers every call it repeats.
LEMMA RequestAnswers == ASSUME StreamInv, Answered, NEW chat \in BOOLEAN PROVE AnswersCalls(NextRequest(chat))
<1>1. CASE out.calls = <<>>
  BY <1>1 DEF AnswersCalls, NextRequest
<1>2. CASE out.calls # <<>>
  <2> DEFINE Items == [k : {"text", "call", "result"}, id : Asked \cup {"none"}]
             T == IF chat THEN <<>> ELSE TextItem
             L == Len(out.calls)
  <2>1. /\ DOMAIN out.calls = 1..L /\ L \in Nat
        /\ \A i \in 1..L : out.calls[i].id \in Asked
    BY AssembledCalls
  <2>2. T \in Seq(Items) /\ Len(T) \in Nat /\ \A j \in 1..Len(T) : T[j].k = "text"
    <3> DEFINE word == [k |-> "text", id |-> "none"]
    <3>1. word \in Items /\ word.k = "text"
      OBVIOUS
    <3>2. T = <<>> \/ T = <<word>>
      BY DEF TextItem
    <3> HIDE DEF word, Items, T
    <3>3. <<>> \in Seq(Items) /\ Len(<<>>) = 0 /\ <<word>> \in Seq(Items) /\ Len(<<word>>) = 1 /\ <<word>>[1] = word
      BY <3>1
    <3>4. CASE T = <<>>
      BY <3>3, <3>4
    <3>5. CASE T = <<word>>
      BY <3>1, <3>3, <3>5
    <3> QED
      BY <3>2, <3>4, <3>5
  <2>3. CallItems \in [1..L -> Items] /\ ResultItems \in [1..L -> Items]
    BY <2>1 DEF CallItems, ResultItems
  <2>4. CallItems \in Seq(Items) /\ ResultItems \in Seq(Items) /\ Len(CallItems) = L /\ Len(ResultItems) = L
    <3> HIDE DEF Items, L
    <3> QED
      BY <2>1, <2>3, OfFunction
  <2>5. \A c \in 1..L : /\ CallItems[c] = [k |-> "call", id |-> out.calls[c].id]
                        /\ ResultItems[c] = [k |-> "result", id |-> out.calls[c].id]
    BY <2>1 DEF CallItems, ResultItems
  <2> DEFINE r == T \o CallItems \o ResultItems
  <2>6. NextRequest(chat) = r
    BY <1>2 DEF NextRequest
  <2> HIDE DEF Items, T, L
  <2>a. r = T \o CallItems \o ResultItems
    OBVIOUS
  <2> HIDE DEF r
  <2>7. /\ Len(r) = Len(T) + L + L /\ DOMAIN r = 1..Len(r)
        /\ \A j \in 1..Len(T) : r[j] = T[j]
        /\ \A c \in 1..L : r[Len(T) + c] = CallItems[c]
        /\ \A c \in 1..L : r[Len(T) + L + c] = ResultItems[c]
    <3>1. /\ Len(r) = Len(T) + Len(CallItems) + Len(ResultItems) /\ DOMAIN r = 1..Len(r)
          /\ \A j \in 1..Len(T) : r[j] = T[j]
          /\ \A j \in 1..Len(CallItems) : r[Len(T) + j] = CallItems[j]
          /\ \A j \in 1..Len(ResultItems) : r[Len(T) + Len(CallItems) + j] = ResultItems[j]
      <4>1. InRow(T \o CallItems \o ResultItems, T, CallItems, ResultItems)
        BY <2>2, <2>4, RowOfThree
      <4> QED
        BY <2>a, <4>1 DEF InRow
    <3> QED
      BY <2>4, <3>1
  <2>8. ASSUME NEW j \in DOMAIN r
        PROVE  \/ j \in 1..Len(T) /\ r[j].k = "text"
               \/ \E c \in 1..L : j = Len(T) + c /\ r[j] = [k |-> "call", id |-> out.calls[c].id]
               \/ \E c \in 1..L : j = Len(T) + L + c /\ r[j] = [k |-> "result", id |-> out.calls[c].id]
    <3>1. CASE j \in 1..Len(T)
      BY <2>2, <2>7, <3>1
    <3>2. CASE j - Len(T) \in 1..L
      <4>1. j = Len(T) + (j - Len(T))
        BY <2>2, <2>7
      <4>2. r[j] = CallItems[j - Len(T)]
        BY <2>7, <3>2, <4>1
      <4> QED
        BY <2>5, <3>2, <4>1, <4>2
    <3>3. CASE j - Len(T) - L \in 1..L
      <4>1. j = Len(T) + L + (j - Len(T) - L)
        BY <2>1, <2>2, <2>7
      <4>2. r[j] = ResultItems[j - Len(T) - L]
        BY <2>7, <3>3, <4>1
      <4> QED
        BY <2>5, <3>3, <4>1, <4>2
    <3> QED
      BY <2>1, <2>2, <2>7, <3>1, <3>2, <3>3
  <2>9. \A c \in 1..L : /\ Len(T) + c \in DOMAIN r /\ r[Len(T) + c].k = "call"
                        /\ Len(T) + L + c \in DOMAIN r
                        /\ r[Len(T) + L + c] = [k |-> "result", id |-> out.calls[c].id]
    <3> SUFFICES ASSUME NEW c \in 1..L
                 PROVE  /\ Len(T) + c \in DOMAIN r /\ r[Len(T) + c].k = "call"
                        /\ Len(T) + L + c \in DOMAIN r
                        /\ r[Len(T) + L + c] = [k |-> "result", id |-> out.calls[c].id]
      OBVIOUS
    <3>1. Len(T) + c \in DOMAIN r /\ Len(T) + L + c \in DOMAIN r
      BY <2>1, <2>2, <2>7
    <3>2. r[Len(T) + c] = [k |-> "call", id |-> out.calls[c].id]
      BY <2>5, <2>7
    <3>3. r[Len(T) + L + c] = [k |-> "result", id |-> out.calls[c].id]
      BY <2>5, <2>7
    <3> QED
      BY <3>1, <3>2, <3>3
  <2>12. ASSUME NEW j \in DOMAIN r, r[j].k = "call"
         PROVE  j + L \in DOMAIN r /\ r[j + L] = [r[j] EXCEPT !.k = "result"]
    <3>1. PICK c \in 1..L : j = Len(T) + c /\ r[j] = [k |-> "call", id |-> out.calls[c].id]
      BY <2>8, <2>12
    <3>2. j + L = Len(T) + L + c
      BY <2>1, <2>2, <3>1
    <3> QED
      BY <2>9, <3>1, <3>2
  <2>13. ASSUME NEW j \in DOMAIN r, r[j].k = "result"
         PROVE  j - L \in DOMAIN r /\ r[j - L].k = "call" /\ \A i \in j..Len(r) : r[i].k # "call"
    <3>1. PICK c \in 1..L : j = Len(T) + L + c /\ r[j] = [k |-> "result", id |-> out.calls[c].id]
      BY <2>8, <2>13
    <3>2. j - L = Len(T) + c
      BY <2>1, <2>2, <3>1
    <3>3. ASSUME NEW i \in j..Len(r), r[i].k = "call" PROVE FALSE
      <4>1. i \in DOMAIN r
        BY <2>7
      <4>2. PICK d \in 1..L : i = Len(T) + d
        BY <2>8, <3>3, <4>1
      <4> QED
        BY <2>1, <2>2, <3>1, <4>2
    <3> QED
      BY <2>9, <3>1, <3>2, <3>3
  <2>14. L \in 0..Len(r)
    BY <2>1, <2>2, <2>7
  <2>15. AnswersCalls(r)
    BY <2>12, <2>13, <2>14 DEF AnswersCalls
  <2> QED
    BY <2>6, <2>15
<1> QED
  BY <1>1, <1>2

\* As many indices as calls: no two calls share one.
LEMMA DistinctIndices ==
  ASSUME StreamTypes, Cardinality({Index(i) : i \in DOMAIN sent.calls}) = Len(sent.calls)
  PROVE  Apart1
<1>1. Len(sent.calls) \in Nat /\ DOMAIN sent.calls = 1..Len(sent.calls)
  BY AskedFor
<1>2. CASE sent.fmt = "openai" /\ ~sent.indexed
  <2>1. \A i : Index(i) = 0
    BY <1>2 DEF Index
  <2>2. CASE sent.calls = <<>> \/ Len(sent.calls) = 0
    BY <1>1, <2>2 DEF Apart1
  <2>3. CASE Len(sent.calls) > 0
    <3>1. {Index(i) : i \in DOMAIN sent.calls} = {0}
      BY <1>1, <2>1, <2>3
    <3>2. Cardinality({0}) = 1
      BY FS_Singleton
    <3>3. Len(sent.calls) = 1
      BY <3>1, <3>2
    <3> QED
      BY <1>1, <3>3 DEF Apart1
  <2> QED
    BY <1>1, <2>2, <2>3
<1>3. CASE ~(sent.fmt = "openai" /\ ~sent.indexed)
  BY <1>3 DEF Apart1, Index
<1> QED
  BY <1>2, <1>3

\* A stream that came to its end, with an index for each call, is the answer.
LEMMA WholeAnswer ==
  ASSUME StreamInv, Answered, at.end = "whole", Apart1
  PROVE  /\ out.text = sent.text /\ out.stop
         /\ out.calls = [i \in DOMAIN sent.calls |-> [id |-> sent.calls[i], input |-> "whole"]]
<1> USE DEF StreamInv
<1>1. at.stop /\ at.text = sent.text /\ at.pieces = Parts /\ at.calls = Len(sent.calls) /\ acc.stop = at.stop /\ acc.text = at.text
  BY DEF Arrived
<1>2. out.text = acc.text /\ out.stop = acc.stop /\ out.calls = Assembled
  BY AssembledCalls
<1>3. Len(sent.calls) \in Nat /\ DOMAIN sent.calls = 1..Len(sent.calls) /\ Parts \in Nat \ {0}
  BY AskedFor
<1>4. /\ Len(acc.calls) = Len(sent.calls)
      /\ \A e \in 1..Len(sent.calls) :
           /\ acc.calls[e].id = sent.calls[e] /\ Len(acc.calls[e].got) = Parts
           /\ \A k \in 1..Len(acc.calls[e].got) : acc.calls[e].got[k] = sent.calls[e]
  BY <1>1 DEF Gathered
<1>5. acc.calls \in Seq(CallEntries)
  BY DEF StreamTypes
<1>6. DOMAIN acc.calls = 1..Len(sent.calls)
  BY <1>4, <1>5
<1>7. ASSUME NEW e \in 1..Len(sent.calls) PROVE Input(acc.calls[e]) = "whole"
  <2>1. acc.calls[e].got \in Seq(Asked)
    <3>1. acc.calls[e] \in CallEntries
      BY <1>5, <1>6
    <3> QED
      BY <3>1 DEF CallEntries
  <2>2. Len(acc.calls[e].got) = Parts /\ acc.calls[e].id = sent.calls[e]
    BY <1>4
  <2>3. \A k \in 1..Parts : acc.calls[e].got[k] = acc.calls[e].id
    BY <1>4, <2>2
  <2>4. DOMAIN acc.calls[e].got = 1..Parts
    BY <2>1, <2>2
  <2>5. acc.calls[e].got = [k \in 1..Parts |-> acc.calls[e].id]
    <3>1. acc.calls[e].got = [k \in DOMAIN acc.calls[e].got |-> acc.calls[e].got[k]]
      BY <2>1
    <3> QED
      BY <2>3, <2>4, <3>1
  <2>6. acc.calls[e].got # <<>>
    BY <1>3, <2>2
  <2> QED
    BY <2>5, <2>6 DEF Input
<1>8. Assembled = [i \in DOMAIN sent.calls |-> [id |-> sent.calls[i], input |-> "whole"]]
  BY <1>3, <1>4, <1>6, <1>7 DEF Assembled
<1> QED
  BY <1>1, <1>2, <1>8

LEMMA SoundAnswer == StreamInv => AnswerIsSound
<1>1. SUFFICES ASSUME StreamInv, Answered PROVE AnswerIsSound
  BY DEF AnswerIsSound, AnswerIsWhole, PartIsUnmarked
<1>2. AnswerIsWhole
  <2>1. ASSUME at.end = "whole", Cardinality({Index(i) : i \in DOMAIN sent.calls}) = Len(sent.calls)
        PROVE  /\ out.text = sent.text /\ out.stop
               /\ out.calls = [i \in DOMAIN sent.calls |-> [id |-> sent.calls[i], input |-> "whole"]]
    BY <1>1, <2>1, DistinctIndices, WholeAnswer DEF StreamInv
  <2>2. \A chat \in BOOLEAN : AnswersCalls(NextRequest(chat))
    BY <1>1, RequestAnswers
  <2> QED
    BY <2>1, <2>2 DEF AnswerIsWhole
<1>3. PartIsUnmarked
  <2>1. /\ out.stop = acc.stop /\ ~acc.error /\ at.end \in {"whole", "cut", "error"}
        /\ DOMAIN out.calls = 1..Len(out.calls) /\ \A i \in 1..Len(out.calls) : out.calls[i].id \in Asked
    BY <1>1, AssembledCalls
  <2>2. /\ acc.stop = at.stop
        /\ at.end \in {"cut", "error"} => ~at.stop
        /\ at.err => at.end = "error"
        /\ acc.error <=> at.end = "error" /\ sent.fmt \in Clis
    BY <1>1 DEF StreamInv, Arrived
  <2>3. at.stop \in BOOLEAN /\ at.err \in BOOLEAN
    BY <1>1 DEF StreamInv, StreamTypes
  <2> QED
    BY <2>1, <2>2, <2>3 DEF PartIsUnmarked
<1> QED
  BY <1>2, <1>3 DEF AnswerIsSound

\* In every format, however the stream ends: a whole stream is handed on as the
\* model's answer, a broken one without a stop reason or as an error, and the
\* next request answers each of its calls.
THEOREM AnswerHolds == StreamSpec => []AnswerIsSound
BY StreamStarts, StreamKept, SoundAnswer, PTL DEF StreamSpec
=============================================================================
