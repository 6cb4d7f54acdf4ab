---------------------------- MODULE Sandbox ----------------------------
(***************************************************************************)
(* Where the commands of SandboxBash run: core/sandbox/ and                *)
(* tools/sandbox_bash.py.  Every prax process has one provider, chosen     *)
(* when its first tool is built; with Docker, a sandbox is a container of  *)
(* a name of its own or of one the agent asked for.  Containers are the    *)
(* daemon's: they end without the process, and outlive it.                 *)
(***************************************************************************)
EXTENDS Integers

CONSTANTS Procs,        \* prax processes on one machine
          BoxNames,     \* sandbox_ids an agent asks for
          MaxBoxes,     \* bound on the containers started
          Commands      \* bound on the calls of a process

ASSUME SandboxAssumption == "default" \notin BoxNames /\ MaxBoxes \in Nat /\ Commands \in Nat

VARIABLES daemon,    \* whether Docker answers
          boxes,     \* the containers: their number, name and the process that started them
          provider,  \* process -> its backend and the sandboxes it has recorded
          boxCall,   \* process -> the command in hand
          boxAnswer, \* process -> the last result, and what really happened
          made       \* containers started so far

boxVars == <<daemon, boxes, provider, boxCall, boxAnswer, made>>

NoProvider == [backend |-> "none", known |-> <<>>]
NoReply == [ok |-> FALSE, ran |-> "nowhere", exit |-> 0, timed |-> FALSE]
NoBoxCall == [pc |-> "idle", sid |-> "none", box |-> 0, count |-> 0]

BoxInit == /\ daemon \in BOOLEAN /\ boxes = {} /\ made = 0
           /\ provider = [p \in Procs |-> NoProvider]
           /\ boxCall = [p \in Procs |-> NoBoxCall]
           /\ boxAnswer = [p \in Procs |-> NoReply]

\* get_sandbox_provider: the backend stays whatever becomes of the daemon.
Backend(setting, policy) ==
  CASE setting # "auto"         -> setting
    [] daemon                   -> "docker"
    [] policy = "fail_closed"   -> "none"
    [] OTHER                    -> "local"

BuildTool(p) == /\ provider[p].backend = "none"
                /\ \E setting \in {"auto", "docker", "local"}, policy \in {"fail_open", "fail_closed"} :
                     provider' = [provider EXCEPT ![p].backend = Backend(setting, policy)]
                /\ UNCHANGED <<daemon, boxes, boxCall, boxAnswer, made>>

\* A sandbox is recorded under the name asked for, the default one under its own.
KnownBox(p, sid) == IF sid \in DOMAIN provider[p].known THEN provider[p].known[sid] ELSE 0
Recorded(p, sid, n) == [provider EXCEPT ![p].known = [s \in DOMAIN @ \cup {sid} |-> IF s = sid THEN n ELSE @[s]]]

\* The container's own name: those of default sandboxes are drawn at random.
BoxName(p, sid) == IF sid = "default" THEN <<p, made>> ELSE <<sid>>

Ready(p) == provider[p].backend # "none" /\ boxCall[p].pc = "idle" /\ boxCall[p].count < Commands
Take(p, sid, n) == boxCall' = [boxCall EXCEPT ![p] = [pc |-> "run", sid |-> sid, box |-> n, count |-> @.count + 1]]
Refuse(p) == /\ boxAnswer' = [boxAnswer EXCEPT ![p] = NoReply]
             /\ boxCall' = [boxCall EXCEPT ![p].count = @ + 1]

\* A sandbox that has been recorded is taken as it is.
Reuse(p, sid) == /\ Ready(p) /\ KnownBox(p, sid) # 0 /\ Take(p, sid, KnownBox(p, sid))
                 /\ UNCHANGED <<daemon, boxes, provider, boxAnswer, made>>

Started(p, sid) == [n |-> made + 1, name |-> BoxName(p, sid), by |-> p]

\* `docker run` answers, is refused (no daemon, no image, a name in use), or
\* is given up after thirty seconds, whether its container comes or not.
Acquire(p, sid) ==
  /\ Ready(p) /\ KnownBox(p, sid) = 0 /\ provider[p].backend = "docker" /\ made < MaxBoxes
  /\ \/ /\ daemon /\ \A b \in boxes : b.name # BoxName(p, sid)
        /\ boxes' = boxes \cup {Started(p, sid)} /\ made' = made + 1
        /\ provider' = Recorded(p, sid, made + 1) /\ Take(p, sid, made + 1)
        /\ UNCHANGED boxAnswer
     \/ /\ daemon /\ \A b \in boxes : b.name # BoxName(p, sid)
        /\ boxes' = boxes \cup {Started(p, sid)} /\ made' = made + 1
        /\ Refuse(p) /\ UNCHANGED provider
     \/ Refuse(p) /\ UNCHANGED <<boxes, provider, made>>
  /\ UNCHANGED daemon

\* A local sandbox is the host's shell.
AcquireLocal(p, sid) ==
  /\ Ready(p) /\ KnownBox(p, sid) = 0 /\ provider[p].backend = "local"
  /\ provider' = Recorded(p, sid, -1) /\ Take(p, sid, -1)
  /\ UNCHANGED <<daemon, boxes, boxAnswer, made>>

\* What the output says: whether it begins like a command that was given up, and
\* the last exit code it names, 0 if none; the program may print both itself.
Prints == [gaveUp : BOOLEAN, code : {0, 1}]
Output(printed, exit, timed) ==
  CASE timed              -> [gaveUp |-> TRUE, code |-> 0]
    [] ~timed /\ exit # 0 -> [printed EXCEPT !.code = exit]
    [] OTHER              -> printed

\* Sandbox.execute_command_v2 has only the text.
ExitCode(out) == IF out.gaveUp THEN -1 ELSE out.code

\* `docker exec` goes by the container's number: its name may be another's by now.
BuggyTarget(p) == {b \in boxes : daemon /\ b.name = <<boxCall[p].sid>>}
Target(p) == {b \in boxes : daemon /\ b.n = boxCall[p].box}

BoxReply(p, ok, ran, exit, timed) ==
  /\ boxAnswer' = [boxAnswer EXCEPT ![p] = [ok |-> ok, ran |-> ran, exit |-> exit, timed |-> timed]]
  /\ boxCall' = [boxCall EXCEPT ![p] = [NoBoxCall EXCEPT !.count = @ + boxCall[p].count]]
  /\ UNCHANGED <<daemon, boxes, provider, made>>

\* A command that runs out of time goes on in its container.
RunInBox(p) ==
  /\ boxCall[p].pc = "run" /\ boxCall[p].box > 0
  /\ \/ /\ Target(p) = {}
        /\ \E printed \in {q \in Prints : ~q.gaveUp} :
             BoxReply(p, ExitCode(Output(printed, 1, FALSE)) = 0, "nowhere", 1, FALSE)
     \/ \E b \in Target(p), printed \in Prints, exit \in {0, 1}, timed \in BOOLEAN :
          BoxReply(p, ExitCode(Output(printed, exit, timed)) = 0, b.by, exit, timed)

\* LocalSandbox.execute_command_v2 has the code itself.
RunLocally(p) ==
  /\ boxCall[p].pc = "run" /\ boxCall[p].box = -1
  /\ \E exit \in {0, 1}, timed \in BOOLEAN : BoxReply(p, exit = 0 /\ ~timed, p, exit, timed)

\* VerifyCommandTool: tests run on the host whatever the backend is.
Verify(p) ==
  /\ Ready(p)
  /\ \E exit \in {0, 1}, timed \in BOOLEAN :
       boxAnswer' = [boxAnswer EXCEPT ![p] = [ok |-> exit = 0 /\ ~timed, ran |-> p, exit |-> exit, timed |-> timed]]
  /\ boxCall' = [boxCall EXCEPT ![p].count = @ + 1]
  /\ UNCHANGED <<daemon, boxes, provider, made>>

\* A container ends by itself or by hand and, started with --rm, is gone.
BoxEnds == /\ \E b \in boxes : boxes' = boxes \ {b}
           /\ UNCHANGED <<daemon, provider, boxCall, boxAnswer, made>>
DaemonStops == /\ daemon /\ daemon' = FALSE /\ boxes' = {}
               /\ UNCHANGED <<provider, boxCall, boxAnswer, made>>
DaemonStarts == /\ ~daemon /\ daemon' = TRUE /\ UNCHANGED <<boxes, provider, boxCall, boxAnswer, made>>

\* Nothing calls release or shutdown: the process ends and its containers stay.
ProcessEnds(p) ==
  /\ provider[p].backend # "none" /\ provider' = [provider EXCEPT ![p] = NoProvider]
  /\ boxCall' = [boxCall EXCEPT ![p] = [NoBoxCall EXCEPT !.count = boxCall[p].count]]
  /\ boxAnswer' = [boxAnswer EXCEPT ![p] = NoReply] /\ UNCHANGED <<daemon, boxes, made>>

BoxNext == \/ \E p \in Procs : \/ BuildTool(p) \/ RunInBox(p) \/ RunLocally(p) \/ Verify(p) \/ ProcessEnds(p)
                               \/ \E sid \in BoxNames \cup {"default"} : Reuse(p, sid) \/ Acquire(p, sid) \/ AcquireLocal(p, sid)
           \/ BoxEnds \/ DaemonStops \/ DaemonStarts

BoxSpec == BoxInit /\ [][BoxNext]_boxVars

BoxTypeOK == /\ daemon \in BOOLEAN /\ made \in 0..MaxBoxes /\ \A b \in boxes : b.n \in 1..made /\ b.by \in Procs
             /\ \A p \in Procs : provider[p].backend \in {"none", "local", "docker"} /\ boxCall[p].count \in 0..Commands

\* What the agent is told succeeded ran to its end with code 0, on the host or
\* in a container its own process started: not in one that took over the name
\* of a container that died, not when `docker exec` itself failed or gave up,
\* and whatever the command printed (SandboxBashTool.execute).
SuccessRanAtHome == \A p \in Procs : LET a == boxAnswer[p] IN a.ok => a.ran = p /\ a.exit = 0 /\ ~a.timed
=============================================================================
