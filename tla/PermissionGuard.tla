---------------------------- MODULE PermissionGuard ----------------------------
(***************************************************************************)
(* What an agent and the subagents it delegates to may do:                 *)
(* core/permission_guard.py, core/permissions.py, core/risk_scorer.py and  *)
(* the delegation of main._make_task_executor.  A path is the sequence of  *)
(* its names; a link stands for what it points to.  The guard knows of a   *)
(* call only the file it declares: AstGrepReplace, the tools of MCP        *)
(* servers and the programs that commands start declare none and write     *)
(* where they like.  A background agent is a run of its own, always in     *)
(* workspace-write.  Left out: the records Prax keeps of background tasks, *)
(* which even CheckTask may update.                                        *)
(***************************************************************************)
EXTENDS Naturals, Sequences, SequencesExt, FiniteSets, FiniteSetsExt

CONSTANTS PathNames,     \* the names of files and directories
          Workspace,     \* where the root agent works
          Paths,         \* the directories and files a call or a prompt may name
          Links,         \* path -> what it resolves to, for those that are links
          Directories,   \* the paths that are directories
          SensitiveAs,   \* path -> 1..5, the first of _FILE_PATTERNS that matches
          GuardCalls     \* bound on the calls

\* A path is resolved to the end; the root agent's directory has been.
ASSUME GuardAssumption ==
  /\ "todos.json" \in PathNames
  /\ Workspace \in Seq(PathNames) \ DOMAIN Links /\ Paths \subseteq Seq(PathNames)
  /\ \A l \in DOMAIN Links : Links[l] \in Seq(PathNames) \ DOMAIN Links
  /\ \A p \in Paths : SensitiveAs[p] \in 1..5

VARIABLES mode,     \* of the run, from --permission-mode
          cwds,     \* agent -> where it works; a subagent works only once delegated to
          decided,  \* the last call, who made it, and whether it went through
          wrote,    \* what was written, and by which tool
          guardCalls

guardVars == <<mode, cwds, decided, wrote, guardCalls>>

Modes == {"read-only", "workspace-write", "danger-full-access"}
Levels == {"safe", "review", "dangerous"}
Agents == {"root", "sub"}
Undecided == [cwd |-> Workspace, level |-> "safe", writes |-> {}, allowed |-> FALSE]

GuardInit == /\ mode \in Modes /\ cwds = [a \in {"root"} |-> Workspace] /\ decided = Undecided
             /\ wrote = {} /\ guardCalls = 0

ResolvePath(path) == IF path \in DOMAIN Links THEN Links[path] ELSE path

\* ExecutionPolicy.authorize_path
BuggyAuthorized(root, path, write) == mode = "danger-full-access" \/ ~write \/ IsPrefix(root, path)
Authorized(root, path, write) ==
  mode = "danger-full-access" \/ ~write \/ IsPrefix(ResolvePath(root), ResolvePath(path))

\* The registered tools and those of MCP servers, with the level they require; a
\* shell command that only runs tests requires less.
SafeTools == {"Read", "Glob", "Grep", "HashlineRead", "AstGrepSearch", "WebSearch", "WebCrawler", "CheckTask", "ListTasks"}
ReviewTools == {"Write", "Edit", "HashlineEdit", "TodoWrite", "AstGrepReplace", "Task", "StartTask", "UpdateTask",
                "CancelTask", "VerifyCommand", "Notify", "McpTool"}
DangerousTools == {"InteractiveBash", "SandboxBash"}
Tools == SafeTools \cup ReviewTools \cup DangerousTools
ToolLevel == [t \in Tools |-> IF t \in SafeTools THEN "safe" ELSE IF t \in ReviewTools THEN "review" ELSE "dangerous"]
\* _build_tools gives a subagent neither these nor the tools of MCP servers.
RootTools == {"Task", "StartTask", "CheckTask", "UpdateTask", "CancelTask", "ListTasks", "McpTool"}
Commanded == {"none", "verify", "destructive", "publish", "reversible", "other"}
OnlyTests(cmd) == cmd = "verify"
Required(tool, cmd) == IF tool = "SandboxBash" /\ OnlyTests(cmd) THEN "review" ELSE ToolLevel[tool]

\* file_accesses: what a call says it will write.
FileTools == {"Write", "Edit", "HashlineEdit"}
Declared(a, tool, path) == CASE tool \in FileTools -> {path}
                             [] tool = "TodoWrite" -> {Append(cwds[a], "todos.json")}
                             [] OTHER -> {}
\* What a call that went through writes: what it declared, or, when a program or
\* a server is behind it, any file or none.  A test command is the same thing
\* whichever tool runs it.
Undeclared == {"AstGrepReplace", "VerifyCommand", "McpTool", "SandboxBash", "InteractiveBash"}
MayWrite(a, tool, path) == IF tool \in Undeclared THEN {{}} \cup {{p} : p \in Paths} ELSE {Declared(a, tool, path)}
WrittenBy(tool, cmd) == IF OnlyTests(cmd) THEN "VerifyCommand" ELSE tool

AllowedLevels == CASE mode = "read-only" -> {"safe"}
                   [] mode = "workspace-write" -> {"safe", "review"}
                   [] OTHER -> Levels

\* RiskScorer.score: of the tool, of the file, and of a shell command twice.
ToolRisk(tool) == CASE tool \in SafeTools -> 1
                    [] tool \in {"TodoWrite", "UpdateTask"} -> 2
                    [] tool \in {"Task", "StartTask"} -> 4
                    [] OTHER -> 3
FileRisk(path) == IF path = <<>> THEN 1 ELSE SensitiveAs[path]
CommandRisk(cmd) == CASE OnlyTests(cmd) -> 1 [] cmd = "destructive" -> 5 [] cmd = "publish" -> 4
                      [] cmd = "reversible" -> 3 [] OTHER -> 2
ScopeRisk(tool, cmd) == CASE tool = "SandboxBash" -> CommandRisk(cmd) [] tool \in {"Task", "StartTask"} -> 3 [] OTHER -> 1
UndoRisk(tool, cmd) == CASE tool = "SandboxBash" -> IF cmd \in {"reversible", "none", "other"} THEN CommandRisk(cmd) - 1
                                                    ELSE CommandRisk(cmd)
                         [] tool \in FileTools \cup {"AstGrepReplace"} -> 1 [] OTHER -> 2
RiskThreshold == 15
TooRisky(tool, path, cmd) ==
  mode # "danger-full-access" /\ ToolRisk(tool) + FileRisk(path) + ScopeRisk(tool, cmd) + UndoRisk(tool, cmd) > RiskThreshold

\* PermissionGuardMiddleware.before_tool
GoesThrough(a, tool, path, cmd) ==
  /\ Required(tool, cmd) \in AllowedLevels
  /\ \A w \in Declared(a, tool, path) : Authorized(cwds[a], w, TRUE)
  /\ ~TooRisky(tool, path, cmd)

AskTool(a) ==
  /\ guardCalls < GuardCalls
  /\ \E tool \in Tools, path \in Paths \cup {<<>>}, cmd \in Commanded :
       LET through == GoesThrough(a, tool, path, cmd) IN
       /\ tool \in FileTools => path # <<>>
       /\ cmd # "none" <=> tool = "SandboxBash"
       /\ tool \in RootTools => a = "root"
       /\ decided' = [cwd |-> cwds[a], level |-> Required(tool, cmd), writes |-> Declared(a, tool, path), allowed |-> through]
       /\ IF through THEN \E files \in MayWrite(a, tool, path) :
                            wrote' = wrote \cup {[file |-> ResolvePath(w), by |-> WrittenBy(tool, cmd)] : w \in files}
                     ELSE UNCHANGED wrote
  /\ guardCalls' = guardCalls + 1
  /\ UNCHANGED <<mode, cwds>>

\* The first line of the prompt that names a working directory counts, if it
\* is a directory and inside the workspace.
DelegatedCwd(lines) ==
  IF lines = <<>> \/ Head(lines) \notin Directories \/ ~Authorized(Workspace, Head(lines), TRUE)
  THEN ResolvePath(Workspace) ELSE ResolvePath(Head(lines))

\* One subagent at a time; it has no Task tool of its own.
Delegate == /\ guardCalls < GuardCalls /\ "review" \in AllowedLevels
            /\ \E lines \in {<<>>} \cup {<<d>> : d \in Paths} :
                 cwds' = [a \in Agents |-> IF a = "root" THEN cwds[a] ELSE DelegatedCwd(lines)]
            /\ "sub" \notin DOMAIN cwds
            /\ guardCalls' = guardCalls + 1 /\ UNCHANGED <<mode, decided, wrote>>
SubagentEnds == /\ "sub" \in DOMAIN cwds /\ cwds' = [a \in {"root"} |-> cwds[a]]
                /\ UNCHANGED <<mode, decided, wrote, guardCalls>>

GuardNext == (\E a \in DOMAIN cwds : AskTool(a)) \/ Delegate \/ SubagentEnds

GuardSpec == GuardInit /\ [][GuardNext]_guardVars

GuardTypeOK == /\ mode \in Modes /\ DOMAIN cwds \in {{"root"}, Agents} /\ decided.level \in Levels
               /\ guardCalls \in 0..GuardCalls

\* The guard is the matrix of its docstring (permission_guard.py:6-11) and the
\* rule that the file a call declares stays in the caller's directory: a call
\* within both is never refused for its risk, whatever the tool and the file.
Matrix(level) == \/ level = "safe"
                 \/ level = "review" /\ mode # "read-only"
                 \/ mode = "danger-full-access"
GuardIsItsMatrix ==
  decided # Undecided =>
    (decided.allowed <=> /\ Matrix(decided.level)
                         /\ mode = "danger-full-access" \/ \A w \in decided.writes : IsPrefix(decided.cwd, ResolvePath(w)))

\* Whoever the work was delegated to, and wherever its prompt told it to go: in
\* workspace-write a file outside the root agent's workspace was not written by a
\* tool that edits files and says which, nor by a shell; only a pattern rewrite, a
\* server, or the tests may have done it.  In read-only mode nothing is written.
WritesStayHome ==
  /\ mode = "workspace-write" =>
       \A w \in wrote : IsPrefix(Workspace, w.file) \/ w.by \in {"AstGrepReplace", "McpTool", "VerifyCommand"}
  /\ mode = "read-only" => wrote = {}
GuardHolds == GuardIsItsMatrix /\ WritesStayHome
=============================================================================
