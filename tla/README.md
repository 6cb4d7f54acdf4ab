# prax: models, checks and proofs

TLA+ specifications of the parts of prax that coordinate processes, windows, people, models
and files: what runs twice, what survives a kill, who may overwrite what. They are written
from the code under `src/src/prax` (paths below are relative to it). TLC checks small
instances; TLAPS proves the invariants that matter most for every value of the constants.

    tlc -config MCHarness.cfg MCHarness.tla        # one run; every run is in PROJECT.json
    tlapm HarnessProofs.tla                        # one proof module

`PROJECT.json` maps every definition to the lines it models, and lists runs, mutants (a
plausible bug for every property, which the property must catch), findings and hazards.
Definitions named `Buggy...` are such bugs; nothing else uses them.

## 1. Inventory

| Part | State it keeps | Operations | Talks to |
|---|---|---|---|
| **Repository harness** `repository_harness.py`, `harness_contract.py` | `.prax/harness-runs/<run>/{contract,identity,result,pause}.json`, journal, `run.lock` | `run`, `resume`, `pause`; supervisor (`supervise`, `wait_for_runtime`), child runtime (`_child`, `execute`, `_watch_parent`) | project adapter (claim, preflight, release), verifier, worker, person |
| **One-shot verification** `verification_runtime.py` | the same directory, `verification-dispatch.json`, `report.json` | `run --authorize-verification`, `execute_verification`, `validate_report`, cancel | adapter, verifier |
| **Shift loop** `core/orchestrator_loop.py`, `core/run_journal.py`, `core/stuck_detector.py` | `.prax/runs/<id>/journal.jsonl` | `OrchestratorLoop.run`, one window at a time | step executor, verifier, approval relay |
| **Approval relay** `core/approval_*.py`, `core/remote_approval*.py` | one record per approval id | `request`, `resolve`, polling | shift windows, person |
| **Feature shift** `core/feature_driver.py`, `core/feature_list.py`, `core/three_step_router.py`, `commands/orchestrate.py` | `.prax/feature_list.json`, working tree | `run_features`, `mark_done`, auto-commit | shift loop per feature, relay, git |
| **Background tasks** `tools/background_task.py`, `core/background_store.py`, `_background_runner.py` | `.prax/tasks/<id>.json` | StartTask, CheckTask, UpdateTask, CancelTask, ListTasks; runner with heartbeat thread | `prax prompt` process |
| **Agent loop** `core/agent_loop.py`, `core/streaming_tool_executor.py`, `core/middleware.py`, `core/model_upgrade.py`, `main.py` | context, guards' counters | `run_agent_loop`, tool executor, guards, model upgrade | model clients, tools |
| **Cron** `commands/cron.py`, `core/cron_store.py`, `core/cron_installer.py` | `.prax/cron.yaml`, `.cron-dispatch` lock, `<job>.json` | `run_due_jobs`, `add`, `remove`, `is_due` | harness workers, notifier, launchd/cron |
| **Memory** `core/memory_middleware.py`, `core/memory_store.py`, `core/memory/*` | `memory.json`, `knowledge.db`, `memory.db`, `experiences.db`, vectors | extract after a turn, drain at exit; MCP memory server; store, invalidate, migrate | agent loop, Claude Code |
| **Agents and workflows** `agents/*`, `workflows/*`, `core/{todo_store,checkpoint,error_recovery,planning}.py` | `.prax/todos.json`, checkpoints | Ralph (loop, recover, resume), Sisyphus, Team | agent loop, subagents |
| **Sessions and context** `core/{session_store,summarization,context}.py`, `commands/handlers.py` | one JSON file per session | load, attempt, summarise, trim, `/compact`, `/clear`, save | agent loop, terminals |
| **Hooks and configuration** `core/{hooks,governance,model_router}.py` | registry, caches with mtimes | reload before a model call, cached load | the user's editor |
| **Model clients** `core/{llm_client,model_catalog,model_upgrade,runtime_env,config_merge}.py`, `core/*_cli_executor.py` | provider tables, environment | merge, hydrate, resolve; put a streamed answer together | providers, `claude`, `codex` |
| **Permissions and risk** `core/{permission_guard,permissions,risk_scorer}.py` | mode, workspace | guard a call, delegate | tools, subagents |
| **Sandboxes** `core/sandbox/*`, `tools/sandbox_bash.py` | containers by name, per process | acquire, exec, answer | docker |
| **Editing tools** `tools/{hashline_edit,hashline_read,edit,write,read}.py` | files | read, edit, write | the user's editor |
| **Integrations** `integrations/claude_code/*`, `integrations/codex/*` | `settings.json`, `.mcp.json`, install state, backups, receipts, marketplace | install, repair, uninstall, restore, doctor | Claude Code, Codex, the user |
| Verifiers, command line and interfaces, content pipelines | see `components` in PROJECT.json | | |

Behaviours that are hard, and what correctness means in each part:

- **Harness.** Two processes share a run directory; either may die anywhere; people edit,
  pause and resume meanwhile. A PASS must stand on sources the verifier accepted; the worker
  budget must survive every restart; checkpoints may move only inside the declared scope;
  what a dead supervisor leaves is evidence; a pause stops the run; every window closes. A
  one-shot verification is dispatched once, and only the verifier's own word passes it.
- **Shift loop.** All progress is rebuilt from a journal. Budgets must not be refilled by
  dying, an old "verified" must not stand in for a check, gated goals wait for a person.
- **Feature shift.** The list is re-read every round and rewritten in place. "done" means
  accepted; order and red lines hold over crashes; prax commits alone only earned work.
- **Background tasks.** Three processes and two threads read, change and write one record
  without a lock. Nobody may invent a success, a living runner must not be called dead and a
  dead one must be noticed.
- **Agent loop.** Calls of one response run in parallel; guards rewrite the model's answers,
  also each other's. Edits must not overtake reads, loops must be broken, completion be
  checked, the reported verdict be the last one, and a task must end.
- **Cron.** Ticks overlap, jobs are read twice, workers outlive their dispatcher. Contract
  jobs are serialised, the same news are not told twice, and a success is an accepted one.
- **Memory.** An extraction in the background and a server in another process replace one
  file; several processes write SQLite. What was learned is lost for a reason only, and what
  the stores say is consistent.
- **Agents.** Plans come from a model, loops end by what it writes into a file. Every subtask
  runs once and after what it needs; the continuous agent ends, and resumes what it saved.
- **Sessions.** Attempts, summaries and two terminals rewrite one history, which must stay a
  conversation a provider accepts.
- **Hooks, configuration, models, tools.** Files change while they are cached; streams break
  off; edits shift each other's lines; containers die or belong to another process; prompts
  name directories outside the workspace.
- **Integrations.** Commands are cut off between files that belong to the user as well. An
  uninstall must remove what was installed and nothing else.

`hazards` in PROJECT.json names the line where each of these bites.

## 2. Modules

    HarnessPromise          what a run promises its operator (abstract)
      ^ refinement
    Harness, Verification  <- MCHarness;  HarnessProofs
    ShiftLoop  <- MCShiftLoop;  ShiftLoopProofs
    FeatureShift  <- MCFeatureShift;  FeatureShiftProofs
    BackgroundTask;  BackgroundTaskProofs
    ToolExecutor <- AgentLoop  <- MCAgentLoop;  AgentLoopProofs
    CronSchedule <- CronDispatch  <- MCCronDispatch;  CronDispatchProofs
    MemorySession, KnowledgeBase  <- MCMemory
    RalphRun, TeamRun  <- MCAgents  (proofs in AgentLoopProofs)
    ClaudeInstall, CodexProject, CodexPlugin  <- MCInstall;  InstallProofs
    Conversation, HookReload, ConfigCache, ModelChoice, ModelStream,
      FileEdits, Sandbox, PermissionGuard  <- MCServices  (FileEdits: AgentLoopProofs)
    ServicesProofs          Conversation, HookReload, ConfigCache, ModelChoice, ModelStream,
                            Sandbox, PermissionGuard, Verification, MemorySession, KnowledgeBase

MC modules give constants their values. Four of them hold several components that share no
state: a variable `part` (`task` in MCHarness) says which of them moves in a behaviour, the
others stay in one initial state.

### Harness, HarnessPromise
One coding run. `sup` is the position of `run_contract`/`supervise`, `rt` that of the child
runtime; an action is one piece of code between two points at which another process can
interfere (a file write, a verifier, adapter or worker call, a poll). `identity`, `result`,
`pause`, `contract` are the files; `dispatches`, `steps`, `outages` are counts of journal
events, which is all `execute` reads from the journal. `ws` is a snapshot of the declared
repositories: the version of the scoped contents, and of the rest (HEAD, index, other files);
`Guard` is `guard()`. The four calls of `check_boundary` are one pair of actions with `site`.
`SupervisorDies` is a SIGKILL: no handler, no `finally`; the runtime lives on until
`WatchParent` sees the pipe close. `RuntimeFails` may happen at every stage.
Dead locals are reset (`RuntimeGone`, `kind`), which merges states nobody can tell apart.

`HarnessPromise` has no processes: frozen once, attempts, bounded work, and a final pass on
an accepted checkpoint or an abandoned attempt. `KeepsPromise` is the refinement, with
`RunPhase` as the mapping.

### Verification
A task of kind "verification": `keeper` is the position of `run_contract`/`supervise`, `stage`
that of `execute_verification`. `marker` is created exclusively and then written, so it can be
torn. `began` is what the runtime froze; `now` what the repositories and the controls are.
The scope of such a task is empty, so `check_source` is equality. A report is a record of what
`validate_report` looks at. The adapter may leave a report before the dispatch; that it does
not touch the verifier's afterwards is trusted, as the module's docstring says.

### ShiftLoop
One `prax shift` run over all its windows. `journal` is the sequence of replayed events
(`approval`, `step_error` and `executor` events are never read back). Everything else in
`locals` is a local of `OrchestratorLoop.run` and dies with the window. `Gate` is the policy
check and the relay poll; `Decide` is the person, at any time. Windows of one run id are
sequential here; nothing in the code locks them (a hazard without a property yet).

### FeatureShift
All windows of `prax shift --features`. `Open` to `Save` are the rounds of `run_features`;
`Truncate`/`Save` are the two halves of `mark_done`'s in-place write, so `torn` is real. One
feature's loop is `Recheck`/`Gate`/`Work` here and `ShiftLoop` in full.

### BackgroundTask
`rec` is the JSON file. An update is `Get` (copy), patch, `Create` (replace); `job` and `copy`
say what each actor is in the middle of, so every stale write of every actor is possible.
`proc` distinguishes a zombie (its parent has not reaped it) from a process that is gone,
because `os.kill(pid, 0)` does not. What a note says is left out.

### ToolExecutor, AgentLoop
`ToolExecutor` is `StreamingToolExecutor`: safe calls start when submitted, others queue.
`AgentLoop` adds `run_agent_loop`, the guards in priority order (ChangeTracker, LoopDetection,
QualityGate, Evaluator) and the upgrade loop of `main.py`. `tracker` is the metadata of a
`RuntimeState` and is new in every iteration, as in the code.

### CronSchedule, CronDispatch
`CronSchedule` has `_parse_field`/`is_due` over parsed fields and `CronMatches`, crontab(5)
written independently: per part, without collapsing 0 and 7. `Parsed` is what `_parse_field`
accepts, `IsMoment` a moment of the calendar; the constants are assumed to be such. `CronDispatch` is the tick with
its two reads of `cron.yaml` (`Tick`, `Load`), the non-blocking lock, one job after another,
judging, delivering, recording, and `prax cron add`/`remove` as read, truncate, write. A
worker is a process with the run lock of its task: a second one is turned away, and one whose
dispatcher died is an orphan that may still be accepted. The order of due jobs is abstracted
to a set.

### MemorySession, KnowledgeBase
`MemorySession` is `memory.json` between the extraction of a native session (debounced, in the
background, drained by `_execute` before it closes the client) and the MCP server, which caches
the file by mtime. `overlap` is set when two load-change-replace sequences overlap: what is then
lost is known (section 6), and the property is about everything else. `KnowledgeBase` is the
SQLite side: an operation is one step where it begins with `BEGIN IMMEDIATE`, and a read and a
write step where its SELECT comes before the transaction; `found` and `tally` hold what was read.

### RalphRun, TeamRun
`RalphRun` is one session of the continuous agent over several starts: todos as the file has
them, iterations, recoveries (retry, next model, give up), checkpoints every `Interval`
iterations, a crash anywhere and a resume under the same session id. `TodoWrite` has no
condition on where the run stands: the background agents that Ralph's own StartTask detaches
hold the tool of the same directory, and may replace the list while the loop looks at it,
between its last look and the second one after `client.close()`, and while the process is dead.
`judged` is the last list anybody had written when that second look was taken, `overtaken` says
that a list came between the two looks. Work that is left without a checkpoint is at most an
interval: `max_iterations` stopped it, or it came between the looks (the run then answers
partial, below `max_iterations` and with nothing to resume), which `CompletionIsTrue` states.
`TeamRun` is one call of Sisyphus: the strategy, the decomposition
(any list of subtasks, with unknown, repeated or circular dependencies), Kahn's algorithm with
a step for each turn of its loop, the waves and their merge. `Acyclic` is the reference: every
part of the list has a subtask that needs nothing of that part.

### ClaudeInstall, CodexProject, CodexPlugin
Files are what they mean: a settings file is the set of its entries, an asset its version. No
file of the first and third is replaced atomically, so every write can be cut in the middle.
`UninstallIsClean` is about installations since the last restore: a restore may bring back an
older backup with entries of another profile.
`CodexProject` has two windows and the user's edits between any two looks of an install.

### Conversation, HookReload, ConfigCache, ModelChoice, ModelStream, FileEdits, Sandbox, PermissionGuard
What surrounds the agent loop, each with its disturbance: two terminals on one session; files
rewritten while hooks and configurations are loaded; a catalog and a client that search for the
same provider with code of their own; answers that break off; a file that agents and user save;
containers that die or belong to another process; calls and delegations with links. A message,
line or path is a small record; wording is left out. In `Conversation` the answer of the
upgrade check is free where it depends on text (an empty answer, a safety stop), and an
exception may come at every point of a turn.

`HookReload` keeps of the registry how often each hook of each file is in it. A text is
registered entry by entry, as in the code: `Malformed` stands for an entry of which
`_register_from_config` can make no hook (no object, a null matcher), `Leading` are the entries
before the first of those, and only a text without one has its time recorded. So a guard that
stands behind a malformed entry is off although the file parses, and the properties say no more
than that: nothing or the leading entries of one text, all entries once the time is recorded.

`PermissionGuard` distinguishes what a call declares (`Declared`, the only files the guard
sees) from what it may write (`MayWrite`): AstGrepReplace, the tools of MCP servers,
VerifyCommand and the shells declare nothing and may write any path. `WritesStayHome` therefore
speaks of what `workspace-write` promises: a file outside the workspace was not written by an
editing tool or a shell. It holds through every delegation, because a subagent's directory is
resolved and checked before it is its root. The records of background tasks are left out, and a
background agent is a run of its own that is always in `workspace-write`.

`ModelChoice` keeps of the upgrade path which models are on it. The order of hooks and of
models matters to no property. `ModelStream` takes the events of an answer one by one, in the
order in which providers send them. In `FileEdits` HashlineEdit makes the edits of a call one
by one on its copy of the lines, between reading the file and writing it.

## 3. Runs

Times are on two workers.

| Run | Instance | Shows |
|---|---|---|
| `harness` | coding run: 2 windows, 2 edits, 2 iterations, stuck after 2, one accepted content, supervisor killed everywhere but in `report`; verification: 8 kinds of report, 1 edit, every death (~150 s) | `VerifiedMeansAccepted`, `PauseStopsDispatch`, `NoForeignCheckpoint`, refinement `KeepsPromise`; `VerificationHolds` |
| `harness_live` | 2 windows, 1 edit, 1 iteration, killed anywhere; verification with 2 reports (~95 s) | `MCEverythingStops` |
| `harness_pause_crash` | as `harness`, killed in `report` too | `VerifiedMeansAccepted` **violated**, section 6 |
| `shift_loop` | 3 windows, 2 verifier texts, 2 iterations, limits of 2, 1 edit, 5 approval set-ups (~80 s) | `WorkBudget`, `VerifiedIsFresh`, `NoWorkWithoutConsent`, `ClaimWithdrawn`, `WindowEnds` |
| `background` | 2 client sessions, 1 note, 1 cancellation (~40 s) | `RecordIsTrue`, `DeadIsNoticed` |
| `feature_shift` | every list of 3 features from 7 kinds, a cap of 2 (~10 s) | `DoneIsTrue`, `RedLineIsBlessed`, `CommitIsEarned` |
| `agent_loop` | 4 batches of up to 3 calls, 3 configurations, 2 models, 4 iterations, 2 failures, 1 retry each (~90 s) | `Sequenced`, `ReportIsTrue`, `TaskEnds` |
| `cron_dispatch` | 2 dispatchers, 1 editor, 3 ticks, 1 change, 1 kill, a contract, a prompt and a legacy job, 2 tasks, 2 moments (~40 s) | `Serialized`, `NewsAreTold`, `DueIsCron` |
| `memory` | 2 facts, room for 1, 2 answers, 2 server calls; 2 processes, 2 triples, 2 days, 5 operations (~65 s) | `NothingIsLost`, `KnowledgeIsSound` |
| `agents` | 2 todos, 4 iterations, a checkpoint every 2, 2 starts, 2 writes of the list by anybody at any time, 2 other models; every list of 3 subtasks, 2 at a time (~95 s) | `RunIsAccounted`, `MCRalphWorks`, `TeamIsOrderly` |
| `install` | 2 assets in 2 profiles, 3 commands, 1 edit of the user; 2 windows of 2 versions, 3 commands, 2 edits by hand; 4 plugin commands (~55 s) | `UninstallIsClean`, `PluginIsBacked`, `UserEntriesSurvive`, `SkillIsSafe` |
| `services` | see below (~160 s) | `HistoryIsSound`, `HistoryLossIsExplained`, `HooksMatchFiles`, `NeverOlder`, `PathIsCallable`, `AnswerIsSound`, `EditsLand`, `SuccessRanAtHome`, `GuardHolds` |

### Bounds, and why they are enough
- Windows, iterations and limits of 2 or 3 are the smallest at which resumption, the last
  iteration and the limit itself differ from each other. Edits of 2 allow an edit and its
  answer (drift, then a second drift in another window); contents are compared for equality
  only, so a version per edit is as good as any text.
- Two clients of a background task give every stale write against every other: an update
  involves the runner's two threads, the starting session and those two.
- Three features have a first, a tied and a last; the seven kinds are one per route through
  router and gate.
- Two dispatchers are what a lock is about; a third tick is needed to see the same news
  again. `cron_dispatch` has one contract job, since jobs share no state but the lock.
- The agent's batches are: safe calls only, an edit between reads, a failing shell call and
  verifications around an edit.
- `memory`: a store with room for one of two facts has eviction at every insertion; five
  operations of two processes put any two operations in any order on what a third left.
- `agents`: an interval of 2 and four iterations have a crash before, at and after a
  checkpoint; with two writes a list is finished and one is overtaken, or one is written on
  each side of a crash; three subtasks have chains, cycles and repetitions.
- `install`: three commands are install, change of profile or repair, uninstall or restore,
  each possibly cut off before the next.
- `services`: two terminals, with a session of one earlier round, 2 models, 2 iterations, a
  limit of 4 messages; two hook files and the settings, two texts, one of them with a malformed
  entry between two others; two readers of two caches; two providers and two model names over
  bundled and project files and three `.env` files; two calls of two parts in five formats; two
  editors on a file of two lines, one of which sends lists of two edits; two processes with one
  container name, two containers, two commands each; two guarded calls with one link out of the
  workspace (a delegation and a call of the subagent). In `Conversation`, when both terminals
  are inside a turn, p moves first: turns read and write nothing shared. Likewise a tool that
  has begun to edit its copy of a file finishes first. The proofs of section 5 do not depend on
  any of these bounds. ### Fairness
- **Harness** (`harness_live`): the supervisor's own steps, which never wait on anything
  without a deadline (`wait_for_runtime` polls; `NoticeStop` is its wall-time deadline), and
  `WatchParent`, as the kernel reports EOF. Nothing is assumed of worker, verifier or adapter.
  The same two for a verification.
- **ShiftLoop**: the loop's own steps. Step executors have no timeout, so `WindowEnds` says:
  a window in which the agent does not hang for ever ends.
- **BackgroundTask**: one client, `Watcher`, keeps checking and carries its calls through; the
  session that started the runner ends or spawns something else some day, which reaps it.
  `DeadIsNoticed` holds only while nobody sends a note: a stale `UpdateTask` can write the
  pid away (section 6).
- **AgentLoop**: `WF(Next)`: provider calls (120 s) and tools have timeouts.
- **RalphRun**: its own steps; the model client has timeouts. Crashes are bounded by `Starts`,
  and the writes of the todo list, to which no fairness is given, by `Writes`.
- All others: safety only.

## 4. Assumptions of the models
- Edits are fresh: contents that were once replaced do not come back within a window (no
  ABA), except by `Repair`, which restores the checkpoint while the locks are free.
- Every write of a file that is modelled with an mtime gets an mtime of its own.
- A write of one harness file is atomic (`write_json` replaces) and succeeds; only the write
  of a background verdict may fail. The harness' `harness` run excludes a SIGKILL between the
  two writes of a pause, which the finding of section 6 is about.
- The wall budget is `MaxWindows` plus a stop that may come at any time. Its accounting is
  not modelled.
- The `TypeError` path for old gates in `OrchestratorLoop` is treated as no gate configured.
- AgentLoop leaves out middlewares that only append messages, DesignRestorationGuard (its
  `code_gen` is 0 whenever it looks), token budget and governance reload (main.py sets
  neither), hooks, and exceptions that leave the loop. Verification by Bash commands is
  folded into `VerifyCommand`. Calls of one name have one input.
- CronDispatch: the notifier takes a message or raises; writing the state file does not fail
  (if it did, the message would be told again); a truncated `cron.yaml` reads as empty; a
  schedule that cannot be parsed is rejected when loaded.
- Memory: a fact is its content; SQLite serialises writers; the context strings, the layers'
  wording, openviking, dialect, `session_memory` (nobody imports it), `MemoryStore.add_fact`
  (nobody calls it) and the wiping of an unreadable `memory.json` are left out.
- Install: commands of the Claude Code integration run one at a time; archive, history, dry
  runs, reports, the refusal of symlinks and the probe's internals are left out. So are a
  torn marketplace file that did not exist before (`codex/plugin.py:197`) and a user's hook inside
  an entry of Prax' own, which is pruned with it (`claude_code/settings.py:176`). `PluginHolds`
  is about histories in which every removal by `codex` succeeded.
- Tools: what a command does inside its container is left out; ApplyPatch is registered with no
  agent and left out; a line is its text, and its digest two digits that may collide.

## 5. Proofs

Every theorem is of the form `Spec => []P` or `Spec => [][A]_vars`, or says that the harness
implements its promise (`Spec => KeepsPromise`), for all constants that satisfy the modules'
named assumptions (well-formedness of the parameters, and where processes are counted that
there are finitely many; nothing about their size). Each rests on an invariant that is inductive where the property is not.

| Module | Theorems | The argument |
|---|---|---|
| HarnessProofs | `TypeCorrect`, `BudgetHolds`, `ResultsAreFinal`, `BaselineIsFrozen`, `PauseHolds`, `ForeignHolds`; `PassIsAccepted`, `PromiseKept` (these two given `"report" \notin CrashPoints`) | A start of the worker is journalled before it happens, so `runs` never exceeds `dispatches`, and one dispatch in flight accounts for the difference. While the window is over nobody may write, because the locks are inherited. Every checkpoint is guarded against the identity the window began with. `PauseHeeded` bounds the starts after a pause by where the supervisor stands; `ForeignApart` keeps what was written outside a window apart from every checkpoint and from what a window read. A verdict is followed from the sources the verifier read to both files: `Versions` (contents are never newer than the last edit), `RunningOnDisk` and `ClaimedInside` (what the files say while a runtime lives), `VerdictInformed` (a PASS is about `seen`), `AcceptedCarried` (`accepted`, `identity` and `result` agree until the window ends), `Exclusion` (one window at a time). With this invariant every step is a step of HarnessPromise (`Entered`, `Ended`, `Recorded`) or leaves what it shows unchanged (`Unseen`). |
| ShiftLoopProofs | `TypeCorrect`, `ConsentHolds`, `VerifiedHolds`, `BudgetHolds`, `ClaimHolds` | `Consent`: a standing approval is a consent, and past the gate there is one or none is needed. For the budget and the claim the journal is read by positions: what is restored from it is a number of positions or the last position of a kind, and what an appended event does to those is a lemma each. `WorkBudget`: the windows that started, and the iterations and failures since, are what the journal says, so a death refills nothing. `ClaimWithdrawn`: after the last "verified" a failed recheck is journalled before anybody works on. |
| BackgroundTaskProofs | `TypeCorrect`, `RecordHolds` | `CopiesSound`: what is to hold of the record has to hold of every copy in flight, and every pending job is justified; `RunnerLife` relates the runner's stages to its process. |
| FeatureShiftProofs | `DoneHolds`, `RedLineHolds`, `EarnedHolds` | `Chosen` (the feature at work is a pending one), `Named` (a record is about the feature it was asked for), `Approved`. That an unfinished list has a next feature is the least-number principle on priorities and positions. |
| AgentLoopProofs | `SequencedHolds`, `LoopsHold`, `ReportHolds`, `VerifiedHolds`; `RalphHolds`, `RalphWorks`; `TeamHolds`; `EditsHold` | `ExecInv`: stages are ordered as the calls were submitted. `CountInv`: executed changing batches never exceed the guard's count. `VerdictInv`: the verification of the highest position ran last, because it runs alone and in its place. Ralph: the checkpoint is never more than an interval behind, because the iterations between two checks are one, and after a resume they count on from the checkpoint; a run that is about to end for want of todos, and finds some after all, was `overtaken`. The team: the waves so far are closed under what their subtasks need; if Kahn's loop stops early, what is left is a part of the list in which everything needs something of that part, so the list was not acyclic; otherwise the waves are all of it (by counting positions). The edits: because the next edit is always of the last line that is left (`UpcomingIsLast`), what stands before it is as it was read, so making it replaces one line where the agent saw it (`ApplySplices`), and moves only what earlier edits have finished (`MadeMore`); nothing about folds is needed, since the tool makes one edit per step. |
| CronDispatchProofs | `TypeCorrect`, `SerializedHolds`, `NewsHold`, `SuccessHolds`, `IsDueIsCron`, `DueHolds` | `Guarded`: who has a contract job, waiting or at work, has the lock or is late. Hence without an excuse one dispatcher at most is between comparing and recording (`Alone`), and `News` says that what it compared with is still there. `Passed`/`Tells` follow an accepted verdict to the message. `IsDueIsCron`: for every schedule that parses and every moment `is_due` is crontab(5), field by field; the weekday is the one place where the code computes (7 is 0) and the reference does not. |
| ServicesProofs | `CacheHolds`, `SandboxHolds`, `GuardStands`, `VerificationStands`, `KnowledgeHolds`, `MemoryHolds`, `HooksHold`, `HistoryHolds`, `HistoryLossHolds`, `PathHolds`, `AnswerHolds` | `CacheInv`: the stamp of a cached text is not newer than the text, nor the text than the file. `BoxInv`: container numbers are unique and a process holds only its own (`Holds`); a success is read only from code 0 (`FailureIsRead`). `GuardInv`: every resolved directory is inside the workspace (`Resolved`, `PrefixOrder`), and the score of a permitted call is at most 15 (`NeverTooRisky`); each written file was declared and checked, or its writer declares none. `VerInv`: nothing happened before the launch (`Untouched`), the marker is whole before the one start (`Marked`), what moved cannot move back (`Compared`), and the verdict reaches the file unchanged (`Carried`). `GraphInv`: one transaction is open at a time, and what it would leave if it committed now is sound (`Committable`). `FactInv` and `ExpInv` count: the rows there are, and the processes about to add one, together stay under the bound. Memory: every copy somebody will write has what the file had when it was read, or the file is another by now, which is an overlap; and what is in a copy and was not in the file is accounted for. Hooks: a file whose time is recorded has no malformed entry and is in the registry as often as its text says, and one that is being read has nothing there, so that one reading makes the leading entries of one text (`ReadMakes`) (`touched` says what was written since the session last began to look). History: `Orderly` is kept by each thing that is done to a list of messages (appending a call and its result, cutting, summarising, noting), a lemma each; lengths are bounded by what a round may add; an attempt starts from the loaded messages, so calls of its task are its own. Model choice: the catalog's provider is among those the client looks at, so the client finds one with a key, the first of which is the catalog's kind or names the difference (`PathOrExcuse`). Answers: `Gathered` says that where each call has an index of its own the client has the calls opened so far, in order, and of each the pieces that arrived; `Arrived`, that the client knows how the stream ended; that a request answers its calls is by positions in three sequences, one after the other. |
| InstallProofs | `PluginHolds`, `SkillHolds`, `UninstallHolds`, `UserEntriesHold` | `PlugInv`: the steps of a command are done in order, so what a cut leaves is a prefix of it. `ProjInv`: while nothing explains a mismatch, skill and receipt agree or one window, the `Owner`, is between its two writes, and a window past its last look saw what is there. `InstInv`: what is installed is explained by profiles that were asked for, every backup has what the user had when it was taken, and the recorded state is what an uninstall needs to remove it. |

The theorems `TypeCorrect` (four modules), `BudgetHolds` of the harness, `ResultsAreFinal`,
`BaselineIsFrozen`, `LoopsHold`, AgentLoop's `VerifiedHolds`, `SuccessHolds`, `RalphWorks` and
`IsDueIsCron` state properties that no run lists: they were model-checked before they were
proved, and the proof makes the run superfluous.

What failed proof attempts said about the models, before they were corrected:

- `UninstallIsClean` was false after a restore of an older backup, which the run's three
  commands could not reach with two profiles before it; it now speaks of what was asked for
  since the last restore.
- `DoctorIsCurrent` excused more than it had to: one change under a diagnosis is noticed, and
  only a change and its reversal is not. `PairMatches` needed the same excuse: an install whose
  skill is changed and changed back by two other windows records a receipt of its own.
- `CompletionIsTrue` of Ralph said less than the code does: it now names the two ways in which
  a run may leave work without a checkpoint. The second, a list that a background agent writes
  between the two looks, is there because such agents are in the model.
- In `Conversation` a request after a summary may begin with a result; which messages may stand
  before a result had to be said (`Orderly`) before it was inductive, and exceptions of
  `after_model` were missing.
- Hooks: the registry is only as fresh as the last look, and `touched` was missing to say so.
  With texts that are registered entry by entry, `RegistryIsWhole` speaks of the leading entries.
- `EditsLand` was false with three editors: the model let a killed process save the empty file it
  leaves behind, which another editor then took for the text to edit. `KilledEmpty` now leaves
  `whole` alone, and the user may save while a tool is writing.
- What a fold over a sequence computes is induction, which the prover does not have. Where the
  code loops over a list, the models take one element per step (`FileEdits`, `ModelStream`) or
  speak of positions (`ModelChoice`, `ShiftLoop`), and the loop becomes an invariant.

Only model-checked: liveness (`MCEverythingStops`, `WindowEnds`, `DeadIsNoticed`, `TaskEnds`,
`MCRalphWorks`), because the prover does not handle fairness and ENABLED.

## 6. What was found

`harness_pause_crash` is expected to be violated: a supervisor killed between the two writes of
a pause leaves the runtime's PASS beside a checkpoint that no verifier accepted.

Seen while modelling, contained in the models, without a run of their own:

- **Harness.** A verification task that is cancelled before its window answers PAUSED, writes
  no result, and its id is spent. `verification_dispatches` is 1 although the command could not
  be started.
- **Shift loop.** One failed recheck overrides the feedback of all later windows
  (`core/orchestrator_loop.py:203`, against the docstring at :359); after an outage the resumed
  feedback is the outage; a request whose notification failed is parked without a link.
- **Background tasks.** UpdateTask (`tools/background_task.py:297`) overwrites a result reported
  since it read the record, against its docstring at :254; it can erase the recorded pid, and
  CheckTask can overwrite a success that arrived meanwhile.
- **Feature shift.** Features gated by a deny pattern share one approval
  (`commands/orchestrate.py:191`, against docs/history/prax-shift-v2.md:164); `git add -A` takes
  along work that waits for review; a crash in `mark_done` leaves a torn list, which stops later
  windows.
- **Agent loop.** The require-verify gate looks at a tracker that is new in every iteration
  (`core/agent_loop.py:209`); a safety stop is a final text that later guards may turn into
  another call; a run that was only denied permissions is repeated with every model.
- **Cron.** A contract job added between the two reads of `cron.yaml` runs without the dispatch
  lock (`late`); a tick that meets the lock loses its prompt jobs too; a relapse after an untold
  success is silent.
- **Memory.** The extraction and the server lose each other's updates when they overlap;
  `store_fact` looks for duplicates outside its write transaction; nothing waits for the compound
  extraction before the client is closed; the vector store never deletes; a migration brings
  invalidated triples back; `memory_store_fact` reports success below the threshold.
- **Agents.** The todo tool's statuses and the ones Ralph looks for differ ("completed" against
  "done"), so only the store's emptying of a finished list ends the loop; SKIP_ITEM is never
  carried out; the checkpoint's model is ignored on resume, and no caller passes a session id;
  subtasks share `todos.json` although `agents/team.py` calls them isolated; Sisyphus' executor
  takes four arguments where the Task tool passes five; a list that a background agent writes
  between the loop's last look and the second one makes a run answer partial below
  `max_iterations` with no checkpoint to resume.
- **Installations.** A reinstall with a narrower profile leaves orphans; a repair reuses the
  recorded backup and backups are named to the second; restore refuses after an uninstall; an
  uninstall deletes assets the user edited; a user's server under a managed name and a user's
  permission equal to a managed one are removed; a Codex skill without its receipt (a cut
  between the two) is refused by later installs; a failed `codex` removal is ignored.
- **Sessions and models.** The final answer is never appended to the history; a cut may leave a
  tool result without its call, which sticks until `/clear`; a failed summary discards messages
  all the same; overlapping terminals keep the last writer's turn; settings hooks are
  registered again in every REPL turn, and those of a deleted file stay; a malformed entry of a
  hook file disables the entries after it and has the file loaded again at every look; a
  priority that is not a number would make every later registration raise in the middle
  (assumed away); a clean end of a stream counts as a complete answer; the catalog and the
  client disagree about templates and base URLs.
- **Tools.** Two edits of one line shift each other although the edits are sorted; a final
  newline is dropped; an in-place write that is killed leaves an empty file; containers are never
  released (nobody calls `release` or `shutdown`); a successful command that prints
  "Exit code: N" counts as failed; the risk score of a permitted call is at most 15, so the risk
  check decides nothing (proved); AstGrepReplace is REVIEW-level and declares no file, so in
  workspace-write the guard lets it rewrite any path (`tools/ast_grep.py:217`).

## 7. Not modelled

- **Harness**: locks of several runs over overlapping repositories (taken sorted and without
  waiting, so nobody waits for anybody), the wall budget carried over in `result.json`, `plan`
  and `status`. Two windows of one shift run at once: the journal has no answer for it, and the
  code locks nothing; a hazard without a property.
- **Relay**: HTTP, tokens and concurrent requests for one id.
- **Cron installer, notifiers, WeChat client, web search, git, tmux and ast-grep tools**: one
  external call each.
- **Prompt assembly, skills, traces, TUI, argument parsing**: they shape text for one caller.
- **Content pipelines**: scores of texts and article workflows of one process that calls
  injected services in a row, an application on top of the system. (Its `--resume` plans
  positions anew and resets the calibration of a batch.)
- **FeatureShift**: a list that becomes unreadable in the middle of a window, which is then
  reported as having no feature left (`core/feature_driver.py:63`).
- **ShiftLoop under FeatureShift**: `Work` stands for a run of ShiftLoop; that it is what such a
  run does is not shown as a refinement.

`components` in PROJECT.json gives the reason for each part.
