----------------------------- MODULE HookReload -----------------------------
(***************************************************************************)
(* The hooks of an interactive session (core/hooks.py, HookMiddleware in   *)
(* core/middleware.py): one registry per process, filled from the files of *)
(* .prax/hooks, which are looked at again before every model call, and     *)
(* from .claude/settings.json.  A hook file is rewritten in place by the   *)
(* user's editor: for a while its text does not parse.  A text that does   *)
(* is registered entry by entry, and the first entry that is malformed (no *)
(* object, or a matcher that is none) ends that: the entries before it     *)
(* stay registered.  Each write of a file gets a modification time of its  *)
(* own.  Of the registry no more is kept than how often each hook of each  *)
(* file is in it: every matching hook runs until one answers, in an order  *)
(* that no property is about.  Entries without a command are left out, and *)
(* priorities are numbers: one that does not compare with the others would *)
(* make every later registration raise in the middle.                      *)
(***************************************************************************)
EXTENDS Integers, FiniteSets

CONSTANTS
  HookFiles,   \* the *.json files of the hooks directory
  HooksIn,     \* HooksIn[v]: the entries of version v of a hook file
  SettingHooks,\* the entries of .claude/settings.json
  Malformed,   \* the entry of which no hook can be made
  HookEdits,   \* bound on the writes of a file
  Turns,       \* bound on the turns of the session
  ModelCalls   \* bound on the tool rounds of a turn

Versions == DOMAIN HooksIn
Hooks == (UNION {{HooksIn[v][i] : i \in DOMAIN HooksIn[v]} : v \in Versions}
           \cup {SettingHooks[i] : i \in DOMAIN SettingHooks}) \ {Malformed}
Sources == HookFiles \cup {"settings"}

ASSUME HookReloadAssumption ==
  /\ 1 \in Versions /\ "settings" \notin HookFiles /\ HookEdits \in Nat
  /\ \A v \in Versions : IsFiniteSet(DOMAIN HooksIn[v])
  /\ IsFiniteSet(DOMAIN SettingHooks)
  /\ \A h \in Hooks : h.prio \in Int

VARIABLES
  onDisk,  \* onDisk[f]: version, modification time (the number of writes), whether it parses
  reg,     \* HookRegistry._hooks: reg[s][h], how often hook h of s is registered
  loaded,  \* HookRegistry._file_mtimes
  turn,    \* the session: turn, model call, step, files left to look at, what was seen
  touched  \* history: the files written since the session last began to look

hookVars == <<onDisk, reg, loaded, turn, touched>>

HookTypeOK ==
  /\ onDisk \in [HookFiles -> [ver : Versions, time : Nat, parses : BOOLEAN]]
  /\ reg \in [Sources -> [Hooks -> Nat]] /\ loaded \in [HookFiles -> Nat]
  /\ turn.pc \in {"idle", "build", "read", "model", "tool"}
  /\ turn.left \subseteq HookFiles /\ turn.seen \in Nat /\ touched \subseteq HookFiles

NoHooks == [h \in Hooks |-> 0]
HookInit ==
  /\ onDisk = [f \in HookFiles |-> [ver |-> 1, time |-> 1, parses |-> TRUE]]
  /\ reg = [s \in Sources |-> NoHooks] /\ loaded = [f \in HookFiles |-> 0]
  /\ turn = [pc |-> "idle", n |-> 0, call |-> 0, left |-> {}, f |-> "settings", seen |-> 0]
  /\ touched = {}

\* The user rewrites a file; until the write ends its text does not parse.
WriteBegins(f) ==
  /\ onDisk[f].parses /\ onDisk[f].time < HookEdits
  /\ onDisk' = [onDisk EXCEPT ![f].time = @ + 1, ![f].parses = FALSE]
  /\ touched' = touched \cup {f} /\ UNCHANGED <<reg, loaded, turn>>
WriteEnds(f, v) ==
  /\ ~onDisk[f].parses
  /\ onDisk' = [onDisk EXCEPT ![f] = [ver |-> v, time |-> onDisk[f].time + 1, parses |-> TRUE]]
  /\ touched' = touched \cup {f} /\ UNCHANGED <<reg, loaded, turn>>

----------------------------------------------------------------------------

\* _register_from_config() raises at the first malformed entry of a list: what
\* stands before it is registered, each entry once.
NoneMalformed(list) == \A i \in DOMAIN list : list[i] # Malformed
Leading(list) == {i \in DOMAIN list : \A j \in DOMAIN list : list[j] = Malformed => i < j}
Times(list) == [h \in Hooks |-> Cardinality({i \in Leading(list) : list[i] = h})]
RegisterAll(hooks, list, s) == [hooks EXCEPT ![s] = [h \in Hooks |-> @[h] + Times(list)[h]]]
BuggyWithoutFile(hooks, f) == hooks
WithoutFile(hooks, f) == [hooks EXCEPT ![f] = NoHooks]
SomeHook(event) == \E s \in Sources, h \in Hooks : reg[s][h] > 0 /\ h.on = event

\* HookMiddleware(): every turn loads the directory and, again, the settings.
TurnBegins ==
  /\ turn.pc = "idle" /\ turn.n < Turns
  /\ turn' = [turn EXCEPT !.pc = "build", !.n = @ + 1, !.call = 0, !.left = HookFiles]
  /\ touched' = {} /\ UNCHANGED <<onDisk, reg, loaded>>

\* load_from_file(): the stat; a file whose time did not move is skipped, and
\* otherwise what it had registered is dropped before it is opened.
StatHooks(f) ==
  /\ turn.pc = "build" /\ f \in turn.left
  /\ IF loaded[f] = onDisk[f].time
       THEN turn' = [turn EXCEPT !.left = @ \ {f}] /\ UNCHANGED reg
       ELSE /\ turn' = [turn EXCEPT !.left = @ \ {f}, !.f = f, !.seen = onDisk[f].time, !.pc = "read"]
            /\ reg' = WithoutFile(reg, f)
  /\ UNCHANGED <<onDisk, loaded, touched>>

\* A text that does not parse is logged, and so is one with a malformed entry,
\* after the entries before it: the time is kept only of a text that is well-formed.
ReadHooks ==
  /\ turn.pc = "read" /\ turn' = [turn EXCEPT !.pc = "build"]
  /\ LET text == HooksIn[onDisk[turn.f].ver] IN
       /\ reg' = IF onDisk[turn.f].parses THEN RegisterAll(reg, text, turn.f) ELSE reg
       /\ loaded' = IF onDisk[turn.f].parses /\ NoneMalformed(text) THEN [loaded EXCEPT ![turn.f] = turn.seen] ELSE loaded
  /\ UNCHANGED <<onDisk, touched>>

\* load_from_claude_settings() registers without looking for its earlier hooks;
\* the hook files are looked at once more before the first model call.
LoadSettings ==
  /\ turn.pc = "build" /\ turn.left = {} /\ turn.call = 0
  /\ reg' = RegisterAll(reg, SettingHooks, "settings")
  /\ turn' = [turn EXCEPT !.call = 1, !.left = HookFiles]
  /\ touched' = {} /\ UNCHANGED <<onDisk, loaded>>
\* The PreModel hooks, and the model.
ModelCall ==
  /\ turn.pc = "build" /\ turn.left = {} /\ turn.call > 0
  /\ turn' = [turn EXCEPT !.pc = "model"] /\ UNCHANGED <<onDisk, reg, loaded, touched>>

\* execute_hooks(): a hook that fails, times out or cannot start answers in
\* place of the tool.  The next model call looks at every file again.
BeforeTool(blocked) ==
  /\ turn.pc = "model" /\ turn.call <= ModelCalls /\ (blocked => SomeHook("PreToolUse"))
  /\ turn' = [turn EXCEPT !.pc = IF blocked THEN "build" ELSE "tool", !.call = @ + 1, !.left = HookFiles]
  /\ touched' = {} /\ UNCHANGED <<onDisk, reg, loaded>>
\* The tool runs and PostToolUse hooks may add a warning.
ToolRuns == turn.pc = "tool" /\ turn' = [turn EXCEPT !.pc = "build"] /\ UNCHANGED <<onDisk, reg, loaded, touched>>
TurnEnds == turn.pc = "model" /\ turn' = [turn EXCEPT !.pc = "idle"] /\ UNCHANGED <<onDisk, reg, loaded, touched>>

HookNext ==
  \/ \E f \in HookFiles : WriteBegins(f) \/ StatHooks(f) \/ \E v \in Versions : WriteEnds(f, v)
  \/ TurnBegins \/ ReadHooks \/ LoadSettings \/ ModelCall
  \/ (\E blocked \in BOOLEAN : BeforeTool(blocked)) \/ ToolRuns \/ TurnEnds

HookSpec == HookInit /\ [][HookNext]_hookVars

----------------------------------------------------------------------------
\* How often a text has each hook, all its entries counted.
Declares(v) == [h \in Hooks |-> Cardinality({i \in DOMAIN HooksIn[v] : HooksIn[v][i] = h})]

\* The registry holds of each file nothing, or the entries of one text from its
\* first on, each as often as it stands there: never entries of two texts, nor one
\* load on top of another.  A file whose time is recorded is well-formed and there
\* with all it declares; a file that was edited while it was loaded is loaded
\* again, and so is one with a malformed entry, at every look.
RegistryIsWhole ==
  \A f \in HookFiles :
    /\ reg[f] = NoHooks \/ \E v \in Versions : reg[f] = Times(HooksIn[v])
    /\ loaded[f] = onDisk[f].time => NoneMalformed(HooksIn[onDisk[f].ver]) /\ reg[f] = Declares(onDisk[f].ver)

\* What can be registered of a text that parses is, and its time is recorded.
UpToDate(f) ==
  onDisk[f].parses => /\ reg[f] = Times(HooksIn[onDisk[f].ver])
                      /\ NoneMalformed(HooksIn[onDisk[f].ver]) => loaded[f] = onDisk[f].time
\* When a tool may run the registry is no older than the last look at the files:
\* of each that parses and was not written since, it has what can be registered
\* of the text that is there (a guard that stands behind a malformed entry is off).
RegistryIsFresh == turn.pc = "model" => \A f \in HookFiles \ touched : UpToDate(f)

HooksMatchFiles == RegistryIsWhole /\ RegistryIsFresh
=============================================================================
