--------------------------- MODULE ClaudeInstall ---------------------------
(***************************************************************************)
(* The integration Prax installs into a Claude Code directory              *)
(* (integrations/claude_code/): assets, entries merged into settings.json  *)
(* and .mcp.json, versioned backups of both, and the install-state that    *)
(* says what to remove.  Operations run one at a time and may be cut off   *)
(* at any step; none of the files is written atomically, so one that is    *)
(* being written then is torn, and no longer JSON.                         *)
(*                                                                         *)
(* A settings file is the set of its entries.  "user" is one of the user's *)
(* own; "stale" a hook of Prax under another root, "usrv" the user's own   *)
(* server under the name of a managed one.  Left out: the archive and the  *)
(* history of states, dry runs, the reports.                               *)
(***************************************************************************)
EXTENDS Integers, FiniteSets

CONSTANTS Assets,    \* destinations
          Tier,      \* the profile of each, as _profile_for_path has it
          Seconds,   \* the clock, by which backups are named
          Requests,  \* bound: the profiles that are asked for
          Ops, Edits \* bounds: operations, changes the user makes

\* The clock starts at its first second.
ASSUME ClockAssumption == Seconds \subseteq Int /\ \E t \in Seconds : \A u \in Seconds : t <= u

VARIABLES disk,     \* for each asset "none", "good" or "edited"
          file,     \* settings.json and .mcp.json: [st, items]
          state,    \* install-state.json
          backups,  \* for each file and second the copy of that name
          now, op, left, stage,  \* the operation, the assets it still has to do, the step
          ops, edits,
          wanted,   \* the profiles and plugins asked for since the root and its backups were clean
          last      \* the operation that ended last

instVars == <<disk, file, state, backups, now, op, left, stage, ops, edits, wanted, last>>

Files == {"settings", "mcp"}
Profiles == <<"minimal", "developer", "full">>
Rank(p) == CHOOSE n \in 1 .. 3 : Profiles[n] = p
NoFile == [st |-> "none", items |-> {}]
TornFile == [st |-> "torn", items |-> {}]
Holding(s) == [st |-> "ok", items |-> s]
NoState == [st |-> "none", profile |-> "full", plugin |-> FALSE, backed |-> {}]
TornState == [NoState EXCEPT !.st = "torn"]
Idle == [kind |-> "idle", profile |-> "full", plugin |-> FALSE, prior |-> NoState, target |-> "settings", from |-> NoFile, made |-> {}]

\* The entries of Prax.
Ours == {"perm", "hook", "plug", "srv"}
Contents == {c \in [st : {"none", "torn", "ok"}, items : SUBSET (Ours \union {"user", "stale", "usrv"})] :
               c.st # "ok" => c.items = {}}
Asked == Requests \union {"full"}
States == [st : {"none", "torn", "ok"}, profile : Asked, plugin : BOOLEAN, backed : SUBSET Files]
Operations == [kind : {"idle", "install", "repair", "uninstall", "doctor", "restore"}, profile : Asked,
               plugin : BOOLEAN, prior : States, target : Files, from : Contents, made : SUBSET Files]

InstTypeOK ==
  /\ disk \in [Assets -> {"none", "good", "edited"}] /\ file \in [Files -> Contents]
  /\ state \in States /\ backups \in [Files -> [Seconds -> Contents]]
  /\ now \in Seconds /\ op \in Operations /\ left \subseteq Assets
  /\ stage \in {"idle", "assets", "backup", "settings", "mcp", "state", "copy"}

\* resolve_claude_assets
Resolved(p) == {a \in Assets : Rank(Tier[a]) <= Rank(p)}

\* build_managed_settings, build_managed_plugin_settings and build_managed_mcp_config.
Managed(f, plugin) == IF f = "mcp" THEN {"srv"} ELSE {"perm", "hook"} \union (IF plugin THEN {"plug"} ELSE {})

\* merge_settings and merge_mcp_config: hooks of Prax under any root make way
\* for the managed ones, and so does a server of a managed name.
Merged(s, m) == (s \ ((IF "hook" \in m THEN {"stale"} ELSE {}) \union (IF "srv" \in m THEN {"usrv"} ELSE {}))) \union m
\* remove_managed_settings by equality, remove_managed_mcp_config by name.
Removed(s, m) == s \ (m \union (IF "srv" \in m THEN {"usrv"} ELSE {}))

\* A mutation of Recorded: the state keeps the settings without the plugin's.
BuggyRecorded(f, st) == Managed(f, FALSE)
\* What the state file says is managed.
Recorded(f, st) == Managed(f, st.plugin)
-----------------------------------------------------------------------------
InstInit ==
  /\ disk = [a \in Assets |-> "none"]
  /\ file \in {[f \in Files |-> IF f = "mcp" THEN m ELSE s] :
                 s \in {NoFile, Holding({"user", "stale"})}, m \in {NoFile, Holding({"user", "usrv"})}}
  /\ state = NoState /\ backups = [f \in Files |-> [t \in Seconds |-> NoFile]]
  /\ now = CHOOSE t \in Seconds : \A u \in Seconds : t <= u
  /\ op = Idle /\ left = {} /\ stage = "idle" /\ ops = 0 /\ edits = 0 /\ wanted = {} /\ last = "none"

\* load_install_state raises on a torn state file: nothing starts with one.
Start(kind, profile, plugin) ==
  /\ stage = "idle" /\ ops < Ops /\ state.st # "torn" /\ ops' = ops + 1
  /\ op' = [Idle EXCEPT !.kind = kind, !.profile = profile, !.plugin = plugin, !.prior = state]
  /\ UNCHANGED <<disk, file, state, backups, now, edits, last>>

InstallStarts(p, g) == /\ Start("install", p, g) /\ stage' = "assets" /\ left' = Resolved(p)
                       /\ wanted' = wanted \union {<<p, g>>}
\* Only the assets that are missing or differ are written.
RepairStarts(p, g) == /\ Start("repair", p, g) /\ stage' = "assets"
                      /\ left' = {a \in Resolved(p) : disk[a] # "good"}
                      /\ wanted' = wanted \union {<<p, g>>}
UninstallStarts == /\ state.st = "ok" /\ Start("uninstall", state.profile, state.plugin)
                   /\ stage' = "assets" /\ left' = Resolved(state.profile) /\ UNCHANGED wanted
\* doctor_claude_install reads everything and writes the state again.
DoctorStarts == /\ state.st = "ok" /\ \A f \in Files : file[f].st # "torn"
                /\ Start("doctor", state.profile, state.plugin) /\ stage' = "state" /\ left' = {}
                /\ UNCHANGED wanted

\* resolve_backup_path: the backup that is named, or the newest.
RestoreFrom(f, t) == /\ stage = "idle" /\ ops < Ops /\ state.st = "ok" /\ backups[f][t] # NoFile
                     /\ op' = [Idle EXCEPT !.kind = "restore", !.prior = state, !.target = f, !.from = backups[f][t]]
                     /\ stage' = "copy" /\ ops' = ops + 1
                     /\ UNCHANGED <<disk, file, state, backups, now, left, edits, wanted, last>>

Step(a, b) == stage = a /\ stage' = b /\ UNCHANGED <<now, op, ops, edits, wanted>>
Ends == stage' = "idle" /\ op' = Idle /\ last' = op.kind /\ UNCHANGED <<now, ops, edits>>

WriteAsset(a) == /\ stage = "assets" /\ a \in left /\ left' = left \ {a}
                 /\ disk' = [disk EXCEPT ![a] = IF op.kind = "uninstall" THEN "none" ELSE "good"]
                 /\ UNCHANGED <<file, state, backups, now, op, stage, ops, edits, wanted, last>>
AssetsDone == /\ left = {} /\ Step("assets", IF op.kind = "uninstall" THEN "settings" ELSE "backup")
              /\ UNCHANGED <<disk, file, state, backups, left, last>>

\* A mutation of BackedUp: an install that finds a backup recorded makes none.
BuggyBackedUp(f) == f \in op.prior.backed
\* Repair backs up only what the state has no backup of.
BackedUp(f) == op.kind = "repair" /\ f \in op.prior.backed
\* backup_settings and backup_mcp_config: one name to the second.
Backup ==
  LET made == {f \in Files : ~BackedUp(f) /\ file[f].st # "none"} IN
    /\ stage = "backup" /\ stage' = "settings" /\ op' = [op EXCEPT !.made = made]
    /\ backups' = [f \in Files |-> IF f \in made THEN [backups[f] EXCEPT ![now] = file[f]] ELSE backups[f]]
    /\ UNCHANGED <<disk, file, state, left, now, ops, edits, wanted, last>>

\* A file is loaded, merged and written; a torn one stops the operation.
MergeFile(f, next) ==
  /\ op.kind \in {"install", "repair"} /\ file[f].st # "torn" /\ Step(f, next)
  /\ file' = [file EXCEPT ![f] = Holding(Merged(@.items, Managed(f, op.plugin)))]
  /\ UNCHANGED <<disk, state, backups, left, last>>
Rest(s) == IF s = {} THEN NoFile ELSE Holding(s)
CleanFile(f, next) ==
  /\ op.kind = "uninstall" /\ file[f].st # "torn" /\ Step(f, next)
  /\ file' = [file EXCEPT ![f] = IF @ = NoFile THEN @ ELSE Rest(Removed(@.items, Recorded(f, op.prior)))]
  /\ UNCHANGED <<disk, state, backups, left, last>>
Raises == /\ stage \in Files /\ file[stage].st = "torn" /\ Ends
          /\ UNCHANGED <<disk, file, state, backups, left, wanted>>

Clean == /\ \A a \in Assets : disk[a] = "none"
         /\ \A f \in Files : file[f].items \cap Ours = {}
CleanBackups == \A f \in Files, t \in Seconds : backups[f][t].items \cap Ours = {}

\* The state is written last, and removed last.
SaveState ==
  /\ stage = "state" /\ op.kind # "uninstall" /\ Ends
  /\ state' = IF op.kind = "doctor" THEN op.prior
              ELSE [st |-> "ok", profile |-> op.profile, plugin |-> op.plugin,
                    backed |-> op.prior.backed \union op.made]
  /\ UNCHANGED <<disk, file, backups, left, wanted>>
RemoveState == /\ stage = "state" /\ op.kind = "uninstall" /\ Ends /\ state' = NoState
               /\ wanted' = IF Clean /\ CleanBackups THEN {} ELSE wanted
               /\ UNCHANGED <<disk, file, backups, left>>
Restore == /\ stage = "copy" /\ Ends /\ file' = [file EXCEPT ![op.target] = op.from]
           /\ UNCHANGED <<disk, state, backups, left, wanted>>

\* The process is cut off, in the middle of what it writes or before: a file
\* or a copy is torn, and an asset differs from its source.
CutOff ==
  /\ stage # "idle" /\ stage' = "idle" /\ op' = Idle /\ left' = {} /\ last' = "crash"
  /\ \/ stage \in Files /\ file' = [file EXCEPT ![stage] = TornFile] /\ UNCHANGED <<disk, state, backups>>
     \/ stage = "copy" /\ file' = [file EXCEPT ![op.target] = TornFile] /\ UNCHANGED <<disk, state, backups>>
     \/ stage = "state" /\ op.kind # "uninstall" /\ state' = TornState /\ UNCHANGED <<disk, file, backups>>
     \/ /\ stage = "backup" /\ UNCHANGED <<disk, file, state>>
        /\ \E f \in Files : /\ ~BackedUp(f) /\ file[f].st # "none"
                             /\ backups' = [backups EXCEPT ![f][now] = TornFile]
     \/ /\ stage = "assets" /\ op.kind # "uninstall" /\ UNCHANGED <<file, state, backups>>
        /\ \E a \in left : disk' = [disk EXCEPT ![a] = "edited"]
     \/ UNCHANGED <<disk, file, state, backups>>
  /\ UNCHANGED <<now, ops, edits, wanted>>

UserEdits == /\ stage = "idle" /\ edits < Edits /\ edits' = edits + 1
             /\ \/ \E a \in Assets : disk[a] = "good" /\ disk' = [disk EXCEPT ![a] = "edited"] /\ UNCHANGED file
                \/ \E f \in Files : /\ file[f].st # "torn" /\ UNCHANGED disk
                                    /\ file' = [file EXCEPT ![f] = Holding(@.items \union {"user"})]
             /\ UNCHANGED <<state, backups, now, op, left, stage, ops, wanted, last>>
\* The two backups of an operation bear one second.
Tick == /\ stage = "idle" /\ now + 1 \in Seconds /\ now' = now + 1
        /\ UNCHANGED <<disk, file, state, backups, op, left, stage, ops, edits, wanted, last>>

InstNext ==
  \/ \E p \in Requests, g \in BOOLEAN : InstallStarts(p, g) \/ RepairStarts(p, g)
  \/ UninstallStarts \/ DoctorStarts
  \/ \E f \in Files, t \in Seconds : RestoreFrom(f, t)
  \/ \E a \in Assets : WriteAsset(a)
  \/ AssetsDone \/ Backup
  \/ MergeFile("settings", "mcp") \/ MergeFile("mcp", "state")
  \/ CleanFile("settings", "mcp") \/ CleanFile("mcp", "state")
  \/ Raises \/ SaveState \/ RemoveState \/ Restore \/ CutOff \/ UserEdits \/ Tick
InstSpec == InstInit /\ [][InstNext]_instVars
-----------------------------------------------------------------------------
(* Properties *)

\* No operation but a restore takes from the user's entries: a step leaves
\* them in the file, or it is cut off while writing it, and what an install
\* tears it has copied before.
UserEntriesSurvive ==
  [][op.kind # "restore" =>
       \A f \in Files : "user" \in file[f].items /\ "user" \notin file'[f].items =>
         /\ file'[f] = TornFile
         /\ op.kind = "install" => \E t \in Seconds : backups[f][t] = file[f]]_instVars

\* An uninstall that ends with the state removed leaves nothing of Prax, as
\* long as every install and repair before it asked for one profile and plugin:
\* what a narrower one stops recording stays, and so does what a restore brings
\* back from a copy made under another one.
UninstallIsClean ==
  state.st = "none" /\ last = "uninstall" /\ stage = "idle" /\ (\A u, v \in wanted : u = v) => Clean
=============================================================================
