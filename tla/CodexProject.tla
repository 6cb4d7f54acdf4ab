---------------------------- MODULE CodexProject ----------------------------
(***************************************************************************)
(* The project-scoped Codex skill (integrations/codex/project.py): two     *)
(* windows install or diagnose one project while the user edits it.  Both  *)
(* files are replaced atomically, and everything that was read before the  *)
(* discovery probe is compared again before the first write.  An install   *)
(* is a sequence of looks and writes; between any two of them the files    *)
(* may change.                                                             *)
(*                                                                         *)
(* A receipt is named by the version it was written for, which gives the   *)
(* hash of the skill.  Left out: symbolic links, which are refused, and    *)
(* what the probe runs.                                                    *)
(***************************************************************************)
EXTENDS Integers, FiniteSets

CONSTANTS Windows,   \* processes of prax
          Ver,       \* the version each has bundled
          Cmds, Hand \* bounds: commands, changes by hand

\* A version is no word for what a file may hold besides.
ASSUME VersionAssumption == \A w \in Windows : Ver[w] \notin {"none", "user", "foreign"}

VARIABLES skill,     \* SKILL.md: "none", "user" or the version it is of
          receipt,   \* codex-install.json: "none", "foreign" or a version
          enabled,   \* config.toml does not disable the skill
          at,        \* for each window where its command is
          saw,       \* what it read first
          cmds, hand,
          blurred,   \* windows with a change between their last look and their write
          moved,     \* how many changes, up to two, a diagnosis has met since its snapshot
          why,       \* what has happened that explains a mismatch
          ok, fits   \* status of the last diagnosis, and whether the files matched at its end

projVars == <<skill, receipt, enabled, at, saw, cmds, hand, blurred, moved, why, ok, fits>>

Versions == {Ver[w] : w \in Windows}
Files2 == [skill : Versions \union {"none", "user"}, receipt : Versions \union {"none", "foreign"}, enabled : BOOLEAN]
Stages == {"idle", "read", "probe", "again", "skill", "write", "receipt", "record",
           "snap", "look", "discover", "compare"}
Now == [skill |-> skill, receipt |-> receipt, enabled |-> enabled]

ProjTypeOK == /\ Now \in Files2 /\ at \in [Windows -> Stages] /\ saw \in [Windows -> Files2]
              /\ blurred \subseteq Windows /\ moved \in [Windows -> 0 .. 2] /\ why \subseteq {"hand", "crash", "race"}
              /\ ok \in [Windows -> BOOLEAN] /\ fits \in [Windows -> BOOLEAN]
-----------------------------------------------------------------------------
ProjInit ==
  /\ skill = "none" /\ receipt = "none" /\ enabled = TRUE
  /\ at = [w \in Windows |-> "idle"] /\ saw = [w \in Windows |-> Now]
  /\ cmds = 0 /\ hand = 0 /\ blurred = {} /\ moved = [w \in Windows |-> 0] /\ why = {}
  /\ ok = [w \in Windows |-> FALSE] /\ fits = [w \in Windows |-> FALSE]

Goes(w, a, b) == at[w] = a /\ at' = [at EXCEPT ![w] = b]
Command(w, a) == /\ Goes(w, "idle", a) /\ cmds < Cmds /\ cmds' = cmds + 1
                 /\ blurred' = blurred \ {w}
                 /\ UNCHANGED <<skill, receipt, enabled, saw, hand, moved, why, ok, fits>>
Install(w) == Command(w, "read")
Doctor(w) == Command(w, "snap")
Looks(w, a, b) == Goes(w, a, b) /\ UNCHANGED <<skill, receipt, enabled, cmds, hand, why, ok, fits>>
Gives(w, b, cond) == IF cond THEN b ELSE "idle"

\* The install refuses a receipt it cannot read or of another project, a
\* disabled skill, and a skill that is not the one of the receipt.
Acceptable == /\ receipt # "foreign" /\ enabled
              /\ skill # "none" => skill = receipt
Read(w) == /\ Looks(w, "read", Gives(w, "probe", Acceptable))
           /\ saw' = [saw EXCEPT ![w] = Now] /\ UNCHANGED <<blurred, moved>>
\* No discovery, no install: the probe fails closed.
ProbeEnds(w) == /\ \E verified \in BOOLEAN : Looks(w, "probe", Gives(w, "again", verified))
                /\ UNCHANGED <<saw, blurred, moved>>
SameReceipt(w) == receipt = saw[w].receipt
\* A mutation of SameSkill: the skill is not compared before it is written.
BuggySameSkill(w) == TRUE
SameSkill(w) == skill = saw[w].skill

\* After the probe both are compared, and the skill last before it is written.
Again(w) == Looks(w, "again", Gives(w, "skill", SameReceipt(w))) /\ UNCHANGED <<saw, blurred, moved>>
SkillAgain(w) == /\ Looks(w, "skill", Gives(w, "write", SameSkill(w)))
                 /\ blurred' = blurred \ {w} /\ UNCHANGED <<saw, moved>>

Blurs(w) == blurred' = blurred \union {v \in Windows \ {w} : at[v] \in {"write", "record"}}
Moves == moved' = [w \in Windows |-> IF at[w] \in {"look", "discover", "compare"} /\ moved[w] < 2
                                       THEN moved[w] + 1 ELSE moved[w]]

WriteSkill(w) == /\ Goes(w, "write", "receipt") /\ skill' = Ver[w]
                 /\ why' = IF w \in blurred \/ ~SameReceipt(w) THEN why \union {"race"} ELSE why
                 /\ IF skill = Ver[w] THEN UNCHANGED <<blurred, moved>> ELSE Blurs(w) /\ Moves
                 /\ UNCHANGED <<receipt, enabled, saw, cmds, hand, ok, fits>>
ReceiptAgain(w) == /\ Looks(w, "receipt", Gives(w, "record", SameReceipt(w)))
                   /\ blurred' = blurred \ {w} /\ UNCHANGED <<saw, moved>>
WriteReceipt(w) == /\ Goes(w, "record", "snap") /\ receipt' = Ver[w]
                   /\ why' = IF w \in blurred THEN why \union {"race"} ELSE why
                   /\ IF receipt = Ver[w] THEN UNCHANGED <<blurred, moved>> ELSE Blurs(w) /\ Moves
                   /\ UNCHANGED <<skill, enabled, saw, cmds, hand, ok, fits>>

\* The diagnosis: a snapshot, the checks, which read the files again, the
\* discovery when they pass, and the snapshot once more.
Matches(w) == skill = Ver[w] /\ receipt = Ver[w] /\ enabled
Snapshot(w) == /\ Goes(w, "snap", "look") /\ saw' = [saw EXCEPT ![w] = Now]
               /\ moved' = [moved EXCEPT ![w] = 0] /\ ok' = [ok EXCEPT ![w] = FALSE]
               /\ UNCHANGED <<skill, receipt, enabled, cmds, hand, blurred, why, fits>>
Look(w) == Looks(w, "look", Gives(w, "discover", Matches(w))) /\ UNCHANGED <<saw, blurred, moved>>
Discover(w) == /\ \E found \in BOOLEAN : Looks(w, "discover", Gives(w, "compare", found))
               /\ UNCHANGED <<saw, blurred, moved>>
\* A mutation of Unchanged: the snapshots are not compared.
BuggyUnchanged(w) == TRUE
Unchanged(w) == Now = saw[w]
Compare(w) == /\ Goes(w, "compare", "idle") /\ ok' = [ok EXCEPT ![w] = Unchanged(w)]
              /\ fits' = [fits EXCEPT ![w] = Matches(w)]
              /\ UNCHANGED <<skill, receipt, enabled, saw, cmds, hand, blurred, moved, why>>

Dies(w) == /\ at[w] # "idle" /\ at' = [at EXCEPT ![w] = "idle"]
           /\ why' = IF at[w] \in {"receipt", "record"} THEN why \union {"crash"} ELSE why
           /\ UNCHANGED <<skill, receipt, enabled, saw, cmds, hand, blurred, moved, ok, fits>>

\* The user edits or removes a file, or switches the skill off or on.
ByHand == /\ hand < Hand /\ hand' = hand + 1 /\ why' = why \union {"hand"}
          /\ \/ skill' \in {"user", "none"} \ {skill} /\ UNCHANGED <<receipt, enabled>>
             \/ receipt' \in {"foreign", "none"} \ {receipt} /\ UNCHANGED <<skill, enabled>>
             \/ enabled' = ~enabled /\ UNCHANGED <<skill, receipt>>
          /\ blurred' = blurred \union {w \in Windows : at[w] \in {"write", "record"}}
          /\ Moves
          /\ UNCHANGED <<at, saw, cmds, ok, fits>>

ProjNext == \/ ByHand
            \/ \E w \in Windows : \/ Install(w) \/ Doctor(w) \/ Read(w) \/ ProbeEnds(w) \/ Again(w) \/ SkillAgain(w)
                                  \/ WriteSkill(w) \/ ReceiptAgain(w) \/ WriteReceipt(w)
                                  \/ Snapshot(w) \/ Look(w) \/ Discover(w) \/ Compare(w) \/ Dies(w)
ProjSpec == ProjInit /\ [][ProjNext]_projVars
-----------------------------------------------------------------------------
(* Properties *)

\* What the user wrote into the skill is replaced by no install, however long
\* its probe took, unless it was saved between the last look and the rename.
UserSkillIsKept ==
  [][\A w \in Windows : skill = "user" /\ skill' = Ver[w] /\ at'[w] # at[w] => w \in blurred]_projVars

\* Skill and receipt are of one version whenever no window is between its two
\* writes, but for a change by hand, a process that died between them, two
\* windows that met in the moment between a look and a write, and a skill that
\* changed and changed back under an install, whose receipt then is another.
PairMatches == why = {} /\ (\A w \in Windows : at[w] \notin {"receipt", "record"}) => skill = receipt

\* A diagnosis that says ok was right when it ended, unless the files were changed
\* under it and changed back: one change does not go unnoticed.
DoctorIsCurrent == \A w \in Windows : at[w] = "idle" /\ ok[w] => fits[w] \/ moved[w] = 2

\* The receipt is true of the skill, and the doctor is true of both.
SkillIsKnown == PairMatches /\ DoctorIsCurrent

\* Whatever windows and user do at once: prax knows what is installed, and it
\* overwrites nothing that the user wrote.
SkillIsSafe == []SkillIsKnown /\ UserSkillIsKept
=============================================================================
