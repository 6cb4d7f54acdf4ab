----------------------------- MODULE InstallProofs -----------------------------
(***************************************************************************)
(* Proofs about what Prax installs into other tools: the project skill and *)
(* the plugin of Codex, and the entries merged into the files of Claude    *)
(* Code.                                                                   *)
(***************************************************************************)
EXTENDS ClaudeInstall, CodexProject, CodexPlugin, FiniteSetTheorems, TLAPS

-----------------------------------------------------------------------------
(* CodexPlugin.                                                             *)

\* Each command has done its earlier steps, unless a removal was passed over.
PlugInv ==
  /\ PlugTypeOK
  /\ step \in {"manifest", "publish", "activate"} => tree = "full"
  /\ step = "activate" => market.st = "ok" /\ "prax" \in market.names
  /\ step \in {"withdraw", "delete"} => ~listed \/ ignored
  /\ PluginIsBacked

LEMMA PlugStep == PlugInv /\ [PlugNext]_plugVars => PlugInv'
<1> SUFFICES ASSUME PlugInv, [PlugNext]_plugVars PROVE PlugInv'
  OBVIOUS
<1> USE DEF PlugInv, PlugTypeOK, PluginIsBacked
<1>1. CASE InstallPlugin \/ UninstallPlugin
  BY <1>1 DEF InstallPlugin, UninstallPlugin, Begins
<1>2. CASE CopyTree \/ Manifest
  BY <1>2 DEF CopyTree, Manifest
<1>3. CASE Publish
  <2>1. market'.st = "ok" /\ market'.names = market.names \union {"prax"}
    BY <1>3 DEF Publish, Published
  <2>2. tree' = "full" /\ step' = "activate" /\ listed' \in BOOLEAN
    BY <1>3 DEF Publish
  <2>3. market'.names \subseteq {"prax", "other"} /\ "prax" \in market'.names
    BY <2>1
  <2> QED
    BY <2>1, <2>2, <2>3
<1>4. CASE Activate
  <2>1. tree = "full" /\ "prax" \in market.names /\ step' = "idle" /\ UNCHANGED <<tree, market>>
    BY <1>4 DEF Activate
  <2>2. listed' \in BOOLEAN
    BY <1>4 DEF Activate
  <2> QED
    BY <2>1, <2>2
<1>9. CASE Unlist
  <2>1. ~listed' \/ ignored'
    BY <1>9 DEF Unlist
  <2>2. listed' \in BOOLEAN /\ step' = "withdraw" /\ UNCHANGED <<tree, market>>
    BY <1>9 DEF Unlist
  <2> QED
    BY <2>1, <2>2
<1>8. CASE Delete
  <2>1. (listed /\ ~ignored) = FALSE /\ UNCHANGED <<market, listed, ignored>>
    BY <1>8 DEF Delete
  <2>2. tree' \in {tree, "none"} /\ step' = "idle"
    BY <1>8 DEF Delete
  <2> QED
    BY <2>1, <2>2
<1>7. CASE Withdraw
  <2>1. market'.st = market.st /\ market'.names \subseteq market.names
    BY <1>7 DEF Withdraw, Withdrawn
  <2> QED
    BY <1>7, <2>1 DEF Withdraw
<1>5. CASE Interrupted
  BY <1>5 DEF Interrupted, Torn
<1>6. CASE UNCHANGED plugVars
  BY <1>6 DEF plugVars
<1> QED
  BY <1>1, <1>2, <1>3, <1>4, <1>5, <1>6, <1>7, <1>8, <1>9 DEF PlugNext

\* For any number of installs and uninstalls, each cut off anywhere.
THEOREM PluginHolds == PlugSpec => []PluginIsBacked
<1>1. PlugInit => PlugInv
  <2> SUFFICES ASSUME PlugInit PROVE PlugInv
    OBVIOUS
  <2>1. market = [st |-> "none", names |-> {}] \/ market = [st |-> "ok", names |-> {"other"}]
    BY DEF PlugInit
  <2>2. market.st \in {"none", "torn", "ok"} /\ market.names \subseteq {"prax", "other"}
    BY <2>1
  <2> QED
    BY <2>2 DEF PlugInit, PlugInv, PlugTypeOK, PluginIsBacked
<1>2. PlugInv => PluginIsBacked
  BY DEF PlugInv
<1> QED
  BY <1>1, <1>2, PlugStep, PTL DEF PlugSpec
-----------------------------------------------------------------------------
(* CodexProject.                                                            *)

\* An install between its first look and its last write, and the two stages
\* where the skill is written and the receipt is not.
Working(w) == at[w] \in {"probe", "again", "skill", "write", "receipt", "record"}
Pending(w) == at[w] \in {"receipt", "record"}

\* A pending install that will change the receipt.
Owner(w) == Pending(w) /\ saw[w].receipt # Ver[w]

\* What a window has looked at last is still so, unless it is blurred.
Fresh ==
  \A w \in Windows :
    /\ at[w] = "write" /\ w \notin blurred => skill = saw[w].skill
    /\ at[w] = "record" /\ w \notin blurred => receipt = saw[w].receipt
    /\ Working(w) => saw[w].skill # "user"

\* What a diagnosis has seen is so as long as it met no change, and is not so
\* after the first.
Diagnosed ==
  \A w \in Windows :
    /\ at[w] \in {"look", "discover", "compare"} =>
         /\ moved[w] = 0 => Now = saw[w]
         /\ moved[w] = 1 => Now # saw[w]
    /\ at[w] \in {"discover", "compare"} /\ moved[w] = 0 => Matches(w)
    /\ ok[w] => fits[w] \/ moved[w] = 2

\* With nothing to explain a mismatch, a skill and a receipt that differ belong
\* to one install, which has still to write the receipt.
Owned ==
  why = {} =>
    /\ skill = "none" => receipt = "none"
    /\ skill # receipt => \E w \in Windows : Owner(w)
    /\ \A w \in Windows : Working(w) => saw[w].skill = saw[w].receipt
    /\ \A w \in Windows : Owner(w) => skill = Ver[w] /\ receipt = saw[w].receipt
    /\ \A v, w \in Windows : Owner(v) /\ Owner(w) => v = w

ProjInv == ProjTypeOK /\ Fresh /\ Diagnosed /\ Owned

\* Every step of an install or a diagnosis keeps the types.
LEMMA ProjTypesKept == ProjInv /\ [ProjNext]_projVars => ProjTypeOK'
<1> SUFFICES ASSUME ProjInv, [ProjNext]_projVars PROVE ProjTypeOK'
  OBVIOUS
<1> USE VersionAssumption DEF ProjInv, ProjTypeOK, Now, Files2, Stages, Versions
<1>1. CASE ByHand
  <2>1. moved' \in [Windows -> 0 .. 2]
    BY <1>1 DEF ByHand, Moves
  <2>2. skill' \in Versions \union {"none", "user"} /\ receipt' \in Versions \union {"none", "foreign"}
    BY <1>1 DEF ByHand
  <2>3. enabled' \in BOOLEAN
    BY <1>1 DEF ByHand
  <2> QED
    BY <1>1, <2>1, <2>2, <2>3 DEF ByHand
<1>2. ASSUME NEW w \in Windows, Install(w) PROVE ProjTypeOK'
  BY <1>2 DEF Install, Command, Goes
<1>3. ASSUME NEW w \in Windows, Doctor(w) PROVE ProjTypeOK'
  BY <1>3 DEF Doctor, Command, Goes
<1>4. ASSUME NEW w \in Windows, Read(w) PROVE ProjTypeOK'
  BY <1>4 DEF Read, Looks, Goes, Gives, Acceptable, SameReceipt
<1>5. ASSUME NEW w \in Windows, ProbeEnds(w) PROVE ProjTypeOK'
  BY <1>5 DEF ProbeEnds, Looks, Goes, Gives
<1>6. ASSUME NEW w \in Windows, Again(w) PROVE ProjTypeOK'
  BY <1>6 DEF Again, Looks, Goes, Gives, SameReceipt
<1>7. ASSUME NEW w \in Windows, SkillAgain(w) PROVE ProjTypeOK'
  BY <1>7 DEF SkillAgain, Looks, Goes, Gives, SameSkill
<1>8. ASSUME NEW w \in Windows, WriteSkill(w) PROVE ProjTypeOK'
  BY <1>8 DEF WriteSkill, Goes, Blurs, Moves, SameReceipt
<1>9. ASSUME NEW w \in Windows, ReceiptAgain(w) PROVE ProjTypeOK'
  BY <1>9 DEF ReceiptAgain, Looks, Goes, Gives, SameReceipt
<1>10. ASSUME NEW w \in Windows, WriteReceipt(w) PROVE ProjTypeOK'
  BY <1>10 DEF WriteReceipt, Goes, Blurs, Moves
<1>11. ASSUME NEW w \in Windows, Snapshot(w) PROVE ProjTypeOK'
  BY <1>11 DEF Snapshot, Goes
<1>12. ASSUME NEW w \in Windows, Look(w) PROVE ProjTypeOK'
  BY <1>12 DEF Look, Looks, Goes, Gives
<1>13. ASSUME NEW w \in Windows, Discover(w) PROVE ProjTypeOK'
  BY <1>13 DEF Discover, Looks, Goes, Gives
<1>14. ASSUME NEW w \in Windows, Compare(w) PROVE ProjTypeOK'
  <2>1. \A b \in BOOLEAN : [ok EXCEPT ![w] = b] \in [Windows -> BOOLEAN]
                         /\ [fits EXCEPT ![w] = b] \in [Windows -> BOOLEAN]
    OBVIOUS
  <2>2. Unchanged(w) \in BOOLEAN /\ Matches(w) \in BOOLEAN
    BY DEF Unchanged, Matches
  <2>3. ok' \in [Windows -> BOOLEAN] /\ fits' \in [Windows -> BOOLEAN]
    BY <1>14, <2>1, <2>2 DEF Compare
  <2> QED
    BY <1>14, <2>3 DEF Compare, Goes
<1>15. ASSUME NEW w \in Windows, Dies(w) PROVE ProjTypeOK'
  BY <1>15 DEF Dies
<1>16. CASE UNCHANGED projVars
  BY <1>16 DEF projVars
<1> QED
  BY <1>1, <1>2, <1>3, <1>4, <1>5, <1>6, <1>7, <1>8, <1>9, <1>10, <1>11, <1>12, <1>13, <1>14, <1>15, <1>16 DEF ProjNext

\* Whoever changes what a window has looked at last blurs it.
LEMMA ProjFreshKept == ProjInv /\ [ProjNext]_projVars => Fresh'
<1> SUFFICES ASSUME ProjInv, [ProjNext]_projVars PROVE Fresh'
  OBVIOUS
<1> USE VersionAssumption DEF ProjInv, ProjTypeOK, Files2, Stages, Versions, Fresh, Working
<1>1. CASE ByHand
  BY <1>1 DEF ByHand, Moves
<1>2. ASSUME NEW w \in Windows, Install(w) PROVE Fresh'
  BY <1>2 DEF Install, Command, Goes
<1>3. ASSUME NEW w \in Windows, Doctor(w) PROVE Fresh'
  BY <1>3 DEF Doctor, Command, Goes
<1>4. ASSUME NEW w \in Windows, Read(w) PROVE Fresh'
  BY <1>4 DEF Read, Looks, Goes, Gives, Acceptable, Now
<1>5. ASSUME NEW w \in Windows, ProbeEnds(w) PROVE Fresh'
  BY <1>5 DEF ProbeEnds, Looks, Goes, Gives
<1>6. ASSUME NEW w \in Windows, Again(w) PROVE Fresh'
  BY <1>6 DEF Again, Looks, Goes, Gives, SameReceipt
<1>7. ASSUME NEW w \in Windows, SkillAgain(w) PROVE Fresh'
  BY <1>7 DEF SkillAgain, Looks, Goes, Gives, SameSkill
<1>8. ASSUME NEW w \in Windows, WriteSkill(w) PROVE Fresh'
  BY <1>8 DEF WriteSkill, Goes, Blurs, Moves, SameReceipt
<1>9. ASSUME NEW w \in Windows, ReceiptAgain(w) PROVE Fresh'
  BY <1>9 DEF ReceiptAgain, Looks, Goes, Gives, SameReceipt
<1>10. ASSUME NEW w \in Windows, WriteReceipt(w) PROVE Fresh'
  BY <1>10 DEF WriteReceipt, Goes, Blurs, Moves
<1>11. ASSUME NEW w \in Windows, Snapshot(w) PROVE Fresh'
  BY <1>11 DEF Snapshot, Goes
<1>12. ASSUME NEW w \in Windows, Look(w) PROVE Fresh'
  BY <1>12 DEF Look, Looks, Goes, Gives
<1>13. ASSUME NEW w \in Windows, Discover(w) PROVE Fresh'
  BY <1>13 DEF Discover, Looks, Goes, Gives
<1>14. ASSUME NEW w \in Windows, Compare(w) PROVE Fresh'
  BY <1>14 DEF Compare, Goes, Unchanged
<1>15. ASSUME NEW w \in Windows, Dies(w) PROVE Fresh'
  BY <1>15 DEF Dies
<1>16. CASE UNCHANGED projVars
  BY <1>16 DEF projVars
<1> QED
  BY <1>1, <1>2, <1>3, <1>4, <1>5, <1>6, <1>7, <1>8, <1>9, <1>10, <1>11, <1>12, <1>13, <1>14, <1>15, <1>16 DEF ProjNext

\* A diagnosis counts the changes it meets.
LEMMA ProjDiagKept == ProjInv /\ [ProjNext]_projVars => Diagnosed'
<1> SUFFICES ASSUME ProjInv, [ProjNext]_projVars PROVE Diagnosed'
  OBVIOUS
<1> USE VersionAssumption DEF ProjInv, ProjTypeOK, Files2, Stages, Versions, Diagnosed, Matches, Now
<1>1. CASE ByHand
  BY <1>1 DEF ByHand, Moves
<1>2. ASSUME NEW w \in Windows, Install(w) PROVE Diagnosed'
  BY <1>2 DEF Install, Command, Goes
<1>3. ASSUME NEW w \in Windows, Doctor(w) PROVE Diagnosed'
  BY <1>3 DEF Doctor, Command, Goes
<1>4. ASSUME NEW w \in Windows, Read(w) PROVE Diagnosed'
  BY <1>4 DEF Read, Looks, Goes, Gives, Acceptable, SameReceipt
<1>5. ASSUME NEW w \in Windows, ProbeEnds(w) PROVE Diagnosed'
  BY <1>5 DEF ProbeEnds, Looks, Goes, Gives
<1>6. ASSUME NEW w \in Windows, Again(w) PROVE Diagnosed'
  BY <1>6 DEF Again, Looks, Goes, Gives, SameReceipt
<1>7. ASSUME NEW w \in Windows, SkillAgain(w) PROVE Diagnosed'
  BY <1>7 DEF SkillAgain, Looks, Goes, Gives, SameSkill
<1>8. ASSUME NEW w \in Windows, WriteSkill(w) PROVE Diagnosed'
  BY <1>8 DEF WriteSkill, Goes, Blurs, Moves, SameReceipt
<1>9. ASSUME NEW w \in Windows, ReceiptAgain(w) PROVE Diagnosed'
  BY <1>9 DEF ReceiptAgain, Looks, Goes, Gives, SameReceipt
<1>10. ASSUME NEW w \in Windows, WriteReceipt(w) PROVE Diagnosed'
  BY <1>10 DEF WriteReceipt, Goes, Blurs, Moves
<1>11. ASSUME NEW w \in Windows, Snapshot(w) PROVE Diagnosed'
  BY <1>11 DEF Snapshot, Goes
<1>12. ASSUME NEW w \in Windows, Look(w) PROVE Diagnosed'
  BY <1>12 DEF Look, Looks, Goes, Gives
<1>13. ASSUME NEW w \in Windows, Discover(w) PROVE Diagnosed'
  BY <1>13 DEF Discover, Looks, Goes, Gives
<1>14. ASSUME NEW w \in Windows, Compare(w) PROVE Diagnosed'
  BY <1>14 DEF Compare, Goes, Unchanged
<1>15. ASSUME NEW w \in Windows, Dies(w) PROVE Diagnosed'
  BY <1>15 DEF Dies
<1>16. CASE UNCHANGED projVars
  BY <1>16 DEF projVars
<1> QED
  BY <1>1, <1>2, <1>3, <1>4, <1>5, <1>6, <1>7, <1>8, <1>9, <1>10, <1>11, <1>12, <1>13, <1>14, <1>15, <1>16 DEF ProjNext

\* An unexplained mismatch has an owner: who writes the skill finds both files
\* as it read them, and who writes the receipt is the owner or changes nothing.
LEMMA ProjOwnedKept == ProjInv /\ [ProjNext]_projVars => Owned'
<1> SUFFICES ASSUME ProjInv, [ProjNext]_projVars PROVE Owned'
  OBVIOUS
<1> USE VersionAssumption DEF ProjInv, ProjTypeOK, Files2, Versions, Stages, Fresh, Owned, Working, Pending, Owner
<1>1. CASE ByHand
  BY <1>1 DEF ByHand, Moves
<1>2. ASSUME NEW w \in Windows, Install(w) PROVE Owned'
  BY <1>2 DEF Install, Command, Goes
<1>3. ASSUME NEW w \in Windows, Doctor(w) PROVE Owned'
  BY <1>3 DEF Doctor, Command, Goes
<1>4. ASSUME NEW w \in Windows, Read(w) PROVE Owned'
  BY <1>4 DEF Read, Looks, Goes, Gives, Acceptable, Now
<1>5. ASSUME NEW w \in Windows, ProbeEnds(w) PROVE Owned'
  BY <1>5 DEF ProbeEnds, Looks, Goes, Gives
<1>6. ASSUME NEW w \in Windows, Again(w) PROVE Owned'
  BY <1>6 DEF Again, Looks, Goes, Gives, SameReceipt
<1>7. ASSUME NEW w \in Windows, SkillAgain(w) PROVE Owned'
  BY <1>7 DEF SkillAgain, Looks, Goes, Gives, SameSkill
<1>8. ASSUME NEW w \in Windows, WriteSkill(w) PROVE Owned'
  BY <1>8 DEF WriteSkill, Goes, Blurs, Moves, SameReceipt
<1>9. ASSUME NEW w \in Windows, ReceiptAgain(w) PROVE Owned'
  BY <1>9 DEF ReceiptAgain, Looks, Goes, Gives, SameReceipt
<1>10. ASSUME NEW w \in Windows, WriteReceipt(w) PROVE Owned'
  BY <1>10 DEF WriteReceipt, Goes, Blurs, Moves
<1>11. ASSUME NEW w \in Windows, Snapshot(w) PROVE Owned'
  BY <1>11 DEF Snapshot, Goes
<1>12. ASSUME NEW w \in Windows, Look(w) PROVE Owned'
  BY <1>12 DEF Look, Looks, Goes, Gives
<1>13. ASSUME NEW w \in Windows, Discover(w) PROVE Owned'
  BY <1>13 DEF Discover, Looks, Goes, Gives
<1>14. ASSUME NEW w \in Windows, Compare(w) PROVE Owned'
  BY <1>14 DEF Compare, Goes, Unchanged
<1>15. ASSUME NEW w \in Windows, Dies(w) PROVE Owned'
  BY <1>15 DEF Dies
<1>16. CASE UNCHANGED projVars
  BY <1>16 DEF projVars
<1> QED
  BY <1>1, <1>2, <1>3, <1>4, <1>5, <1>6, <1>7, <1>8, <1>9, <1>10, <1>11, <1>12, <1>13, <1>14, <1>15, <1>16 DEF ProjNext

\* The first state has nothing installed.
LEMMA ProjStart == ProjInit => ProjInv
BY VersionAssumption
   DEF ProjInit, ProjInv, ProjTypeOK, Now, Files2, Stages, Versions, Fresh, Working, Diagnosed,
       Owned, Owner, Pending

\* Together they are inductive.
LEMMA ProjInvariance == ProjSpec => []ProjInv
BY ProjStart, ProjTypesKept, ProjFreshKept, ProjDiagKept, ProjOwnedKept, PTL
   DEF ProjSpec, ProjInv

\* The receipt is true of the skill, and the doctor is true of both.
LEMMA ReceiptHolds == ProjSpec => []SkillIsKnown
<1>1. ProjInv => SkillIsKnown
  BY DEF ProjInv, SkillIsKnown, PairMatches, DoctorIsCurrent, Owned, Owner, Pending, Diagnosed
<1> QED
  BY <1>1, ProjInvariance, PTL

\* An install replaces what the user wrote into the skill only if it was saved
\* between the install's last look and its rename.
LEMMA UserSkillHolds == ProjSpec => UserSkillIsKept
<1> DEFINE Kept == \A w \in Windows : skill = "user" /\ skill' = Ver[w] /\ at'[w] # at[w] => w \in blurred
<1>1. ASSUME ProjInv, [ProjNext]_projVars PROVE Kept
  <2>1. SUFFICES ASSUME NEW w \in Windows, skill = "user", skill' = Ver[w], at'[w] # at[w]
                 PROVE  w \in blurred
    BY DEF Kept
  <2>2. skill' # skill
    BY <2>1, VersionAssumption
  <2>3. ~ByHand
    BY <2>1 DEF ByHand
  <2>4. PICK v \in Windows : WriteSkill(v)
    BY <1>1, <2>2, <2>3
       DEF ProjNext, Install, Doctor, Command, Read, ProbeEnds, Again, SkillAgain, Looks,
           ReceiptAgain, WriteReceipt, Snapshot, Look, Discover, Compare, Dies, projVars
  <2>5. v = w
    BY <2>1, <2>4, <1>1 DEF WriteSkill, Goes, ProjInv, ProjTypeOK
  <2> QED
    BY <1>1, <2>1, <2>4, <2>5 DEF ProjInv, Fresh, WriteSkill, Goes, Working
<1>2. ProjInv /\ [ProjNext]_projVars => [Kept]_projVars
  BY <1>1
<1> QED
  BY <1>2, ProjInvariance, PTL DEF ProjSpec, UserSkillIsKept

\* Whatever windows and user do at once: prax knows what is installed, and it
\* overwrites nothing that the user wrote.
THEOREM SkillHolds == ProjSpec => SkillIsSafe
BY ReceiptHolds, UserSkillHolds DEF SkillIsSafe

-----------------------------------------------------------------------------
(* ClaudeInstall.                                                           *)

\* A profile and plugin that was asked for accounts for what is there.
Explains(f, c) == \A i \in c.items \cap Ours : \E w \in wanted : i \in Managed(f, w[2])

Explained ==
  /\ \A a \in Assets : disk[a] # "none" => \E w \in wanted : a \in Resolved(w[1])
  /\ \A f \in Files : Explains(f, file[f]) /\ \A t \in Seconds : Explains(f, backups[f][t])
  /\ stage = "copy" => Explains(op.target, op.from)
  /\ state.st = "ok" => <<state.profile, state.plugin>> \in wanted
  /\ op.kind \in {"install", "repair"} =>
       /\ <<op.profile, op.plugin>> \in wanted
       /\ \A a \in left : a \in Resolved(op.profile)

\* The steps of each operation, and what it has read of the state.
Ordered ==
  /\ stage = "idle" <=> op.kind = "idle"
  /\ stage = "copy" <=> op.kind = "restore"
  /\ op.kind = "uninstall" => state.st = "ok" /\ op.prior = state /\ stage # "backup"
  /\ op.kind = "doctor" => state.st = "ok" /\ op.prior = state /\ stage = "state"

\* What an install has still to merge, it has copied.
Copied ==
  \A f \in Files : op.kind = "install" /\ stage \in {"settings", f} /\ file[f].st # "none"
                     => backups[f][now] = file[f]

OneRequest == \A u, v \in wanted : u = v

\* What an uninstall has done so far, if one profile and plugin was asked for.
Undone ==
  op.kind = "uninstall" /\ OneRequest =>
    /\ \A a \in Assets : disk[a] # "none" => stage = "assets" /\ a \in left
    /\ stage \in {"mcp", "state"} => file["settings"].items \cap Ours = {}
    /\ stage = "state" => file["mcp"].items \cap Ours = {}

InstInv == InstTypeOK /\ Explained /\ Ordered /\ Copied /\ Undone /\ UninstallIsClean

\* Every step of an operation keeps the types.
LEMMA InstTypesKept == InstInv /\ [InstNext]_instVars => InstTypeOK'
<1> SUFFICES ASSUME InstInv, [InstNext]_instVars PROVE InstTypeOK'
  OBVIOUS
<1> USE DEF InstInv, InstTypeOK, Contents, States, Operations, Asked, Files, Idle, NoFile, TornFile, NoState, TornState, Managed, Ours
<1>1. ASSUME NEW p \in Requests, NEW g \in BOOLEAN, InstallStarts(p, g)
      PROVE  InstTypeOK'
  <2>1. op' = [kind |-> "install", profile |-> p, plugin |-> g, prior |-> state, target |-> "settings", from |-> NoFile, made |-> {}]
    BY <1>1 DEF InstallStarts, Start
  <2>2. op' \in Operations
    BY <2>1, <1>1
  <2>3. left' \subseteq Assets
    BY <1>1 DEF InstallStarts, Start, Resolved
  <2> QED
    BY <1>1, <2>2, <2>3 DEF InstallStarts, Start
<1>2. ASSUME NEW p \in Requests, NEW g \in BOOLEAN, RepairStarts(p, g)
      PROVE  InstTypeOK'
  <2>1. op' = [kind |-> "repair", profile |-> p, plugin |-> g, prior |-> state, target |-> "settings", from |-> NoFile, made |-> {}]
    BY <1>2 DEF RepairStarts, Start
  <2>2. op' \in Operations
    BY <2>1, <1>2
  <2>3. left' \subseteq Assets
    BY <1>2 DEF RepairStarts, Start, Resolved
  <2> QED
    BY <1>2, <2>2, <2>3 DEF RepairStarts, Start
<1>3. CASE UninstallStarts
  <2>1. op' = [kind |-> "uninstall", profile |-> state.profile, plugin |-> state.plugin, prior |-> state, target |-> "settings", from |-> NoFile, made |-> {}]
    BY <1>3 DEF UninstallStarts, Start
  <2>2. op' \in Operations
    BY <2>1, <1>3
  <2>3. left' \subseteq Assets
    BY <1>3 DEF UninstallStarts, Start, Resolved
  <2> QED
    BY <1>3, <2>2, <2>3 DEF UninstallStarts, Start
<1>4. CASE DoctorStarts
  BY <1>4 DEF DoctorStarts, Start
<1>5. ASSUME NEW f \in Files, NEW t \in Seconds, RestoreFrom(f, t)
      PROVE  InstTypeOK'
  <2>1. op' = [kind |-> "restore", profile |-> "full", plugin |-> FALSE, prior |-> state, target |-> f, from |-> backups[f][t], made |-> {}]
    BY <1>5 DEF RestoreFrom
  <2>2. op' \in Operations
    BY <2>1, <1>5
  <2>3. left' \subseteq Assets
    BY <1>5 DEF RestoreFrom, Resolved
  <2> QED
    BY <1>5, <2>2, <2>3 DEF RestoreFrom
<1>6. ASSUME NEW a \in Assets, WriteAsset(a)
      PROVE  InstTypeOK'
  BY <1>6 DEF WriteAsset
<1>7. CASE AssetsDone
  BY <1>7 DEF AssetsDone, Step
<1>8. CASE Backup
  BY <1>8 DEF Backup, BackedUp
<1>9. ASSUME NEW f \in Files, NEW next \in {"mcp", "state"}, MergeFile(f, next), next = "mcp" <=> f = "settings"
      PROVE  InstTypeOK'
  BY <1>9 DEF MergeFile, Step, Holding, Merged
<1>10. ASSUME NEW f \in Files, NEW next \in {"mcp", "state"}, CleanFile(f, next), next = "mcp" <=> f = "settings"
      PROVE  InstTypeOK'
  BY <1>10 DEF CleanFile, Step, Holding, Removed, Rest
<1>11. CASE Raises
  BY <1>11 DEF Raises, Ends
<1>12. CASE SaveState
  BY <1>12 DEF SaveState, Ends
<1>13. CASE RemoveState
  BY <1>13 DEF RemoveState, Ends, Clean, CleanBackups
<1>14. CASE Restore
  BY <1>14 DEF Restore, Ends
<1>15. CASE CutOff
  <2>1. Idle \in Operations /\ TornFile \in Contents /\ TornState \in States
    OBVIOUS
  <2>2. file' \in [Files -> Contents] /\ state' \in States
    BY <1>15, <2>1 DEF CutOff
  <2>3. backups' \in [Files -> [Seconds -> Contents]]
    <3>1. UNCHANGED backups \/ \E f \in Files : backups' = [backups EXCEPT ![f][now] = TornFile]
      BY <1>15 DEF CutOff
    <3>2. ASSUME NEW f \in Files PROVE [backups EXCEPT ![f][now] = TornFile] \in [Files -> [Seconds -> Contents]]
      BY <2>1
    <3>3. CASE UNCHANGED backups
      BY <3>3
    <3>4. CASE \E f \in Files : backups' = [backups EXCEPT ![f][now] = TornFile]
      BY <3>2, <3>4
    <3> QED
      BY <3>1, <3>3, <3>4
  <2>4. disk' \in [Assets -> {"none", "good", "edited"}]
    BY <1>15 DEF CutOff
  <2> QED
    BY <1>15, <2>1, <2>2, <2>3, <2>4 DEF CutOff
<1>16. CASE UserEdits
  BY <1>16 DEF UserEdits, Holding
<1>17. CASE Tick
  BY <1>17 DEF Tick
<1>18. CASE UNCHANGED instVars
  BY <1>18 DEF instVars
<1> QED
  BY <1>1, <1>2, <1>3, <1>4, <1>5, <1>6, <1>7, <1>8, <1>9, <1>10, <1>11, <1>12, <1>13, <1>14, <1>15, <1>16, <1>17, <1>18 DEF InstNext

\* What an operation writes, it was asked for; a copy is explained by what it
\* copies.
LEMMA InstExplainedKept == InstInv /\ [InstNext]_instVars => Explained'
<1> SUFFICES ASSUME InstInv, [InstNext]_instVars PROVE Explained'
  OBVIOUS
<1> USE DEF InstInv, InstTypeOK, Contents, States, Operations, Asked, Files, Idle, NoFile, TornFile, NoState, TornState, Explained, Explains, Ordered, Managed, Ours
<1>1. ASSUME NEW p \in Requests, NEW g \in BOOLEAN, InstallStarts(p, g)
      PROVE  Explained'
  BY <1>1 DEF InstallStarts, Start
<1>2. ASSUME NEW p \in Requests, NEW g \in BOOLEAN, RepairStarts(p, g)
      PROVE  Explained'
  BY <1>2 DEF RepairStarts, Start
<1>3. CASE UninstallStarts
  BY <1>3 DEF UninstallStarts, Start
<1>4. CASE DoctorStarts
  BY <1>4 DEF DoctorStarts, Start
<1>5. ASSUME NEW f \in Files, NEW t \in Seconds, RestoreFrom(f, t)
      PROVE  Explained'
  BY <1>5 DEF RestoreFrom
<1>6. ASSUME NEW a \in Assets, WriteAsset(a)
      PROVE  Explained'
  BY <1>6 DEF WriteAsset
<1>7. CASE AssetsDone
  BY <1>7 DEF AssetsDone, Step
<1>8. CASE Backup
  BY <1>8 DEF Backup, BackedUp
<1>9. ASSUME NEW f \in Files, NEW next \in {"mcp", "state"}, MergeFile(f, next), next = "mcp" <=> f = "settings"
      PROVE  Explained'
  BY <1>9 DEF MergeFile, Step, Holding, Merged
<1>10. ASSUME NEW f \in Files, NEW next \in {"mcp", "state"}, CleanFile(f, next), next = "mcp" <=> f = "settings"
      PROVE  Explained'
  BY <1>10 DEF CleanFile, Step, Holding, Removed, Rest
<1>11. CASE Raises
  <2>1. op'.kind = "idle" /\ stage' = "idle" /\ UNCHANGED <<wanted, disk, file, backups>>
    BY <1>11 DEF Raises, Ends
  <2>2. state'.st = "ok" => <<state'.profile, state'.plugin>> \in wanted
    BY <1>11 DEF Raises, Ends
  <2> QED
    BY <2>1, <2>2
<1>12. CASE SaveState
  <2>1. op'.kind = "idle" /\ stage' = "idle" /\ UNCHANGED <<wanted, disk, file, backups>>
    BY <1>12 DEF SaveState, Ends
  <2>2. state'.st = "ok" => <<state'.profile, state'.plugin>> \in wanted
    BY <1>12 DEF SaveState, Ends
  <2> QED
    BY <2>1, <2>2
<1>13. CASE RemoveState
  BY <1>13 DEF RemoveState, Ends, Clean, CleanBackups
<1>14. CASE Restore
  BY <1>14 DEF Restore, Ends
<1>15. CASE CutOff
  <2>1. op'.kind = "idle" /\ stage' = "idle" /\ UNCHANGED wanted /\ left' = {}
    BY <1>15 DEF CutOff
  <2>2. state'.st = "ok" => <<state'.profile, state'.plugin>> \in wanted
    BY <1>15 DEF CutOff
  <2>3. \A a \in Assets : disk'[a] # "none" => \E w \in wanted : a \in Resolved(w[1])
    <3>1. \/ UNCHANGED disk
          \/ /\ stage = "assets" /\ op.kind # "uninstall"
             /\ \E a \in left : disk' = [disk EXCEPT ![a] = "edited"]
      BY <1>15 DEF CutOff
    <3>2. stage = "assets" /\ op.kind # "uninstall" => op.kind \in {"install", "repair"}
      OBVIOUS
    <3>3. ASSUME op.kind \in {"install", "repair"}, NEW a \in left
          PROVE  \E w \in wanted : a \in Resolved(w[1])
      <4>1. <<op.profile, op.plugin>> \in wanted /\ a \in Resolved(op.profile)
        BY <3>3
      <4> QED
        BY <4>1
    <3> QED
      BY <3>1, <3>2, <3>3
  <2>4. \A f \in Files : file'[f] = file[f] \/ file'[f].items = {}
    BY <1>15 DEF CutOff
  <2>5. \A f \in Files, t \in Seconds : backups'[f][t] = backups[f][t] \/ backups'[f][t].items = {}
    BY <1>15 DEF CutOff
  <2> QED
    BY <2>1, <2>2, <2>3, <2>4, <2>5
<1>16. CASE UserEdits
  <2>1. \A f \in Files : file'[f].items \cap Ours = file[f].items \cap Ours
    BY <1>16 DEF UserEdits, Holding
  <2>2. \A a \in Assets : disk'[a] # "none" => disk[a] # "none"
    BY <1>16 DEF UserEdits
  <2> QED
    BY <1>16, <2>1, <2>2 DEF UserEdits
<1>17. CASE Tick
  BY <1>17 DEF Tick
<1>18. CASE UNCHANGED instVars
  BY <1>18 DEF instVars
<1> QED
  BY <1>1, <1>2, <1>3, <1>4, <1>5, <1>6, <1>7, <1>8, <1>9, <1>10, <1>11, <1>12, <1>13, <1>14, <1>15, <1>16, <1>17, <1>18 DEF InstNext

\* The steps of an operation follow each other.
LEMMA InstOrderedKept == InstInv /\ [InstNext]_instVars => Ordered'
<1> SUFFICES ASSUME InstInv, [InstNext]_instVars PROVE Ordered'
  OBVIOUS
<1> USE DEF InstInv, InstTypeOK, Contents, States, Operations, Asked, Files, Idle, NoFile, TornFile, NoState, TornState, Ordered
<1>1. ASSUME NEW p \in Requests, NEW g \in BOOLEAN, InstallStarts(p, g)
      PROVE  Ordered'
  BY <1>1 DEF InstallStarts, Start
<1>2. ASSUME NEW p \in Requests, NEW g \in BOOLEAN, RepairStarts(p, g)
      PROVE  Ordered'
  BY <1>2 DEF RepairStarts, Start
<1>3. CASE UninstallStarts
  BY <1>3 DEF UninstallStarts, Start
<1>4. CASE DoctorStarts
  BY <1>4 DEF DoctorStarts, Start
<1>5. ASSUME NEW f \in Files, NEW t \in Seconds, RestoreFrom(f, t)
      PROVE  Ordered'
  BY <1>5 DEF RestoreFrom
<1>6. ASSUME NEW a \in Assets, WriteAsset(a)
      PROVE  Ordered'
  BY <1>6 DEF WriteAsset
<1>7. CASE AssetsDone
  BY <1>7 DEF AssetsDone, Step
<1>8. CASE Backup
  BY <1>8 DEF Backup, BackedUp
<1>9. ASSUME NEW f \in Files, NEW next \in {"mcp", "state"}, MergeFile(f, next), next = "mcp" <=> f = "settings"
      PROVE  Ordered'
  BY <1>9 DEF MergeFile, Step, Holding, Merged
<1>10. ASSUME NEW f \in Files, NEW next \in {"mcp", "state"}, CleanFile(f, next), next = "mcp" <=> f = "settings"
      PROVE  Ordered'
  BY <1>10 DEF CleanFile, Step, Holding, Removed, Rest
<1>11. CASE Raises
  BY <1>11 DEF Raises, Ends
<1>12. CASE SaveState
  BY <1>12 DEF SaveState, Ends
<1>13. CASE RemoveState
  BY <1>13 DEF RemoveState, Ends, Clean, CleanBackups
<1>14. CASE Restore
  BY <1>14 DEF Restore, Ends
<1>15. CASE CutOff
  BY <1>15 DEF CutOff, BackedUp
<1>16. CASE UserEdits
  BY <1>16 DEF UserEdits, Holding
<1>17. CASE Tick
  BY <1>17 DEF Tick
<1>18. CASE UNCHANGED instVars
  BY <1>18 DEF instVars
<1> QED
  BY <1>1, <1>2, <1>3, <1>4, <1>5, <1>6, <1>7, <1>8, <1>9, <1>10, <1>11, <1>12, <1>13, <1>14, <1>15, <1>16, <1>17, <1>18 DEF InstNext

\* An install merges into no file it has not copied.
LEMMA InstCopiedKept == InstInv /\ [InstNext]_instVars => Copied'
<1> SUFFICES ASSUME InstInv, [InstNext]_instVars PROVE Copied'
  OBVIOUS
<1> USE DEF InstInv, InstTypeOK, Contents, States, Operations, Asked, Files, Idle, NoFile, TornFile, NoState, TornState, Copied, Ordered
<1>1. ASSUME NEW p \in Requests, NEW g \in BOOLEAN, InstallStarts(p, g)
      PROVE  Copied'
  BY <1>1 DEF InstallStarts, Start
<1>2. ASSUME NEW p \in Requests, NEW g \in BOOLEAN, RepairStarts(p, g)
      PROVE  Copied'
  BY <1>2 DEF RepairStarts, Start
<1>3. CASE UninstallStarts
  BY <1>3 DEF UninstallStarts, Start
<1>4. CASE DoctorStarts
  BY <1>4 DEF DoctorStarts, Start
<1>5. ASSUME NEW f \in Files, NEW t \in Seconds, RestoreFrom(f, t)
      PROVE  Copied'
  BY <1>5 DEF RestoreFrom
<1>6. ASSUME NEW a \in Assets, WriteAsset(a)
      PROVE  Copied'
  BY <1>6 DEF WriteAsset
<1>7. CASE AssetsDone
  BY <1>7 DEF AssetsDone, Step
<1>8. CASE Backup
  BY <1>8 DEF Backup, BackedUp
<1>9. ASSUME NEW f \in Files, NEW next \in {"mcp", "state"}, MergeFile(f, next), next = "mcp" <=> f = "settings"
      PROVE  Copied'
  BY <1>9 DEF MergeFile, Step, Holding, Merged
<1>10. ASSUME NEW f \in Files, NEW next \in {"mcp", "state"}, CleanFile(f, next), next = "mcp" <=> f = "settings"
      PROVE  Copied'
  BY <1>10 DEF CleanFile, Step, Holding, Removed, Rest
<1>11. CASE Raises
  BY <1>11 DEF Raises, Ends
<1>12. CASE SaveState
  BY <1>12 DEF SaveState, Ends
<1>13. CASE RemoveState
  BY <1>13 DEF RemoveState, Ends, Clean, CleanBackups
<1>14. CASE Restore
  <2>1. file'[op.target] = op.from /\ \A f \in Files \ {op.target} : file'[f] = file[f]
    BY <1>14 DEF Restore
  <2> QED
    BY <1>14, <2>1 DEF Restore, Ends
<1>15. CASE CutOff
  BY <1>15 DEF CutOff, BackedUp
<1>16. CASE UserEdits
  BY <1>16 DEF UserEdits, Holding
<1>17. CASE Tick
  BY <1>17 DEF Tick
<1>18. CASE UNCHANGED instVars
  BY <1>18 DEF instVars
<1> QED
  BY <1>1, <1>2, <1>3, <1>4, <1>5, <1>6, <1>7, <1>8, <1>9, <1>10, <1>11, <1>12, <1>13, <1>14, <1>15, <1>16, <1>17, <1>18 DEF InstNext

\* An uninstall removes as it goes on: what is left was asked for, and so it is
\* what the state records.
LEMMA InstUndoneKept == InstInv /\ [InstNext]_instVars => Undone'
<1> SUFFICES ASSUME InstInv, [InstNext]_instVars PROVE Undone'
  OBVIOUS
<1> USE DEF InstInv, InstTypeOK, Contents, States, Operations, Asked, Files, Idle, NoFile, TornFile, NoState, TornState, Undone, OneRequest, Explained, Explains, Ordered, Managed, Ours, Recorded
<1>1. ASSUME NEW p \in Requests, NEW g \in BOOLEAN, InstallStarts(p, g)
      PROVE  Undone'
  BY <1>1 DEF InstallStarts, Start
<1>2. ASSUME NEW p \in Requests, NEW g \in BOOLEAN, RepairStarts(p, g)
      PROVE  Undone'
  BY <1>2 DEF RepairStarts, Start
<1>3. CASE UninstallStarts
  BY <1>3 DEF UninstallStarts, Start
<1>4. CASE DoctorStarts
  BY <1>4 DEF DoctorStarts, Start
<1>5. ASSUME NEW f \in Files, NEW t \in Seconds, RestoreFrom(f, t)
      PROVE  Undone'
  BY <1>5 DEF RestoreFrom
<1>6. ASSUME NEW a \in Assets, WriteAsset(a)
      PROVE  Undone'
  BY <1>6 DEF WriteAsset
<1>7. CASE AssetsDone
  BY <1>7 DEF AssetsDone, Step
<1>8. CASE Backup
  BY <1>8 DEF Backup, BackedUp
<1>9. ASSUME NEW f \in Files, NEW next \in {"mcp", "state"}, MergeFile(f, next), next = "mcp" <=> f = "settings"
      PROVE  Undone'
  BY <1>9 DEF MergeFile, Step, Holding, Merged
<1>10. ASSUME NEW f \in Files, NEW next \in {"mcp", "state"}, CleanFile(f, next), next = "mcp" <=> f = "settings"
      PROVE  Undone'
  <2>0. UNCHANGED <<op, wanted>>
    BY <1>10 DEF CleanFile, Step
  <2>1. SUFFICES ASSUME op.kind = "uninstall", OneRequest PROVE Undone'
    BY <2>0
  <2>2. stage = f /\ stage' = next /\ UNCHANGED <<op, disk, wanted, left>>
    BY <1>10 DEF CleanFile, Step
  <2>3. <<op.prior.profile, op.prior.plugin>> \in wanted
    BY <2>1
  <2>4. file[f].items \cap Ours \subseteq Managed(f, op.prior.plugin)
    <3>1. \A w \in wanted : w[2] = op.prior.plugin
      BY <2>1, <2>3
    <3>2. Explains(f, file[f])
      OBVIOUS
    <3> HIDE DEF Managed, Ours
    <3>3. \A i \in file[f].items \cap Ours : i \in Managed(f, op.prior.plugin)
      BY <3>1, <3>2 DEF Explains
    <3> QED
      BY <3>3
  <2>5. file'[f].items \cap Ours = {}
    BY <1>10, <2>4 DEF CleanFile, Holding, Removed, Rest
  <2>6. \A h \in Files \ {f} : file'[h] = file[h]
    BY <1>10 DEF CleanFile
  <2> QED
    BY <1>10, <2>1, <2>2, <2>5, <2>6
<1>11. CASE Raises
  BY <1>11 DEF Raises, Ends
<1>12. CASE SaveState
  BY <1>12 DEF SaveState, Ends
<1>13. CASE RemoveState
  BY <1>13 DEF RemoveState, Ends, Clean, CleanBackups
<1>14. CASE Restore
  BY <1>14 DEF Restore, Ends
<1>15. CASE CutOff
  BY <1>15 DEF CutOff, BackedUp
<1>16. CASE UserEdits
  BY <1>16 DEF UserEdits, Holding
<1>17. CASE Tick
  BY <1>17 DEF Tick
<1>18. CASE UNCHANGED instVars
  BY <1>18 DEF instVars
<1> QED
  BY <1>1, <1>2, <1>3, <1>4, <1>5, <1>6, <1>7, <1>8, <1>9, <1>10, <1>11, <1>12, <1>13, <1>14, <1>15, <1>16, <1>17, <1>18 DEF InstNext

\* The last step of an uninstall finds the root clean.
LEMMA InstCleanKept == InstInv /\ [InstNext]_instVars => UninstallIsClean'
<1> SUFFICES ASSUME InstInv, [InstNext]_instVars PROVE UninstallIsClean'
  OBVIOUS
<1> USE DEF InstInv, InstTypeOK, Contents, States, Operations, Asked, Files, Idle, NoFile, TornFile, NoState, TornState, Undone, OneRequest, Ordered, UninstallIsClean, Clean, Ours
<1>1. ASSUME NEW p \in Requests, NEW g \in BOOLEAN, InstallStarts(p, g)
      PROVE  UninstallIsClean'
  BY <1>1 DEF InstallStarts, Start
<1>2. ASSUME NEW p \in Requests, NEW g \in BOOLEAN, RepairStarts(p, g)
      PROVE  UninstallIsClean'
  BY <1>2 DEF RepairStarts, Start
<1>3. CASE UninstallStarts
  BY <1>3 DEF UninstallStarts, Start
<1>4. CASE DoctorStarts
  BY <1>4 DEF DoctorStarts, Start
<1>5. ASSUME NEW f \in Files, NEW t \in Seconds, RestoreFrom(f, t)
      PROVE  UninstallIsClean'
  BY <1>5 DEF RestoreFrom
<1>6. ASSUME NEW a \in Assets, WriteAsset(a)
      PROVE  UninstallIsClean'
  BY <1>6 DEF WriteAsset
<1>7. CASE AssetsDone
  BY <1>7 DEF AssetsDone, Step
<1>8. CASE Backup
  BY <1>8 DEF Backup, BackedUp
<1>9. ASSUME NEW f \in Files, NEW next \in {"mcp", "state"}, MergeFile(f, next), next = "mcp" <=> f = "settings"
      PROVE  UninstallIsClean'
  BY <1>9 DEF MergeFile, Step, Holding, Merged
<1>10. ASSUME NEW f \in Files, NEW next \in {"mcp", "state"}, CleanFile(f, next), next = "mcp" <=> f = "settings"
      PROVE  UninstallIsClean'
  BY <1>10 DEF CleanFile, Step, Holding, Removed, Rest
<1>11. CASE Raises
  BY <1>11 DEF Raises, Ends
<1>12. CASE SaveState
  BY <1>12 DEF SaveState, Ends
<1>13. CASE RemoveState
  BY <1>13 DEF RemoveState, Ends, Clean, CleanBackups
<1>14. CASE Restore
  BY <1>14 DEF Restore, Ends
<1>15. CASE CutOff
  BY <1>15 DEF CutOff, BackedUp
<1>16. CASE UserEdits
  <2>1. UNCHANGED <<state, last, stage, wanted>>
    BY <1>16 DEF UserEdits
  <2>2. \A f \in Files : file'[f].items \cap Ours = file[f].items \cap Ours
    BY <1>16 DEF UserEdits, Holding
  <2>3. \A a \in Assets : disk[a] = "none" => disk'[a] = "none"
    BY <1>16 DEF UserEdits
  <2> QED
    BY <2>1, <2>2, <2>3
<1>17. CASE Tick
  BY <1>17 DEF Tick
<1>18. CASE UNCHANGED instVars
  BY <1>18 DEF instVars
<1> QED
  BY <1>1, <1>2, <1>3, <1>4, <1>5, <1>6, <1>7, <1>8, <1>9, <1>10, <1>11, <1>12, <1>13, <1>14, <1>15, <1>16, <1>17, <1>18 DEF InstNext

\* The first state holds nothing of Prax.
LEMMA InstStart == InstInit => InstInv
<1> SUFFICES ASSUME InstInit PROVE InstInv
  OBVIOUS
<1> USE DEF InstInit, Idle, NoFile, NoState, Holding, Ours, Files
<1>1. InstTypeOK
  <2>1. now \in Seconds
    BY ClockAssumption
  <2>2. file \in [Files -> Contents] /\ backups \in [Files -> [Seconds -> Contents]]
    BY DEF Contents
  <2>3. Idle \in Operations /\ state \in States
    BY DEF Operations, States, Asked, Contents
  <2> QED
    BY <2>1, <2>2, <2>3 DEF InstTypeOK
<1>2. Explained
  <2>1. \A f \in Files : file[f].items \cap Ours = {}
    <3>1. PICK s \in {NoFile, Holding({"user", "stale"})}, m \in {NoFile, Holding({"user", "usrv"})} :
            file = [f \in Files |-> IF f = "mcp" THEN m ELSE s]
      OBVIOUS
    <3>2. s.items \cap Ours = {} /\ m.items \cap Ours = {}
      OBVIOUS
    <3> QED
      BY <3>1, <3>2
  <2>2. \A f \in Files, t \in Seconds : backups[f][t].items = {}
    OBVIOUS
  <2> QED
    BY <2>1, <2>2 DEF Explained, Explains
<1>3. Ordered /\ Copied /\ Undone /\ UninstallIsClean
  BY DEF Ordered, Copied, Undone, UninstallIsClean
<1> QED
  BY <1>1, <1>2, <1>3 DEF InstInv

\* Together they are inductive.
LEMMA InstInvariance == InstSpec => []InstInv
BY InstStart, InstTypesKept, InstExplainedKept, InstOrderedKept, InstCopiedKept, InstUndoneKept,
   InstCleanKept, PTL DEF InstSpec, InstInv

\* An uninstall that ends with the state removed leaves nothing of Prax.
THEOREM UninstallHolds == InstSpec => []UninstallIsClean
BY InstInvariance, PTL DEF InstInv

\* No operation but a restore takes from the user's entries but by being cut off,
\* and then an install has made a copy.
THEOREM UserEntriesHold == InstSpec => UserEntriesSurvive
<1> DEFINE Survive ==
      op.kind # "restore" =>
       \A f \in Files : "user" \in file[f].items /\ "user" \notin file'[f].items =>
         /\ file'[f] = TornFile
         /\ op.kind = "install" => \E t \in Seconds : backups[f][t] = file[f]
<1>1. ASSUME InstInv, [InstNext]_instVars PROVE Survive
  <2> SUFFICES ASSUME op.kind # "restore", NEW f \in Files,
                      "user" \in file[f].items, "user" \notin file'[f].items
               PROVE  /\ file'[f] = TornFile
                      /\ op.kind = "install" => \E t \in Seconds : backups[f][t] = file[f]
    OBVIOUS
  <2> USE DEF InstInv, InstTypeOK, Contents
  <2>1. file' # file
    OBVIOUS
  <2>2. ASSUME NEW h \in Files, NEW m \in {"mcp", "state"}, MergeFile(h, m) PROVE FALSE
    <3>1. file' = [file EXCEPT ![h] = Holding(Merged(file[h].items, Managed(h, op.plugin)))]
      BY <2>2 DEF MergeFile
    <3>2. "user" \in file[h].items => "user" \in Merged(file[h].items, Managed(h, op.plugin))
      BY DEF Merged
    <3> QED
      BY <1>1, <3>1, <3>2 DEF Holding
  <2>3. ASSUME NEW h \in Files, NEW m \in {"mcp", "state"}, CleanFile(h, m) PROVE FALSE
    <3>1. \A M : M \subseteq Ours /\ "user" \in file[h].items => "user" \in Removed(file[h].items, M)
      BY DEF Removed, Ours
    <3>2. Recorded(h, op.prior) \subseteq Ours
      BY DEF Recorded, Managed, Ours
    <3>3. "user" \in file[h].items => "user" \in file'[h].items
      <4>1. \A s : "user" \in s => Rest(s).items = s
        BY DEF Rest, Holding
      <4>2. CASE file[h] = NoFile
        BY <4>2 DEF NoFile
      <4>3. CASE file[h] # NoFile
        <5>1. file'[h] = Rest(Removed(file[h].items, Recorded(h, op.prior)))
          BY <1>1, <2>3, <4>3 DEF CleanFile
        <5> QED
          BY <3>1, <3>2, <4>1, <5>1
      <4> QED
        BY <4>2, <4>3
    <3>4. \A k \in Files \ {h} : file'[k] = file[k]
      BY <1>1, <2>3 DEF CleanFile
    <3> QED
      BY <3>3, <3>4
  <2>4. ASSUME UserEdits PROVE FALSE
    <3>1. \A k \in Files : file'[k] = file[k] \/ "user" \in file'[k].items
      BY <1>1, <2>4 DEF UserEdits, Holding
    <3> QED
      BY <3>1
  <2>5. ~Restore
    BY <1>1 DEF Restore, Ordered
  <2>6. CutOff
    BY <1>1, <2>1, <2>2, <2>3, <2>4, <2>5
       DEF InstNext, InstallStarts, RepairStarts, UninstallStarts, DoctorStarts, Start, RestoreFrom,
           WriteAsset, AssetsDone, Step, Backup, Raises, SaveState, RemoveState, Tick, instVars, Files
  <2>7. /\ stage \in Files /\ file' = [file EXCEPT ![stage] = TornFile]
    BY <1>1, <2>1, <2>6 DEF CutOff, Ordered
  <2>8. stage = f /\ file'[f] = TornFile
    BY <1>1, <2>7
  <2>9. op.kind = "install" => backups[f][now] = file[f]
    BY <1>1, <2>8 DEF Copied
  <2> QED
    BY <1>1, <2>8, <2>9
<1>2. InstInv /\ [InstNext]_instVars => [Survive]_instVars
  BY <1>1
<1> QED
  BY <1>2, InstInvariance, PTL DEF InstSpec, UserEntriesSurvive
=============================================================================
