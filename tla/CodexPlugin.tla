---------------------------- MODULE CodexPlugin ----------------------------
(***************************************************************************)
(* The personal Codex plugin (integrations/codex/plugin.py): the tree that *)
(* is copied, its entry in the marketplace file, and the registration by   *)
(* the codex command, which is external.  A command may be cut off between *)
(* any two of its steps; the marketplace is not written atomically.        *)
(***************************************************************************)
EXTENDS Integers

CONSTANTS PluginCmds  \* bound: installs and uninstalls

VARIABLES tree,      \* "none", "partial" (no manifest), "torn" (the manifest is) or "full"
          market,    \* marketplace.json: [st, names]
          listed,    \* codex has the plugin
          step, count,
          ignored    \* a removal that did not succeed was passed over

plugVars == <<tree, market, listed, step, count, ignored>>

PlugTypeOK == /\ tree \in {"none", "partial", "torn", "full"} /\ market.st \in {"none", "torn", "ok"}
              /\ market.names \subseteq {"prax", "other"} /\ listed \in BOOLEAN
              /\ step \in {"idle", "copy", "manifest", "publish", "activate", "remove", "withdraw", "delete"}

Torn == [st |-> "torn", names |-> {}]
PlugInit == /\ tree = "none" /\ listed = FALSE /\ step = "idle" /\ count = 0 /\ ignored = FALSE
            /\ market \in {[st |-> "none", names |-> {}], [st |-> "ok", names |-> {"other"}]}

\* A marketplace that is not JSON stops both commands before their first change.
Begins(a) == /\ step = "idle" /\ count < PluginCmds /\ market.st # "torn" /\ step' = a /\ count' = count + 1
             /\ UNCHANGED <<tree, market, listed, ignored>>
InstallPlugin == Begins("copy")
\* A mutation of UninstallPlugin: codex is not asked to remove it first.
BuggyUninstall == Begins("withdraw")
UninstallPlugin == Begins("remove")

\* In place, over what an earlier version left; then the version is stamped.
CopyTree == step = "copy" /\ step' = "manifest" /\ tree' = "full" /\ UNCHANGED <<market, listed, count, ignored>>
Manifest == step = "manifest" /\ step' = "publish" /\ UNCHANGED <<tree, market, listed, count, ignored>>
\* _marketplace_payload, of what was read before the copy.
Published == [st |-> "ok", names |-> market.names \union {"prax"}]
Publish == /\ step = "publish" /\ step' = "activate" /\ market' = Published
           /\ UNCHANGED <<tree, listed, count, ignored>>
\* codex plugin add; its failure raises after everything is written.
Activate == /\ step = "activate" /\ step' = "idle" /\ listed' \in {listed, TRUE}
            /\ UNCHANGED <<tree, market, count, ignored>>

\* codex plugin remove, whose failure nobody looks at; without codex it is left out.
Unlist == /\ step = "remove" /\ step' = "withdraw"
          /\ \/ listed' = FALSE /\ UNCHANGED ignored
             \/ UNCHANGED listed /\ ignored' = (ignored \/ listed)
          /\ UNCHANGED <<tree, market, count>>
Withdrawn == [market EXCEPT !.names = @ \ {"prax"}]
Withdraw == /\ step = "withdraw" /\ step' = "delete" /\ market' = Withdrawn
            /\ UNCHANGED <<tree, listed, count, ignored>>
\* Only a tree with the manifest of prax is deleted.
Delete == /\ step = "delete" /\ step' = "idle" /\ tree' = IF tree = "full" THEN "none" ELSE tree
          /\ UNCHANGED <<market, listed, count, ignored>>

\* The process is cut off, in the middle of what it writes or before.
Interrupted == /\ step # "idle" /\ step' = "idle"
               /\ market' \in {market} \union (IF step \in {"publish", "withdraw"} /\ market.st # "none" THEN {Torn} ELSE {})
               /\ tree' \in {tree} \union (CASE step = "delete" /\ tree = "full" -> {"partial", "torn"}
                                             [] step = "copy" -> IF tree = "none" THEN {"partial", "torn", "full"} ELSE {"torn", "full"}
                                             [] step = "manifest" -> {"torn"}
                                             [] OTHER -> {})
               /\ UNCHANGED <<listed, count, ignored>>

PlugNext == \/ InstallPlugin \/ UninstallPlugin \/ CopyTree \/ Manifest \/ Publish \/ Activate
            \/ Unlist \/ Withdraw \/ Delete \/ Interrupted

PlugSpec == PlugInit /\ [][PlugNext]_plugVars
-----------------------------------------------------------------------------
(* Properties *)

\* Wherever a command is cut off, codex lists the plugin only while its tree
\* is there and the marketplace names it, as long as every removal by codex
\* succeeded: the tree is deleted last, and registered last.
PluginIsBacked ==
  listed /\ ~ignored => tree \in {"torn", "full"} /\ (market.st = "torn" \/ "prax" \in market.names)
=============================================================================
