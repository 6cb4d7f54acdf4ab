----------------------------- MODULE MCInstall -----------------------------
(***************************************************************************)
(* The three installations into other tools.  They share no state: in each *)
(* behaviour one of them moves.                                            *)
(***************************************************************************)
EXTENDS ClaudeInstall, CodexProject, CodexPlugin

VARIABLE part

MCTier == [a \in {"x", "y"} |-> IF a = "x" THEN "minimal" ELSE "full"]
MCVer == [w \in {"w1", "w2"} |-> IF w = "w1" THEN "v1" ELSE "v2"]
MCVars == <<instVars, projVars, plugVars, part>>

\* The parts that do not move start in one state.
MCInit == /\ part \in {"claude", "project", "plugin"} /\ InstInit /\ ProjInit /\ PlugInit
          /\ (file["settings"] = NoFile) <=> (file["mcp"] = NoFile)
          /\ part # "claude" => file["mcp"] = NoFile
          /\ part # "plugin" => market.st = "none"
MCNext == \/ part = "claude" /\ InstNext /\ UNCHANGED <<projVars, plugVars, part>>
          \/ part = "project" /\ ProjNext /\ UNCHANGED <<instVars, plugVars, part>>
          \/ part = "plugin" /\ PlugNext /\ UNCHANGED <<instVars, projVars, part>>
MCSpec == MCInit /\ [][MCNext]_MCVars
MCTypeOK == InstTypeOK /\ ProjTypeOK /\ PlugTypeOK
=============================================================================
