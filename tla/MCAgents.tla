------------------------------ MODULE MCAgents ------------------------------
(***************************************************************************)
(* The continuous agent, and the orchestrator with the team: they share no *)
(* state, and in each behaviour one of them moves.                         *)
(***************************************************************************)
EXTENDS RalphRun, TeamRun

VARIABLE part

MCChain == <<"m2", "m3">>

MCInit == part \in {"ralph", "team"} /\ RalphInit /\ TeamInit
MCNext == \/ part = "ralph" /\ RalphNext /\ UNCHANGED <<teamVars, part>>
          \/ part = "team" /\ TeamNext /\ UNCHANGED <<ralphVars, part>>
MCFairness == WF_<<ralphVars, teamVars, part>>(part = "ralph" /\ RalphStep /\ UNCHANGED <<teamVars, part>>)
MCSpec == MCInit /\ [][MCNext]_<<ralphVars, teamVars, part>> /\ MCFairness

\* Every run of the continuous agent ends, and goes on only for a reason.
MCRalphWorks == LoopsHaveWork /\ (part = "ralph" => RalphEnds)
=============================================================================
