------------------------------ MODULE MCMemory ------------------------------
(***************************************************************************)
(* The two memory systems, which share no state: in each behaviour one of  *)
(* them moves.                                                             *)
(***************************************************************************)
EXTENDS MemorySession, KnowledgeBase

CONSTANTS a, b, t1, t2
VARIABLE part

MCConf == [f \in {a, b} |-> 2]
MCSymmetry == {[x \in {a, b} |-> IF x = a THEN b ELSE a], [x \in {a, b} |-> x]}
MCEnds == [t \in {t1, t2} |-> IF t = t1 THEN {"prax", "python"} ELSE {"prax", "uv"}]

MCInit == /\ part \in {"session", "base"}
          /\ MemInit /\ KbInit
          /\ part = "session" => backend = [p \in Workers |-> "local"]
MCNext == \/ part = "session" /\ MemNext /\ UNCHANGED <<kbVars, part>>
          \/ part = "base" /\ KbNext /\ UNCHANGED <<memVars, part>>
MCSpec == MCInit /\ [][MCNext]_<<memVars, kbVars, part>>

\* Both are well typed.
MCTypeOK == MemTypeOK /\ KbTypeOK
=============================================================================
