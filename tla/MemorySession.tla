--------------------------- MODULE MemorySession ---------------------------
(***************************************************************************)
(* The memory of a project as its two writers see it: the extraction       *)
(* middleware of a native session (memory_middleware.py, MemoryStore) and  *)
(* the memory server that Claude Code keeps running                        *)
(* (mcp_memory_server.py, LocalMemoryBackend with its mtime cache).  Both  *)
(* load, change and replace .prax/memory.json without a lock.              *)
(*                                                                         *)
(* A fact is its content.  A fact rated below the threshold counts as not  *)
(* returned.  file.ver is the mtime: 0 while the file does not exist,      *)
(* another value after every replacement.                                  *)
(***************************************************************************)
EXTENDS Naturals, FiniteSets

CONSTANTS Facts,        \* contents that can be learned
          Conf,         \* confidence of each
          MaxFacts,     \* cap of memory.json
          Answers,      \* bound: final answers of the session
          Calls         \* bound: calls of the memory server

VARIABLES
  file,       \* memory.json: facts and mtime
  episodic,   \* facts in today's episodic file
  life,      \* the session: "run", "drain", "closed"
  said,       \* what this conversation holds
  recent,     \* less than 2 s since the last extraction began
  task,       \* _extraction_task
  compound,   \* a solution extraction is in flight
  timedOut,   \* wait_for_pending_extraction gave up
  entry,      \* the server's _MtimeCache entry for memory.json
  call,       \* the server's call in progress
  used,       \* [answers, calls] consumed
  kept,       \* history: facts that were ever in the file
  explained,  \* history: facts deleted, or evicted by the cap
  overlap     \* history: another writer came between a read and what it was for

memFiles   == <<file, kept, explained, overlap>>
memSession == <<life, said, recent, task, compound, timedOut>>
memServer  == <<entry, call>>
memVars    == <<memFiles, memSession, episodic, memServer, used>>

NoTask  == [at |-> "none", prompt |-> {}, found |-> {}, copy |-> {}, base |-> 0]
NoCall  == [at |-> "idle", op |-> "none", fact |-> {}, raw |-> {}, base |-> 0]
NoCache == [held |-> FALSE, ver |-> 0, facts |-> {}]

MemInit ==
  /\ file = [facts |-> {}, ver |-> 0]
  /\ episodic = {}
  /\ life = "run" /\ said = {} /\ recent = FALSE /\ task = NoTask
  /\ compound = FALSE /\ timedOut = FALSE
  /\ entry = NoCache /\ call = NoCall
  /\ used = [answers |-> 0, calls |-> 0]
  /\ kept = {} /\ explained = {} /\ overlap = FALSE

\* What may be left of a list that is sorted by confidence and cut.
Capped(S) ==
  IF Cardinality(S) <= MaxFacts THEN {S}
  ELSE {T \in SUBSET S : /\ Cardinality(T) = MaxFacts
                         /\ \A t \in T, s \in S \ T : Conf[t] >= Conf[s]}

\* Another file takes the place of memory.json; base was there when its writer
\* began.
Replace(facts, base) ==
  /\ file' = [facts |-> facts, ver |-> file.ver + 1]
  /\ kept' = kept \cup facts
  /\ overlap' = (overlap \/ base # file.ver)

(***************************************************************************)
(* The session.  Its event loop runs one thing at a time: while the        *)
(* extraction is between its read and its write nothing else of it moves.  *)
(***************************************************************************)
Loaded   == file.facts      \* MemoryStore.load; nothing while there is no file
Corrected == BOOLEAN        \* detect_correction_signal: whatever the user said
EpisodicWith(facts) == episodic \cup facts    \* one entry for each content
LoopFree == task.at # "loaded"
Pending  == task.at \in {"llm", "loaded", "vec"}

\* after_model of a final answer: nothing within 2 s of the last start; else
\* the running extraction is cancelled and a new one reads the conversation.
FinalAnswer(new) ==
  /\ life = "run" /\ LoopFree /\ used.answers < Answers
  /\ used' = [used EXCEPT !.answers = @ + 1]
  /\ said' = said \cup new
  /\ \/ recent /\ UNCHANGED <<task, recent>>
     \/ /\ ~recent
        /\ recent' = TRUE
        /\ task' = [NoTask EXCEPT !.at = "llm", !.prompt = said']
  /\ UNCHANGED <<memFiles, episodic, memServer, life, compound, timedOut>>

Debounced ==
  /\ recent /\ recent' = FALSE
  /\ UNCHANGED <<memFiles, episodic, memServer, used, life, said, task, compound, timedOut>>

\* The model answers with facts of the prompt; memory.json is read.
Extracted(found) ==
  /\ task.at = "llm" /\ life # "closed"
  /\ task' = [task EXCEPT !.at = "loaded", !.prompt = {}, !.found = found, !.copy = Loaded, !.base = file.ver]
  /\ UNCHANGED <<memFiles, episodic, memServer, used, life, said, recent, compound, timedOut>>

\* The call fails (always so once the client is closed), or is no JSON.
ExtractionFails ==
  /\ task.at = "llm"
  /\ task' = [NoTask EXCEPT !.at = "done"]
  /\ UNCHANGED <<memFiles, episodic, memServer, used, life, said, recent, compound, timedOut>>

\* The merged list is written, or the write fails in silence; either way the
\* task now waits for the thread that upserts it into the vector store.
SaveMerged ==
  /\ task.at = "loaded"
  /\ \E merged \in Capped(task.copy \cup task.found) :
       \/ /\ Replace(merged, task.base)
          /\ explained' = explained \cup ((task.copy \cup task.found) \ merged)
       \/ UNCHANGED memFiles
  /\ task' = [task EXCEPT !.at = "vec", !.prompt = {}, !.copy = {}, !.base = 0]
  /\ UNCHANGED <<memServer, episodic, used, life, said, recent, compound, timedOut>>

\* Back from the upsert: the episodic file, and a second extraction when the
\* user had corrected the agent.
AfterUpsert ==
  /\ task.at = "vec"
  /\ episodic' = EpisodicWith(task.found)
  /\ \E corrected \in Corrected : compound' = (compound \/ corrected)
  /\ task' = [NoTask EXCEPT !.at = "done"]
  /\ UNCHANGED <<memFiles, memServer, used, life, said, recent, timedOut>>

\* _extract_compound wrote its solutions, or its call failed, as it always does
\* once the client is closed: nothing waits for it.
CompoundEnds ==
  /\ compound /\ LoopFree
  /\ compound' = FALSE
  /\ UNCHANGED <<memFiles, episodic, memServer, used, life, said, recent, task, timedOut>>

\* The end of _execute: wait for the extraction, close the client.
EndRun ==
  /\ life = "run" /\ LoopFree
  /\ life' = IF Pending THEN "drain" ELSE "closed"
  /\ UNCHANGED <<memFiles, episodic, memServer, used, said, recent, task, compound, timedOut>>
Drained ==
  /\ life = "drain" /\ ~Pending
  /\ life' = "closed"
  /\ UNCHANGED <<memFiles, episodic, memServer, used, said, recent, task, compound, timedOut>>
DrainTimeout ==
  /\ life = "drain" /\ Pending /\ LoopFree
  /\ life' = "closed" /\ timedOut' = TRUE
  /\ UNCHANGED <<memFiles, episodic, memServer, used, said, recent, task, compound>>

(***************************************************************************)
(* The memory server: load through the cache, change the cached object,    *)
(* replace the file, drop the cache entry.                                 *)
(***************************************************************************)
BuggyFreshEntry == entry.held
FreshEntry == entry.held /\ entry.ver = file.ver

ServerOps == {"store", "delete", "get"}
\* _load_project: the cached object, or a read that is not yet stamped.
ServerLoad(op, f) ==
  /\ call.at = "idle" /\ used.calls < Calls
  /\ used' = [used EXCEPT !.calls = @ + 1]
  /\ call' = [at |-> IF FreshEntry THEN "loaded" ELSE "read", op |-> op, fact |-> f,
              raw |-> IF FreshEntry THEN {} ELSE file.facts, base |-> file.ver]
  /\ UNCHANGED <<memFiles, memSession, episodic, entry>>

\* _MtimeCache.set takes the mtime after the read.
ServerStamp ==
  /\ call.at = "read"
  /\ entry' = [held |-> TRUE, ver |-> file.ver, facts |-> call.raw]
  /\ call' = [call EXCEPT !.at = "loaded", !.raw = {}]
  /\ overlap' = (overlap \/ call.base # file.ver)
  /\ UNCHANGED <<file, kept, explained, memSession, episodic, used>>

Changes(facts) ==
  CASE call.op = "store"  -> Capped(facts \cup call.fact)
    [] call.op = "delete" -> {facts \ call.fact}
    [] OTHER              -> {facts}
NoChange == call.op = "get" \/ (call.op = "store" /\ call.fact \subseteq entry.facts)

\* get_facts, or store_fact of a fact that is there: nothing is written.
ServerReturns ==
  /\ call.at = "loaded" /\ NoChange
  /\ call' = NoCall
  /\ UNCHANGED <<memFiles, memSession, episodic, entry, used>>

ServerWrites ==
  /\ call.at = "loaded" /\ ~NoChange
  /\ \E facts \in Changes(entry.facts) :
       /\ Replace(facts, call.base)
       /\ explained' = explained \cup ((entry.facts \cup call.fact) \ facts)
  /\ entry' = NoCache
  /\ call' = NoCall
  /\ UNCHANGED <<memSession, episodic, used>>

\* The write raises: the cached object is changed all the same.
ServerWriteFails ==
  /\ call.at = "loaded" /\ ~NoChange
  /\ \E facts \in Changes(entry.facts) :
       /\ entry' = [entry EXCEPT !.facts = facts]
       /\ explained' = explained \cup ((entry.facts \cup call.fact) \ facts)
  /\ call' = NoCall
  /\ UNCHANGED <<memSession, episodic, used, file, kept, overlap>>

MemNext ==
  \/ \E f \in Facts : FinalAnswer({f})
  \/ Debounced
  \/ \E found \in SUBSET task.prompt : Extracted(found)
  \/ ExtractionFails \/ SaveMerged \/ AfterUpsert \/ CompoundEnds
  \/ EndRun \/ Drained \/ DrainTimeout
  \/ \E op \in ServerOps, f \in Facts : ServerLoad(op, {f})
  \/ ServerStamp \/ ServerReturns \/ ServerWrites \/ ServerWriteFails

MemSpec == MemInit /\ [][MemNext]_memVars

-----------------------------------------------------------------------------
MemTypeOK ==
  /\ file \in [facts : SUBSET Facts, ver : Nat]
  /\ {episodic, said, kept, explained} \subseteq SUBSET Facts
  /\ life \in {"run", "drain", "closed"}
  /\ task.at \in {"none", "llm", "loaded", "vec", "done"}
  /\ Cardinality(file.facts) <= MaxFacts
  /\ entry.facts \subseteq Facts

(***************************************************************************)
(* A fact that was written to memory.json and is no longer there was       *)
(* deleted, had to give way to facts of at least its confidence, or was    *)
(* lost because the two writers overlapped.  Calls and extractions that do *)
(* not overlap lose nothing, whatever the server keeps cached between its  *)
(* calls: neither the mtime test nor the changed object that a failed      *)
(* write leaves in the cache does harm.                                    *)
(***************************************************************************)
LossIsExplained == overlap \/ kept \ file.facts \subseteq explained

(***************************************************************************)
(* The drain of _execute (main.py) works: a session whose wait did not     *)
(* time out closes its client with no extraction in flight.                *)
(***************************************************************************)
DrainedAtClose == life = "closed" /\ Pending => timedOut

(***************************************************************************)
(* What the session learned is lost for a reason only, neither in the file *)
(* nor on its way there.                                                   *)
(***************************************************************************)
NothingIsLost == LossIsExplained /\ DrainedAtClose

=============================================================================
