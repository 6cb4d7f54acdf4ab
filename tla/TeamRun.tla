------------------------------ MODULE TeamRun ------------------------------
(***************************************************************************)
(* One call of the ultrawork workflow (workflows/ultrawork.py): Sisyphus   *)
(* asks the model for a strategy and hands the task to Ralph, to the team  *)
(* or to a plain loop (agents/sisyphus.py); the team (agents/team.py) has  *)
(* the task decomposed, sorts the subtasks into waves, runs each wave in   *)
(* parallel under a semaphore, and merges the results.                     *)
(*                                                                         *)
(* A list of the model's may be anything: identifiers twice, dependencies  *)
(* on none of the list, on itself, in a cycle.  Left out: the texts, and   *)
(* the order in which the semaphore lets the subtasks of a wave in.        *)
(***************************************************************************)
EXTENDS Integers, Sequences, FiniteSets

CONSTANTS Ids,          \* identifiers the model may give or name
          MaxSubtasks,  \* bound: subtasks of a decomposition
          MaxParallel   \* max_parallel

ASSUME TeamAssumption == MaxSubtasks \in Nat

VARIABLES tPc,        \* where the call is
          subtasks,   \* the decomposition, in the order of the list
          waves,      \* sequence of sets of positions in subtasks
          running, ended,  \* positions of the current wave that run; all that have ended
          prior,      \* the identifiers in completed_context
          seen,       \* for each position, the results its prompt quoted
          reported,   \* positions in all_results
          clients, memory  \* LLM clients open; the memory backend is open

teamVars == <<tPc, subtasks, waves, running, ended, prior, seen, reported, clients, memory>>

Entries == [id : Ids, needs : SUBSET Ids]
Listed == DOMAIN subtasks
Known == {subtasks[i].id : i \in Listed}

TeamTypeOK ==
  /\ tPc \in {"start", "decompose", "sort", "wave", "merge", "single", "direct", "ralph",
              "store", "returned", "raised"}
  /\ running \subseteq Listed /\ ended \subseteq Listed /\ reported \subseteq Listed
  /\ prior \subseteq Ids /\ clients \in 0 .. 1 /\ memory \in BOOLEAN
-----------------------------------------------------------------------------
(* The waves of a list *)

\* id_map: of two subtasks with one identifier the last is known by it.
ById(list, d) == CHOOSE i \in DOMAIN list : list[i].id = d /\ \A j \in DOMAIN list : list[j].id = d => j <= i

\* in_degree and dependents: dependencies on what is not in the list do not
\* count, those of two subtasks with one identifier are added up.
Needs(list, d) == (UNION {list[i].needs : i \in {j \in DOMAIN list : list[j].id = d}})
                    \cap {list[i].id : i \in DOMAIN list}

\* What is ready when those in done have been processed.
Ready(list, done) == {d \in {list[i].id : i \in DOMAIN list} \ done : Needs(list, d) \subseteq done}

Planned == UNION {waves[n] : n \in DOMAIN waves}
Processed == {subtasks[i].id : i \in Planned}

Sequential(list) == [i \in DOMAIN list |-> {i}]
\* A mutation of Sorted: the list is not told apart from an acyclic one.
BuggySorted(list, layers) == layers

\* Fewer processed than listed is a cycle, or an identifier given twice.
Sorted(list, layers) ==
  IF Cardinality(UNION {layers[n] : n \in DOMAIN layers}) < Len(list) THEN Sequential(list) ELSE layers

\* The reference: the list has a topological order, as each part of it has a
\* subtask that depends on nothing of that part.
Acyclic(list) ==
  /\ \A i, j \in DOMAIN list : list[i].id = list[j].id => i = j
  /\ \A S \in SUBSET DOMAIN list : S # {} => \E i \in S : \A j \in S : list[j].id \notin list[i].needs
-----------------------------------------------------------------------------
TeamInit == /\ tPc = "start" /\ subtasks = << >> /\ waves = << >> /\ running = {} /\ ended = {}
            /\ prior = {} /\ seen = << >> /\ reported = {} /\ clients = 0 /\ memory = TRUE

Stay == UNCHANGED <<subtasks, waves, running, ended, prior, seen, reported>>

\* The model of the configuration cannot be resolved, in Sisyphus.
ConfigError == /\ tPc = "start" /\ tPc' = "store" /\ UNCHANGED <<clients, memory>> /\ Stay

\* _classify_strategy, "direct" for want of an answer; its client is closed
\* before the agent that follows opens its own.
Route == /\ tPc = "start" /\ tPc' \in {"ralph", "decompose", "direct"} /\ clients' = 1
         /\ UNCHANGED memory /\ Stay

\* RalphRun has what Ralph does; an error of the todo file leaves its client open.
RalphRuns == /\ tPc = "ralph"
             /\ \/ tPc' = "store" /\ clients' = 0
                \/ tPc' = "raised" /\ UNCHANGED clients
             /\ UNCHANGED memory /\ Stay

\* _run_direct answers an error with a result and always closes.
RunDirect == /\ tPc = "direct" /\ tPc' = "store" /\ clients' = 0 /\ UNCHANGED memory /\ Stay

\* The loop over the waves.
After(rest) == IF rest = << >> THEN "merge" ELSE "wave"

Decompose(list) == /\ tPc = "decompose"
                   /\ subtasks' = list /\ seen' = [i \in DOMAIN list |-> {}]
                   /\ tPc' = IF list = << >> THEN "single" ELSE "sort"
                   /\ UNCHANGED <<waves, running, ended, prior, reported, clients, memory>>

\* topological_waves: Kahn's algorithm, a step for each turn of its loop.
SortWave == /\ tPc = "sort" /\ Ready(subtasks, Processed) # {}
            /\ waves' = Append(waves, {ById(subtasks, d) : d \in Ready(subtasks, Processed)})
            /\ UNCHANGED <<tPc, subtasks, running, ended, prior, seen, reported, clients, memory>>
SortEnds == /\ tPc = "sort" /\ Ready(subtasks, Processed) = {}
            /\ waves' = Sorted(subtasks, waves) /\ tPc' = After(waves')
            /\ UNCHANGED <<subtasks, running, ended, prior, seen, reported, clients, memory>>

\* Without subtasks the task runs as one, and its exception is not caught.
RunSingle == /\ tPc = "single"
             /\ \/ tPc' = "store" /\ clients' = 0
                \/ tPc' = "raised" /\ UNCHANGED clients
             /\ UNCHANGED memory /\ Stay

Wave == waves[1]
\* A subtask that gets the semaphore quotes the results there are of what it
\* depends on; completed_context is not written while a wave runs.
StartSubtask(i) == /\ tPc = "wave" /\ i \in Wave \ (running \union ended)
                   /\ Cardinality(running) < MaxParallel
                   /\ running' = running \union {i}
                   /\ seen' = [seen EXCEPT ![i] = subtasks[i].needs \cap prior]
                   /\ UNCHANGED <<tPc, subtasks, waves, ended, prior, reported, clients, memory>>
\* With its result or with an error, which is a result too.
EndSubtask(i) == /\ i \in running /\ running' = running \ {i} /\ ended' = ended \union {i}
                 /\ UNCHANGED <<tPc, subtasks, waves, prior, seen, reported, clients, memory>>

\* gather has all of the wave.
Completed(w) == prior \union {subtasks[i].id : i \in w}
WaveEnds == /\ tPc = "wave" /\ Wave \subseteq ended
            /\ waves' = Tail(waves) /\ prior' = Completed(Wave) /\ reported' = reported \union Wave
            /\ tPc' = After(Tail(waves))
            /\ UNCHANGED <<subtasks, running, ended, seen, clients, memory>>

\* A merge that fails gives the results as they are.
Merge == /\ tPc = "merge" /\ tPc' = "store" /\ clients' = 0 /\ UNCHANGED memory /\ Stay

\* The experience of the call is stored, or not, and the memory closed.
StoreExperience == /\ tPc = "store" /\ tPc' = "returned" /\ memory' = FALSE
                   /\ UNCHANGED clients /\ Stay

TeamNext == \/ ConfigError \/ Route \/ RalphRuns \/ RunDirect \/ RunSingle
            \/ SortWave \/ SortEnds \/ WaveEnds \/ Merge \/ StoreExperience
            \/ tPc = "decompose" /\ \E n \in 0 .. MaxSubtasks : \E list \in [1 .. n -> Entries] : Decompose(list)
            \/ \E i \in Listed : StartSubtask(i) \/ EndSubtask(i)

TeamSpec == TeamInit /\ [][TeamNext]_teamVars
-----------------------------------------------------------------------------
(* Properties *)

\* When the list has a topological order, a subtask starts after everything it
\* depends on has ended, and its prompt quotes all of those results.
DependenciesFirst ==
  running # {} /\ Acyclic(subtasks) =>
    \A i \in running : /\ subtasks[i].needs \cap Known \subseteq {subtasks[j].id : j \in ended}
                       /\ seen[i] = subtasks[i].needs \cap Known

\* What is merged has every subtask of the list, whatever the model named and
\* however often; each ran, and the call returns with its client closed.
EverySubtaskReported ==
  /\ tPc = "merge" => reported = Listed /\ ended = Listed
  /\ tPc = "returned" => clients = 0 /\ ~memory

\* The subtasks run in their order, and all of them are accounted for.
TeamIsOrderly == DependenciesFirst /\ EverySubtaskReported
=============================================================================
