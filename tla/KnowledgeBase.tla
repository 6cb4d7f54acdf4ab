--------------------------- MODULE KnowledgeBase ---------------------------
(***************************************************************************)
(* The SQLite side of the memory (memory/sqlite_backend.py,                *)
(* memory/knowledge_graph.py, memory/migration.py, memory/layers.py),      *)
(* shared by the processes that work in one project: knowledge.db with its *)
(* dated triples, memory.db with the facts, experiences.db with the        *)
(* lessons of all projects, and the vector store beside them.              *)
(*                                                                         *)
(* SQLite lets one process write at a time.  BEGIN IMMEDIATE takes that    *)
(* right before the first read; without it a SELECT is a step of its own   *)
(* and only the INSERT, UPDATE or DELETE after it takes the right.         *)
(***************************************************************************)
EXTENDS Integers, FiniteSets, Sequences

CONSTANTS Workers,      \* processes working in the project
          Triples,    \* (subject, predicate, object) after normalisation
          Ends,       \* the entities of a triple
          Contents,   \* contents of facts
          MaxExp,     \* max_experiences
          Days,       \* the days of the model: 1..Days
          KbSteps     \* bound: operations of all processes

ASSUME KnowledgeAssumption ==
  /\ IsFiniteSet(Workers) /\ MaxExp \in Nat \ {0}
  /\ Days \in Nat \ {0} /\ KbSteps \in Nat

VARIABLES
  backend,    \* what get_memory_backend built in a process
  rows,       \* triples table: [triple, from, to, batch], 0 for NULL
  entities,   \* entities table
  txn,        \* a process inside knowledge.db: [at, todo, rows, ents, batch]
  today,
  factRows,   \* facts table: number of rows for a content
  found,      \* what the SELECT of store_fact showed a process
  vectors,    \* contents in the vector store
  exps,       \* number of rows of experiences.db
  tally,    \* what the COUNT of store_experience showed a process, or None
  shown,      \* the memory block given to the model last
  steps,      \* operations consumed
  rolledBack  \* history: batches that failed

kbGraph == <<rows, entities, txn, rolledBack>>
kbFacts == <<factRows, found, vectors>>
kbExps  == <<exps, tally>>
kbVars  == <<backend, kbGraph, today, kbFacts, kbExps, shown, steps>>

None    == -1
NoTxn   == [at |-> "idle", todo |-> <<>>, rows |-> {}, ents |-> {}, batch |-> 0]
Keys    == {"local", "sqlite", "openviking", "custom"}

\* _build_backend: an unreachable service or a class that does not load falls
\* back to the local files.
Built(key, works) ==
  IF key \in {"openviking", "custom"} /\ ~works THEN "local" ELSE key

GraphInit == rows = {} /\ entities = {} /\ txn = [p \in Workers |-> NoTxn] /\ rolledBack = {}
StoreInit == /\ factRows = [c \in Contents |-> 0] /\ found = [p \in Workers |-> <<>>]
             /\ exps = 0 /\ tally = [p \in Workers |-> None]
KbInit ==
  /\ \E key \in Keys, works \in BOOLEAN : backend = [p \in Workers |-> Built(key, works)]
  /\ GraphInit /\ StoreInit /\ vectors = {}
  /\ today = 1 /\ shown = {} /\ steps = 0

Step == steps < KbSteps /\ steps' = steps + 1
\* A process is single-threaded: one call at a time.
Idle(p)  == /\ backend[p] = "sqlite" /\ txn[p].at = "idle"
            /\ found[p] = <<>> /\ tally[p] = None
Writer   == {p \in Workers : txn[p].at # "idle"}

(***************************************************************************)
(* knowledge.db                                                            *)
(***************************************************************************)
IsCurrent(t, set) == \E r \in set : r.triple = t /\ r.to = 0

BuggyBegin(p, todo) ==
  /\ Idle(p) /\ Step
  /\ txn' = [txn EXCEPT ![p] = [at |-> "open", todo |-> todo, rows |-> {}, ents |-> {}, batch |-> steps']]
  /\ UNCHANGED <<backend, rows, entities, rolledBack, today, kbFacts, kbExps, shown>>
\* BEGIN IMMEDIATE of add_triple (one triple) or add_triples_batch.  A holder
\* that keeps the lock for 10 s makes it raise: nothing happens.
Begin(p, todo) ==
  /\ Idle(p) /\ Step
  /\ Writer = {}
  /\ txn' = [txn EXCEPT ![p] = [at |-> "open", todo |-> todo, rows |-> {}, ents |-> {}, batch |-> steps']]
  /\ UNCHANGED <<backend, rows, entities, rolledBack, today, kbFacts, kbExps, shown>>

\* The next triple: its entities are added if missing, the row unless a
\* current one exists.  A batch writes no dates; add_triple the given ones,
\* which its callers leave out.
AddNext(p) ==
  /\ txn[p].at = "open" /\ txn[p].todo # <<>>
  /\ LET t   == Head(txn[p].todo)
         new == [triple |-> t, from |-> 0, to |-> 0, batch |-> txn[p].batch]
     IN txn' = [txn EXCEPT ![p].todo = Tail(@), ![p].ents = @ \cup Ends[t],
                  ![p].rows = IF IsCurrent(t, rows \cup @) THEN @ ELSE @ \cup {new}]
  /\ UNCHANGED <<backend, rows, entities, rolledBack, today, kbFacts, kbExps, shown, steps>>

Commit(p) ==
  /\ txn[p].at = "open" /\ txn[p].todo = <<>>
  /\ rows' = rows \cup txn[p].rows
  /\ entities' = entities \cup txn[p].ents
  /\ txn' = [txn EXCEPT ![p] = NoTxn]
  /\ UNCHANGED <<backend, rolledBack, today, kbFacts, kbExps, shown, steps>>

\* A field that does not validate, a full disk, the end of the process.
Rollback(p) ==
  /\ txn[p].at = "open"
  /\ UNCHANGED <<rows, entities>>
  /\ rolledBack' = rolledBack \cup {txn[p].batch}
  /\ txn' = [txn EXCEPT ![p] = NoTxn]
  /\ UNCHANGED <<backend, today, kbFacts, kbExps, shown, steps>>

\* One UPDATE; it may also fail, which is only logged.
Ended(r, t) == IF r.triple = t /\ r.to = 0 THEN [r EXCEPT !.to = today] ELSE r
Invalidate(p, t) ==
  /\ Idle(p) /\ Step /\ Writer = {}
  /\ IsCurrent(t, rows)
  /\ rows' = {Ended(r, t) : r \in rows}
  /\ UNCHANGED <<backend, entities, txn, rolledBack, today, kbFacts, kbExps, shown>>

NextDay ==
  /\ today < Days /\ today' = today + 1
  /\ UNCHANGED <<backend, kbGraph, kbFacts, kbExps, shown, steps>>

\* Every query joins the entities; a row without them is not seen.
Seen    == {r \in rows : Ends[r.triple] \subseteq entities}
Current == {r \in Seen : r.to = 0}
AsOf(d) == {r \in Seen : (r.from = 0 \/ r.from <= d) /\ (r.to = 0 \/ r.to >= d)}

\* _write_triples_to_kg of the extraction, its valid triples as one batch.
WriteTriples(p, t, u) == Begin(p, <<t, u>>)
\* migrate_facts_to_kg: one add_triple for every triple of memory.json.
Migrate(p, todo) == Begin(p, <<todo>>)

(***************************************************************************)
(* memory.db and experiences.db                                            *)
(***************************************************************************)
\* store_fact looks the content up ...
LookUp(p, c) ==
  /\ Idle(p) /\ Step
  /\ found' = [found EXCEPT ![p] = <<c, factRows[c]>>]
  /\ UNCHANGED <<backend, kbGraph, today, factRows, vectors, kbExps, shown>>
\* ... and updates the row it saw, or inserts one.
StoreFact(p) ==
  /\ found[p] # <<>>
  /\ LET c == found[p][1] IN
       factRows' = IF found[p][2] > 0 THEN factRows ELSE [factRows EXCEPT ![c] = @ + 1]
  /\ found' = [found EXCEPT ![p] = <<>>]
  /\ UNCHANGED <<backend, kbGraph, today, vectors, kbExps, shown, steps>>
\* delete_fact: by id, so one row; the vector store keeps the content.
DeleteFact(p, c) ==
  /\ Idle(p) /\ Step /\ factRows[c] > 0
  /\ factRows' = [factRows EXCEPT ![c] = @ - 1]
  /\ UNCHANGED <<backend, kbGraph, today, found, vectors, kbExps, shown>>
\* sync_from_facts: an upsert of what is stored; it removes nothing.
Stored == {c \in Contents : factRows[c] > 0}
SyncVectors(p) ==
  /\ Idle(p) /\ ~(Stored \subseteq vectors)
  /\ vectors' = vectors \cup Stored
  /\ UNCHANGED <<backend, kbGraph, today, factRows, found, kbExps, shown, steps>>

\* search_facts finds stored rows; a hit of the vector store alone is looked
\* up by id.
Hybrid(fts, near) == (fts \cap Stored) \cup (near \cap Stored)

CountExps(p) ==
  /\ Idle(p) /\ Step
  /\ tally' = [tally EXCEPT ![p] = exps]
  /\ UNCHANGED <<backend, kbGraph, today, kbFacts, exps, shown>>
\* At the cap the oldest rows go; the rest of the transaction is the insert.
Kept(n) == IF n < MaxExp THEN exps
           ELSE IF exps > n - MaxExp + 1 THEN exps - (n - MaxExp + 1) ELSE 0
StoreExp(p) ==
  /\ tally[p] # None
  /\ exps' = Kept(tally[p]) + 1
  /\ tally' = [tally EXCEPT ![p] = None]
  /\ UNCHANGED <<backend, kbGraph, today, kbFacts, shown, steps>>

(***************************************************************************)
(* What the model is given before a call: the current triples (L1), the    *)
(* nearest vectors (L2) or else the triples around the query's words (L3), *)
(* or the flat facts of memory.json when there is nothing.  The vector     *)
(* store answers with nothing when it is not installed or fails.           *)
(***************************************************************************)
Near == SUBSET vectors
L1 == {r.triple : r \in Current}
L3(words) == words \cap L1
Layered(l2, words, flat) ==
  LET deep == IF l2 = {} THEN L3(words) ELSE {}
  IN IF L1 \cup l2 \cup deep = {} THEN flat ELSE L1 \cup l2 \cup deep
Inject(p) ==
  /\ Idle(p) /\ Step
  /\ \E l2 \in Near, words \in SUBSET Triples, flat \in SUBSET Contents :
       shown' = Layered(l2, words, flat)
  /\ UNCHANGED <<backend, kbGraph, today, kbFacts, kbExps>>
\* format_for_prompt with a task type.
Search(p) ==
  /\ Idle(p) /\ Step
  /\ \E fts \in SUBSET Contents, near \in Near : shown' = Hybrid(fts, near)
  /\ UNCHANGED <<backend, kbGraph, today, kbFacts, kbExps>>

KbNext ==
  \/ \E p \in Workers :
       \/ \E t \in Triples, u \in Triples : WriteTriples(p, t, u)
       \/ \E t \in Triples : Migrate(p, t) \/ Invalidate(p, t)
       \/ AddNext(p) \/ Commit(p) \/ Rollback(p)
       \/ \E c \in Contents : LookUp(p, c) \/ DeleteFact(p, c)
       \/ StoreFact(p) \/ SyncVectors(p)
       \/ CountExps(p) \/ StoreExp(p)
       \/ Inject(p) \/ Search(p)
  \/ NextDay

KbSpec == KbInit /\ [][KbNext]_kbVars

-----------------------------------------------------------------------------
KbTypeOK ==
  /\ rows \subseteq [triple : Triples, from : 0..Days, to : 0..Days, batch : 0..KbSteps]
  /\ factRows \in [Contents -> 0..Cardinality(Workers)]
  /\ \A p \in Workers : txn[p].at \in {"idle", "open"}
  /\ vectors \subseteq Contents /\ today \in 1..Days

(***************************************************************************)
(* A triple holds at most once now: however two processes interleave their *)
(* batches, migrations and invalidations, there is one current row of it,  *)
(* and each query sees every row that was written.                         *)
(***************************************************************************)
OneCurrent ==
  /\ Seen = rows
  /\ \A r, s \in rows : r.triple = s.triple /\ r.to = 0 /\ s.to = 0 => r = s

(***************************************************************************)
(* A batch is written whole or not at all ("Rolls back entirely on any     *)
(* failure", knowledge_graph.py:220).                                      *)
(***************************************************************************)
BatchIsAtomic == \A r \in rows : r.batch \notin rolledBack

(***************************************************************************)
(* store_experience counts outside its transaction and its lock is one of  *)
(* the process: the cap may be passed, but never by more than one row for  *)
(* each other process, and store_fact, which looks up outside its          *)
(* transaction too, leaves at most one row of a content for each process.  *)
(***************************************************************************)
OvershootIsBounded ==
  /\ exps <= MaxExp + Cardinality(Workers) - 1
  /\ \A c \in Contents : factRows[c] <= Cardinality(Workers)

(***************************************************************************)
(* What several processes make of one database: each triple current once,  *)
(* each batch whole, and never more rows too many than processes.          *)
(***************************************************************************)
KnowledgeIsSound == OneCurrent /\ BatchIsAtomic /\ OvershootIsBounded

=============================================================================
