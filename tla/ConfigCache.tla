---------------------------- MODULE ConfigCache ----------------------------
(***************************************************************************)
(* The cached configurations of the model router and of the governance     *)
(* (core/model_router.py, core/governance.py): the file's modification     *)
(* time is read before the lock, the cache is looked up and filled under   *)
(* it.  The file is rewritten in place by the user's editor: for a while   *)
(* its text does not parse.  Each write gets a time of its own.            *)
(***************************************************************************)
EXTENDS Integers

CONSTANTS
  Caches,      \* the cached files: "router" and "gov"
  Readers,     \* callers that ask for a cached configuration
  Saves        \* bound on the writes of the user

ASSUME ConfigCacheAssumption == Caches \subseteq {"router", "gov"} /\ Saves \in Nat

VARIABLES
  conf,    \* conf[x]: the modification time of the file, and whether its text parses
  cache,   \* cache[x]: the modification time, and the write whose text is cached
  rd       \* rd[r]: a caller: step, the file it wants, its stat, what it got

cacheVars == <<conf, cache, rd>>
CacheTypeOK ==
  /\ \A x \in Caches : conf[x].time \in 1..Saves /\ cache[x].time \in 0..Saves
  /\ \A r \in Readers : rd[r].pc \in {"idle", "lock", "got"}
CacheInit ==
  /\ conf = [x \in Caches |-> [time |-> 1, parses |-> TRUE]]
  /\ cache = [x \in Caches |-> [time |-> 0, text |-> 0]]
  /\ rd = [r \in Readers |-> [pc |-> "idle", x |-> "none", seen |-> 0, got |-> 0]]

\* A write that truncates the file, or the one that completes it.
SaveConf(x) ==
  /\ conf[x].time < Saves
  /\ conf' = [conf EXCEPT ![x].time = @ + 1, ![x].parses = ~@]
  /\ UNCHANGED <<cache, rd>>

AskStat(r, x) ==
  /\ rd[r].pc \in {"idle", "got"}
  /\ rd' = [rd EXCEPT ![r] = [pc |-> "lock", x |-> x, seen |-> conf[x].time, got |-> 0]]
  /\ UNCHANGED <<conf, cache>>

BuggyCacheHit(x, seen) == cache[x].time > 0
CacheHit(x, seen) == cache[x].time = seen

\* Under the lock: a hit on the time of the stat, or a read that is cached
\* under it.  A text that does not parse makes the governance raise, and the
\* router fall back on its defaults, which are cached like any other text.
UnderLock(r) ==
  LET x == rd[r].x IN
  /\ rd[r].pc = "lock"
  /\ \/ /\ CacheHit(x, rd[r].seen)
        /\ rd' = [rd EXCEPT ![r].pc = "got", ![r].got = cache[x].text] /\ UNCHANGED cache
     \/ /\ ~CacheHit(x, rd[r].seen) /\ (conf[x].parses \/ x = "router")
        /\ rd' = [rd EXCEPT ![r].pc = "got", ![r].got = conf[x].time]
        /\ cache' = [cache EXCEPT ![x] = [time |-> rd[r].seen, text |-> conf[x].time]]
     \/ /\ ~CacheHit(x, rd[r].seen) /\ ~conf[x].parses /\ x # "router"
        /\ rd' = [rd EXCEPT ![r].pc = "idle"] /\ UNCHANGED cache
  /\ UNCHANGED conf

CacheNext ==
  \/ \E x \in Caches : SaveConf(x)
  \/ \E r \in Readers : UnderLock(r) \/ \E x \in Caches : AskStat(r, x)

CacheSpec == CacheInit /\ [][CacheNext]_cacheVars

----------------------------------------------------------------------------
\* Nobody is handed a configuration older than its file was when it asked,
\* whoever filled the cache and whenever: a stat before the lock can make the
\* cache look older than it is, never newer.
NeverOlder == \A r \in Readers : rd[r].pc = "got" => rd[r].got >= rd[r].seen
=============================================================================
