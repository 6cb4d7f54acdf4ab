---------------------------- MODULE ModelChoice ----------------------------
(***************************************************************************)
(* From the configuration files to the model a turn calls.  The bundled    *)
(* and the project's models.yaml are merged (core/config_merge.py), the    *)
(* missing credentials are read from the .env files                        *)
(* (core/runtime_env.py), the catalog decides which models of the upgrade  *)
(* chain are available (core/model_catalog.py, core/model_upgrade.py), and *)
(* the client resolves a name to a provider (core/llm_client.py).  The     *)
(* last two look for the same thing, a provider that can be called, with   *)
(* code of their own.                                                      *)
(***************************************************************************)
EXTENDS SequencesExt, Integers, FiniteSets

CONSTANTS
  Providers,  \* the providers, in the order of the merged file
  Names,      \* the model names
  Bundled,    \* the bundled files to choose from: provider -> entry, partial
  Projects,   \* the project's files to choose from
  EnvFiles,   \* the .env files, in the order they are read
  Chains      \* the upgrade chains to choose from

ASSUME ModelChoiceAssumption ==
  /\ Providers \in Seq(ToSet(Providers))
  /\ \A c \in Bundled \cup Projects : DOMAIN c \subseteq ToSet(Providers)

VARIABLES
  cfgs,     \* the two files and the chain
  env,      \* env[p]: what the environment holds of p's key: "", "process" or a file
  envFiles, \* envFiles[f]: the providers whose key is in f
  choice    \* the step, the merged providers, the model asked for, the path

choiceVars == <<cfgs, env, envFiles, choice>>
\* An entry of a file: its base_url ("unset" in a file that leaves it alone),
\* and each model, "plain" or a "template" whose api_model is yet to be filled in.
FileEntries == [url : {"unset", "yes", "no"}, models : UNION {[S -> {"plain", "template"}] : S \in SUBSET Names}]

ChoiceTypeOK ==
  /\ \A p \in DOMAIN choice.prov : choice.prov[p] \in FileEntries
  /\ choice.pc \in {"load", "hydrate", "choose", "done"} /\ choice.path \subseteq Names

ChoiceInit ==
  /\ cfgs \in [bundled : Bundled, project : Projects, chain : Chains]
  /\ envFiles \in [ToSet(EnvFiles) -> SUBSET ToSet(Providers)]
  /\ env \in [ToSet(Providers) -> {"", "process"}]
  /\ \E m \in Names :
       choice = [pc |-> "load", prov |-> <<>>, model |-> m, path |-> {}]

\* merge_providers(): field by field, and model by model.
Together(e, l) == [url |-> IF l.url = "unset" THEN e.url ELSE l.url,
               models |-> l.models @@ e.models]
MergedProviders(b, l) ==
  [p \in DOMAIN b \cup DOMAIN l |->
     IF p \notin DOMAIN l THEN b[p] ELSE IF p \notin DOMAIN b THEN l[p] ELSE Together(b[p], l[p])]
LoadModels ==
  /\ choice.pc = "load"
  /\ choice' = [choice EXCEPT !.pc = "hydrate", !.prov = MergedProviders(cfgs.bundled, cfgs.project)]
  /\ UNCHANGED <<cfgs, env, envFiles>>

\* hydrate_runtime_env(): what the process has is kept; of the files, a later
\* one replaces what an earlier one said.
FromFiles(p) == LET has == {i \in DOMAIN EnvFiles : p \in envFiles[EnvFiles[i]]}
                IN IF has = {} THEN "" ELSE EnvFiles[CHOOSE i \in has : \A j \in has : j <= i]
Hydrate ==
  /\ choice.pc = "hydrate" /\ choice' = [choice EXCEPT !.pc = "choose"]
  /\ env' = [p \in DOMAIN env |-> IF env[p] # "" \/ p \notin DOMAIN choice.prov THEN env[p] ELSE FromFiles(p)]
  /\ UNCHANGED <<cfgs, envFiles>>

\* The providers that declare a model, by their places in the merged file.
Declaring(m) == {i \in DOMAIN Providers : /\ Providers[i] \in DOMAIN choice.prov
                                         /\ m \in DOMAIN choice.prov[Providers[i]].models}
HasKey(i) == env[Providers[i]] # ""
HasUrl(i) == choice.prov[Providers[i]].url = "yes"
Filled(i, m) == choice.prov[Providers[i]].models[m] = "plain"
First(places) == CHOOSE i \in places : \A j \in places : i <= j

\* resolve_model(): the first provider with a base_url and a key, then the
\* first with a base_url, then an error (place 0).
BuggyResolve(m) == LET url == {i \in Declaring(m) : HasUrl(i)} IN IF url = {} THEN 0 ELSE First(url)
Resolve(m) == LET url == {i \in Declaring(m) : HasUrl(i)}
                  key == {i \in url : HasKey(i)}
              IN IF key # {} THEN First(key) ELSE IF url # {} THEN First(url) ELSE 0

\* get_model_entry(): available is a key and a model that is filled in.
Available(m) == \E i \in Declaring(m) : HasKey(i) /\ Filled(i, m)
\* get_upgrade_path(): the chain from the model on, or the model and the chain;
\* each is tried once and in this order.
Candidates(m) ==
  LET at == {i \in DOMAIN cfgs.chain : cfgs.chain[i] = m}
  IN IF at = {} THEN {m} \cup ToSet(cfgs.chain)
     ELSE {cfgs.chain[i] : i \in First(at) .. Len(cfgs.chain)}
UpgradePath(m) == {c \in Candidates(m) : Available(c)}

Choose ==
  /\ choice.pc = "choose"
  /\ choice' = [choice EXCEPT !.pc = "done", !.path = UpgradePath(choice.model)]
  /\ UNCHANGED <<cfgs, env, envFiles>>

ChoiceNext == LoadModels \/ Hydrate \/ Choose
ChoiceSpec == ChoiceInit /\ [][ChoiceNext]_choiceVars

----------------------------------------------------------------------------
\* A model of the upgrade path can be called: the client resolves it to a
\* provider that has a key and a filled-in model.  The two searches differ
\* where the catalog does not look at the base_url, and the client not at the
\* template.
PathIsCallable ==
  choice.pc = "done" => \A m \in choice.path :
    \/ Resolve(m) # 0 /\ HasKey(Resolve(m)) /\ Filled(Resolve(m), m)
    \/ \E i \in Declaring(m) : HasKey(i) /\ ~HasUrl(i)
    \/ \E i \in Declaring(m) : HasKey(i) /\ ~Filled(i, m)
=============================================================================
