---------------------------- MODULE MCServices ----------------------------
(***************************************************************************)
(* The services around the agent loop: the session's history, the hooks,   *)
(* the cached configurations, the choice of a model, the answer it         *)
(* streams, and the tools it calls.  They share no state: in each          *)
(* behaviour one of them moves.                                            *)
(***************************************************************************)
EXTENDS Conversation, HookReload, ConfigCache, ModelChoice, ModelStream,
        FileEdits, Sandbox, PermissionGuard

VARIABLE part

MCParts == {"conv", "hook", "cache", "choice", "stream", "edit", "box", "guard"}

\* A new session, and one of an earlier turn with one round of tools.
MCEarlier == {<<>>, <<Msg("task", {0}, 0, 0), Msg("note", {}, 0, 0), Msg("call", {0}, 1, 0), Msg("result", {0}, 1, 0)>>}

MCHook(n, on, prio) == [name |-> n, on |-> on, prio |-> prio]
MCHooksIn == <<<<MCHook("guard", "PreToolUse", 1), MCHook("log", "PostToolUse", 0)>>,
               <<MCHook("other", "PreToolUse", 2), Malformed, MCHook("guard", "PreToolUse", 1)>>>>
MCSettings == <<MCHook("setting", "PreToolUse", 1)>>

\* Provider a offers m and n, b only m; the project may name an endpoint of its
\* own for a, add b, or fill in a template.
MCProviders == <<"a", "b">>
MCEntry(url, m, n) == [url |-> url, models |-> (IF m = "" THEN <<>> ELSE "m" :> m) @@ (IF n = "" THEN <<>> ELSE "n" :> n)]
MCBundled == {"a" :> MCEntry(u, m, "plain") : u \in {"yes", "no"}, m \in {"plain", "template"}}
             \cup {("a" :> MCEntry("yes", "template", "plain")) @@ ("b" :> MCEntry("yes", "plain", ""))}
MCProjects == {<<>>} \cup {"b" :> MCEntry(u, m, "plain") : u \in {"yes", "no"}, m \in {"", "plain", "template"}}
              \cup {"a" :> MCEntry(u, m, "") : u \in {"unset", "no"}, m \in {"", "plain"}}
MCEnvFiles == <<"home", "project", "local">>
MCChains == {<<>>, <<"m", "n">>, <<"n", "m">>}

\* "a" and "x" have the same two digits; "}" has no letter.
MCDigest == "a" :> 1 @@ "x" :> 1 @@ "}" :> 2 @@ "new" :> 3
MCDrafts == {<<"a", "}">>}

\* A workspace w with a directory s and a link out to v, beside it.
MCWorkspace == <<"w">>
MCLinks == <<"w", "out">> :> <<"v">> @@ <<"w", "out", "f">> :> <<"v", "f">>
MCDirectories == {<<"w">>, <<"w", "s">>, <<"v">>, <<"w", "out">>}
MCPaths == MCDirectories \cup {<<"w", "s", ".env">>, <<"w", "f">>, <<"v", "f">>, <<"w", "out", "f">>}
MCSensitive == [p \in MCPaths |-> IF Last(p) = ".env" THEN 5 ELSE IF Last(p) = "f" THEN 4 ELSE 2]

MCCallIds == <<"c1", "c2">>

\* The parts that do not move start in one state.
MCInit == /\ part \in MCParts /\ ConvInit /\ HookInit /\ CacheInit
          /\ part # "conv" => history = <<>>
          /\ IF part = "choice" THEN ChoiceInit
             ELSE /\ cfgs = [bundled |-> <<>>, project |-> <<>>, chain |-> <<>>] /\ env = <<>> /\ envFiles = <<>>
                  /\ choice = [pc |-> "load", prov |-> <<>>, model |-> "m", path |-> {}]
          /\ StreamInit
          /\ part # "stream" => sent = [fmt |-> "json", text |-> TRUE, calls |-> <<>>, indexed |-> TRUE]
          /\ EditInit /\ BoxInit /\ GuardInit
          /\ part # "box" => daemon
          /\ part # "guard" => mode = "read-only"

\* What two terminals do between loading and saving is independent: when both
\* are in a turn, p moves first.
MCLocal(t) == t.pc \in {"turn", "asked", "tools"}
MCOneMoves == MCLocal(term["p"]) /\ MCLocal(term["q"]) => term'["q"] = term["q"]

\* Only one of two editors sends lists of two edits.
MCOneLister == \A e \in Editors \ {"e1"} : Len(editCall'[e].edits) < 2
\* A tool's edits of its own copy are independent of what others do: it makes
\* them first.
MCListing == {e \in Editors : editCall[e].pc = "editing"}
MCListFirst == MCListing # {} => \E e \in MCListing : editCall'[e].todo # editCall[e].todo

MCOthers(p) == /\ p # "conv" => UNCHANGED convVars
               /\ p # "hook" => UNCHANGED hookVars
               /\ p # "cache" => UNCHANGED cacheVars
               /\ p # "choice" => UNCHANGED choiceVars
               /\ p # "stream" => UNCHANGED streamVars
               /\ p # "edit" => UNCHANGED editVars
               /\ p # "box" => UNCHANGED boxVars
               /\ p # "guard" => UNCHANGED guardVars

MCNext ==
  /\ \/ part = "conv" /\ ConvNext /\ MCOneMoves
     \/ part = "hook" /\ HookNext
     \/ part = "cache" /\ CacheNext
     \/ part = "choice" /\ ChoiceNext
     \/ part = "stream" /\ StreamNext
     \/ part = "edit" /\ EditNext /\ MCOneLister /\ MCListFirst
     \/ part = "box" /\ BoxNext
     \/ part = "guard" /\ GuardNext
  /\ MCOthers(part) /\ UNCHANGED part
MCVars == <<convVars, hookVars, cacheVars, choiceVars, streamVars, editVars, boxVars, guardVars, part>>
MCSpec == MCInit /\ [][MCNext]_MCVars
MCTypeOK == ConvTypeOK /\ HookTypeOK /\ CacheTypeOK /\ ChoiceTypeOK /\ StreamTypeOK
            /\ EditTypeOK /\ BoxTypeOK /\ GuardTypeOK
=============================================================================
