---------------------------- MODULE MCAgentLoop ----------------------------
(* Small instances of AgentLoop for TLC.                                    *)
EXTENDS AgentLoop

MCBatches == {<<"Read", "Read">>, <<"Read", "Edit", "Read">>, <<"SandboxBash">>,
              <<"VerifyCommand", "Edit", "VerifyCommand">>}

MCConfigs == {[require |-> FALSE, checks |-> FALSE, criteria |-> FALSE],
              [require |-> TRUE, checks |-> FALSE, criteria |-> FALSE],
              [require |-> TRUE, checks |-> TRUE, criteria |-> TRUE]}
=============================================================================
