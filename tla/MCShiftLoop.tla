----------------------------- MODULE MCShiftLoop -----------------------------
(* Small instances of ShiftLoop for TLC.                                    *)
EXTENDS ShiftLoop

\* Ungated, gated by goal or by category, and a red line without a relay.
MCPolicies == {[required |-> FALSE, relay |-> FALSE, prod |-> FALSE],
               [required |-> FALSE, relay |-> TRUE, prod |-> TRUE],
               [required |-> FALSE, relay |-> TRUE, prod |-> FALSE],
               [required |-> TRUE, relay |-> TRUE, prod |-> FALSE],
               [required |-> TRUE, relay |-> FALSE, prod |-> FALSE]}
=============================================================================
