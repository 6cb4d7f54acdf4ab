--------------------------- MODULE MCFeatureShift ---------------------------
(* Small instances of FeatureShift for TLC.                                 *)
EXTENDS FeatureShift

MCItem(p, r, prod, s, c, l) ==
  [priority |-> p, risk |-> r, prod |-> prod, strength |-> s, checked |-> c, level |-> l]

\* One item per route through the router and the gate, in two priorities.
MCItems ==
  {MCItem(1, "none", FALSE, 3, TRUE, "SIMPLE"),        \* autonomous
   MCItem(2, "mechanical", TRUE, 3, TRUE, "SIMPLE"),   \* autonomous, gated
   MCItem(1, "none", FALSE, 3, TRUE, "COMPLEX"),       \* summarize
   MCItem(2, "none", FALSE, 2, TRUE, "MODERATE"),      \* human check
   MCItem(1, "none", FALSE, 0, FALSE, "MODERATE"),     \* nothing to verify with
   MCItem(2, "money", FALSE, 3, TRUE, "SIMPLE"),       \* red line
   MCItem(1, "unspecified", TRUE, 2, FALSE, "SIMPLE")} \* risk left out, bad command
=============================================================================
