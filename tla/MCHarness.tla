------------------------------ MODULE MCHarness ------------------------------
(***************************************************************************)
(* The two kinds of task a harness run may have; in each behaviour one of  *)
(* them moves.  Which contents the verifier accepts, where the supervisor  *)
(* may die without running any handler, and what a verification reports.   *)
(***************************************************************************)
EXTENDS Harness, Verification

CONSTANT DiesInReport  \* may it die between the two writes of a pause?

VARIABLE task

MCGood == {1}

MCCrashPoints == IF DiesInReport THEN Positions ELSE Positions \ {"report"}

\* One report for each thing validate_report looks at.
ReportOf(own, status, tests, evidence) ==
  [by |-> "nobody", own |-> own, status |-> status, tests |-> tests, evidence |-> evidence]
MCReports == {ReportOf(TRUE, "passed", {"passed"}, "sealed"), ReportOf(FALSE, "passed", {"passed"}, "sealed"),
              ReportOf(TRUE, "passed", {"passed"}, "forged"), ReportOf(TRUE, "passed", {}, "sealed"),
              ReportOf(TRUE, "passed", {"passed", "failed"}, "sealed"),
              ReportOf(TRUE, "failed", {"passed", "failed"}, "none"), ReportOf(TRUE, "failed", {"failed", "blocked"}, "none"),
              ReportOf(TRUE, "blocked", {"blocked"}, "none")}

MCFewReports == {ReportOf(TRUE, "passed", {"passed"}, "sealed"), ReportOf(TRUE, "blocked", {"blocked"}, "none")}

MCVars == <<vars, verVars, task>>
MCInit == Init /\ VerInit /\ task \in {"code-check", "verification"}
MCNext == \/ task = "code-check" /\ Next /\ UNCHANGED <<verVars, task>>
          \/ task = "verification" /\ VerNext /\ UNCHANGED <<vars, task>>
MCSpec == MCInit /\ [][MCNext]_MCVars
MCFairSpec == MCSpec /\ Fairness /\ VerFairness

\* No window of a coding run and no verification stays open for ever, nor does a
\* runtime outlive its supervisor: the deadline and the watchdog see to it.
MCEverythingStops == EverythingStops /\ VerificationEnds
=============================================================================
