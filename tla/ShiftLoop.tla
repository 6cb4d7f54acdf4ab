------------------------------ MODULE ShiftLoop ------------------------------
(***************************************************************************)
(* One `prax shift "goal"` run over all its windows: the OrchestratorLoop   *)
(* of src/src/prax/core/orchestrator_loop.py, the journal it replays, the   *)
(* approval relay a window polls (remote_approval_client.py,                *)
(* approval_server.py) and the person who answers.  A window may die at     *)
(* every point; only the journal, the relay and the sources survive it.     *)
(* Journal events nobody replays (approval, step_error, executor) are left  *)
(* out.                                                                     *)
(***************************************************************************)
EXTENDS Integers, Sequences, FiniteSets

CONSTANTS Texts,          \* outputs of a failing verifier, after _normalize_failure
          Policies,       \* approval set-ups, see Policy
          MaxIterations,  \* --max-iterations
          StuckAfter,     \* --stuck-after
          ErrorLimit,     \* OrchestratorLoop(error_limit=...)
          MaxWindows,     \* bound: windows of the run
          MaxEdits        \* bound: edits between two windows

Policy == [required: BOOLEAN,   \* the caller demands a decision (a red line)
           relay: BOOLEAN,      \* an approval: block is configured
           prod: BOOLEAN]       \* the goal matches a deny pattern

ASSUME TextAssumption == {"none", "error", "down"} \cap Texts = {}
ASSUME PolicyAssumption == Policies \subseteq Policy
ASSUME LimitAssumption ==
  /\ MaxIterations \in Nat /\ StuckAfter \in Nat /\ ErrorLimit \in Nat \ {0}
  /\ MaxWindows \in Nat /\ MaxEdits \in Nat

VARIABLES
  journal,    \* .prax/runs/<run_id>/journal.jsonl, the events that are replayed
  policy,     \* how this run is gated
  relay,      \* the relay's record: "none", "pending" or the decision
  linked,     \* the person holds a link with the record's token
  windows, edits,
  \* locals of OrchestratorLoop.run
  pc, goal, checked,    \* checked: the loop was given a verifier
  iteration, feedback, errors, streak, lastFail, stop,
  \* history variables, never read by an action
  runs,       \* executor runs started
  lost,       \* of those, the ones that left no "step" event
  certified,  \* in this window the verifier passed and nothing changed since
  consented   \* approved when this window opened, or approved since

locals == <<goal, checked, iteration, feedback, errors, streak, lastFail, stop>>
approval == <<relay, linked>>
counters == <<windows, edits>>
history == <<runs, lost, certified, consented>>
vars == <<journal, policy, approval, counters, pc, locals, history>>

Goals == {"goal", "other"}
VerifyStatuses == {"PASS", "FEATURE-FAIL", "HARNESS-ERROR"}
Decisions == {"approved", "rejected"}   \* what a link can say; no request has a deadline
Feedbacks == Texts \cup {"none", "error", "down"}
Reasons == {"verified", "completed_no_verify", "max_iterations", "stuck_no_progress",
            "executor_error", "executor_unavailable", "harness_error",
            "acceptance_invalidated", "intent_changed", "unbound_legacy_evidence",
            "approval_unconfigured", "approval_rejected", "awaiting_approval"}

Event == [step: {"intent"}, goal: Goals]
         \cup [step: {"step"}]
         \cup [step: {"verify", "resume_verify"}, status: VerifyStatuses,
               text: Texts \cup {"none", "down"}]
         \cup [step: {"outcome"}, stop: Reasons, verified: BOOLEAN]

-----------------------------------------------------------------------------
(* Replaying the journal.                                                   *)

At(kind) == {i \in DOMAIN journal : journal[i].step = kind}

\* RunJournal.result_for(): the last event of a kind.
Latest(S) == CHOOSE i \in S : \A j \in S : j <= i
Last(kind) == journal[Latest(At(kind))]
Recorded(kind) == At(kind) # {}

Steps   == Cardinality(At("step"))
Outages == Cardinality({i \in At("verify") : journal[i].status = "HARNESS-ERROR"})

ClaimsVerified == Recorded("outcome") /\ Last("outcome").verified

\* Faulty variant: every window starts with the whole budget.
BuggyFreshIteration == 0

\* The iteration count a window starts from: an outage is not an attempt.
ResumedIteration ==
  LET n == Steps - Outages IN IF n < 0 THEN 0 ELSE n

\* _last_feedback(): the last verify event, unless it passed or was an outage.
LastFeedback ==
  IF Recorded("verify") /\ Last("verify").status = "FEATURE-FAIL"
    THEN Last("verify").text ELSE "none"

\* ... overridden by the last recheck, whenever it was recorded.
ResumedFeedback ==
  IF Recorded("resume_verify") /\ Last("resume_verify").status # "PASS"
    THEN Last("resume_verify").text ELSE LastFeedback

\* What the verifier says: the text is only told apart for a failure.
Verdicts == [status: {"PASS"}, text: {"none"}]
            \cup [status: {"FEATURE-FAIL"}, text: Texts]
            \cup [status: {"HARNESS-ERROR"}, text: {"down"}]

CheckEvent(kind, v) == [step |-> kind, status |-> v.status, text |-> v.text]

Outcome(why, verified) == [step |-> "outcome", stop |-> why, verified |-> verified]

Init ==
  /\ journal \in {<<>>, <<[step |-> "step"]>>}   \* new, or written before intents
  /\ policy \in Policies
  /\ relay = "none" /\ linked = FALSE /\ windows = 0 /\ edits = 0
  /\ pc = "idle" /\ goal = "goal" /\ checked = FALSE /\ iteration = 0
  /\ feedback = "none" /\ errors = 0 /\ streak = 0 /\ lastFail = "none"
  /\ stop = "none"
  /\ runs = 0 /\ lost = 0 /\ certified = FALSE /\ consented = FALSE

\* The window stops with this reason; _finish() records it next.
StopAs(why) == pc' = "finish" /\ stop' = why

-----------------------------------------------------------------------------
(* A window.                                                                *)

\* handle_orchestrate up to loop.run(goal), with or without --verify.
Invoke(g, v) ==
  /\ pc = "idle" /\ windows < MaxWindows
  /\ windows' = windows + 1
  /\ pc' = "bind" /\ goal' = g /\ checked' = v
  /\ iteration' = 0 /\ feedback' = "none" /\ errors' = 0 /\ streak' = 0
  /\ lastFail' = "none" /\ stop' = "none"
  /\ certified' = FALSE /\ consented' = (relay = "approved")
  /\ UNCHANGED <<journal, policy, approval, edits, runs, lost>>

\* No coding agent is installed: an outcome is journalled all the same.
ExecutorUnavailable ==
  /\ pc = "bind"
  /\ journal' = Append(journal, Outcome("executor_unavailable", FALSE))
  /\ pc' = "idle"
  /\ UNCHANGED <<policy, approval, counters, locals, history>>

\* A journal belongs to one goal; evidence without a goal is not adopted.
BindIntent ==
  /\ pc = "bind"
  /\ CASE Recorded("intent") /\ Last("intent").goal # goal ->
              StopAs("intent_changed") /\ UNCHANGED journal
         [] Recorded("intent") /\ Last("intent").goal = goal ->
              pc' = "cached" /\ UNCHANGED <<journal, stop>>
         [] ~Recorded("intent") /\ (Recorded("step") \/ Recorded("verify")) ->
              StopAs("unbound_legacy_evidence") /\ UNCHANGED journal
         [] OTHER ->
              /\ journal' = Append(journal, [step |-> "intent", goal |-> goal])
              /\ pc' = "cached" /\ UNCHANGED stop
  /\ UNCHANGED <<policy, approval, counters, goal, checked, iteration, feedback,
                 errors, streak, lastFail, history>>

\* Faulty variant: a cached completion is reused as it is.
BuggyCachedPath ==
  IF ~ClaimsVerified THEN pc' = "resume" /\ UNCHANGED stop
  ELSE StopAs(IF checked THEN "verified" ELSE "completed_no_verify")

\* A cached completion is a claim: recheck it, if there is a verifier.
CachedPath ==
  IF ~ClaimsVerified THEN pc' = "resume" /\ UNCHANGED stop
  ELSE IF checked THEN pc' = "recheck" /\ UNCHANGED stop
  ELSE StopAs("completed_no_verify")

ReadOutcome ==
  /\ pc = "cached"
  /\ CachedPath
  /\ UNCHANGED <<journal, policy, approval, counters, goal, checked, iteration,
                 feedback, errors, streak, lastFail, history>>

Recheck ==
  /\ pc = "recheck"
  /\ \E v \in Verdicts :
       /\ journal' = Append(journal, CheckEvent("resume_verify", v))
       /\ certified' = (v.status = "PASS")
       /\ CASE v.status = "PASS" -> StopAs("verified")
            [] v.status = "HARNESS-ERROR" -> StopAs("harness_error")
            [] OTHER -> pc' = "invalidate" /\ UNCHANGED stop
  /\ UNCHANGED <<policy, approval, counters, goal, checked, iteration, feedback,
                 errors, streak, lastFail, runs, lost, consented>>

\* Faulty variant: goes on under the old claim.
BuggyInvalidate ==
  /\ pc = "invalidate"
  /\ pc' = "resume"
  /\ UNCHANGED <<journal, policy, approval, counters, locals, history>>

\* The claim did not survive the recheck: withdraw it before any work.
Invalidate ==
  /\ pc = "invalidate"
  /\ journal' = Append(journal, Outcome("acceptance_invalidated", FALSE))
  /\ pc' = "resume"
  /\ UNCHANGED <<policy, approval, counters, locals, history>>

Resume ==
  /\ pc = "resume"
  /\ iteration' = ResumedIteration /\ feedback' = ResumedFeedback
  /\ IF policy.required /\ ~policy.relay
       THEN StopAs("approval_unconfigured")
       ELSE pc' = (IF policy.relay THEN "gate" ELSE "loop") /\ UNCHANGED stop
  /\ UNCHANGED <<journal, policy, approval, counters, goal, checked, errors, streak,
                 lastFail, history>>

\* build_relay_gate: who has to ask.
NeedsApproval == policy.required \/ (policy.relay /\ policy.prod)

\* Faulty variant: parks on a rejection only.
BuggyDecided(d) ==
  IF d = "rejected" THEN StopAs("approval_rejected")
  ELSE pc' = "loop" /\ UNCHANGED stop

\* Faulty variant: waits for the answer instead of parking.
BuggyWaiting(d) ==
  CASE d = "rejected" -> StopAs("approval_rejected")
    [] d = "approved" -> pc' = "loop" /\ UNCHANGED stop
    [] OTHER -> pc' = "gate" /\ UNCHANGED stop

\* Only an explicit approval goes on; everything else parks the window.
Decided(d) ==
  CASE d = "rejected" -> StopAs("approval_rejected")
    [] d = "approved" -> pc' = "loop" /\ UNCHANGED stop
    [] OTHER -> StopAs("awaiting_approval")

\* remote_check_or_request: poll, and park the request if the relay has none.
Gate ==
  /\ pc = "gate"
  /\ IF ~NeedsApproval THEN Decided("approved") /\ UNCHANGED relay
     ELSE IF relay # "none" THEN Decided(relay) /\ UNCHANGED relay
     ELSE relay' = "pending" /\ pc' = "notify" /\ UNCHANGED stop
  /\ UNCHANGED <<journal, policy, linked, counters, goal, checked, iteration,
                 feedback, errors, streak, lastFail, history>>

\* The notifier swallows its own failures: the window parks either way.
NotifyApprover ==
  /\ pc = "notify"
  /\ linked' \in BOOLEAN
  /\ Decided("pending")
  /\ UNCHANGED <<journal, policy, relay, counters, goal, checked, iteration,
                 feedback, errors, streak, lastFail, history>>

LoopEnds ==
  /\ pc = "loop" /\ iteration >= MaxIterations
  /\ StopAs("max_iterations")
  /\ UNCHANGED <<journal, policy, approval, counters, goal, checked, iteration,
                 feedback, errors, streak, lastFail, history>>

\* executor.run starts; whatever it does, it may change the sources.
StartStep ==
  /\ pc = "loop" /\ iteration < MaxIterations
  /\ pc' = "working"
  /\ runs' = runs + 1 /\ certified' = FALSE
  /\ UNCHANGED <<journal, policy, approval, counters, locals, lost, consented>>

StepReturns ==
  /\ pc = "working"
  /\ journal' = Append(journal, [step |-> "step"])
  /\ errors' = 0
  /\ IF checked THEN pc' = "verify" /\ UNCHANGED stop
                ELSE StopAs("completed_no_verify")
  /\ UNCHANGED <<policy, approval, counters, goal, checked, iteration, feedback,
                 streak, lastFail, history>>

\* The agent failed hard: journal, back off, retry; give up after ErrorLimit.
StepRaises ==
  /\ pc = "working"
  /\ errors' = errors + 1 /\ lost' = lost + 1
  /\ IF errors' >= ErrorLimit
       THEN StopAs("executor_error") /\ UNCHANGED feedback
       ELSE pc' = "loop" /\ feedback' = "error" /\ UNCHANGED stop
  /\ UNCHANGED <<journal, policy, approval, counters, goal, checked, iteration,
                 streak, lastFail, runs, certified, consented>>

\* The same failure again, StuckAfter times in a row.
StuckNow(text) == IF text = lastFail THEN streak + 1 ELSE 1

Verify ==
  /\ pc = "verify"
  /\ \E v \in Verdicts :
       /\ journal' = Append(journal, CheckEvent("verify", v))
       /\ iteration' = iteration + 1
       /\ certified' = (v.status = "PASS")
       /\ IF v.status = "FEATURE-FAIL"
            THEN /\ feedback' = v.text /\ lastFail' = v.text
                 /\ streak' = StuckNow(v.text)
                 /\ IF StuckAfter >= 2 /\ streak' >= StuckAfter
                         /\ iteration' < MaxIterations
                      THEN StopAs("stuck_no_progress")
                      ELSE pc' = "loop" /\ UNCHANGED stop
            ELSE /\ StopAs(IF v.status = "PASS" THEN "verified" ELSE "harness_error")
                 /\ UNCHANGED <<feedback, lastFail, streak>>
  /\ UNCHANGED <<policy, approval, counters, goal, checked, errors, runs, lost,
                 consented>>

\* _finish(): the outcome is journalled, the window is over.
Finish ==
  /\ pc = "finish"
  /\ journal' = Append(journal, Outcome(stop, stop = "verified"))
  /\ pc' = "idle"
  /\ UNCHANGED <<policy, approval, counters, locals, history>>

\* A kill, a quota stop, a failing relay call: nothing more is journalled.
Die ==
  /\ pc # "idle"
  /\ pc' = "idle"
  /\ lost' = IF pc = "working" THEN lost + 1 ELSE lost
  /\ UNCHANGED <<journal, policy, approval, counters, locals, runs, certified,
                 consented>>

-----------------------------------------------------------------------------
(* The person: taps a link, and edits the sources between windows.          *)

\* route_approval: resolve() does not look at the previous decision.
Decide(d) ==
  /\ relay # "none" /\ linked
  /\ relay' = d
  /\ consented' = (consented \/ d = "approved")
  /\ UNCHANGED <<journal, policy, linked, counters, pc, locals, runs, lost, certified>>

Edit ==
  /\ pc = "idle" /\ edits < MaxEdits
  /\ edits' = edits + 1 /\ certified' = FALSE
  /\ UNCHANGED <<journal, policy, approval, windows, pc, locals, runs, lost, consented>>

-----------------------------------------------------------------------------
Agent == StepReturns \/ StepRaises

Window ==
  \/ ExecutorUnavailable \/ BindIntent \/ ReadOutcome \/ Recheck \/ Invalidate
  \/ Resume \/ Gate \/ NotifyApprover \/ LoopEnds \/ StartStep \/ Verify \/ Finish

Next ==
  \/ \E g \in Goals, v \in BOOLEAN : Invoke(g, v)
  \/ Window \/ Agent \/ Die
  \/ \E d \in Decisions : Decide(d)
  \/ Edit

Spec == Init /\ [][Next]_vars

\* The loop's own code goes on, and the verifier has a timeout; the step
\* executors have none, so nothing is assumed of the agent.
FairSpec == Spec /\ WF_vars(Window)

-----------------------------------------------------------------------------
Stages == {"idle", "bind", "cached", "recheck", "invalidate", "resume", "gate",
           "notify", "loop", "working", "verify", "finish"}

\* Every variable keeps its type.
TypeOK ==
  /\ journal \in Seq(Event) /\ policy \in Policies
  /\ relay \in Decisions \cup {"none", "pending"} /\ linked \in BOOLEAN
  /\ windows \in 0..MaxWindows /\ edits \in 0..MaxEdits
  /\ pc \in Stages /\ goal \in Goals /\ checked \in BOOLEAN
  /\ iteration \in Nat /\ feedback \in Feedbacks /\ errors \in Nat /\ streak \in Nat
  /\ lastFail \in Texts \cup {"none"} /\ stop \in Reasons \cup {"none"}
  /\ runs \in Nat /\ lost \in Nat /\ certified \in BOOLEAN /\ consented \in BOOLEAN

\* The work of a shift is bounded over all its windows: besides the budget the
\* agent runs again only for a step an outage left unjudged, or for one that
\* left no trace because the agent or the window died.
\* And an outage costs no attempt: a run that gives up for max_iterations spent
\* all of them on steps that were not followed by one.
WorkBudget ==
  /\ runs <= MaxIterations + Outages + lost
  /\ pc = "finish" /\ stop = "max_iterations" => Steps >= MaxIterations + Outages

\* "verified" is reported only for what the verifier passed in this very window,
\* never on the strength of an older window's claim.
VerifiedIsFresh == pc = "finish" /\ stop = "verified" => certified

\* Work on a gated goal starts only if a person's approval stood when the
\* window opened or came after it: a retracted approval stops the next window.
NoWorkWithoutConsent == NeedsApproval /\ pc \in {"loop", "working"} => consented

\* While the agent changes the sources, the journal claims no completion.
ClaimWithdrawn == pc \in {"loop", "working"} => ~ClaimsVerified

\* Every window ends, however often the agent fails, unless the agent hangs.
WindowEnds == []<>(pc # "working") => ((pc # "idle") ~> (pc = "idle"))
=============================================================================
