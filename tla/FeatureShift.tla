----------------------------- MODULE FeatureShift -----------------------------
(***************************************************************************)
(* `prax shift --features`: windows of one run id that drive                *)
(* .prax/feature_list.json (core/feature_driver.py, core/feature_list.py),  *)
(* route every feature (core/three_step_router.py), gate it, work on it and *)
(* commit it (commands/orchestrate.py).  A feature is one OrchestratorLoop  *)
(* run over a journal of its own; of that run, which ShiftLoop models in    *)
(* full, only the claim it leaves, the gate and the verdict are kept.       *)
(***************************************************************************)
EXTENDS Integers

CONSTANTS N,            \* features; 1..N is their order in the file
          Items,        \* what a feature may look like, see Item
          MaxFeatures   \* --max-features, or N for no cap

VerifyStrengths == 0..3 \* VERIFY_NONE, _BUILD, _TESTS, _BEHAVIORAL

Item == [priority: Nat,
         risk: {"none", "mechanical", "unspecified", "money"},
         prod: BOOLEAN,                 \* its goal matches a deny pattern
         strength: VerifyStrengths,
         checked: BOOLEAN,              \* CommandVerifier accepts the command
         level: {"SIMPLE", "MODERATE", "COMPLEX"}]  \* undeclared is MODERATE

ASSUME CountAssumption == N \in Nat /\ MaxFeatures \in Nat
ASSUME ItemAssumption ==
  Items \subseteq {i \in Item : i.strength = 0 => ~i.checked}

Features == 1..N
RunId == 0              \* approval id of what has none of its own

VARIABLES
  plan,      \* the list as curated
  configured,\* an approval: block is configured
  status,    \* the persisted status of every feature
  torn,      \* the file is truncated: mark_done died while writing it
  claim,     \* the journal of a feature ends in a verified outcome
  relay,     \* approval records, by approval id
  subject,   \* the feature a request named to the person
  dirty,     \* features with changes in the working tree
  commits,   \* features whose changes prax committed by itself
  pc, current, started, report,
  accepted,  \* history: features the verifier passed
  blessed    \* history: features a person approved, and did not reject since

approvals == <<relay, subject, blessed>>
tree == <<dirty, commits>>
file == <<plan, configured, status, torn>>
window == <<current, started>>
vars == <<file, claim, approvals, tree, pc, window, report, accepted>>

-----------------------------------------------------------------------------
(* three_step_router.                                                       *)

RequiresApproval(f) == plan[f].risk \notin {"none", "mechanical"}

\* Faulty variant: the complexity is not looked at.
BuggyRouteStep(f) == IF plan[f].strength = 3 THEN "autonomous" ELSE "human_check"

\* A category needs a decision first; a weak verifier, a person's review.
RouteStep(f) ==
  IF \/ RequiresApproval(f)
     \/ plan[f].strength = 0
     \/ plan[f].level = "COMPLEX"
    THEN "summarize"
  ELSE IF plan[f].level = "SIMPLE" /\ plan[f].strength = 3
    THEN "autonomous"
  ELSE "human_check"

-----------------------------------------------------------------------------
(* feature_list.                                                            *)

Pending == {f \in Features : status[f] = "pending"}

\* sorted() is stable: the file's order breaks a tie.
Before(f, g) == \/ plan[f].priority < plan[g].priority
                \/ plan[f].priority = plan[g].priority /\ f < g

NextPending == CHOOSE f \in Pending : \A g \in Pending \ {f} : Before(f, g)

Init ==
  /\ plan \in [Features -> Items] /\ configured \in BOOLEAN
  /\ status = [f \in Features |-> "pending"] /\ torn = FALSE
  /\ claim = [f \in Features |-> FALSE]
  /\ relay = [i \in 0..N |-> "none"] /\ subject = [i \in 0..N |-> RunId]
  /\ dirty = {} /\ commits = {}
  /\ pc = "idle" /\ current = RunId /\ started = 0 /\ report = "none"
  /\ accepted = {} /\ blessed = {}

-----------------------------------------------------------------------------
(* A window.                                                                *)

\* Faulty variant: an unreadable list is a finished list.
BuggyOpen ==
  /\ pc = "idle"
  /\ IF torn \/ N = 0 THEN report' = "all_features_done" /\ UNCHANGED pc
                      ELSE pc' = "pick" /\ report' = "none"
  /\ current' = RunId /\ started' = 0
  /\ UNCHANGED <<file, claim, approvals, tree, accepted>>

\* _run_feature_mode: nothing to do without a readable list.
Open ==
  /\ pc = "idle"
  /\ IF torn \/ N = 0 THEN report' = "no_features" /\ UNCHANGED pc
                      ELSE pc' = "pick" /\ report' = "none"
  /\ current' = RunId /\ started' = 0
  /\ UNCHANGED <<file, claim, approvals, tree, accepted>>

Ends(why) == pc' = "idle" /\ report' = why

\* The round of run_features: the cap counts only when something is left.
Pick ==
  /\ pc = "pick"
  /\ CASE Pending = {} -> Ends("all_features_done") /\ UNCHANGED window
       [] Pending # {} /\ started >= MaxFeatures ->
            Ends("max_features") /\ UNCHANGED window
       [] OTHER -> /\ started' = started + 1 /\ current' = NextPending
                   /\ pc' = (IF claim[current'] THEN "recheck" ELSE "gate")
                   /\ UNCHANGED report
  /\ UNCHANGED <<file, claim, approvals, tree, accepted>>

\* The first unverified feature ends the window.
Blocked == Ends("feature_blocked")

\* A claim of an earlier window: verify it again, work only if it fails.  Every
\* other end of the run journals an outcome that is not verified.
Recheck ==
  /\ pc = "recheck"
  /\ \/ /\ plan[current].checked
        /\ accepted' = accepted \cup {current} /\ pc' = "verified"
        /\ UNCHANGED <<claim, report>>
     \/ /\ plan[current].checked
        /\ claim' = [claim EXCEPT ![current] = FALSE] /\ pc' = "gate"
        /\ UNCHANGED <<accepted, report>>
     \/ /\ claim' = [claim EXCEPT ![current] = FALSE] /\ Blocked
        /\ UNCHANGED accepted
  /\ UNCHANGED <<file, approvals, tree, window>>

\* Faulty variant: every feature of a run shares the run's approval.
BuggyApprovalId(f) == RunId

\* approval_id_override is given to the features of a risk category only.
ApprovalId(f) == IF RequiresApproval(f) THEN f ELSE RunId

\* build_relay_gate: who has to ask.
Gated(f) == RequiresApproval(f) \/ plan[f].prod

Gate ==
  /\ pc = "gate"
  /\ LET id == ApprovalId(current) IN
     CASE ~Gated(current) ->
            pc' = "work" /\ UNCHANGED <<relay, subject, report>>
       [] Gated(current) /\ ~configured ->     \* a deny pattern alone lets pass
            /\ IF RequiresApproval(current) THEN Blocked
                                            ELSE pc' = "work" /\ UNCHANGED report
            /\ UNCHANGED <<relay, subject>>
       [] Gated(current) /\ configured /\ relay[id] = "none" ->
            /\ relay' = [relay EXCEPT ![id] = "pending"]
            /\ subject' = [subject EXCEPT ![id] = current]
            /\ Blocked
       [] OTHER ->
            /\ IF relay[id] = "approved" THEN pc' = "work" /\ UNCHANGED report
                                         ELSE Blocked
            /\ UNCHANGED <<relay, subject>>
  /\ UNCHANGED <<file, claim, blessed, tree, window, accepted>>

\* The loop over the executor and the verifier, whatever the agent changed.
Work ==
  /\ pc = "work"
  /\ dirty' \in {dirty, dirty \cup {current}}
  /\ \/ /\ plan[current].checked
        /\ accepted' = accepted \cup {current}
        /\ claim' = [claim EXCEPT ![current] = TRUE]
        /\ pc' = "verified" /\ UNCHANGED report
     \/ Blocked /\ UNCHANGED <<accepted, claim>>
  /\ UNCHANGED <<file, approvals, commits, window>>

\* on_feature with --commit: `git add -A` takes the whole working tree; a git
\* failure is swallowed.
Commit ==
  /\ pc = "verified"
  /\ pc' = "mark"
  /\ \/ RouteStep(current) = "autonomous" /\ commits' = commits \cup dirty /\ dirty' = {}
     \/ UNCHANGED tree
  /\ UNCHANGED <<file, claim, approvals, window, report, accepted>>

\* mark_done: write_text truncates the file ...
Truncate ==
  /\ pc = "mark"
  /\ torn' = TRUE /\ pc' = "saving"
  /\ UNCHANGED <<plan, configured, status, claim, approvals, tree, window, report, accepted>>

Saved == [status EXCEPT ![current] = "done"]

\* ... and writes it again.
Save ==
  /\ pc = "saving"
  /\ torn' = FALSE /\ status' = Saved
  /\ pc' = "pick"
  /\ UNCHANGED <<plan, configured, claim, approvals, tree, window, report, accepted>>

\* A kill, a quota stop, a failing relay call.
Die ==
  /\ pc # "idle"
  /\ pc' = "idle" /\ report' = "none"
  /\ UNCHANGED <<file, claim, approvals, tree, window, accepted>>

-----------------------------------------------------------------------------
(* The person.                                                              *)

Decide(id, d) ==
  /\ relay[id] # "none"
  /\ relay' = [relay EXCEPT ![id] = d]
  /\ blessed' = IF d = "approved" THEN blessed \cup {subject[id]}
                                  ELSE blessed \ {subject[id]}
  /\ UNCHANGED <<file, claim, subject, tree, pc, window, report, accepted>>

\* Reviews the working tree between windows: commits or discards what is there.
Review ==
  /\ pc = "idle"
  /\ dirty' = {}
  /\ UNCHANGED <<file, claim, approvals, commits, pc, window, report, accepted>>

-----------------------------------------------------------------------------
Window == Open \/ Pick \/ Recheck \/ Gate \/ Work \/ Commit \/ Truncate \/ Save

Next ==
  \/ Window \/ Die
  \/ \E id \in 0..N, d \in {"approved", "rejected"} : Decide(id, d)
  \/ Review

Spec == Init /\ [][Next]_vars

-----------------------------------------------------------------------------
\* Every variable keeps its type.
TypeOK ==
  /\ plan \in [Features -> Items] /\ configured \in BOOLEAN
  /\ status \in [Features -> {"pending", "done"}] /\ torn \in BOOLEAN
  /\ claim \in [Features -> BOOLEAN]
  /\ relay \in [0..N -> {"none", "pending", "approved", "rejected"}]
  /\ subject \in [0..N -> 0..N]
  /\ dirty \subseteq Features /\ commits \subseteq Features
  /\ pc \in {"idle", "pick", "recheck", "gate", "work", "verified", "mark", "saving"}
  /\ current \in 0..N /\ started \in 0..N
  /\ report \in {"none", "no_features", "all_features_done", "max_features",
                 "feature_blocked"}
  /\ accepted \subseteq Features /\ blessed \subseteq Features

\* A feature is done only if the verifier passed it, whatever window died where,
\* and "all_features_done" reports a list of which every feature was accepted.
DoneIsAccepted == \A f \in Features : status[f] = "done" => f \in accepted
AllDoneIsTrue == report = "all_features_done" => accepted = Features
DoneIsTrue == DoneIsAccepted /\ AllDoneIsTrue

\* A feature of a red-line category is worked on only once a person who was shown
\* that very feature approved it, and has not taken it back before.
RedLineIsBlessed ==
  [][pc = "gate" /\ pc' = "work" /\ RequiresApproval(current) => current \in blessed]_vars

\* Autonomy is earned: prax commits on its own only next to work that is simple
\* and has passed a behavioral verifier.
CommitIsEarned ==
  [][commits' # commits => /\ plan[current].level = "SIMPLE"
                           /\ plan[current].strength = 3
                           /\ current \in accepted]_vars
=============================================================================
