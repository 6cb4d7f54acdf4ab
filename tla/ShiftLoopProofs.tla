---------------------------- MODULE ShiftLoopProofs ----------------------------
(***************************************************************************)
(* Proofs about ShiftLoop: what a window may report, when it may work, how  *)
(* much work there is in all windows together, and what the journal claims  *)
(* meanwhile.  The first two do not depend on what the journal holds; the   *)
(* other two count its events and look for the last of a kind.              *)
(***************************************************************************)
EXTENDS ShiftLoop, FiniteSetTheorems, WellFoundedInduction, TLAPS

\* A standing approval is a consent, and past the gate there is one or none is
\* needed.
Consent ==
  /\ relay = "approved" => consented
  /\ pc \in {"loop", "working", "verify"} => consented \/ ~NeedsApproval

IInv == policy \in Policy /\ Consent /\ VerifiedIsFresh

\* What an action sets, for the actions that neither ask nor check anything.
Quiet == UNCHANGED <<policy, relay, consented>>

LEMMA Initially == Init => IInv
BY PolicyAssumption DEF Init, IInv, Consent, VerifiedIsFresh, NeedsApproval, Policy

LEMMA PolicyFixed == IInv /\ [Next]_vars => (policy \in Policy)'
<1> SUFFICES ASSUME IInv, [Next]_vars PROVE policy' = policy
  BY DEF IInv
<1> QED
  BY DEF Next, Window, Agent, Invoke, ExecutorUnavailable, BindIntent, ReadOutcome,
         Recheck, Invalidate, Resume, Gate, NotifyApprover, LoopEnds, StartStep,
         StepReturns, StepRaises, Verify, Finish, Die, Decide, Edit, vars

\* Consent, one step per action that starts work, asks, or answers.
LEMMA ConsentKept == IInv /\ [Next]_vars => Consent'
<1> SUFFICES ASSUME IInv, [Next]_vars PROVE Consent'
  OBVIOUS
<1> USE DEF IInv, Consent, NeedsApproval, approval, locals, counters, history
<1>1. ASSUME NEW g \in Goals, NEW v \in BOOLEAN, Invoke(g, v) PROVE Consent'
  BY <1>1 DEF Invoke
<1>2. CASE ExecutorUnavailable \/ Invalidate \/ Finish
  BY <1>2 DEF ExecutorUnavailable, Invalidate, Finish
<1>3. CASE BindIntent
  <2>1. pc' \in {"finish", "cached"} /\ Quiet
    BY <1>3 DEF BindIntent, StopAs, Quiet
  <2> QED
    BY <2>1 DEF Quiet
<1>4. CASE ReadOutcome
  BY <1>4 DEF ReadOutcome, CachedPath, StopAs
<1>5. CASE Recheck
  <2>1. pc' \in {"finish", "invalidate"} /\ Quiet
    BY <1>5 DEF Recheck, StopAs, Quiet
  <2> QED
    BY <2>1 DEF Quiet
<1>6. CASE Resume
  BY <1>6 DEF Resume, StopAs, Policy
<1>7. CASE Gate
  <2>1. CASE ~NeedsApproval
    BY <1>7, <2>1 DEF Gate, Decided, StopAs
  <2>2. CASE NeedsApproval /\ relay # "none"
    <3>1. pc' = "loop" => relay = "approved"
      BY <1>7, <2>2 DEF Gate, Decided, StopAs
    <3>2. pc' \in {"loop", "finish"} /\ Quiet
      BY <1>7, <2>2 DEF Gate, Decided, StopAs, Quiet
    <3> QED
      BY <3>1, <3>2 DEF Quiet
  <2>3. CASE NeedsApproval /\ relay = "none"
    BY <1>7, <2>3 DEF Gate
  <2> QED
    BY <2>1, <2>2, <2>3
<1>8. CASE NotifyApprover
  BY <1>8 DEF NotifyApprover, Decided, StopAs
<1>9. CASE LoopEnds \/ StartStep
  BY <1>9 DEF LoopEnds, StartStep, StopAs
<1>10. CASE StepReturns \/ StepRaises
  BY <1>10 DEF StepReturns, StepRaises, StopAs
<1>11. CASE Verify
  <2>1. pc = "verify" /\ pc' \in {"loop", "finish"} /\ Quiet
    BY <1>11 DEF Verify, StopAs, Quiet
  <2> QED
    BY <2>1 DEF Quiet
<1>12. CASE Die
  BY <1>12 DEF Die
<1>13. ASSUME NEW d \in Decisions, Decide(d) PROVE Consent'
  BY <1>13 DEF Decide
<1>14. CASE Edit
  BY <1>14 DEF Edit
<1>15. CASE UNCHANGED vars
  BY <1>15 DEF vars
<1> QED
  BY <1>1, <1>2, <1>3, <1>4, <1>5, <1>6, <1>7, <1>8, <1>9, <1>10, <1>11, <1>12,
     <1>13, <1>14, <1>15 DEF Next, Window, Agent

\* A window stops as "verified" only in Recheck and Verify, with the certificate.
LEMMA FreshKept == IInv /\ [Next]_vars => VerifiedIsFresh'
<1> SUFFICES ASSUME IInv, [Next]_vars PROVE VerifiedIsFresh'
  OBVIOUS
<1> USE DEF IInv, VerifiedIsFresh, StopAs, approval, locals, counters, history
<1>1. ASSUME NEW g \in Goals, NEW v \in BOOLEAN, Invoke(g, v) PROVE VerifiedIsFresh'
  BY <1>1 DEF Invoke
<1>2. CASE ExecutorUnavailable \/ Invalidate \/ Finish \/ Die
  BY <1>2 DEF ExecutorUnavailable, Invalidate, Finish, Die
<1>3. CASE BindIntent
  <2>1. \/ pc' = "cached"
        \/ stop' \in {"intent_changed", "unbound_legacy_evidence"}
    BY <1>3 DEF BindIntent
  <2> QED
    BY <2>1
<1>4. CASE ReadOutcome
  BY <1>4 DEF ReadOutcome, CachedPath
<1>5. CASE Recheck
  <2>1. PICK v \in Verdicts :
          /\ certified' = (v.status = "PASS")
          /\ CASE v.status = "PASS" -> StopAs("verified")
               [] v.status = "HARNESS-ERROR" -> StopAs("harness_error")
               [] OTHER -> pc' = "invalidate" /\ UNCHANGED stop
    BY <1>5 DEF Recheck
  <2> QED
    BY <2>1
<1>6. CASE Resume
  BY <1>6 DEF Resume
<1>7. CASE Gate
  BY <1>7 DEF Gate, Decided
<1>8. CASE NotifyApprover
  BY <1>8 DEF NotifyApprover, Decided
<1>9. CASE LoopEnds \/ StartStep
  BY <1>9 DEF LoopEnds, StartStep
<1>10. CASE StepReturns \/ StepRaises
  BY <1>10 DEF StepReturns, StepRaises
<1>11. CASE Verify
  <2>1. PICK v \in Verdicts :
          /\ certified' = (v.status = "PASS")
          /\ IF v.status = "FEATURE-FAIL"
               THEN \/ pc' = "loop"
                    \/ stop' = "stuck_no_progress"
               ELSE StopAs(IF v.status = "PASS" THEN "verified" ELSE "harness_error")
    BY <1>11 DEF Verify
  <2> QED
    BY <2>1
<1>12. ASSUME NEW d \in Decisions, Decide(d) PROVE VerifiedIsFresh'
  BY <1>12 DEF Decide
<1>13. CASE Edit
  BY <1>13 DEF Edit
<1>14. CASE UNCHANGED vars
  BY <1>14 DEF vars
<1> QED
  BY <1>1, <1>2, <1>3, <1>4, <1>5, <1>6, <1>7, <1>8, <1>9, <1>10, <1>11, <1>12,
     <1>13, <1>14 DEF Next, Window, Agent

LEMMA Invariance == Spec => []IInv
<1>1. IInv /\ [Next]_vars => IInv'
  BY PolicyFixed, ConsentKept, FreshKept DEF IInv
<1> QED
  BY <1>1, Initially, PTL DEF Spec

\* Work on a gated goal starts only with a person's approval that stood when the
\* window opened or came after it.
THEOREM ConsentHolds == Spec => []NoWorkWithoutConsent
<1>1. IInv => NoWorkWithoutConsent
  BY DEF IInv, Consent, NoWorkWithoutConsent
<1> QED
  BY <1>1, Invariance, PTL

\* "verified" is reported only for what the verifier passed in this very window.
THEOREM VerifiedHolds == Spec => []VerifiedIsFresh
BY Invariance, PTL DEF IInv

-----------------------------------------------------------------------------
(* The journal.                                                             *)

\* A bounded set of numbers that is not empty has a greatest one.
LEMMA Greatest ==
  ASSUME NEW n \in Nat, NEW S \in SUBSET (1 .. n), S # {}
  PROVE  Latest(S) \in S /\ \A j \in S : j <= Latest(S)
<1> DEFINE T == {n - i : i \in S}
<1>1. T \subseteq Nat /\ T # {}
  <2>1. PICK j \in S : TRUE
    OBVIOUS
  <2>2. n - j \in T
    BY <2>1
  <2>3. \A i \in S : n - i \in Nat
    OBVIOUS
  <2> QED
    BY <2>2, <2>3
<1>2. \E m \in T : \A k \in T : ~(<<k, m>> \in OpToRel(<, Nat))
  BY <1>1, NatLessThanWellFounded, WFMin, Zenon
<1>3. \A m, k \in Nat : k < m => <<k, m>> \in OpToRel(<, Nat)
  BY DEF OpToRel
<1>4. PICK m \in T : \A k \in T : ~(k < m)
  <2>1. PICK m \in T : \A k \in T : ~(<<k, m>> \in OpToRel(<, Nat))
    BY <1>2
  <2>2. m \in Nat /\ \A k \in T : k \in Nat
    BY <1>1
  <2>3. \A k \in T : ~(k < m)
    BY <1>3, <2>1, <2>2, Zenon
  <2> QED
    BY <2>3
<1>5. PICK i \in S : m = n - i
  BY <1>4
<1>6. \A j \in S : j <= i
  BY <1>4, <1>5
<1> QED
  BY <1>5, <1>6 DEF Latest

OutageAt == {i \in At("verify") : journal[i].status = "HARNESS-ERROR"}

\* What one more event changes: the positions of its kind grow by the last one.
LEMMA Appending ==
  ASSUME journal \in Seq(Event), NEW e \in Event, journal' = Append(journal, e)
  PROVE  /\ journal' \in Seq(Event)
         /\ \A kind : At(kind)' = IF e.step = kind THEN At(kind) \cup {Len(journal) + 1} ELSE At(kind)
         /\ \A kind : \A i \in At(kind) : i \in 1 .. Len(journal) /\ journal'[i] = journal[i]
         /\ journal'[Len(journal) + 1] = e /\ Len(journal) \in Nat
<1> DEFINE n == Len(journal)
<1>1. /\ n \in Nat /\ DOMAIN journal = 1 .. n /\ DOMAIN journal' = 1 .. n + 1
      /\ \A i \in 1 .. n : journal'[i] = journal[i]
      /\ journal'[n + 1] = e /\ journal' \in Seq(Event)
  OBVIOUS
<1> HIDE DEF n
<1>2. ASSUME NEW kind
      PROVE  At(kind)' = IF e.step = kind THEN At(kind) \cup {n + 1} ELSE At(kind)
  <2>1. ASSUME NEW i PROVE i \in At(kind)' <=> i \in At(kind) \/ (i = n + 1 /\ e.step = kind)
    BY <1>1 DEF At
  <2>2. CASE e.step = kind
    BY <2>1, <2>2
  <2>3. CASE e.step # kind
    BY <2>1, <2>3
  <2> QED
    BY <2>2, <2>3
<1>3. \A kind : \A i \in At(kind) : i \in 1 .. n
  BY <1>1 DEF At
<1> QED
  BY <1>1, <1>2, <1>3 DEF n

\* The steps and the outages of a journal are counted by natural numbers.
LEMMA Counted ==
  ASSUME journal \in Seq(Event)
  PROVE  /\ \A kind : IsFiniteSet(At(kind)) /\ Cardinality(At(kind)) \in Nat
         /\ IsFiniteSet(OutageAt) /\ Steps \in Nat /\ Outages \in Nat /\ Outages = Cardinality(OutageAt)
<1>1. IsFiniteSet(1 .. Len(journal))
  BY FS_Interval
<1>2. \A kind : At(kind) \subseteq 1 .. Len(journal)
  BY DEF At
<1>3. \A kind : IsFiniteSet(At(kind)) /\ Cardinality(At(kind)) \in Nat
  BY <1>1, <1>2, FS_Subset, FS_CardinalityType
<1>4. OutageAt \subseteq At("verify")
  BY DEF OutageAt
<1>5. IsFiniteSet(OutageAt) /\ Cardinality(OutageAt) \in Nat
  BY <1>3, <1>4, FS_Subset, FS_CardinalityType
<1> QED
  BY <1>3, <1>5 DEF Steps, Outages, OutageAt

\* A step event is a step more, a verify event of an outage an outage more.
LEMMA CountsAppended ==
  ASSUME journal \in Seq(Event), NEW e \in Event, journal' = Append(journal, e)
  PROVE  /\ Steps' = IF e.step = "step" THEN Steps + 1 ELSE Steps
         /\ Outages' = IF e.step = "verify" /\ e.status = "HARNESS-ERROR" THEN Outages + 1 ELSE Outages
<1> DEFINE n == Len(journal)
<1>1. n + 1 \notin At("step") /\ n + 1 \notin OutageAt /\ n + 1 \notin At("verify") /\ n \in Nat
  BY Appending DEF OutageAt, At
<1>2. Steps' = IF e.step = "step" THEN Steps + 1 ELSE Steps
  <2>1. IsFiniteSet(At("step")) /\ Steps = Cardinality(At("step")) /\ Steps' = Cardinality(At("step")')
    BY Counted DEF Steps
  <2>2. At("step")' = IF e.step = "step" THEN At("step") \cup {n + 1} ELSE At("step")
    BY Appending
  <2>3. Cardinality(At("step") \cup {n + 1}) = Cardinality(At("step")) + 1
    BY <1>1, <2>1, FS_AddElement
  <2> QED
    BY <2>1, <2>2, <2>3
<1>3. journal'[n + 1] = e /\ \A i \in At("verify") : journal'[i] = journal[i] /\ i # n + 1
  BY <1>1, Appending
<1>4. CASE e.step = "verify" /\ e.status = "HARNESS-ERROR"
  <2>1. \A i : i \in At("verify")' <=> i \in At("verify") \/ i = n + 1
    BY <1>4, Appending
  <2>2. ASSUME NEW i PROVE i \in OutageAt' <=> i \in OutageAt \/ i = n + 1
    <3>1. CASE i \in At("verify")
      BY <1>3, <2>1, <3>1 DEF OutageAt
    <3>2. CASE i = n + 1
      BY <1>3, <1>4, <2>1, <3>2 DEF OutageAt
    <3> QED
      BY <2>1, <3>1, <3>2 DEF OutageAt
  <2>3. OutageAt' = OutageAt \cup {n + 1}
    BY <2>2
  <2>4. Cardinality(OutageAt \cup {n + 1}) = Cardinality(OutageAt) + 1
    BY <1>1, Counted, FS_AddElement
  <2>5. Outages' = Outages + 1
    BY <2>3, <2>4 DEF Outages, OutageAt
  <2> QED
    BY <1>2, <1>4, <2>5
<1>5. CASE ~(e.step = "verify" /\ e.status = "HARNESS-ERROR")
  <2>1. ASSUME NEW i PROVE i \in OutageAt' <=> i \in OutageAt
    <3>1. CASE e.step = "verify"
      <4>1. At("verify")' = At("verify") \cup {n + 1}
        BY <3>1, Appending
      <4>2. CASE i \in At("verify")
        BY <1>3, <4>1, <4>2 DEF OutageAt
      <4>3. CASE i = n + 1
        BY <1>1, <1>3, <1>5, <3>1, <4>1, <4>3 DEF OutageAt
      <4> QED
        BY <4>1, <4>2, <4>3 DEF OutageAt
    <3>2. CASE e.step # "verify"
      BY <1>3, <3>2, Appending DEF OutageAt
    <3> QED
      BY <3>1, <3>2
  <2>2. OutageAt' = OutageAt
    BY <2>1
  <2>3. Outages' = Outages
    BY <2>2 DEF Outages, OutageAt
  <2> QED
    BY <1>2, <1>5, <2>3
<1> QED
  BY <1>2, <1>4, <1>5

\* An outcome is the last one when it is written, and stays it until the next.
LEMMA LastAppended ==
  ASSUME journal \in Seq(Event), NEW e \in Event, journal' = Append(journal, e)
  PROVE  ClaimsVerified' <=> IF e.step = "outcome" THEN e.verified ELSE ClaimsVerified
<1> DEFINE n == Len(journal)
<1>1. CASE e.step = "outcome"
  <2>1. /\ At("outcome")' = At("outcome") \cup {n + 1} /\ n \in Nat
        /\ \A i \in At("outcome") : i \in 1 .. n
    BY <1>1, Appending
  <2>2. Latest(At("outcome"))' = n + 1
    <3>1. \A i \in At("outcome")' : i <= n + 1
      BY <2>1
    <3>2. \A i \in At("outcome")' : (\A j \in At("outcome")' : j <= i) => i = n + 1
      BY <2>1
    <3> QED
      BY <2>1, <3>1, <3>2 DEF Latest
  <2>3. Last("outcome")' = e
    BY <2>2, Appending DEF Last
  <2> QED
    BY <1>1, <2>1, <2>3 DEF ClaimsVerified, Recorded
<1>2. CASE e.step # "outcome"
  <2>1. At("outcome")' = At("outcome") /\ Latest(At("outcome"))' = Latest(At("outcome"))
    BY <1>2, Appending DEF Latest
  <2>2. Recorded("outcome") => Last("outcome")' = Last("outcome")
    <3>1. At("outcome") \subseteq 1 .. Len(journal) /\ Len(journal) \in Nat
      BY Appending
    <3>2. At("outcome") # {} => Latest(At("outcome")) \in At("outcome")
      BY <3>1, Greatest
    <3> QED
      BY <2>1, <3>2, Appending DEF Recorded, Last
  <2> QED
    BY <1>2, <2>1, <2>2 DEF ClaimsVerified, Recorded
<1> QED
  BY <1>1, <1>2

-----------------------------------------------------------------------------
(* Types, and the work of a run.                                            *)

\* The events the actions write are events.
LEMMA Events ==
  /\ [step |-> "step"] \in Event
  /\ \A g \in Goals : [step |-> "intent", goal |-> g] \in Event
  /\ \A kind \in {"verify", "resume_verify"}, v \in Verdicts : CheckEvent(kind, v) \in Event
  /\ \A why \in Reasons, verified \in BOOLEAN : Outcome(why, verified) \in Event
<1>1. \A kind \in {"verify", "resume_verify"}, v \in Verdicts :
        /\ v.status \in VerifyStatuses /\ v.text \in Texts \cup {"none", "down"}
        /\ CheckEvent(kind, v) \in Event
  BY DEF CheckEvent, Verdicts, VerifyStatuses, Event
<1> QED
  BY <1>1 DEF Event, Outcome

\* Every action keeps every variable's type.
Typed == TypeOK /\ (pc = "finish" => stop \in Reasons)

LEMMA TypesKept == Typed /\ [Next]_vars => Typed'
<1> SUFFICES ASSUME Typed, [Next]_vars PROVE Typed'
  OBVIOUS
<1> USE LimitAssumption
        DEF Typed, TypeOK, StopAs, approval, locals, counters, history, Stages, Reasons
<1>1. ASSUME NEW g \in Goals, NEW v \in BOOLEAN, Invoke(g, v) PROVE Typed'
  <2>1. windows' \in 0 .. MaxWindows /\ consented' \in BOOLEAN
    BY <1>1 DEF Invoke
  <2>2. /\ journal' \in Seq(Event) /\ policy' \in Policies
        /\ relay' \in Decisions \cup {"none", "pending"} /\ linked' \in BOOLEAN
        /\ edits' \in 0 .. MaxEdits /\ runs' \in Nat /\ lost' \in Nat
    BY <1>1 DEF Invoke
  <2>3. /\ pc' \in Stages /\ pc' # "finish" /\ goal' \in Goals /\ checked' \in BOOLEAN
        /\ iteration' \in Nat /\ feedback' \in Feedbacks /\ errors' \in Nat
        /\ streak' \in Nat /\ lastFail' = "none" /\ stop' = "none" /\ certified' \in BOOLEAN
    BY <1>1 DEF Invoke, Feedbacks
  <2> QED
    BY <2>1, <2>2, <2>3
<1>2. CASE ExecutorUnavailable
  <2>1. journal' \in Seq(Event)
    <3>1. Outcome("executor_unavailable", FALSE) \in Event
      BY <1>2 DEF ExecutorUnavailable, Outcome, Event
    <3>2. journal' = Append(journal, Outcome("executor_unavailable", FALSE))
      BY <1>2 DEF ExecutorUnavailable
    <3> QED
      BY <3>1, <3>2, Appending
  <2> QED
    BY <1>2, <2>1 DEF ExecutorUnavailable
<1>3. CASE BindIntent
  <2>1. journal' \in Seq(Event)
    <3>1. UNCHANGED journal \/ journal' = Append(journal, [step |-> "intent", goal |-> goal])
      BY <1>3 DEF BindIntent
    <3> QED
      BY <3>1, Events
  <2>2. pc' \in Stages /\ stop' \in Reasons \cup {"none"}
    BY <1>3 DEF BindIntent
  <2> QED
    BY <1>3, <2>1, <2>2 DEF BindIntent
<1>4. CASE ReadOutcome
  BY <1>4 DEF ReadOutcome, CachedPath
<1>5. CASE Recheck
  <2>1. journal' \in Seq(Event) /\ certified' \in BOOLEAN
    BY <1>5, Events DEF Recheck
  <2>2. pc' \in Stages /\ stop' \in Reasons \cup {"none"}
    BY <1>5 DEF Recheck
  <2> QED
    BY <1>5, <2>1, <2>2 DEF Recheck
<1>6. CASE Invalidate
  <2>1. journal' \in Seq(Event)
    <3>1. Outcome("acceptance_invalidated", FALSE) \in Event
      BY <1>6 DEF Invalidate, Outcome, Event
    <3>2. journal' = Append(journal, Outcome("acceptance_invalidated", FALSE))
      BY <1>6 DEF Invalidate
    <3> QED
      BY <3>1, <3>2, Appending
  <2> QED
    BY <1>6, <2>1 DEF Invalidate
<1>7. CASE Resume
  <2>1. iteration' \in Nat
    BY <1>7, Counted DEF Resume, ResumedIteration
  <2>2. feedback' \in Feedbacks
    <3>1. \A kind : Recorded(kind) => Latest(At(kind)) \in At(kind)
      <4>1. \A kind : At(kind) \in SUBSET (1 .. Len(journal)) /\ Len(journal) \in Nat
        BY DEF At
      <4> QED
        BY <4>1, Greatest DEF Recorded
    <3>2. \A kind : Recorded(kind) => Last(kind) \in Event /\ Last(kind).step = kind
      BY <3>1 DEF Last, At
    <3>3. \A e \in Event : e.step \in {"verify", "resume_verify"}
                             => e.text \in Texts \cup {"none", "down"}
      BY DEF Event
    <3> QED
      BY <1>7, <3>2, <3>3 DEF Resume, ResumedFeedback, LastFeedback, Feedbacks
  <2> QED
    BY <1>7, <2>1, <2>2 DEF Resume
<1>8. CASE Gate
  BY <1>8 DEF Gate, Decided
<1>9. CASE NotifyApprover
  BY <1>9 DEF NotifyApprover, Decided
<1>10. CASE LoopEnds \/ StartStep
  <2>1. CASE LoopEnds
    BY <2>1 DEF LoopEnds
  <2>2. CASE StartStep
    <3>1. runs \in Nat /\ runs' = runs + 1 /\ certified' = FALSE /\ pc' = "working"
      BY <2>2, Zenon DEF StartStep
    <3>2. runs' \in Nat
      BY <3>1
    <3>3. certified' \in BOOLEAN /\ pc' \in Stages
      BY <3>1, Zenon
    <3>4. pc' # "finish"
      BY <3>1
    <3> QED
      BY <2>2, <3>2, <3>3, <3>4, Zenon DEF StartStep
  <2> QED
    BY <1>10, <2>1, <2>2
<1>11. CASE StepReturns
  <2>1. journal' \in Seq(Event)
    BY <1>11, Events DEF StepReturns
  <2> QED
    BY <1>11, <2>1 DEF StepReturns
<1>12. CASE StepRaises
  BY <1>12 DEF StepRaises, Feedbacks
<1>13. CASE Verify
  <2>1. PICK v \in Verdicts :
          /\ journal' = Append(journal, CheckEvent("verify", v))
          /\ certified' = (v.status = "PASS")
          /\ IF v.status = "FEATURE-FAIL"
               THEN /\ feedback' = v.text /\ lastFail' = v.text
                    /\ streak' = StuckNow(v.text)
                    /\ \/ StopAs("stuck_no_progress")
                       \/ pc' = "loop" /\ UNCHANGED stop
               ELSE /\ StopAs(IF v.status = "PASS" THEN "verified" ELSE "harness_error")
                    /\ UNCHANGED <<feedback, lastFail, streak>>
    BY <1>13 DEF Verify
  <2>2. v.status = "FEATURE-FAIL" => v.text \in Texts
    BY DEF Verdicts
  <2>3. feedback' \in Feedbacks /\ lastFail' \in Texts \cup {"none"} /\ streak' \in Nat
    BY <2>1, <2>2 DEF Feedbacks, StuckNow
  <2>4. journal' \in Seq(Event) /\ pc' \in Stages /\ stop' \in Reasons \cup {"none"} /\ certified' \in BOOLEAN
    BY <2>1, Events
  <2> QED
    BY <1>13, <2>3, <2>4 DEF Verify
<1>14. CASE Finish
  <2>1. journal' \in Seq(Event)
    <3>1. Outcome(stop, stop = "verified") \in Event
      BY <1>14 DEF Finish, Outcome, Event
    <3>2. journal' = Append(journal, Outcome(stop, stop = "verified"))
      BY <1>14 DEF Finish
    <3> QED
      BY <3>1, <3>2, Appending
  <2> QED
    BY <1>14, <2>1 DEF Finish
<1>15. CASE Die
  BY <1>15 DEF Die
<1>16. ASSUME NEW d \in Decisions, Decide(d) PROVE Typed'
  BY <1>16 DEF Decide
<1>17. CASE Edit
  <2>1. edits' \in 0 .. MaxEdits
    BY <1>17 DEF Edit
  <2> QED
    BY <1>17, <2>1 DEF Edit
<1>18. CASE UNCHANGED vars
  BY <1>18 DEF vars
<1> QED
  BY <1>1, <1>2, <1>3, <1>4, <1>5, <1>6, <1>7, <1>8, <1>9, <1>10, <1>11, <1>12,
     <1>13, <1>14, <1>15, <1>16, <1>17, <1>18 DEF Next, Window, Agent

\* The first state has the types, whichever journal the run finds.
LEMMA StartsTyped == Init => Typed
<1> SUFFICES ASSUME Init PROVE Typed
  OBVIOUS
<1>1. journal \in Seq(Event)
  <2>1. [step |-> "step"] \in Event
    BY Events
  <2>2. <<>> \in Seq(Event) /\ <<[step |-> "step"]>> \in Seq(Event)
    BY <2>1
  <2> QED
    BY <2>2 DEF Init
<1>2. windows \in 0 .. MaxWindows /\ edits \in 0 .. MaxEdits
  BY LimitAssumption DEF Init
<1> QED
  BY <1>1, <1>2 DEF Init, Typed, TypeOK, Stages, Goals, Feedbacks

\* Every variable of the shift loop keeps its type.
THEOREM TypeCorrect == Spec => []TypeOK
<1>1. Typed => TypeOK
  BY DEF Typed
<1> QED
  BY <1>1, StartsTyped, TypesKept, PTL DEF Spec

\* What the journal says of the attempts made, and what the loop counts: they
\* agree while the window works, and a step still waits for its verdict.
Accounts ==
  /\ Outages + (IF pc = "verify" THEN 1 ELSE 0) <= Steps
  /\ pc \in {"gate", "notify", "loop", "working"} => iteration = Steps - Outages
  /\ pc = "verify" => iteration + 1 = Steps - Outages
  /\ runs <= Steps + lost + (IF pc = "working" THEN 1 ELSE 0)

BudgetInv == Typed /\ Accounts /\ WorkBudget

\* Steps that add neither a step nor an outage to the journal.
Uncounted == UNCHANGED <<Steps, Outages, runs>>

LEMMA AccountsKept == BudgetInv /\ [Next]_vars => (Accounts /\ WorkBudget)'
<1> SUFFICES ASSUME BudgetInv, [Next]_vars PROVE (Accounts /\ WorkBudget)'
  OBVIOUS
<1>0. /\ journal \in Seq(Event) /\ Steps \in Nat /\ Outages \in Nat
      /\ iteration \in Nat /\ runs \in Nat /\ lost \in Nat
  BY Counted DEF BudgetInv, Typed, TypeOK
<1>a. journal' = journal => UNCHANGED <<Steps, Outages>>
  BY DEF Steps, Outages, At
<1>b. \A e \in Event : journal' = Append(journal, e)
        => /\ Steps' = (IF e.step = "step" THEN Steps + 1 ELSE Steps)
           /\ Outages' = (IF e.step = "verify" /\ e.status = "HARNESS-ERROR"
                            THEN Outages + 1 ELSE Outages)
  BY <1>0, CountsAppended
<1> USE <1>0, LimitAssumption
        DEF BudgetInv, Accounts, WorkBudget, StopAs, approval, locals, counters, history
<1>1. ASSUME NEW g \in Goals, NEW v \in BOOLEAN, Invoke(g, v) PROVE (Accounts /\ WorkBudget)'
  BY <1>1, <1>a DEF Invoke
<1>2. ASSUME NEW why \in Reasons, NEW verified \in BOOLEAN,
             journal' = Append(journal, Outcome(why, verified))
      PROVE  UNCHANGED <<Steps, Outages>>
  <2>1. Outcome(why, verified) \in Event /\ Outcome(why, verified).step = "outcome"
    BY Events DEF Outcome
  <2> QED
    BY <1>2, <1>b, <2>1
<1>3. CASE ExecutorUnavailable
  BY <1>2, <1>3 DEF ExecutorUnavailable, Reasons
<1>4. CASE BindIntent
  <2>1. \/ UNCHANGED journal
        \/ journal' = Append(journal, [step |-> "intent", goal |-> goal])
    BY <1>4 DEF BindIntent
  <2>2. goal \in Goals
    BY DEF Typed, TypeOK
  <2>3. UNCHANGED <<Steps, Outages>>
    BY <1>a, <1>b, <2>1, <2>2, Events
  <2>4. pc' \in {"cached", "finish"} /\ pc = "bind" /\ (pc' = "finish" => stop' # "max_iterations")
    BY <1>4 DEF BindIntent
  <2> QED
    BY <1>4, <2>3, <2>4 DEF BindIntent
<1>5. CASE ReadOutcome
  BY <1>5, <1>a DEF ReadOutcome, CachedPath
<1>6. CASE Recheck
  <2>1. PICK v \in Verdicts :
          /\ journal' = Append(journal, CheckEvent("resume_verify", v))
          /\ \/ StopAs("verified") \/ StopAs("harness_error") \/ pc' = "invalidate"
    BY <1>6 DEF Recheck
  <2>2. UNCHANGED <<Steps, Outages>>
    BY <1>b, <2>1, Events DEF CheckEvent
  <2> QED
    BY <1>6, <2>1, <2>2 DEF Recheck
<1>7. CASE Invalidate
  BY <1>2, <1>7 DEF Invalidate, Reasons
<1>8. CASE Resume
  BY <1>8, <1>a DEF Resume, ResumedIteration
<1>9. CASE Gate
  <2>1. \/ pc' \in {"loop", "notify"}
        \/ StopAs("approval_rejected") \/ StopAs("awaiting_approval")
    BY <1>9 DEF Gate, Decided
  <2> QED
    BY <1>9, <1>a, <2>1 DEF Gate
<1>10. CASE NotifyApprover
  BY <1>10, <1>a DEF NotifyApprover, Decided
<1>11. CASE LoopEnds
  BY <1>11, <1>a DEF LoopEnds
<1>12. CASE StartStep
  BY <1>12, <1>a DEF StartStep
<1>13. CASE StepReturns
  <2>1. Steps' = Steps + 1 /\ Outages' = Outages
    BY <1>13, <1>b, Events DEF StepReturns
  <2> QED
    BY <1>13, <2>1 DEF StepReturns
<1>14. CASE StepRaises
  BY <1>14, <1>a DEF StepRaises
<1>15. CASE Verify
  <2>1. PICK v \in Verdicts :
          /\ journal' = Append(journal, CheckEvent("verify", v))
          /\ IF v.status = "FEATURE-FAIL"
               THEN StopAs("stuck_no_progress") \/ pc' = "loop"
               ELSE StopAs(IF v.status = "PASS" THEN "verified" ELSE "harness_error")
    BY <1>15 DEF Verify
  <2>2. /\ Steps' = Steps
        /\ Outages' = IF v.status = "HARNESS-ERROR" THEN Outages + 1 ELSE Outages
    BY <1>b, <2>1, Events DEF CheckEvent
  <2> QED
    BY <1>15, <2>1, <2>2 DEF Verify
<1>16. CASE Finish
  <2>1. UNCHANGED <<Steps, Outages>>
    BY <1>2, <1>16 DEF Finish, Typed
  <2> QED
    BY <1>16, <2>1 DEF Finish
<1>17. CASE Die
  BY <1>17, <1>a DEF Die
<1>18. ASSUME NEW d \in Decisions, Decide(d) PROVE (Accounts /\ WorkBudget)'
  BY <1>18, <1>a DEF Decide
<1>19. CASE Edit
  BY <1>19, <1>a DEF Edit
<1>20. CASE UNCHANGED vars
  BY <1>20, <1>a DEF vars
<1> QED
  BY <1>1, <1>3, <1>4, <1>5, <1>6, <1>7, <1>8, <1>9, <1>10, <1>11, <1>12, <1>13,
     <1>14, <1>15, <1>16, <1>17, <1>18, <1>19, <1>20 DEF Next, Window, Agent

-----------------------------------------------------------------------------
(* What the journal claims.                                                 *)

\* From the moment a window has withdrawn a claim, or found none, until it
\* records its own outcome, the journal claims no completion.
NoClaim ==
  pc \in {"resume", "gate", "notify", "loop", "working", "verify"} => ~ClaimsVerified

ClaimInv == Typed /\ NoClaim

LEMMA ClaimKept == ClaimInv /\ [Next]_vars => NoClaim'
<1> SUFFICES ASSUME ClaimInv, [Next]_vars PROVE NoClaim'
  OBVIOUS
<1>0. journal \in Seq(Event)
  BY DEF ClaimInv, Typed, TypeOK
<1>a. journal' = journal => (ClaimsVerified' <=> ClaimsVerified)
  BY DEF ClaimsVerified, Recorded, Last, Latest, At
<1>b. \A e \in Event : journal' = Append(journal, e)
        => (ClaimsVerified' <=> IF e.step = "outcome" THEN e.verified ELSE ClaimsVerified)
  BY <1>0, LastAppended
<1> USE DEF ClaimInv, NoClaim, StopAs
<1>1. ASSUME NEW g \in Goals, NEW v \in BOOLEAN, Invoke(g, v) PROVE NoClaim'
  BY <1>1 DEF Invoke
<1>2. CASE ExecutorUnavailable \/ BindIntent \/ Finish \/ Die
  <2>1. pc' \in {"idle", "cached", "finish"}
    BY <1>2 DEF ExecutorUnavailable, BindIntent, Finish, Die
  <2> QED
    BY <2>1
<1>3. CASE ReadOutcome
  BY <1>3, <1>a DEF ReadOutcome, CachedPath
<1>4. CASE Recheck
  <2>1. pc' \in {"finish", "invalidate"}
    BY <1>4 DEF Recheck
  <2> QED
    BY <2>1
<1>5. CASE Invalidate
  <2>1. /\ Outcome("acceptance_invalidated", FALSE) \in Event
        /\ Outcome("acceptance_invalidated", FALSE).step = "outcome"
        /\ Outcome("acceptance_invalidated", FALSE).verified = FALSE
    BY DEF Outcome, Event, Reasons
  <2> QED
    BY <1>5, <1>b, <2>1 DEF Invalidate
<1>6. CASE Resume
  BY <1>6, <1>a DEF Resume
<1>7. CASE Gate
  BY <1>7, <1>a DEF Gate
<1>8. CASE NotifyApprover
  BY <1>8, <1>a DEF NotifyApprover
<1>9. CASE LoopEnds \/ StartStep
  BY <1>9, <1>a DEF LoopEnds, StartStep
<1>10. CASE StepReturns
  BY <1>10, <1>b, Events DEF StepReturns
<1>11. CASE StepRaises
  BY <1>11, <1>a DEF StepRaises
<1>12. CASE Verify
  <2>1. PICK v \in Verdicts : journal' = Append(journal, CheckEvent("verify", v))
    BY <1>12 DEF Verify
  <2>2. ~ClaimsVerified /\ ~ClaimsVerified'
    BY <1>12, <1>b, <2>1, Events DEF Verify, CheckEvent
  <2> QED
    BY <2>2
<1>13. ASSUME NEW d \in Decisions, Decide(d) PROVE NoClaim'
  BY <1>13, <1>a DEF Decide
<1>14. CASE Edit
  BY <1>14, <1>a DEF Edit
<1>15. CASE UNCHANGED vars
  BY <1>15, <1>a DEF vars
<1> QED
  BY <1>1, <1>2, <1>3, <1>4, <1>5, <1>6, <1>7, <1>8, <1>9, <1>10, <1>11, <1>12,
     <1>13, <1>14, <1>15 DEF Next, Window, Agent

\* The accounts hold at the start, whichever journal the run finds.
LEMMA AccountsStart == Init => Accounts /\ WorkBudget
<1> SUFFICES ASSUME Init PROVE Accounts /\ WorkBudget
  OBVIOUS
<1>1. OutageAt = {}
  BY DEF Init, OutageAt, At
<1>2. Outages = 0
  BY <1>1, FS_EmptySet DEF Outages, OutageAt
<1>3. Steps \in Nat
  BY StartsTyped, Counted DEF Typed, TypeOK
<1>4. pc = "idle" /\ runs = 0 /\ lost = 0
  BY DEF Init
<1> QED
  BY <1>2, <1>3, <1>4, LimitAssumption DEF Accounts, WorkBudget

\* The work of a shift is bounded over all its windows by the budget, the steps
\* an outage left unjudged and the ones that left no trace; and a run gives up
\* for max_iterations only when it spent them on steps that were judged.
THEOREM BudgetHolds == Spec => []WorkBudget
<1>1. BudgetInv /\ [Next]_vars => BudgetInv'
  BY TypesKept, AccountsKept DEF BudgetInv
<1>2. Init => BudgetInv
  BY StartsTyped, AccountsStart DEF BudgetInv
<1>3. BudgetInv => WorkBudget
  BY DEF BudgetInv
<1> QED
  BY <1>1, <1>2, <1>3, PTL DEF Spec

\* While the agent changes the sources, the journal claims no completion.
THEOREM ClaimHolds == Spec => []ClaimWithdrawn
<1>1. ClaimInv /\ [Next]_vars => ClaimInv'
  BY TypesKept, ClaimKept DEF ClaimInv
<1>2. Init => ClaimInv
  BY StartsTyped DEF ClaimInv, NoClaim, Init
<1>3. ClaimInv => ClaimWithdrawn
  BY DEF ClaimInv, NoClaim, ClaimWithdrawn
<1> QED
  BY <1>1, <1>2, <1>3, PTL DEF Spec
=============================================================================
