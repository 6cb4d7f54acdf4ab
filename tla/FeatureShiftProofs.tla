-------------------------- MODULE FeatureShiftProofs --------------------------
(***************************************************************************)
(* Proofs about FeatureShift: what "done" means across windows that die,    *)
(* and that an approval record stands for the feature it was asked for.     *)
(***************************************************************************)
EXTENDS FeatureShift, WellFoundedInduction, TLAPS

Types ==
  /\ plan \in [Features -> Items]
  /\ status \in [Features -> {"pending", "done"}]
  /\ relay \in [0..N -> {"none", "pending", "approved", "rejected"}]
  /\ subject \in [0..N -> 0..N]
  /\ current \in 0..N
  /\ accepted \subseteq Features

\* Past pick the window has a feature, past the verifier an accepted one.
Chosen ==
  /\ pc \notin {"idle", "pick"} => current \in Features
  /\ pc \in {"verified", "mark", "saving"} => current \in accepted

\* A request names the feature whose id it has; the run's own id is only used
\* for features outside the risk categories.
Named ==
  \A id \in 0..N : relay[id] # "none" =>
    IF id = RunId THEN subject[id] \in Features /\ ~RequiresApproval(subject[id])
                  ELSE subject[id] = id

\* The approval of a red-line feature is its own.
Approved == \A f \in Features :
  RequiresApproval(f) /\ relay[f] = "approved" => f \in blessed

IInv == /\ Types /\ Chosen /\ Named /\ Approved
        /\ DoneIsAccepted /\ AllDoneIsTrue

-----------------------------------------------------------------------------
\* A set of numbers has a least one.
LEMMA Least ==
  ASSUME NEW S \in SUBSET Nat, S # {}
  PROVE  \E m \in S : \A n \in S : m <= n
<1>1. \E m \in S : \A n \in S : ~(<<n, m>> \in OpToRel(<, Nat))
  BY NatLessThanWellFounded, WFMin, Zenon
<1>2. \A m, n \in Nat : n < m => <<n, m>> \in OpToRel(<, Nat)
  BY DEF OpToRel
<1>3. \E m \in S : \A n \in S : ~(n < m)
  BY <1>1, <1>2, Zenon
<1> QED
  BY <1>3

\* While something is pending there is a next feature: of the most urgent
\* priority, the first in the file.
LEMMA Picked == Types /\ Pending # {} => NextPending \in Pending
<1> SUFFICES ASSUME Types, Pending # {} PROVE NextPending \in Pending
  OBVIOUS
<1> DEFINE Urgency == {plan[f].priority : f \in Pending}
<1>1. \A f \in Pending : f \in Nat /\ plan[f].priority \in Nat
  BY CountAssumption, ItemAssumption DEF Types, Pending, Features, Item
<1>2. PICK p \in Urgency : \A q \in Urgency : p <= q
  <2>1. Urgency \in SUBSET Nat /\ Urgency # {}
    BY <1>1
  <2> QED
    BY <2>1, Least
<1> DEFINE First == {f \in Pending : plan[f].priority = p}
<1>3. PICK f \in First : \A g \in First : f <= g
  <2>1. First \in SUBSET Nat /\ First # {}
    BY <1>1, <1>2
  <2> QED
    BY <2>1, Least
<1>4. \A g \in Pending \ {f} : Before(f, g)
  <2> SUFFICES ASSUME NEW g \in Pending \ {f} PROVE Before(f, g)
    OBVIOUS
  <2>1. p <= plan[g].priority /\ plan[f].priority = p
    BY <1>2, <1>3
  <2>2. plan[g].priority = p => f <= g
    BY <1>3
  <2>3. f \in Nat /\ g \in Nat /\ p \in Nat /\ plan[g].priority \in Nat
    BY <1>1, <1>3
  <2> QED
    BY <2>1, <2>2, <2>3 DEF Before
<1> QED
  BY <1>3, <1>4 DEF NextPending

LEMMA Initially == Init => IInv
BY CountAssumption
   DEF Init, IInv, Types, Chosen, Named, Approved, DoneIsAccepted, AllDoneIsTrue,
       Features, RunId

\* The steps of the invariant, one per action.
LEMMA Preserved == IInv /\ [Next]_vars => IInv'
<1> SUFFICES ASSUME IInv, [Next]_vars PROVE IInv'
  OBVIOUS
<1> USE CountAssumption
    DEF IInv, Types, Chosen, Named, Approved, DoneIsAccepted, AllDoneIsTrue,
        RequiresApproval, approvals, tree, file, window
<1>0. Features \subseteq 0..N /\ RunId \in 0..N /\ RunId \notin Features
  BY DEF Features, RunId
<1>1. CASE Open
  BY <1>0, <1>1 DEF Open
<1>2. CASE Pick
  <2>1. CASE Pending = {}
    <3>1. accepted = Features
      BY <2>1 DEF Pending
    <3> QED
      BY <1>2, <2>1, <3>1 DEF Pick, Ends
  <2>2. CASE Pending # {}
    <3>1. NextPending \in Features
      BY <2>2, Picked DEF Pending
    <3> QED
      BY <1>0, <1>2, <2>2, <3>1 DEF Pick, Ends
  <2> QED
    BY <2>1, <2>2
<1>3. CASE Recheck
  BY <1>3 DEF Recheck, Blocked, Ends
<1>4. CASE Gate
  <2>1. CASE relay' = relay /\ subject' = subject
    BY <1>4, <2>1 DEF Gate, Blocked, Ends
  <2>2. CASE /\ Gated(current) /\ configured /\ relay[ApprovalId(current)] = "none"
             /\ relay' = [relay EXCEPT ![ApprovalId(current)] = "pending"]
             /\ subject' = [subject EXCEPT ![ApprovalId(current)] = current]
             /\ Blocked
    <3>1. current \in Features /\ UNCHANGED <<file, blessed, window, accepted>>
      BY <1>4 DEF Gate
    <3>2. ApprovalId(current) \in 0..N
      BY <1>0, <3>1 DEF ApprovalId
    <3>3. ApprovalId(current) = IF RequiresApproval(current) THEN current ELSE RunId
      BY DEF ApprovalId
    <3>4. Named'
      <4> DEFINE a == ApprovalId(current)
      <4>1. \A id \in 0..N : id # a => relay'[id] = relay[id] /\ subject'[id] = subject[id]
        BY <2>2
      <4>2. subject'[a] = current
        BY <2>2, <3>2
      <4>3. plan' = plan
        BY <3>1
      <4>4. IF a = RunId THEN current \in Features /\ ~RequiresApproval(current)
                        ELSE current = a
        BY <1>0, <3>1, <3>3
      <4> HIDE DEF a
      <4> SUFFICES ASSUME NEW id \in 0..N, relay'[id] # "none"
                   PROVE  IF id = RunId
                            THEN subject'[id] \in Features
                                 /\ ~RequiresApproval(subject'[id])
                            ELSE subject'[id] = id
        BY <4>3
      <4>5. CASE id = a
        BY <4>2, <4>4, <4>5
      <4>6. CASE id # a
        BY <4>1, <4>6
      <4> QED
        BY <4>5, <4>6
    <3>5. Approved'
      BY <2>2, <3>1, <3>2
    <3> QED
      BY <1>4, <2>2, <3>1, <3>2, <3>4, <3>5 DEF Blocked, Ends
  <2> QED
    BY <1>4, <2>1, <2>2 DEF Gate
<1>5. CASE Work
  BY <1>5 DEF Work, Blocked, Ends
<1>6. CASE Commit
  BY <1>6 DEF Commit
<1>7. CASE Truncate
  BY <1>7 DEF Truncate
<1>8. CASE Save
  BY <1>8 DEF Save, Saved
<1>9. CASE Die
  BY <1>9 DEF Die
<1>10. ASSUME NEW id \in 0..N, NEW d \in {"approved", "rejected"}, Decide(id, d)
       PROVE  IInv'
  <2>1. Approved'
    <3> SUFFICES ASSUME NEW f \in Features, RequiresApproval(f), relay'[f] = "approved"
                 PROVE  f \in blessed'
      BY <1>10 DEF Decide
    <3>1. CASE id = f
      BY <1>0, <1>10, <3>1 DEF Decide
    <3>2. CASE id # f
      BY <1>0, <1>10, <3>2 DEF Decide
    <3> QED
      BY <3>1, <3>2
  <2> QED
    BY <1>10, <2>1 DEF Decide
<1>11. CASE Review
  BY <1>11 DEF Review
<1>12. CASE UNCHANGED vars
  BY <1>12 DEF vars
<1> QED
  BY <1>1, <1>2, <1>3, <1>4, <1>5, <1>6, <1>7, <1>8, <1>9, <1>10, <1>11, <1>12
     DEF Next, Window

LEMMA Invariance == Spec => []IInv
BY Initially, Preserved, PTL DEF Spec

\* A feature is done only if the verifier passed it, whatever window died where,
\* and "all_features_done" reports a list of which every feature was accepted.
THEOREM DoneHolds == Spec => []DoneIsTrue
BY Invariance, PTL DEF IInv, DoneIsTrue

\* A red-line feature is worked on only with the approval of a person who was
\* shown that very feature.
THEOREM RedLineHolds == Spec => RedLineIsBlessed
<1>1. IInv /\ [Next]_vars =>
        [pc = "gate" /\ pc' = "work" /\ RequiresApproval(current)
           => current \in blessed]_vars
  <2> SUFFICES ASSUME IInv, Next, pc = "gate", pc' = "work", RequiresApproval(current)
               PROVE  current \in blessed
    OBVIOUS
  <2>1. Gate
    BY DEF Next, Window, Open, Pick, Recheck, Work, Commit, Truncate, Save, Die,
           Decide, Review, Ends, Blocked
  <2>2. current \in Features
    BY DEF IInv, Chosen
  <2>3. ApprovalId(current) = current /\ Gated(current)
    BY DEF ApprovalId, Gated
  <2>4. relay[current] = "approved"
    BY <2>1, <2>3 DEF Gate, Blocked, Ends
  <2> QED
    BY <2>2, <2>4 DEF IInv, Approved
<1> QED
  BY <1>1, Invariance, PTL DEF Spec, RedLineIsBlessed

\* Autonomy is earned: prax commits on its own only next to work that is simple
\* and has passed a behavioral verifier, in whatever window.
THEOREM EarnedHolds == Spec => CommitIsEarned
<1>1. IInv /\ [Next]_vars =>
        [commits' # commits => /\ plan[current].level = "SIMPLE"
                               /\ plan[current].strength = 3
                               /\ current \in accepted]_vars
  <2> SUFFICES ASSUME IInv, Next, commits' # commits
               PROVE  /\ plan[current].level = "SIMPLE"
                      /\ plan[current].strength = 3
                      /\ current \in accepted
    OBVIOUS
  <2>1. Commit
    BY DEF Next, Window, Open, Pick, Recheck, Gate, Work, Truncate, Save, Die, Decide,
           Review, tree
  <2>2. RouteStep(current) = "autonomous" /\ current \in accepted
    BY <2>1 DEF Commit, tree, IInv, Chosen
  <2> QED
    BY <2>2 DEF RouteStep
<1> QED
  BY <1>1, Invariance, PTL DEF Spec, CommitIsEarned
=============================================================================
