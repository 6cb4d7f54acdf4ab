-------------------------- MODULE AgentLoopProofs --------------------------
(***************************************************************************)
(* Proofs about the agents: AgentLoop for any batches, configuration,      *)
(* upgrade path and limits, RalphRun and TeamRun for any todo list and any *)
(* decomposition, FileEdits for any agents, files and lists of edits.      *)
(***************************************************************************)
EXTENDS AgentLoop, RalphRun, TeamRun, FileEdits,
        FiniteSetTheorems, WellFoundedInduction, SequenceTheorems, TLAPS

\* Calls are submitted in order, and so far each has a stage.
Shape ==
  /\ calls \in Seq(Tools \cup Sentinels)
  /\ stage \in [DOMAIN calls -> {"new", "queued", "running", "done"}]

InOrder ==
  \A i, j \in Positions : i < j /\ stage[i] = "new" => stage[j] = "new"

ExecInv == Shape /\ InOrder /\ Sequenced

\* The whole loop leaves the executor alone, empties it, fills it or lets it take
\* one step.
ExecutorStep ==
  \/ UNCHANGED executorVars
  \/ calls' = <<>> /\ stage' = <<>>
  \/ \E c \in Seq(Tools \cup Sentinels) : Dispatch(c)
  \/ \E i \in Positions : Submit(i) \/ StartQueued(i) \/ \E r \in Outcomes : Returns(i, r)

-----------------------------------------------------------------------------
(* The executor.                                                            *)

\* No calls at all are in order.
LEMMA EmptyInv == calls = <<>> /\ stage = <<>> => ExecInv
  <1> SUFFICES ASSUME calls = <<>>, stage = <<>> PROVE ExecInv
    OBVIOUS
  <1>1. DOMAIN calls = {} /\ calls \in Seq(Tools \cup Sentinels)
    OBVIOUS
  <1>2. stage \in [DOMAIN calls -> {"new", "queued", "running", "done"}]
    BY <1>1
  <1> QED
    BY <1>1, <1>2 DEF ExecInv, Shape, InOrder, Sequenced, Positions

\* Positions are numbers.
LEMMA PositionsAreNat == ASSUME Shape PROVE Positions \subseteq Nat \ {0}
  <1>1. Positions = 1..Len(calls) /\ Len(calls) \in Nat
    BY DEF Shape, Positions
  <1> QED
    BY <1>1

\* Submitting keeps the executor's invariant.
LEMMA SubmitInv == ASSUME ExecInv, NEW i \in Positions, Submit(i) PROVE ExecInv'
  <1> USE PositionsAreNat DEF ExecInv
  <1>1. calls' = calls /\ Positions' = Positions
    BY DEF Submit, Positions
  <1>2. \A k \in Positions : k # i => stage'[k] = stage[k]
    BY DEF Submit, Shape, Positions
  <1>3. stage[i] = "new" /\ stage'[i] \in {"running", "queued"}
        /\ (stage'[i] = "running" => Launches(i))
    BY DEF Submit, Shape, Positions
  <1>4. Shape'
    BY <1>1 DEF Submit, Shape, Positions
  <1>5. \A j \in Positions : j < i => stage[j] # "new"
    BY DEF Submit
  <1>6. InOrder'
    <2> SUFFICES ASSUME NEW j \in Positions, NEW k \in Positions, j < k, stage'[j] = "new"
                 PROVE  stage'[k] = "new"
      BY <1>1 DEF InOrder
    <2>1. j # i /\ stage[j] = "new"
      BY <1>2, <1>3
    <2>2. stage[k] = "new" /\ k # i
      BY <2>1, <1>5 DEF InOrder
    <2> QED
      BY <2>2, <1>2
  <1>7. Sequenced'
    <2> SUFFICES ASSUME NEW j \in Positions, NEW k \in Positions, j < k,
                        stage'[k] \in {"running", "done"}, ~(Safe(j)' /\ Safe(k)')
                 PROVE  stage'[j] = "done"
      BY <1>1 DEF Sequenced
    <2>1. ~(Safe(j) /\ Safe(k))
      BY <1>1 DEF Safe
    <2>2. CASE k = i
      <3>1. Launches(k)
        BY <2>2, <1>3
      <3>2. j \in 1..(k - 1)
        OBVIOUS
      <3> QED
        BY <3>1, <3>2, <2>1 DEF Launches
    <2>3. CASE k # i
      <3>1. stage[k] \in {"running", "done"}
        BY <2>3, <1>2
      <3>2. stage[j] = "done"
        BY <3>1, <2>1 DEF Sequenced
      <3> QED
        BY <3>2, <1>2, <1>3
    <2> QED
      BY <2>2, <2>3
  <1> QED
    BY <1>4, <1>6, <1>7

\* Taking the queue's front keeps it.
LEMMA StartInv == ASSUME ExecInv, NEW i \in Positions, StartQueued(i) PROVE ExecInv'
  <1> USE PositionsAreNat DEF ExecInv
  <1>1. calls' = calls /\ Positions' = Positions
    BY DEF StartQueued, Positions
  <1>2. \A k \in Positions : k # i => stage'[k] = stage[k]
    BY DEF StartQueued, Shape, Positions
  <1>3. stage[i] = "queued" /\ stage'[i] = "running"
    BY DEF StartQueued, Shape, Positions
  <1>4. Shape'
    BY <1>1 DEF StartQueued, Shape, Positions
  <1>5. \A j \in Positions : j < i => stage[j] = "done"
    <2> SUFFICES ASSUME NEW j \in Positions, j < i PROVE stage[j] = "done"
      OBVIOUS
    <2>1. j \in 1..(i - 1)
      OBVIOUS
    <2>2. stage[j] \in {"new", "queued", "running", "done"}
      BY DEF Shape, Positions
    <2> QED
      BY <2>1, <2>2 DEF StartQueued
  <1>6. InOrder'
    BY <1>1, <1>2, <1>3 DEF InOrder, StartQueued
  <1>7. Sequenced'
    <2> SUFFICES ASSUME NEW j \in Positions, NEW k \in Positions, j < k,
                        stage'[k] \in {"running", "done"}, ~(Safe(j)' /\ Safe(k)')
                 PROVE  stage'[j] = "done"
      BY <1>1 DEF Sequenced
    <2>1. ~(Safe(j) /\ Safe(k))
      BY <1>1 DEF Safe
    <2>2. CASE k = i
      BY <2>2, <1>5, <1>2
    <2>3. CASE k # i
      <3>1. stage[k] \in {"running", "done"}
        BY <2>3, <1>2
      <3>2. stage[j] = "done"
        BY <3>1, <2>1 DEF Sequenced
      <3> QED
        BY <3>2, <1>2, <1>3
    <2> QED
      BY <2>2, <2>3
  <1> QED
    BY <1>4, <1>6, <1>7

\* A call that returns keeps it.
LEMMA ReturnInv ==
  ASSUME ExecInv, NEW i \in Positions, NEW r \in Outcomes, Returns(i, r) PROVE ExecInv'
  <1> USE PositionsAreNat DEF ExecInv
  <1>1. calls' = calls /\ Positions' = Positions
    BY DEF Returns, Positions
  <1>2. \A k \in Positions : k # i => stage'[k] = stage[k]
    BY DEF Returns, Shape, Positions
  <1>3. stage[i] = "running" /\ stage'[i] = "done"
    BY DEF Returns, Shape, Positions
  <1>4. Shape'
    BY <1>1 DEF Returns, Shape, Positions
  <1>5. InOrder'
    BY <1>1, <1>2, <1>3 DEF InOrder
  <1>6. Sequenced'
    BY <1>1, <1>2, <1>3 DEF Sequenced, Safe
  <1> QED
    BY <1>4, <1>5, <1>6

\* A new response starts with nothing submitted.
LEMMA DispatchInv ==
  ASSUME NEW c \in Seq(Tools \cup Sentinels), Dispatch(c) PROVE ExecInv'
  <1>1. Shape' /\ \A i \in Positions' : stage'[i] = "new"
    BY DEF Dispatch, Shape, Positions
  <1> QED
    BY <1>1 DEF ExecInv, InOrder, Sequenced

-----------------------------------------------------------------------------
(* The loop around it.                                                      *)

\* Whatever the guards make of an answer has calls the executor knows.
LEMMA AnswersAreCalls ==
  ASSUME AgentAssumption, NEW a \in Answers, NEW clean \in BOOLEAN, NEW good \in BOOLEAN
  PROVE  Evaluator(QualityGate(LoopDetection(a), clean), good).calls
           \in Seq(Tools \cup Sentinels)
  <1>1. a.calls \in Seq(Tools \cup Sentinels)
    <2>1. CASE \E b \in Batches : a = Asks(b)
      BY <2>1 DEF AgentAssumption, Asks
    <2>2. CASE \E e \in BOOLEAN : a = Final("end_turn", e)
      BY <2>2 DEF Final
    <2> QED
      BY <2>1, <2>2 DEF Answers
  <1>2. LoopDetection(a).calls \in Seq(Tools \cup Sentinels)
    BY <1>1 DEF LoopDetection, Final
  <1>3. /\ <<"__completion_check__">> \in Seq(Tools \cup Sentinels)
        /\ <<"__evaluator_feedback__">> \in Seq(Tools \cup Sentinels)
    BY DEF Sentinels
  <1>4. QualityGate(LoopDetection(a), clean).calls \in Seq(Tools \cup Sentinels)
    BY <1>2, <1>3 DEF QualityGate, Asks
  <1> QED
    BY <1>3, <1>4 DEF Evaluator, Asks

\* Every step of the loop is one of the executor's.
LEMMA LoopIsExecutor == ASSUME AgentAssumption, [Next]_vars PROVE ExecutorStep
  <1>1. CASE UNCHANGED vars
    BY <1>1 DEF vars, ExecutorStep, executorVars
  <1>2. CASE Iterate \/ ModelFails \/ Upgrade \/ Return
    BY <1>2 DEF Iterate, ModelFails, Upgrade, Return, ExecutorStep
  <1>3. CASE \E a \in Answers, clean, good \in BOOLEAN : ModelAnswers(a, clean, good)
    <2> PICK a \in Answers, clean \in BOOLEAN, good \in BOOLEAN : ModelAnswers(a, clean, good)
      BY <1>3
    <2> DEFINE answered == Evaluator(QualityGate(LoopDetection(a), clean), good)
    <2>1. UNCHANGED executorVars \/ Dispatch(answered.calls)
      BY DEF ModelAnswers
    <2> QED
      BY <2>1, AnswersAreCalls DEF ExecutorStep
  <1>4. CASE ToolStep
    BY <1>4 DEF ToolStep, Schedule, ToolReturns, ExecutorStep
  <1>5. CASE ProcessResults
    BY <1>5 DEF ProcessResults, ExecutorStep
  <1> QED
    BY <1>1, <1>2, <1>3, <1>4, <1>5 DEF Next

\* The executor's invariant is inductive.
LEMMA ExecStep == ASSUME ExecInv, [Next]_vars PROVE ExecInv'
  <1>1. ExecutorStep
    BY LoopIsExecutor, AgentAssumption
  <1>2. CASE UNCHANGED executorVars
    BY <1>2 DEF executorVars, ExecInv, Shape, InOrder, Sequenced, Positions, Safe
  <1>3. CASE calls' = <<>> /\ stage' = <<>>
    <2>1. DOMAIN calls' = {} /\ calls' \in Seq(Tools \cup Sentinels)
      BY <1>3
    <2>2. stage' \in [DOMAIN calls' -> {"new", "queued", "running", "done"}]
      BY <1>3, <2>1
    <2> QED
      BY <2>1, <2>2 DEF ExecInv, Shape, InOrder, Sequenced, Positions
  <1>4. CASE \E c \in Seq(Tools \cup Sentinels) : Dispatch(c)
    BY <1>4, DispatchInv
  <1>5. CASE \E i \in Positions : Submit(i) \/ StartQueued(i)
                                  \/ \E r \in Outcomes : Returns(i, r)
    BY <1>5, SubmitInv, StartInv, ReturnInv
  <1> QED
    BY <1>1, <1>2, <1>3, <1>4, <1>5 DEF ExecutorStep

\* A call that may change something runs alone and in its place, for any batch of
\* any length (_serial_queue and drain of streaming_tool_executor.py).
THEOREM SequencedHolds == Spec => []Sequenced
  <1>1. Init => ExecInv
    BY EmptyInv DEF Init, NoCalls
  <1>2. ExecInv /\ [Next]_vars => ExecInv'
    BY ExecStep
  <1>3. ExecInv => Sequenced
    BY DEF ExecInv
  <1> QED
    BY <1>1, <1>2, <1>3, PTL DEF Spec

-----------------------------------------------------------------------------
(* Loop detection.                                                          *)

\* What has been executed has been counted.
CountInv ==
  /\ counts \in [Signatures -> Nat] /\ executed \in [Signatures -> Nat]
  /\ \A s \in Signatures : executed[s] <= counts[s] /\ executed[s] < HardLimit

\* An answer that comes out of the chain as it went in was not stopped.
LEMMA UntouchedIsCounted ==
  ASSUME AgentAssumption, NEW b \in Batches, NEW clean \in BOOLEAN, NEW good \in BOOLEAN,
         Evaluator(QualityGate(LoopDetection(Asks(b)), clean), good) = Asks(b)
  PROVE  LoopDetection(Asks(b)) = Asks(b)
  <1> DEFINE stop == Final("safety_stop", FALSE)
             made == {Asks(<<"__completion_check__">>), Asks(<<"__evaluator_feedback__">>)}
  <1>1. b # <<>> /\ b \in Seq(Tools)
    BY DEF AgentAssumption
  <1>2. b[1] \in Tools
    BY <1>1
  <1>3. Asks(b) # stop
    BY <1>1 DEF Asks, Final
  <1>4. Asks(b) \notin made
    BY <1>2 DEF Asks, Tools
  <1>5. LoopDetection(Asks(b)) \in {Asks(b), stop}
    BY DEF LoopDetection
  <1>6. QualityGate(stop, clean) \in {stop} \cup made
    BY DEF QualityGate
  <1>7. Evaluator(QualityGate(stop, clean), good) \in {stop} \cup made
    BY <1>6 DEF Evaluator
  <1>8. CASE LoopDetection(Asks(b)) = stop
    <2>1. Evaluator(QualityGate(LoopDetection(Asks(b)), clean), good)
            = Evaluator(QualityGate(stop, clean), good)
      BY <1>8
    <2>2. Asks(b) \in {stop} \cup made
      BY <2>1, <1>7
    <2> QED
      BY <2>2, <1>3, <1>4
  <1> QED
    BY <1>5, <1>8

\* No answer of the model makes a batch run hard_limit times.
LEMMA AnswerCounts ==
  ASSUME AgentAssumption, CountInv, NEW a \in Answers, NEW clean \in BOOLEAN,
         NEW good \in BOOLEAN, ModelAnswers(a, clean, good)
  PROVE  CountInv'
  <1> DEFINE s == Signature(a.calls)
             answered == Evaluator(QualityGate(LoopDetection(a), clean), good)
  <1>0. NoCounts \in [Signatures -> Nat] /\ \A t \in Signatures : NoCounts[t] = 0
        /\ HardLimit \in Nat /\ HardLimit > 0
    BY DEF NoCounts, AgentAssumption
  <1>1. CASE IsFinal(a)
    <2>1. counts' = NoCounts /\ executed' = NoCounts
      BY <1>1 DEF ModelAnswers, Counted
    <2> QED
      BY <2>1, <1>0 DEF CountInv
  <1>2. CASE ~IsFinal(a)
    <2>1. PICK b \in Batches : a = Asks(b)
      BY <1>2 DEF Answers, Final, IsFinal
    <2>2. CASE s = <<>>
      <3>1. counts' = counts /\ executed' = executed
        BY <1>2, <2>2 DEF ModelAnswers, Counted
      <3> QED
        BY <3>1 DEF CountInv
    <2>3. CASE s # <<>>
      <3>1. s \in Signatures
        BY <2>1, <2>3 DEF Signatures, Asks
      <3>2. counts' = [counts EXCEPT ![s] = @ + 1]
        BY <1>2, <2>3 DEF ModelAnswers, Counted
      <3>3. counts' \in [Signatures -> Nat] /\ \A t \in Signatures : counts'[t] >= counts[t]
            /\ counts'[s] = counts[s] + 1
        BY <3>1, <3>2 DEF CountInv
      <3>4. CASE answered # a
        <4>1. executed' = executed
          BY <1>2, <3>4 DEF ModelAnswers
        <4> QED
          BY <3>3, <4>1 DEF CountInv
      <3>5. CASE answered = a
        <4>1. LoopDetection(a) = a
          BY <2>1, <3>5, UntouchedIsCounted
        <4>2. a # Final("safety_stop", FALSE)
          BY <1>2 DEF IsFinal, Final
        <4>3. ~(Counted(a)[s] >= HardLimit)
          BY <1>2, <2>3, <4>1, <4>2 DEF LoopDetection
        <4>4. counts[s] + 1 < HardLimit
          BY <1>0, <1>2, <2>3, <3>1, <3>3, <4>3 DEF Counted, CountInv
        <4>5. executed' = [executed EXCEPT ![s] = @ + 1]
          BY <1>2, <2>3, <3>5 DEF ModelAnswers
        <4> QED
          BY <1>0, <3>1, <3>2, <4>4, <4>5 DEF CountInv
      <3> QED
        BY <3>4, <3>5
    <2> QED
      BY <2>2, <2>3
  <1> QED
    BY <1>1, <1>2

\* The same changing calls are executed less than hard_limit times between two
\* final answers, for every limit and whatever the other guards do with the answers.
THEOREM LoopsHold == Spec => []LoopsAreBroken
  <1>0. NoCounts \in [Signatures -> Nat] /\ \A t \in Signatures : NoCounts[t] = 0
        /\ HardLimit \in Nat /\ HardLimit > 0
    BY AgentAssumption DEF NoCounts, AgentAssumption
  <1>1. Init => CountInv
    BY <1>0 DEF Init, CountInv
  <1>2. CountInv /\ [Next]_vars => CountInv'
    <2> SUFFICES ASSUME CountInv, [Next]_vars PROVE CountInv'
      OBVIOUS
    <2>1. CASE \E a \in Answers, clean, good \in BOOLEAN : ModelAnswers(a, clean, good)
      BY <2>1, AnswerCounts, AgentAssumption
    <2>2. CASE Upgrade
      BY <2>2, <1>0 DEF Upgrade, CountInv
    <2>3. CASE Iterate \/ ModelFails \/ ToolStep \/ ProcessResults \/ Return \/ UNCHANGED vars
      BY <2>3 DEF Iterate, ModelFails, ToolStep, Schedule, ToolReturns, ProcessResults,
                  Return, vars, guards, history, CountInv
    <2> QED
      BY <2>1, <2>2, <2>3 DEF Next
  <1>3. CountInv => LoopsAreBroken
    BY DEF CountInv, LoopsAreBroken
  <1> QED
    BY <1>1, <1>2, <1>3, PTL DEF Spec

-----------------------------------------------------------------------------
(* The completion checks.                                                   *)

\* A final text is handed out only after a clean run of the completion checks on
\* the sources it leaves, for every chain of rejections and safety stops.
LEMMA CompletionHolds == Spec => []CompletionIsChecked
  <1>1. Init => CompletionIsChecked
    BY DEF Init, CompletionIsChecked
  <1>2. CompletionIsChecked /\ [Next]_vars => CompletionIsChecked'
    <2> SUFFICES ASSUME CompletionIsChecked, [Next]_vars PROVE CompletionIsChecked'
      OBVIOUS
    <2>1. CASE Iterate \/ ModelFails
      BY <2>1 DEF Iterate, ModelFails, Stop, CompletionIsChecked
    <2>2. CASE \E a \in Answers, clean, good \in BOOLEAN : ModelAnswers(a, clean, good)
      <3> PICK a \in Answers, clean \in BOOLEAN, good \in BOOLEAN : ModelAnswers(a, clean, good)
        BY <2>2
      <3> DEFINE stopped == LoopDetection(a)
                 gated   == QualityGate(stopped, clean)
                 answered    == Evaluator(gated, good)
      <3> SUFFICES ASSUME pc' = "over", config.checks PROVE checked'
        BY DEF ModelAnswers, CompletionIsChecked
      <3>1. /\ checked' = IF IsFinal(stopped) /\ config.checks /\ ~Rejects(stopped)
                            THEN clean ELSE checked
            /\ IF IsFinal(answered) THEN pc' = "over" ELSE pc' = "tools"
        BY DEF ModelAnswers, Stop
      <3>2. IsFinal(answered)
        BY <3>1
      <3>3. answered = gated /\ IsFinal(gated)
        BY <3>2 DEF Evaluator, Asks, IsFinal
      <3>4. gated = stopped /\ ~(Rejects(stopped) \/ (IsFinal(stopped) /\ config.checks /\ ~clean))
        BY <3>3 DEF QualityGate, Asks, IsFinal
      <3> QED
        BY <3>1, <3>3, <3>4
    <2>3. CASE ToolStep
      BY <2>3 DEF ToolStep, Schedule, ToolReturns, CompletionIsChecked, history
    <2>4. CASE ProcessResults \/ Upgrade \/ Return
      BY <2>4 DEF ProcessResults, Upgrade, Return, CompletionIsChecked
    <2>5. CASE UNCHANGED vars
      BY <2>5 DEF vars, history, CompletionIsChecked
    <2> QED
      BY <2>1, <2>2, <2>3, <2>4, <2>5 DEF Next
  <1> QED
    BY <1>1, <1>2, PTL DEF Spec

-----------------------------------------------------------------------------
(* The reported verdict.                                                    *)

Verified(i) == calls[i] = "VerifyCommand" /\ stage[i] = "done"

\* A set of numbers that is not empty has a least one.
LEMMA Least ==
  ASSUME NEW S \in SUBSET Nat, S # {}
  PROVE  \E m \in S : \A k \in S : ~(k < m)
  <1>1. \E m \in S : \A k \in S : ~(<<k, m>> \in OpToRel(<, Nat))
    BY NatLessThanWellFounded, WFMin, Zenon
  <1>2. \A m, k \in Nat : k < m => <<k, m>> \in OpToRel(<, Nat)
    BY DEF OpToRel
  <1> QED
    BY <1>1, <1>2, Zenon

\* A set of positions that is not empty has a last one.
LEMMA LastPosition ==
  ASSUME NEW n \in Nat, NEW S \in SUBSET (1..n), S # {}
  PROVE  \E i \in S : \A j \in S : j <= i
  <1> DEFINE T == {k \in Nat : n - k \in S}
  <1>1. T # {} /\ T \subseteq Nat
    <2>1. PICK i \in S : TRUE
      OBVIOUS
    <2>2. n - i \in T
      BY <2>1
    <2> QED
      BY <2>2
  <1>2. PICK m \in T : \A k \in T : ~(k < m)
    BY <1>1, Least
  <1>3. n - m \in S
    OBVIOUS
  <1>4. ASSUME NEW j \in S PROVE j <= n - m
    <2>1. n - j \in T
      OBVIOUS
    <2>2. n - j >= m
      BY <2>1, <1>2
    <2> QED
      BY <2>2
  <1> QED
    BY <1>3, <1>4

\* The last verification of this response that has returned, if any, is the last
\* one that ran; before the response's results are gone through, passed is older.
VerdictInv ==
  /\ outcome \in [DOMAIN calls -> Outcomes \cup {"none"}]
  /\ pc \in {"head", "model"} => (passed <=> lastVerify = "ok")
  /\ pc = "over" => (report.verified <=> lastVerify = "ok")
  /\ pc = "tools" /\ (\A i \in Positions : ~Verified(i)) => (passed <=> lastVerify = "ok")
  /\ pc = "tools" => \A i \in Positions :
       Verified(i) /\ (\A j \in Positions : Verified(j) => j <= i) => outcome[i] = lastVerify

\* The first call of a response that was not ready before returns or starts: what
\* has returned stays as it was.
LEMMA ScheduleVerdict ==
  ASSUME ExecInv, VerdictInv, NEW i \in Positions, Submit(i) \/ StartQueued(i),
         UNCHANGED <<pc, passed, lastVerify, report>>
  PROVE  VerdictInv'
  <1>1. calls' = calls /\ Positions' = Positions /\ outcome' = outcome
    BY DEF Submit, StartQueued, Positions
  <1>2. \A k \in Positions : k # i => stage'[k] = stage[k]
    BY DEF Submit, StartQueued, ExecInv, Shape, Positions
  <1>3. stage[i] \in {"new", "queued"} /\ stage'[i] \in {"running", "queued"}
    BY DEF Submit, StartQueued, ExecInv, Shape, Positions
  <1>4. \A k \in Positions : Verified(k)' <=> Verified(k)
    BY <1>1, <1>2, <1>3 DEF Verified
  <1> QED
    BY <1>1, <1>4 DEF VerdictInv

\* A call that returns is the last one to have done so, if it is a verification.
LEMMA ReturnVerdict ==
  ASSUME ExecInv, VerdictInv, NEW i \in Positions, NEW r \in Outcomes, Returns(i, r),
         pc = "tools",
         lastVerify' = IF calls[i] = "VerifyCommand" THEN r ELSE lastVerify,
         UNCHANGED <<pc, passed, report>>
  PROVE  VerdictInv'
  <1> USE PositionsAreNat DEF ExecInv
  <1>1. calls' = calls /\ Positions' = Positions
    BY DEF Returns, Positions
  <1>2. \A k \in Positions : k # i => stage'[k] = stage[k] /\ outcome'[k] = outcome[k]
    BY DEF Returns, Shape, Positions, VerdictInv
  <1>3. stage[i] = "running" /\ stage'[i] = "done" /\ outcome'[i] = r
    BY DEF Returns, Shape, Positions, VerdictInv
  <1>4. outcome' \in [DOMAIN calls' -> Outcomes \cup {"none"}]
    BY <1>1 DEF Returns, VerdictInv
  <1>5. CASE calls[i] = "VerifyCommand"
    <2>1. \A j \in Positions : Verified(j) => j < i
      <3> SUFFICES ASSUME NEW j \in Positions, Verified(j), ~(j < i) PROVE FALSE
        OBVIOUS
      <3>1. j # i /\ i < j
        BY <1>3 DEF Verified
      <3>2. stage[j] = "done" /\ ~(Safe(i) /\ Safe(j))
        BY <1>5 DEF Verified, Safe
      <3>3. stage[i] = "done"
        BY <3>1, <3>2 DEF Sequenced
      <3> QED
        BY <3>3, <1>3
    <2>2. Verified(i)'
      BY <1>1, <1>3, <1>5 DEF Verified
    <2>3. ASSUME NEW k \in Positions, Verified(k)',
                 \A j \in Positions : Verified(j)' => j <= k
          PROVE  k = i
      <3>1. i <= k
        BY <2>2, <2>3
      <3>2. k # i => Verified(k)
        BY <1>1, <1>2, <2>3 DEF Verified
      <3>3. k # i => k < i
        BY <3>2, <2>1
      <3> QED
        BY <3>1, <3>3
    <2>4. lastVerify' = r
      BY <1>5
    <2> QED
      BY <1>1, <1>3, <1>4, <2>2, <2>3, <2>4 DEF VerdictInv
  <1>6. CASE calls[i] # "VerifyCommand"
    <2>1. \A k \in Positions : (Verified(k)' <=> Verified(k)) /\ (Verified(k) => k # i)
      BY <1>1, <1>2, <1>6 DEF Verified
    <2>2. lastVerify' = lastVerify
      BY <1>6
    <2> QED
      BY <1>1, <1>2, <1>4, <2>1, <2>2 DEF VerdictInv
  <1> QED
    BY <1>5, <1>6

\* Going through the results in submission order finds the verification that ran last.
LEMMA ResultsVerdict ==
  ASSUME ExecInv, VerdictInv, ProcessResults PROVE VerdictInv'
  <1> USE PositionsAreNat DEF ExecInv
  <1> DEFINE V == {i \in Positions : calls[i] = "VerifyCommand"}
  <1>1. \A i \in Positions : Verified(i) <=> i \in V
    BY DEF ProcessResults, Drained, Verified
  <1>2. pc = "tools" /\ passed' = Verdict /\ lastVerify' = lastVerify /\ report' = report
    BY DEF ProcessResults, history
  <1>3. Verdict <=> lastVerify = "ok"
    <2>1. CASE V = {}
      BY <2>1, <1>1, <1>2 DEF Verdict, VerdictInv
    <2>2. CASE V # {}
      <3>1. PICK i \in V : \A j \in V : j <= i
        <4>1. Positions = 1..Len(calls) /\ Len(calls) \in Nat
          BY DEF Positions, Shape
        <4> QED
          BY <2>2, <4>1, LastPosition
      <3>2. outcome[i] = lastVerify
        BY <3>1, <1>1, <1>2 DEF VerdictInv
      <3>3. Verdict <=> outcome[i] = "ok"
        <4>1. V \subseteq Nat
          OBVIOUS
        <4>2. \A k \in V : (\A j \in V : j <= k) <=> k = i
          BY <3>1, <4>1
        <4> QED
          BY <2>2, <3>1, <4>2 DEF Verdict
      <3> QED
        BY <3>2, <3>3
    <2> QED
      BY <2>1, <2>2
  <1>4. pc' = "head" /\ calls' = <<>> /\ outcome' = <<>>
    BY DEF ProcessResults
  <1>5. DOMAIN calls' = {} /\ outcome' \in [DOMAIN calls' -> Outcomes \cup {"none"}]
    BY <1>4
  <1> QED
    BY <1>2, <1>3, <1>4, <1>5 DEF VerdictInv

\* The invariant of the verdict is inductive, given the executor's.
LEMMA VerdictStep == ASSUME ExecInv, VerdictInv, [Next]_vars PROVE VerdictInv'
  <1>1. CASE Iterate \/ ModelFails
    <2>1. calls' = calls /\ outcome' = outcome /\ passed' = passed /\ lastVerify' = lastVerify
      BY <1>1 DEF Iterate, ModelFails, executorVars, history
    <2>2. pc \in {"head", "model"} /\ pc' \in {"head", "model", "over"}
          /\ (pc' = "over" => report'.verified = passed)
      BY <1>1 DEF Iterate, ModelFails, Stop
    <2> QED
      BY <2>1, <2>2 DEF VerdictInv
  <1>2. CASE \E a \in Answers, clean, good \in BOOLEAN : ModelAnswers(a, clean, good)
    <2> PICK a \in Answers, clean \in BOOLEAN, good \in BOOLEAN : ModelAnswers(a, clean, good)
      BY <1>2
    <2> DEFINE answered == Evaluator(QualityGate(LoopDetection(a), clean), good)
    <2>1. passed' = passed /\ lastVerify' = lastVerify /\ pc = "model"
      BY DEF ModelAnswers
    <2>2. \/ /\ pc' = "over" /\ report'.verified = passed
             /\ calls' = calls /\ outcome' = outcome
          \/ pc' = "tools" /\ Dispatch(answered.calls)
      BY DEF ModelAnswers, Stop, executorVars
    <2>3. CASE pc' = "over"
      BY <2>1, <2>2, <2>3 DEF VerdictInv
    <2>4. CASE pc' = "tools"
      <3>1. Dispatch(answered.calls)
        BY <2>2, <2>4
      <3>2. outcome' \in [DOMAIN calls' -> Outcomes \cup {"none"}]
            /\ \A i \in Positions' : ~Verified(i)'
        BY <3>1 DEF Dispatch, Positions, Verified
      <3> QED
        BY <2>1, <2>4, <3>2 DEF VerdictInv
    <2> QED
      BY <2>2, <2>3, <2>4
  <1>3. CASE ToolStep
    <2> PICK i \in Positions : Schedule(i) \/ \E r \in Outcomes : ToolReturns(i, r)
      BY <1>3 DEF ToolStep
    <2>1. CASE Schedule(i)
      BY <2>1, ScheduleVerdict DEF Schedule, history
    <2>2. CASE \E r \in Outcomes : ToolReturns(i, r)
      BY <2>2, ReturnVerdict DEF ToolReturns
    <2> QED
      BY <2>1, <2>2
  <1>4. CASE ProcessResults
    BY <1>4, ResultsVerdict
  <1>5. CASE Upgrade
    BY <1>5 DEF Upgrade, VerdictInv, executorVars
  <1>6. CASE Return
    BY <1>6 DEF Return, VerdictInv, executorVars, history
  <1>7. CASE UNCHANGED vars
    BY <1>7 DEF vars, VerdictInv, executorVars, history, Positions, Verified
  <1> QED
    BY <1>1, <1>2, <1>3, <1>4, <1>5, <1>6, <1>7 DEF Next

\* Executor and verdict are right in every reachable state.
LEMMA VerdictSpec == Spec => [](ExecInv /\ VerdictInv)
  <1>1. Init => ExecInv /\ VerdictInv
    <2>1. Init => ExecInv
      BY EmptyInv DEF Init, NoCalls
    <2>2. ASSUME Init PROVE VerdictInv
      <3>1. calls = <<>> /\ outcome = <<>> /\ pc = "head" /\ passed = FALSE
            /\ lastVerify = "none"
        BY <2>2 DEF Init, NoCalls
      <3>2. DOMAIN calls = {} /\ outcome \in [DOMAIN calls -> Outcomes \cup {"none"}]
        BY <3>1
      <3> QED
        BY <3>1, <3>2 DEF VerdictInv
    <2> QED
      BY <2>1, <2>2
  <1>2. (ExecInv /\ VerdictInv) /\ [Next]_vars => (ExecInv /\ VerdictInv)'
    BY ExecStep, VerdictStep
  <1> QED
    BY <1>1, <1>2, PTL DEF Spec

\* What an attempt returns with can be relied on: its text passed the completion
\* checks, and its verdict is that of the verification that ran last.
THEOREM ReportHolds == Spec => []ReportIsTrue
  <1>1. VerdictInv => VerdictIsLatest
    BY DEF VerdictInv, VerdictIsLatest
  <1> QED
    BY <1>1, VerdictSpec, CompletionHolds, PTL DEF ReportIsTrue

\* No other model starts over what a verification passed and an answer reported.
THEOREM VerifiedHolds == Spec => VerifiedIsKept
  <1>1. VerdictInv /\ [Next]_vars
          => [attempt' # attempt => lastVerify # "ok" \/ report.empty]_vars
    <2> SUFFICES ASSUME VerdictInv, Next, attempt' # attempt
                 PROVE  lastVerify # "ok" \/ report.empty
      OBVIOUS
    <2>1. Upgrade
      BY DEF Next, Iterate, ModelFails, ModelAnswers, ToolStep, Schedule, ToolReturns,
             ProcessResults, Return
    <2> QED
      BY <2>1 DEF Upgrade, ShouldUpgrade, VerdictInv
  <1> QED
    BY <1>1, VerdictSpec, PTL DEF Spec, VerifiedIsKept

-----------------------------------------------------------------------------
(* RalphRun.                                                                *)

\* Among as many numbers in a row as the interval there is a multiple of it.
LEMMA MultipleInReach ==
  ASSUME NEW c \in Nat, NEW n \in Nat, NEW d \in Nat \ {0}, n >= c + d
  PROVE  \E k \in (c + 1) .. n : k % d = 0
<1> DEFINE q == c \div d
           k == d * q + d
<1>1. c = d * q + (c % d) /\ (c % d) \in 0 .. (d - 1) /\ q \in Nat
  OBVIOUS
<1>2. k \in (c + 1) .. n
  BY <1>1
<1>3. k % d = 0
  <2>1. k = d * (q + 1)
    BY <1>1
  <2> QED
    BY <1>1, <2>1
<1> QED
  BY <1>2, <1>3

\* No iteration up to n was due for a checkpoint after the one that is there.
NoneDue(n) == \A k \in (ckpt.iter + 1) .. n : k % Interval # 0

RalphTypes ==
  /\ rPc \in {"down", "plan", "loop", "first", "check", "recover", "close", "over"}
  /\ todos \in Lists /\ last \in Lists
  /\ ckpt.iter \in 0 .. MaxRalphIterations /\ iter \in 0 .. MaxRalphIterations
  /\ rPc \in {"plan", "first", "loop", "recover"} => iter < MaxRalphIterations
  /\ model # "none" /\ (ckpt = None \/ ckpt.model # "none")
  /\ unsaved \in BOOLEAN /\ overtaken \in BOOLEAN
  /\ rPc = "recover" => failed \in ErrorKinds

\* Where the count is against the checkpoint, at each place of run().
Checkpointed ==
  /\ rPc \in {"plan", "first"} => iter = 0 /\ ckpt = None
  /\ ~unsaved /\ rPc \in {"loop", "recover"} => NoneDue(iter)
  /\ ~unsaved /\ rPc # "over" => NoneDue(iter - 1)
  /\ rPc = "close" => iter = MaxRalphIterations \/ Pending = {} \/ ckpt # None \/ unsaved \/ overtaken
  /\ rPc = "over" /\ result = "partial" /\ ckpt = None /\ ~unsaved
       => NoneDue(iter - 1) /\ (iter = MaxRalphIterations \/ overtaken)

Stored ==
  /\ todos = Persisted(last)
  /\ rPc = "over" /\ result = "todos_complete" => \A c \in DOMAIN judged : judged[c] = "completed"

RalphInv == RalphTypes /\ Checkpointed /\ Stored

\* A checkpoint that is saved is not the absence of one.
LEMMA SaveMakes ==
  RalphInv /\ Save => \/ UNCHANGED ckpt /\ unsaved'
                      \/ ckpt'.iter = iter /\ ckpt'.model = model /\ ckpt' # None /\ unsaved' = unsaved
  BY DEF Save, RalphInv, RalphTypes, None

LEMMA NoneFound == ~Found => ckpt.iter = 0 /\ ckpt = None
  BY DEF Found, None

\* The store keeps a list or drops it.
LEMMA PersistedIsList == \A l \in Lists : Persisted(l) \in Lists
<1> EmptyList \in Lists
  <2>1. EmptyList \in [{} -> {"unfinished", "completed"}]
    BY DEF EmptyList
  <2>2. {} \in SUBSET Items
    OBVIOUS
  <2> QED
    BY <2>1, <2>2 DEF Lists
<1> QED
  BY DEF Persisted

\* The types, step by step.
LEMMA RalphTyped == RalphInv /\ [RalphNext]_ralphVars => RalphTypes'
<1> SUFFICES ASSUME RalphInv, [RalphNext]_ralphVars PROVE RalphTypes'
  OBVIOUS
<1> USE RalphAssumption DEF RalphInv
<1>1. CASE RalphStart
  <2>1. iter' \in 0 .. MaxRalphIterations /\ (rPc' = "plan" => iter' < MaxRalphIterations)
    BY <1>1, NoneFound DEF RalphStart, Resume, RalphTypes
  <2>2. rPc' \in {"plan", "check"} /\ UNCHANGED <<todos, last, ckpt>>
    BY <1>1 DEF RalphStart, Resume
  <2>3. model' # "none" /\ unsaved' \in BOOLEAN /\ UNCHANGED overtaken
    BY <1>1 DEF RalphStart
  <2> QED
    BY <2>1, <2>2, <2>3 DEF RalphTypes
<1>2. CASE Plan
  BY <1>2, PersistedIsList DEF Plan, Written, RalphTypes, Checkpointed
<1>3. ASSUME NEW l \in Lists, TodoWrite(l) PROVE RalphTypes'
  BY <1>3, PersistedIsList DEF TodoWrite, Written, RalphTypes
<1>4. CASE LoopEnds
  BY <1>4 DEF LoopEnds, RalphTypes, Checkpointed
<1>5. CASE FirstFails
  BY <1>5 DEF FirstFails, RalphTypes
<1>6. ASSUME NEW e \in ErrorKinds, LoopFails(e) PROVE RalphTypes'
  BY <1>6 DEF LoopFails, RalphTypes
<1>7. CASE Check
  BY <1>7, SaveMakes DEF Check, RalphTypes
<1>8. CASE Recover
  <2>1. model' # "none"
    <3>1. Recovery(failed, errs, model) = "upgrade_model" => NextModel(model) # "none"
      <4>1. failed[1] \in {"permission", "unknown", "timeout", "resource", "parse", "tool", "model"}
        <5>1. failed \in ErrorKinds
          BY <1>8 DEF Recover, RalphTypes
        <5>2. PICK t \in {"permission", "unknown", "timeout", "resource", "parse", "tool", "model"},
                   b \in BOOLEAN : failed = <<t, b>>
          BY <5>1, Zenon DEF ErrorKinds
        <5> QED
          BY <5>2
      <4> QED
        BY <4>1, Zenon DEF Recovery
    <3>2. model' = model \/ (Recovery(failed, errs, model) = "upgrade_model" /\ model' = NextModel(model))
      BY <1>8 DEF Recover
    <3> QED
      BY <3>1, <3>2 DEF RalphTypes
  <2> QED
    BY <1>8, <2>1, SaveMakes DEF Recover, RalphTypes
<1>9. CASE Close
  BY <1>9 DEF Close, Cleared, RalphTypes, None
<1>10. CASE RalphCrash
  BY <1>10 DEF RalphCrash, RalphTypes
<1>11. CASE UNCHANGED ralphVars
  BY <1>11 DEF ralphVars, RalphTypes
<1> QED
  BY <1>1, <1>2, <1>3, <1>4, <1>5, <1>6, <1>7, <1>8, <1>9, <1>10, <1>11 DEF RalphNext, RalphStep

\* The count against the checkpoint, step by step.
LEMMA RalphCheckpointed == RalphInv /\ [RalphNext]_ralphVars => Checkpointed'
<1> SUFFICES ASSUME RalphInv, [RalphNext]_ralphVars PROVE Checkpointed'
  OBVIOUS
<1> USE RalphAssumption DEF RalphInv
<1>1. CASE RalphStart
  BY <1>1, NoneFound DEF RalphStart, Resume, RalphTypes, Checkpointed, NoneDue, Pending
<1>2. CASE Plan
  BY <1>2 DEF Plan, Written, RalphTypes, Checkpointed, NoneDue, Pending
<1>3. ASSUME NEW l \in Lists, TodoWrite(l) PROVE Checkpointed'
  BY <1>3 DEF TodoWrite, Written, RalphTypes, Checkpointed, NoneDue, Pending
<1>4. CASE LoopEnds
  BY <1>4 DEF LoopEnds, RalphTypes, Checkpointed, NoneDue, Pending
<1>5. CASE FirstFails
  BY <1>5 DEF FirstFails, RalphTypes, Checkpointed, NoneDue, Pending
<1>6. ASSUME NEW e \in ErrorKinds, LoopFails(e) PROVE Checkpointed'
  BY <1>6 DEF LoopFails, RalphTypes, Checkpointed, NoneDue, Pending
<1>7. CASE Check
  BY <1>7, SaveMakes DEF Check, Due, RalphTypes, Checkpointed, NoneDue, Pending
<1>8. CASE Recover
  BY <1>8, SaveMakes DEF Recover, RalphTypes, Checkpointed, NoneDue, Pending
<1>9. CASE Close
  BY <1>9 DEF Close, Cleared, RalphTypes, Checkpointed, NoneDue, Pending
<1>10. CASE RalphCrash
  BY <1>10 DEF RalphCrash, RalphTypes, Checkpointed, NoneDue, Pending
<1>11. CASE UNCHANGED ralphVars
  BY <1>11 DEF ralphVars, RalphTypes, Checkpointed, NoneDue, Pending
<1> QED
  BY <1>1, <1>2, <1>3, <1>4, <1>5, <1>6, <1>7, <1>8, <1>9, <1>10, <1>11 DEF RalphNext, RalphStep

\* The file and the last list, step by step.
LEMMA RalphStored == RalphInv /\ [RalphNext]_ralphVars => Stored'
<1> SUFFICES ASSUME RalphInv, [RalphNext]_ralphVars PROVE Stored'
  OBVIOUS
<1> USE RalphAssumption DEF RalphInv
<1>1. CASE RalphStart
  BY <1>1 DEF RalphStart, Resume, Found, RalphTypes, Stored
<1>2. CASE Plan
  BY <1>2 DEF Plan, Written, RalphTypes, Stored
<1>3. ASSUME NEW l \in Lists, TodoWrite(l) PROVE Stored'
  BY <1>3 DEF TodoWrite, Written, RalphTypes, Stored
<1>4. CASE LoopEnds
  BY <1>4 DEF LoopEnds, RalphTypes, Stored
<1>5. CASE FirstFails
  BY <1>5 DEF FirstFails, RalphTypes, Stored
<1>6. ASSUME NEW e \in ErrorKinds, LoopFails(e) PROVE Stored'
  BY <1>6 DEF LoopFails, RalphTypes, Stored
<1>7. CASE Check
  BY <1>7 DEF Check, Save, Due, RalphTypes, Stored
<1>8. CASE Recover
  BY <1>8 DEF Recover, Save, RalphTypes, Stored
<1>9. CASE Close
  <2>1. Pending = {} => \A c \in DOMAIN last : last[c] = "completed"
    BY DEF Stored, RalphTypes, Pending, Persisted, Lists
  <2> QED
    BY <1>9, <2>1 DEF Close, Stored
<1>10. CASE RalphCrash
  BY <1>10 DEF RalphCrash, RalphTypes, Stored
<1>11. CASE UNCHANGED ralphVars
  BY <1>11 DEF ralphVars, RalphTypes, Stored
<1> QED
  BY <1>1, <1>2, <1>3, <1>4, <1>5, <1>6, <1>7, <1>8, <1>9, <1>10, <1>11 DEF RalphNext, RalphStep

LEMMA RalphStepHolds == RalphInv /\ [RalphNext]_ralphVars => RalphInv'
  BY RalphTyped, RalphCheckpointed, RalphStored DEF RalphInv

LEMMA RalphStartHolds == RalphInit => RalphInv
<1> SUFFICES ASSUME RalphInit PROVE RalphInv
  OBVIOUS
<1>1. EmptyList \in Lists /\ Persisted(EmptyList) = EmptyList
  <2>1. EmptyList \in [{} -> {"unfinished", "completed"}]
    BY DEF EmptyList
  <2>2. {} \in SUBSET Items
    OBVIOUS
  <2> QED
    BY <2>1, <2>2 DEF Lists, Persisted
<1>2. ckpt.iter = 0 /\ iter = 0
  BY DEF RalphInit, None
<1>3. NoneDue(iter) /\ NoneDue(iter - 1)
  BY <1>2 DEF NoneDue
<1>4. RalphTypes
  <2>1. model # "none" /\ unsaved \in BOOLEAN /\ overtaken \in BOOLEAN /\ rPc = "down"
    BY RalphAssumption DEF RalphInit
  <2>2. todos \in Lists /\ last \in Lists /\ ckpt = None
    BY <1>1 DEF RalphInit
  <2>3. 0 \in 0 .. MaxRalphIterations
    BY RalphAssumption
  <2> QED
    BY <1>2, <2>1, <2>2, <2>3 DEF RalphTypes
<1>5. Checkpointed
  BY <1>2, <1>3 DEF RalphInit, Checkpointed
<1>6. Stored
  BY <1>1 DEF RalphInit, Stored
<1> QED
  BY <1>4, <1>5, <1>6 DEF RalphInv

\* A crash loses at most an interval of iterations while checkpoints can be
\* written, a run that says todos_complete saw nothing unfinished in the last list
\* written by then, and work left without a checkpoint is at most an interval of
\* iterations and was stopped by max_iterations or listed by a background agent
\* behind the loop: for every interval, limit, upgrade chain and todo list.
THEOREM RalphHolds == RalphSpec => []RunIsAccounted
<1>1. RalphInv => RunIsAccounted
  <2> SUFFICES ASSUME RalphInv PROVE RunIsAccounted
    OBVIOUS
  <2> USE RalphAssumption DEF RalphInv, RalphTypes
  <2>1. NoneDue(iter - 1) => iter - ckpt.iter <= Interval
    <3> SUFFICES ASSUME iter - ckpt.iter > Interval PROVE ~NoneDue(iter - 1)
      OBVIOUS
    <3>1. iter - 1 \in Nat /\ ckpt.iter \in Nat /\ iter - 1 >= ckpt.iter + Interval
      OBVIOUS
    <3>2. \E k \in (ckpt.iter + 1) .. (iter - 1) : k % Interval = 0
      BY <3>1, MultipleInReach
    <3> QED
      BY <3>2 DEF NoneDue
  <2>2. LossIsBounded
    BY <2>1 DEF LossIsBounded, Checkpointed
  <2>3. CompletionIsTrue
    BY <2>1 DEF CompletionIsTrue, Checkpointed, Stored, None
  <2> QED
    BY <2>2, <2>3 DEF RunIsAccounted
<1> QED
  BY <1>1, RalphStartHolds, RalphStepHolds, PTL DEF RalphSpec

\* The agent loops again only for a todo that is unfinished in the last list
\* anybody wrote.
THEOREM RalphWorks == RalphSpec => LoopsHaveWork
<1>1. RalphInv /\ [RalphNext]_ralphVars =>
        [rPc = "check" /\ rPc' = "loop" => \E c \in DOMAIN last : last[c] = "unfinished"]_ralphVars
  <2> SUFFICES ASSUME RalphInv, [RalphNext]_ralphVars, rPc = "check", rPc' = "loop"
               PROVE  \E c \in DOMAIN last : last[c] = "unfinished"
    OBVIOUS
  <2>1. Pending # {}
    BY DEF RalphNext, RalphStep, RalphStart, Plan, LoopEnds, FirstFails, Check, Recover, Close,
           LoopFails, RalphCrash, TodoWrite, ralphVars
  <2>2. \E c \in DOMAIN last : last[c] # "completed"
    BY <2>1 DEF RalphInv, Stored, RalphTypes, Pending, Persisted, EmptyList
  <2> QED
    BY <2>2 DEF RalphInv, RalphTypes, Lists
<1> QED
  BY <1>1, RalphStartHolds, RalphStepHolds, PTL DEF RalphSpec, LoopsHaveWork

-----------------------------------------------------------------------------
(* TeamRun.                                                                 *)

Names(P) == {subtasks[i].id : i \in P}
Before(n) == UNION {waves[m] : m \in 1 .. (n - 1)}

TeamTypes ==
  /\ tPc \in {"start", "decompose", "sort", "wave", "merge", "single", "direct", "ralph",
              "store", "returned", "raised"}
  /\ subtasks \in Seq(Entries) /\ waves \in Seq(SUBSET Listed)
  /\ running \subseteq Listed /\ ended \subseteq Listed /\ reported \subseteq Listed
  /\ prior = Names(reported) /\ seen \in [Listed -> SUBSET Ids]

\* What a wave depends on is known before it.
Ordered == \A n \in DOMAIN waves : \A i \in waves[n] :
             subtasks[i].needs \cap Known \subseteq prior \cup Names(Before(n))

\* At each place of the call: what has run, and what is still planned.
Course ==
  /\ tPc \in {"start", "decompose", "sort"} => running = {} /\ ended = {} /\ reported = {}
  /\ tPc \in {"start", "decompose"} => waves = << >>
  /\ tPc \in {"sort", "wave"} /\ Acyclic(subtasks) => Ordered
  /\ running # {} => tPc = "wave" /\ running \subseteq waves[1] /\ running \cap ended = {}
  /\ tPc = "wave" => /\ waves # << >> /\ Listed = reported \cup Planned
                     /\ reported \subseteq ended /\ ended \subseteq reported \cup waves[1]
  /\ tPc = "merge" => reported = Listed /\ ended = Listed
  /\ \A i \in running : seen[i] = subtasks[i].needs \cap prior

Closing ==
  /\ tPc \in {"start", "store", "returned"} => clients = 0
  /\ tPc = "returned" => ~memory

TeamInv == TeamTypes /\ Course /\ Closing

\* An identifier of the list stands for one of its positions.
LEMMA ByIdIsPosition ==
  ASSUME NEW l \in Seq(Entries), NEW d \in {l[i].id : i \in DOMAIN l}
  PROVE  ById(l, d) \in DOMAIN l /\ l[ById(l, d)].id = d
<1> DEFINE S == {i \in DOMAIN l : l[i].id = d}
<1>1. Len(l) \in Nat /\ DOMAIN l = 1 .. Len(l) /\ S # {} /\ S \in SUBSET (1 .. Len(l))
  OBVIOUS
<1>2. PICK i \in S : \A j \in S : j <= i
  BY <1>1, LastPosition
<1>3. i \in DOMAIN l /\ l[i].id = d /\ \A j \in DOMAIN l : l[j].id = d => j <= i
  BY <1>2
<1> QED
  BY <1>3 DEF ById

\* Nothing is ready and the list has a topological order: everything is processed.
LEMMA NothingReady ==
  ASSUME TeamTypes, Acyclic(subtasks), Ready(subtasks, Processed) = {}
  PROVE  Planned = Listed
<1>1. Planned \subseteq Listed
  BY DEF TeamTypes, Planned
<1> SUFFICES ASSUME Listed \ Planned # {} PROVE FALSE
  BY <1>1
<1>2. PICK i \in Listed \ Planned : \A j \in Listed \ Planned : subtasks[j].id \notin subtasks[i].needs
  BY DEF Acyclic, Listed
<1>3. \A j \in Listed : subtasks[j].id = subtasks[i].id => j = i
  BY DEF Acyclic, Listed
<1>4. subtasks[i].id \notin Processed
  BY <1>1, <1>3 DEF Processed
<1>5. Needs(subtasks, subtasks[i].id) \subseteq subtasks[i].needs \cap Known
  <2>1. {j \in Listed : subtasks[j].id = subtasks[i].id} = {i}
    BY <1>2, <1>3
  <2>2. Needs(subtasks, subtasks[i].id) = (UNION {subtasks[j].needs : j \in {i}}) \cap Known
    BY <2>1 DEF Needs, Listed, Known
  <2> QED
    BY <2>2
<1>6. subtasks[i].needs \cap Known \subseteq Processed
  BY <1>2 DEF Known, Processed
<1>7. subtasks[i].id \in Ready(subtasks, Processed)
  BY <1>4, <1>5, <1>6 DEF Ready, Listed
<1> QED
  BY <1>7

\* A list is left with all of its positions planned, in their order if they have one.
LEMMA SortedIsWhole ==
  ASSUME TeamTypes, Ready(subtasks, Processed) = {}
  PROVE  LET s == Sorted(subtasks, waves) IN
         /\ s \in Seq(SUBSET Listed) /\ UNION {s[n] : n \in DOMAIN s} = Listed
         /\ Acyclic(subtasks) => s = waves
<1>0. Listed = 1 .. Len(subtasks) /\ Len(subtasks) \in Nat
  BY DEF TeamTypes, Listed
<1>1. IsFiniteSet(Listed) /\ Cardinality(Listed) = Len(subtasks)
  <2>1. /\ IsFiniteSet(1 .. Len(subtasks))
        /\ Cardinality(1 .. Len(subtasks)) = IF 1 > Len(subtasks) THEN 0 ELSE Len(subtasks) - 1 + 1
    BY <1>0, FS_Interval
  <2> QED
    BY <1>0, <2>1
<1>2. Planned \in SUBSET Listed
  BY DEF TeamTypes, Planned
<1>3. Cardinality(Planned) \in Nat /\ Cardinality(Planned) <= Len(subtasks)
      /\ (Cardinality(Planned) = Len(subtasks) => Planned = Listed)
  BY <1>1, <1>2, FS_Subset, FS_CardinalityType
<1>4. CASE Cardinality(Planned) < Len(subtasks)
  <2>1. Sorted(subtasks, waves) = [i \in 1 .. Len(subtasks) |-> {i}]
    BY <1>0, <1>4 DEF Sorted, Sequential, Planned, Listed
  <2>2. [i \in 1 .. Len(subtasks) |-> {i}] \in Seq(SUBSET Listed)
    BY <1>0
  <2>3. ~Acyclic(subtasks)
    BY <1>1, <1>4, <1>0, NothingReady
  <2> QED
    BY <1>0, <2>1, <2>2, <2>3
<1>5. CASE ~(Cardinality(Planned) < Len(subtasks))
  <2>1. Sorted(subtasks, waves) = waves
    BY <1>5 DEF Sorted, Planned
  <2>2. Planned = Listed
    BY <1>0, <1>3, <1>5
  <2> QED
    BY <2>1, <2>2 DEF TeamTypes, Planned
<1> QED
  BY <1>4, <1>5

\* The types, step by step.
LEMMA TeamTyped == TeamInv /\ [TeamNext]_teamVars => TeamTypes'
<1> SUFFICES ASSUME TeamInv, [TeamNext]_teamVars PROVE TeamTypes'
  OBVIOUS
<1> USE TeamAssumption DEF TeamInv
<1>1. CASE ConfigError
  BY <1>1 DEF ConfigError, Stay, TeamTypes, Listed, Names
<1>2. CASE Route
  BY <1>2 DEF Route, Stay, TeamTypes, Listed, Names
<1>3. CASE RalphRuns
  BY <1>3 DEF RalphRuns, Stay, TeamTypes, Listed, Names
<1>4. CASE RunDirect
  BY <1>4 DEF RunDirect, Stay, TeamTypes, Listed, Names
<1>5. CASE RunSingle
  BY <1>5 DEF RunSingle, Stay, TeamTypes, Listed, Names
<1>6. CASE SortWave
  <2>1. {ById(subtasks, d) : d \in Ready(subtasks, Processed)} \subseteq Listed
    BY ByIdIsPosition DEF Ready, TeamTypes, Listed
  <2>2. waves' \in Seq(SUBSET Listed)
    BY <1>6, <2>1 DEF SortWave, TeamTypes
  <2> QED
    BY <1>6, <2>2 DEF SortWave, TeamTypes, Listed, Names
<1>7. CASE SortEnds
  <2>1. waves' \in Seq(SUBSET Listed)
    BY <1>7, SortedIsWhole DEF SortEnds
  <2> QED
    BY <1>7, <2>1 DEF SortEnds, After, TeamTypes, Listed, Names
<1>8. CASE WaveEnds
  <2>1. waves # << >> /\ waves[1] \subseteq Listed /\ waves' \in Seq(SUBSET Listed)
    BY <1>8 DEF WaveEnds, Course, TeamTypes
  <2>2. prior' = Names(reported \cup waves[1])
    BY <1>8 DEF WaveEnds, Wave, Completed, TeamTypes, Names
  <2> QED
    BY <1>8, <2>1, <2>2 DEF WaveEnds, Wave, After, TeamTypes, Listed, Names
<1>9. CASE Merge
  BY <1>9 DEF Merge, Stay, TeamTypes, Listed, Names
<1>10. CASE StoreExperience
  BY <1>10 DEF StoreExperience, Stay, TeamTypes, Listed, Names
<1>11. ASSUME NEW n \in 0 .. MaxSubtasks, NEW l \in [1 .. n -> Entries], tPc = "decompose", Decompose(l) PROVE TeamTypes'
  <2>1. subtasks' \in Seq(Entries) /\ subtasks' = l
    BY <1>11 DEF Decompose
  <2>2. waves' = << >> /\ running' = {} /\ ended' = {} /\ reported' = {} /\ prior' = {}
    BY <1>11 DEF Decompose, Course, TeamTypes, Names
  <2> QED
    BY <1>11, <2>1, <2>2 DEF Decompose, TeamTypes, Listed, Names
<1>12. ASSUME NEW i \in Listed, StartSubtask(i) PROVE TeamTypes'
  <2>1. subtasks[i] \in Entries
    BY DEF TeamTypes, Listed
  <2> QED
    BY <1>12, <2>1 DEF StartSubtask, TeamTypes, Listed, Names, Entries
<1>13. ASSUME NEW i \in Listed, EndSubtask(i) PROVE TeamTypes'
  BY <1>13 DEF EndSubtask, TeamTypes, Listed, Names
<1>14. CASE UNCHANGED teamVars
  BY <1>14 DEF teamVars, TeamTypes, Listed, Names
<1> QED
  BY <1>1, <1>2, <1>3, <1>4, <1>5, <1>6, <1>7, <1>8, <1>9, <1>10, <1>11, <1>12, <1>13, <1>14 DEF TeamNext

\* What has run and what is planned, step by step.
LEMMA TeamCourse == TeamInv /\ [TeamNext]_teamVars => Course'
<1> SUFFICES ASSUME TeamInv, [TeamNext]_teamVars PROVE Course'
  OBVIOUS
<1> USE TeamAssumption DEF TeamInv
<1>1. CASE ConfigError
  BY <1>1 DEF ConfigError, Stay, TeamTypes, Course, Listed, Names, Ordered, Before, Known, Planned
<1>2. CASE Route
  BY <1>2 DEF Route, Stay, TeamTypes, Course, Listed, Names, Ordered, Before, Known, Planned
<1>3. CASE RalphRuns
  BY <1>3 DEF RalphRuns, Stay, TeamTypes, Course, Listed, Names, Ordered, Before, Known, Planned
<1>4. CASE RunDirect
  BY <1>4 DEF RunDirect, Stay, TeamTypes, Course, Listed, Names, Ordered, Before, Known, Planned
<1>5. CASE RunSingle
  BY <1>5 DEF RunSingle, Stay, TeamTypes, Course, Listed, Names, Ordered, Before, Known, Planned
<1>6. CASE SortWave
  <2> DEFINE w == {ById(subtasks, d) : d \in Ready(subtasks, Processed)}
  <2>1. waves' = Append(waves, w) /\ UNCHANGED <<tPc, subtasks, running, ended, prior, seen, reported>>
    BY <1>6 DEF SortWave
  <2>2. ASSUME Acyclic(subtasks) PROVE Ordered'
    <3> SUFFICES ASSUME NEW n \in DOMAIN waves', NEW i \in waves'[n]
                 PROVE  subtasks[i].needs \cap Known \subseteq prior \cup Names(Before(n)')
      BY <2>1 DEF Ordered, Names, Known, Listed, Before
    <3>1. CASE n \in DOMAIN waves
      <4>0. waves \in Seq(SUBSET Listed) /\ \A m \in DOMAIN waves : waves'[m] = waves[m]
        <5>1. waves \in Seq(SUBSET Listed)
          BY DEF TeamTypes
        <5> HIDE DEF w
        <5> QED
          BY <2>1, <5>1
      <4>1. i \in waves[n] /\ Before(n)' = Before(n)
        <5> HIDE DEF w
        <5>1. i \in waves[n] /\ \A m \in 1..n - 1 : waves'[m] = waves[m]
          BY <3>1, <4>0
        <5> QED
          BY <5>1 DEF Before
      <4> QED
        BY <1>6, <2>2, <3>1, <4>1 DEF SortWave, Course, Ordered
    <3>2. CASE n = Len(waves) + 1
      <4>0. waves \in Seq(SUBSET Listed)
        BY DEF TeamTypes
      <4>1. i \in w /\ Before(n)' = Planned
        <5> HIDE DEF w
        <5>1. i \in w /\ n - 1 = Len(waves) /\ \A m \in 1..n - 1 : m \in DOMAIN waves /\ waves'[m] = waves[m]
          BY <2>1, <3>2, <4>0
        <5>2. DOMAIN waves = 1..n - 1
          BY <4>0, <5>1
        <5> QED
          BY <5>1, <5>2 DEF Before, Planned
      <4>2. PICK d \in Ready(subtasks, Processed) : i = ById(subtasks, d)
        BY <4>1
      <4>3. i \in Listed /\ subtasks[i].id = d
        BY <4>2, ByIdIsPosition DEF Ready, TeamTypes, Listed
      <4>4. subtasks[i].needs \cap Known \subseteq Needs(subtasks, d)
        <5>1. subtasks[i].needs \subseteq UNION {subtasks[j].needs : j \in {k \in Listed : subtasks[k].id = d}}
          BY <4>3
        <5> QED
          BY <5>1 DEF Needs, Known, Listed
      <4>5. Needs(subtasks, d) \subseteq Processed
        BY DEF Ready
      <4> QED
        BY <4>1, <4>4, <4>5 DEF Processed, Names
    <3> QED
      BY <2>1, <3>1, <3>2 DEF TeamTypes
  <2> QED
    BY <1>6, <2>1, <2>2 DEF SortWave, Course, TeamTypes, Acyclic
<1>7. CASE SortEnds
  <2>1. /\ UNION {waves'[n] : n \in DOMAIN waves'} = Listed
        /\ Acyclic(subtasks) => waves' = waves
        /\ UNCHANGED <<subtasks, running, ended, prior, seen, reported>>
        /\ tPc' = IF waves' = << >> THEN "merge" ELSE "wave"
    BY <1>7, SortedIsWhole DEF SortEnds, After
  <2>2. tPc = "sort" /\ running = {} /\ ended = {} /\ reported = {}
    BY <1>7 DEF SortEnds, Course
  <2>3. Acyclic(subtasks) => Ordered'
    BY <2>1, <2>2 DEF Course, Ordered, Names, Known, Listed, Before
  <2>4. waves' = << >> => Listed = {}
    BY <2>1
  <2> QED
    BY <2>1, <2>2, <2>3, <2>4 DEF Course, Planned, Listed, Acyclic
<1>8. CASE WaveEnds
  <2>1. /\ tPc = "wave" /\ waves # << >> /\ waves[1] \subseteq ended
        /\ waves' = Tail(waves) /\ reported' = reported \cup waves[1]
        /\ prior' = prior \cup Names(waves[1])
        /\ UNCHANGED <<subtasks, running, ended, seen>>
        /\ tPc' = IF waves' = << >> THEN "merge" ELSE "wave"
    BY <1>8 DEF WaveEnds, Course, After, Wave, Completed, Names
  <2>2. /\ Len(waves) \in Nat /\ Len(waves) >= 1 /\ DOMAIN waves = 1 .. Len(waves)
        /\ DOMAIN waves' = 1 .. (Len(waves) - 1) /\ \A n \in DOMAIN waves' : waves'[n] = waves[n + 1]
    BY <2>1 DEF TeamTypes
  <2>3. running = {} /\ Listed = reported \cup Planned /\ reported \subseteq ended
        /\ ended \subseteq reported \cup waves[1]
    BY <2>1 DEF Course
  <2>4. Planned = waves[1] \cup Planned'
    <3>1. ASSUME NEW n \in DOMAIN waves, n # 1 PROVE n - 1 \in DOMAIN waves' /\ waves'[n - 1] = waves[n]
      BY <2>2, <3>1
    <3>2. \A n \in DOMAIN waves' : n + 1 \in DOMAIN waves
      BY <2>2
    <3>3. Planned \subseteq waves[1] \cup Planned'
      BY <2>1, <3>1 DEF Planned
    <3>4. Planned' \subseteq Planned
      BY <2>2, <3>2 DEF Planned
    <3>5. waves[1] \subseteq Planned
      BY <2>2 DEF Planned
    <3> QED
      BY <3>3, <3>4, <3>5
  <2>5. ASSUME Acyclic(subtasks) PROVE Ordered'
    <3>1. Ordered
      BY <2>1, <2>5 DEF Course
    <3> SUFFICES ASSUME NEW n \in DOMAIN waves', NEW i \in waves'[n]
                 PROVE  subtasks[i].needs \cap Known \subseteq prior' \cup Names(Before(n)')
      <4>1. Known' = Known /\ \A m \in DOMAIN waves' : Names(Before(m))' = Names(Before(m)')
        BY <2>1 DEF Known, Names, Listed
      <4> QED
        BY <2>1, <4>1 DEF Ordered
    <3>2. n + 1 \in DOMAIN waves /\ i \in waves[n + 1]
      BY <2>2
    <3>3. Before(n + 1) \subseteq waves[1] \cup Before(n)'
      <4> SUFFICES ASSUME NEW m \in 1 .. n, m # 1 PROVE waves[m] \subseteq Before(n)'
        BY <2>2 DEF Before
      <4>1. m - 1 \in 1 .. (n - 1) /\ waves'[m - 1] = waves[m]
        BY <2>2
      <4> QED
        BY <4>1 DEF Before
    <3>4. Names(Before(n + 1)) \subseteq Names(waves[1]) \cup Names(Before(n)')
      BY <3>3 DEF Names
    <3>5. subtasks[i].needs \cap Known \subseteq prior \cup Names(Before(n + 1))
      BY <3>1, <3>2 DEF Ordered
    <3> QED
      BY <2>1, <3>4, <3>5
  <2>6. waves' = << >> => Planned' = {}
    BY DEF Planned
  <2>7. Listed' = Listed /\ Acyclic(subtasks)' = Acyclic(subtasks)
    BY <2>1 DEF Listed, Acyclic
  <2>8. Listed = reported' \cup Planned' /\ reported' \subseteq ended /\ ended \subseteq reported'
    BY <2>1, <2>3, <2>4
  <2> QED
    BY <2>1, <2>3, <2>5, <2>6, <2>7, <2>8 DEF Course
<1>9. CASE Merge
  BY <1>9 DEF Merge, Stay, TeamTypes, Course, Listed, Names, Ordered, Before, Known, Planned
<1>10. CASE StoreExperience
  BY <1>10 DEF StoreExperience, Stay, TeamTypes, Course, Listed, Names, Ordered, Before, Known, Planned
<1>11. ASSUME NEW n \in 0 .. MaxSubtasks, NEW l \in [1 .. n -> Entries], tPc = "decompose", Decompose(l) PROVE Course'
  <2>1. tPc = "decompose" /\ waves' = << >> /\ running' = {} /\ ended' = {} /\ reported' = {}
        /\ tPc' \in {"single", "sort"}
    BY <1>11 DEF Decompose, Course
  <2>2. Ordered'
    BY <2>1 DEF Ordered
  <2> QED
    BY <2>1, <2>2 DEF Course
<1>12. ASSUME NEW i \in Listed, StartSubtask(i) PROVE Course'
  <2>1. /\ tPc = "wave" /\ i \in waves[1] /\ i \notin running /\ i \notin ended
        /\ running' = running \cup {i} /\ seen' = [seen EXCEPT ![i] = subtasks[i].needs \cap prior]
        /\ UNCHANGED <<tPc, subtasks, waves, ended, prior, reported>>
    BY <1>12 DEF StartSubtask, Wave
  <2>2. \A j \in running' : seen'[j] = subtasks[j].needs \cap prior
    BY <2>1 DEF Course, TeamTypes
  <2>3. Ordered' = Ordered /\ Acyclic(subtasks)' = Acyclic(subtasks) /\ Planned' = Planned /\ Listed' = Listed
    BY <2>1 DEF Ordered, Acyclic, Planned, Listed, Names, Known, Before
  <2> QED
    BY <2>1, <2>2, <2>3 DEF Course
<1>13. ASSUME NEW i \in Listed, EndSubtask(i) PROVE Course'
  <2>1. /\ i \in running /\ running' = running \ {i} /\ ended' = ended \cup {i}
        /\ UNCHANGED <<tPc, subtasks, waves, prior, seen, reported>>
    BY <1>13 DEF EndSubtask
  <2>2. tPc = "wave" /\ i \in waves[1]
    BY <2>1 DEF Course
  <2>3. Ordered' = Ordered /\ Acyclic(subtasks)' = Acyclic(subtasks) /\ Planned' = Planned /\ Listed' = Listed
    BY <2>1 DEF Ordered, Acyclic, Planned, Listed, Names, Known, Before
  <2> QED
    BY <2>1, <2>2, <2>3 DEF Course
<1>14. CASE UNCHANGED teamVars
  <2>1. Ordered' = Ordered /\ Acyclic(subtasks)' = Acyclic(subtasks) /\ Planned' = Planned /\ Listed' = Listed
    BY <1>14 DEF teamVars, Ordered, Acyclic, Planned, Listed, Names, Known, Before
  <2> QED
    BY <1>14, <2>1 DEF teamVars, Course
<1> QED
  BY <1>1, <1>2, <1>3, <1>4, <1>5, <1>6, <1>7, <1>8, <1>9, <1>10, <1>11, <1>12, <1>13, <1>14 DEF TeamNext

\* The client and the memory, step by step.
LEMMA TeamCloses == TeamInv /\ [TeamNext]_teamVars => Closing'
<1> SUFFICES ASSUME TeamInv, [TeamNext]_teamVars PROVE Closing'
  OBVIOUS
<1> USE TeamAssumption DEF TeamInv
<1>1. CASE ConfigError
  BY <1>1 DEF ConfigError, Stay, Closing
<1>2. CASE Route
  BY <1>2 DEF Route, Stay, Closing
<1>3. CASE RalphRuns
  BY <1>3 DEF RalphRuns, Stay, Closing
<1>4. CASE RunDirect
  BY <1>4 DEF RunDirect, Stay, Closing
<1>5. CASE RunSingle
  BY <1>5 DEF RunSingle, Stay, Closing
<1>6. CASE SortWave
  BY <1>6 DEF SortWave, Closing
<1>7. CASE SortEnds
  BY <1>7 DEF SortEnds, After, Closing
<1>8. CASE WaveEnds
  BY <1>8 DEF WaveEnds, After, Wave, Completed, Closing
<1>9. CASE Merge
  BY <1>9 DEF Merge, Stay, Closing
<1>10. CASE StoreExperience
  BY <1>10 DEF StoreExperience, Stay, Closing
<1>11. ASSUME NEW n \in 0 .. MaxSubtasks, NEW l \in [1 .. n -> Entries], tPc = "decompose", Decompose(l) PROVE Closing'
  BY <1>11 DEF Decompose, Closing
<1>12. ASSUME NEW i \in Listed, StartSubtask(i) PROVE Closing'
  BY <1>12 DEF StartSubtask, Wave, Closing
<1>13. ASSUME NEW i \in Listed, EndSubtask(i) PROVE Closing'
  BY <1>13 DEF EndSubtask, Closing
<1>14. CASE UNCHANGED teamVars
  BY <1>14 DEF teamVars, Closing
<1> QED
  BY <1>1, <1>2, <1>3, <1>4, <1>5, <1>6, <1>7, <1>8, <1>9, <1>10, <1>11, <1>12, <1>13, <1>14 DEF TeamNext

\* Any list of subtasks, dependencies on themselves, on each other or on none of
\* the list: whenever it has an order a subtask starts after all it depends on and
\* quotes their results, and always every subtask runs and is reported.
THEOREM TeamHolds == TeamSpec => []TeamIsOrderly
<1>1. TeamInit => TeamInv
  <2> SUFFICES ASSUME TeamInit PROVE TeamInv
    OBVIOUS
  <2>1. Listed = {} /\ Names({}) = {} /\ subtasks \in Seq(Entries) /\ waves \in Seq(SUBSET Listed)
    BY DEF TeamInit, Listed, Names
  <2> QED
    BY <2>1 DEF TeamInit, TeamInv, TeamTypes, Course, Closing
<1>2. TeamInv /\ [TeamNext]_teamVars => TeamInv'
  BY TeamTyped, TeamCourse, TeamCloses DEF TeamInv
<1>3. TeamInv => TeamIsOrderly
  <2> SUFFICES ASSUME TeamInv PROVE TeamIsOrderly
    OBVIOUS
  <2>1. ASSUME NEW i \in running, Acyclic(subtasks)
        PROVE  /\ subtasks[i].needs \cap Known \subseteq {subtasks[j].id : j \in ended}
               /\ seen[i] = subtasks[i].needs \cap Known
    <3>1. tPc = "wave" /\ waves # << >> /\ i \in waves[1] /\ Ordered /\ seen[i] = subtasks[i].needs \cap prior
      BY <2>1 DEF TeamInv, Course
    <3>2. 1 \in DOMAIN waves /\ Before(1) = {}
      BY <3>1 DEF TeamInv, TeamTypes, Before
    <3>3. subtasks[i].needs \cap Known \subseteq prior
      BY <3>1, <3>2 DEF Ordered, Names
    <3>4. prior \subseteq {subtasks[j].id : j \in ended} /\ prior \subseteq Known
      BY <3>1 DEF TeamInv, TeamTypes, Course, Names, Known
    <3> QED
      BY <3>1, <3>3, <3>4
  <2>2. DependenciesFirst
    BY <2>1 DEF DependenciesFirst
  <2>3. EverySubtaskReported
    BY DEF TeamInv, Course, Closing, EverySubtaskReported
  <2> QED
    BY <2>2, <2>3 DEF TeamIsOrderly
<1> QED
  BY <1>1, <1>2, <1>3, PTL DEF TeamSpec

-----------------------------------------------------------------------------
(* FileEdits.                                                               *)

Lines == Seq(DOMAIN Digest)

\* An edit of the language of the tool.
EditShape(x) == /\ x.op \in Inserts \cup {"replace", "delete"} /\ x.line \in Nat \ {0} /\ x.text \in DOMAIN Digest

CallFields == {"pc", "tool", "edits", "todo", "old", "new", "late"}

\* The edits of a call and those that are left of them.
CallShape(c) ==
  /\ DOMAIN c = CallFields /\ c.pc \in {"idle", "editing", "loaded", "emptied"}
  /\ c.tool \in {"none", "hashline", "edit", "write"} /\ c.late \in BOOLEAN /\ c.new \in Lines
  /\ \E n, b \in Nat : /\ DOMAIN c.edits = 1..n
                       /\ \A i \in 1..n : EditShape(c.edits[i]) /\ c.edits[i].line <= b
  /\ c.edits = [i \in DOMAIN c.edits |-> c.edits[i]] /\ c.todo \subseteq DOMAIN c.edits
  /\ c.pc = "editing" => c.tool = "hashline" /\ c.todo # {}
  /\ c.pc \in {"loaded", "emptied"} => c.todo = {} /\ c.tool # "none"

\* Whatever is put in or taken out, what a line became begins no earlier than
\* what the lines before it became.
Rising(lines, edits) ==
  \A m, n \in 1..Len(lines) + 1 : m <= n => Begins(edits, m) <= Begins(edits, n)
Part(edits, D) == [i \in D |-> edits[i]]
\* The result is the lines with the edits made that are not left to do: these
\* are edits of later lines than those that are left.
Made(lines, edits, todo, after) ==
  LET done == DOMAIN edits \ todo IN
  /\ \A i \in todo, j \in done : edits[i].line < edits[j].line
  /\ InPlace(lines, Part(edits, done), after) /\ Rising(lines, Part(edits, done))

\* Whoever is not late has in hand what was last saved, and what the tool made of it.
CallSound(c, held, saved) ==
  c.pc # "idle" /\ ~c.late =>
    /\ c.pc \in {"editing", "loaded"} /\ c.tool # "write" => held = saved
    /\ c.pc = "emptied" => held = <<>>
    /\ c.tool = "hashline" /\ Apart(c.edits) =>
         /\ \A i \in DOMAIN c.edits : RefHolds(saved, c.edits[i])
         /\ Made(saved, c.edits, c.todo, c.new)
    /\ c.tool = "edit" => Once(saved, c.old) /\ c.new = Replaced(saved, c.old)
    /\ c.tool = "write" => c.new = <<"new">>

EditInv ==
  /\ doc \in Lines /\ whole \in Lines /\ (doc = <<>> \/ doc = whole)
  /\ copy \in [Editors -> Lines] /\ DOMAIN editCall = Editors
  /\ \A e \in Editors : CallShape(editCall[e]) /\ CallSound(editCall[e], doc, whole)
\* The least of a set of numbers.
LEMMA HasLeast ==
  ASSUME NEW A, A \subseteq Nat, A # {}
  PROVE  \E i \in A : \A j \in A : i <= j
<1>2. \E i \in A : \A j \in A : ~(<<j, i>> \in OpToRel(<, Nat))
  BY NatLessThanWellFounded, WFMin, Zenon
<1>3. \A i, j \in Nat : j < i => <<j, i>> \in OpToRel(<, Nat)
  BY DEF OpToRel
<1>4. \E i \in A : \A j \in A : ~(j < i)
  BY <1>2, <1>3, Zenon
<1> QED
  BY <1>4

\* There is a next edit as long as any is left: its line is the last, and among
\* edits of one line it is the first.
LEMMA UpcomingIsLast ==
  ASSUME NEW c, CallShape(c), c.todo # {}
  PROVE  /\ Upcoming(c.edits, c.todo) \in c.todo
         /\ \A j \in c.todo : c.edits[j].line <= c.edits[Upcoming(c.edits, c.todo)].line
<1>1. PICK n \in Nat, b \in Nat : /\ DOMAIN c.edits = 1..n
                                  /\ \A i \in 1..n : EditShape(c.edits[i]) /\ c.edits[i].line <= b
  BY DEF CallShape
<1> DEFINE line(i) == c.edits[i].line
<1>2. c.todo \subseteq 1..n /\ \A i \in 1..n : line(i) \in Nat /\ line(i) <= b
  BY <1>1 DEF CallShape, EditShape
<1> DEFINE A == {b - line(i) : i \in c.todo}
<1>3. A \subseteq Nat /\ A # {}
  BY <1>2
<1>4. PICK a \in A : \A x \in A : a <= x
  <2> HIDE DEF A
  <2> QED
    BY <1>3, HasLeast
<1>5. PICK m \in c.todo : a = b - line(m)
  BY <1>4
<1>6. \A j \in c.todo : line(j) <= line(m)
  <2>1. SUFFICES ASSUME NEW j \in c.todo PROVE line(j) <= line(m)
    OBVIOUS
  <2>2. a <= b - line(j)
    BY <1>4
  <2> QED
    BY <1>2, <1>5, <2>2
<1> DEFINE B == {i \in c.todo : line(i) = line(m)}
<1>7. B \subseteq Nat /\ B # {}
  BY <1>2
<1>8. PICK u \in B : \A x \in B : u <= x
  <2> HIDE DEF B
  <2> QED
    BY <1>7, HasLeast
<1>9. u \in c.todo /\ \A j \in c.todo : line(j) < line(u) \/ (line(u) = line(j) /\ u <= j)
  <2>1. u \in c.todo /\ line(u) = line(m)
    BY <1>8
  <2>2. SUFFICES ASSUME NEW j \in c.todo, ~(line(j) < line(u)) PROVE line(u) = line(j) /\ u <= j
    BY <2>1
  <2>3. line(j) = line(m)
    BY <1>2, <1>6, <2>1, <2>2
  <2> QED
    BY <1>8, <2>1, <2>3
<1>10. /\ Upcoming(c.edits, c.todo) \in c.todo
       /\ \A j \in c.todo : \/ line(j) < line(Upcoming(c.edits, c.todo))
                            \/ line(Upcoming(c.edits, c.todo)) = line(j) /\ Upcoming(c.edits, c.todo) <= j
  BY <1>9 DEF Upcoming
<1> QED
  BY <1>2, <1>10

\* r is s with its n-th line replaced by the lines of b.
Spliced(s, r, n, b) ==
  /\ Len(r) = Len(s) + Len(b) - 1
  /\ \A p \in 1..n - 1 : r[p] = s[p]
  /\ \A k \in 1..Len(b) : r[n + k - 1] = b[k]
  /\ \A p \in n + 1 .. Len(s) : r[p + Len(b) - 1] = s[p]

\* r is three sequences, one after the other.
InRow(r, T, C, R) ==
  /\ Len(r) = Len(T) + Len(C) + Len(R) /\ DOMAIN r = 1..Len(r)
  /\ \A j \in 1..Len(T) : r[j] = T[j]
  /\ \A j \in 1..Len(C) : r[Len(T) + j] = C[j]
  /\ \A j \in 1..Len(R) : r[Len(T) + Len(C) + j] = R[j]

LEMMA RowOfThree ==
  ASSUME NEW S, NEW T \in Seq(S), NEW C \in Seq(S), NEW R \in Seq(S)
  PROVE  InRow(T \o C \o R, T, C, R)
<1>1. T \o C \in Seq(S) /\ Len(T \o C) = Len(T) + Len(C) /\ Len(T) \in Nat /\ Len(C) \in Nat /\ Len(R) \in Nat
  OBVIOUS
<1>2. \A j \in 1..Len(T) : (T \o C)[j] = T[j]
  OBVIOUS
<1>3. \A j \in 1..Len(C) : (T \o C)[Len(T) + j] = C[j]
  OBVIOUS
<1> DEFINE B == T \o C
<1>4. B \in Seq(S) /\ Len(B) = Len(T) + Len(C)
  BY <1>1
<1> HIDE DEF B
<1>5. Len(B \o R) = Len(B) + Len(R) /\ DOMAIN (B \o R) = 1..Len(B \o R)
  <2>1. Len(B \o R) = Len(B) + Len(R) /\ B \o R \in Seq(S)
    BY <1>4, ConcatProperties
  <2> QED
    BY <2>1, LenProperties
<1>6. \A j \in 1..Len(B) : (B \o R)[j] = B[j]
  BY <1>4
<1>7. \A j \in 1..Len(R) : (B \o R)[Len(B) + j] = R[j]
  BY <1>4
<1>8. \A j \in 1..Len(T) : (B \o R)[j] = T[j]
  BY <1>1, <1>2, <1>4, <1>6 DEF B
<1>9. \A j \in 1..Len(C) : (B \o R)[Len(T) + j] = C[j]
  <2>1. SUFFICES ASSUME NEW j \in 1..Len(C) PROVE (B \o R)[Len(T) + j] = C[j]
    OBVIOUS
  <2>2. Len(T) + j \in 1..Len(B)
    BY <1>1, <1>4
  <2>3. (B \o R)[Len(T) + j] = B[Len(T) + j]
    BY <1>6, <2>2
  <2>4. B[Len(T) + j] = C[j]
    BY <1>3 DEF B
  <2> QED
    BY <2>3, <2>4
<1> QED
  BY <1>1, <1>4, <1>5, <1>7, <1>8, <1>9 DEF B, InRow

LEMMA InsertedAt ==
  ASSUME NEW S, NEW s \in Seq(S), NEW n \in 1..Len(s) + 1, NEW x \in S
  PROVE  /\ InsertAt(s, n, x) \in Seq(S) /\ Len(InsertAt(s, n, x)) = Len(s) + 1
         /\ \A p \in 1..n - 1 : InsertAt(s, n, x)[p] = s[p]
         /\ InsertAt(s, n, x)[n] = x
         /\ \A p \in n..Len(s) : InsertAt(s, n, x)[p + 1] = s[p]
<1> DEFINE A == SubSeq(s, 1, n - 1)
           B == <<x>>
           C == SubSeq(s, n, Len(s))
<1>1. A \in Seq(S) /\ Len(A) = n - 1 /\ \A i \in 1..n - 1 : A[i] = s[i]
  BY SubSeqProperties
<1>2. C \in Seq(S) /\ Len(C) = Len(s) - n + 1 /\ \A i \in 1..Len(s) - n + 1 : C[i] = s[n + i - 1]
  BY SubSeqProperties
<1>3. B \in Seq(S) /\ Len(B) = 1 /\ B[1] = x
  OBVIOUS
<1>4. InsertAt(s, n, x) = A \o B \o C
  BY DEF InsertAt
<1> HIDE DEF A, B, C
<1>5. InRow(A \o B \o C, A, B, C)
  BY <1>1, <1>2, <1>3, RowOfThree
<1>6. A \o B \o C \in Seq(S)
  BY <1>1, <1>2, <1>3, ConcatProperties
<1> DEFINE r == A \o B \o C
<1>7. /\ Len(r) = Len(s) + 1
      /\ \A j \in 1..n - 1 : r[j] = s[j]
      /\ r[n] = x
  BY <1>1, <1>2, <1>3, <1>5 DEF InRow
<1>8. \A p \in n..Len(s) : r[p + 1] = s[p]
  <2>1. SUFFICES ASSUME NEW p \in n..Len(s) PROVE r[p + 1] = s[p]
    OBVIOUS
  <2>2. PICK k \in Nat : k = p - n + 1 /\ n + k - 1 = p /\ k \in 1..Len(C) /\ k \in 1..Len(s) - n + 1
    BY <1>2
  <2>3. p + 1 = Len(A) + Len(B) + k
    BY <1>1, <1>3, <2>2
  <2>4. r[p + 1] = C[k]
    BY <1>5, <2>2, <2>3 DEF InRow
  <2>5. C[k] = s[p]
    BY <1>2, <2>2
  <2> QED
    BY <2>4, <2>5
<1> HIDE DEF r
<1> QED
  BY <1>4, <1>6, <1>7, <1>8 DEF r

LEMMA RemovedAt ==
  ASSUME NEW S, NEW s \in Seq(S), NEW n \in 1..Len(s)
  PROVE  /\ RemoveAt(s, n) \in Seq(S) /\ Len(RemoveAt(s, n)) = Len(s) - 1
         /\ \A p \in 1..n - 1 : RemoveAt(s, n)[p] = s[p]
         /\ \A p \in n + 1 .. Len(s) : RemoveAt(s, n)[p - 1] = s[p]
<1> DEFINE A == SubSeq(s, 1, n - 1)
           C == SubSeq(s, n + 1, Len(s))
<1>1. A \in Seq(S) /\ Len(A) = n - 1 /\ \A i \in 1..n - 1 : A[i] = s[i]
  BY SubSeqProperties
<1>2. C \in Seq(S) /\ Len(C) = Len(s) - n /\ \A i \in 1..Len(s) - n : C[i] = s[n + i]
  BY SubSeqProperties
<1>4. RemoveAt(s, n) = A \o C
  BY DEF RemoveAt
<1> HIDE DEF A, C
<1>5. /\ A \o C \in Seq(S) /\ Len(A \o C) = Len(A) + Len(C)
      /\ \A i \in 1..Len(A) + Len(C) : (A \o C)[i] = IF i <= Len(A) THEN A[i] ELSE C[i - Len(A)]
  BY <1>1, <1>2, ConcatProperties
<1> DEFINE r == A \o C
<1> HIDE DEF r
<1>6. r \in Seq(S) /\ Len(r) = Len(s) - 1
      /\ \A i \in 1..Len(s) - 1 : r[i] = IF i <= n - 1 THEN A[i] ELSE C[i - (n - 1)]
  BY <1>1, <1>2, <1>5 DEF r
<1>7. \A p \in 1..n - 1 : r[p] = s[p]
  <2>1. SUFFICES ASSUME NEW p \in 1..n - 1 PROVE r[p] = s[p]
    OBVIOUS
  <2>2. p \in 1..Len(s) - 1 /\ p <= n - 1
    OBVIOUS
  <2>3. r[p] = A[p]
    BY <1>6, <2>2
  <2> QED
    BY <1>1, <2>3
<1>8. \A p \in n + 1 .. Len(s) : r[p - 1] = s[p]
  <2>1. SUFFICES ASSUME NEW p \in n + 1 .. Len(s) PROVE r[p - 1] = s[p]
    OBVIOUS
  <2>2. p - n \in 1..Len(s) - n /\ p = n + (p - n) /\ p - 1 - (n - 1) = p - n /\ p - 1 \in 1..Len(s) - 1
    OBVIOUS
  <2>3. r[p - 1] = C[p - n]
    BY <1>6, <2>2
  <2> QED
    BY <1>2, <2>2, <2>3
<1> QED
  BY <1>4, <1>6, <1>7, <1>8 DEF r

LEMMA TwoForOne ==
  ASSUME NEW s \in Lines, NEW r, NEW n \in 1..Len(s), NEW u, NEW v,
         Len(r) = Len(s) + 1, \A p \in 1..n - 1 : r[p] = s[p], r[n] = u, r[n + 1] = v,
         \A p \in n + 1 .. Len(s) : r[p + 1] = s[p]
  PROVE  Spliced(s, r, n, <<u, v>>)
<1> DEFINE b == <<u, v>>
<1>1. Len(b) = 2 /\ b[1] = u /\ b[2] = v
  OBVIOUS
<1> HIDE DEF b
<1>2. Len(s) \in Nat /\ n \in Nat
  BY DEF Lines
<1>3. \A k \in 1..Len(b) : r[n + k - 1] = b[k]
  <2>1. SUFFICES ASSUME NEW k \in 1..2 PROVE r[n + k - 1] = b[k]
    BY <1>1
  <2>2. CASE k = 1
    BY <1>1, <1>2, <2>2
  <2>3. CASE k = 2
    <3>1. n + 2 - 1 = n + 1
      BY <1>2
    <3> QED
      BY <1>1, <2>3, <3>1
  <2> QED
    BY <2>2, <2>3
<1>4. \A p \in n + 1 .. Len(s) : r[p + Len(b) - 1] = s[p]
  <2>1. SUFFICES ASSUME NEW p \in n + 1 .. Len(s) PROVE r[p + 2 - 1] = s[p]
    BY <1>1
  <2>2. p + 2 - 1 = p + 1
    BY <1>2
  <2> QED
    BY <2>2
<1>5. Len(r) = Len(s) + Len(b) - 1
  BY <1>1, <1>2
<1>6. Spliced(s, r, n, b)
  BY <1>3, <1>4, <1>5 DEF Spliced
<1> QED
  BY <1>6 DEF b

\* A line that is inserted before or behind another makes two of one.
LEMMA InsertedBefore ==
  ASSUME NEW s \in Lines, NEW n \in 1..Len(s), NEW t \in DOMAIN Digest
  PROVE  InsertAt(s, n, t) \in Lines /\ Spliced(s, InsertAt(s, n, t), n, <<t, s[n]>>)
<1>1. Len(s) \in Nat /\ n \in 1..Len(s) + 1 /\ s \in Seq(DOMAIN Digest)
  BY DEF Lines
<1> DEFINE r == InsertAt(s, n, t)
<1>2. /\ r \in Seq(DOMAIN Digest) /\ Len(r) = Len(s) + 1
      /\ \A p \in 1..n - 1 : r[p] = s[p]
      /\ r[n] = t
      /\ \A p \in n..Len(s) : r[p + 1] = s[p]
  BY <1>1, InsertedAt
<1> HIDE DEF r
<1>3. r[n + 1] = s[n] /\ \A p \in n + 1 .. Len(s) : r[p + 1] = s[p]
  <2>1. n \in n..Len(s) /\ n + 1 .. Len(s) \subseteq n..Len(s)
    BY <1>1
  <2> QED
    BY <1>2, <2>1
<1>4. Spliced(s, r, n, <<t, s[n]>>)
  BY <1>2, <1>3, TwoForOne
<1> QED
  BY <1>2, <1>4 DEF r, Lines

LEMMA InsertedBehind ==
  ASSUME NEW s \in Lines, NEW n \in 1..Len(s), NEW t \in DOMAIN Digest
  PROVE  InsertAt(s, n + 1, t) \in Lines /\ Spliced(s, InsertAt(s, n + 1, t), n, <<s[n], t>>)
<1>1. PICK m \in 1..Len(s) + 1 : m = n + 1
  BY DEF Lines
<1>2. Len(s) \in Nat /\ s \in Seq(DOMAIN Digest) /\ n = m - 1
  BY <1>1 DEF Lines
<1> DEFINE r == InsertAt(s, m, t)
<1>3. /\ r \in Seq(DOMAIN Digest) /\ Len(r) = Len(s) + 1
      /\ \A p \in 1..m - 1 : r[p] = s[p]
      /\ r[m] = t
      /\ \A p \in m..Len(s) : r[p + 1] = s[p]
  BY <1>2, InsertedAt
<1> HIDE DEF r
<1>4. r[n] = s[n] /\ \A p \in 1..n - 1 : r[p] = s[p]
  <2>1. n \in 1..m - 1 /\ 1..n - 1 \subseteq 1..m - 1
    BY <1>2
  <2> QED
    BY <1>3, <2>1
<1>5. r[n + 1] = t /\ \A p \in n + 1 .. Len(s) : r[p + 1] = s[p]
  BY <1>1, <1>3
<1>6. Spliced(s, r, n, <<s[n], t>>)
  BY <1>3, <1>4, <1>5, TwoForOne
<1> QED
  BY <1>1, <1>3, <1>6 DEF r, Lines

\* One edit replaces its line by what it makes of it.
LEMMA ApplySplices ==
  ASSUME NEW s \in Lines, NEW x, EditShape(x), x.line <= Len(s)
  PROVE  /\ ~Gone(s, x) /\ ApplyEdit(s, x) \in Lines
         /\ Spliced(s, ApplyEdit(s, x), x.line, Becomes(s[x.line], x))
<1>1. x.line \in 1..Len(s) /\ Len(s) \in Nat /\ x.text \in DOMAIN Digest /\ s \in Seq(DOMAIN Digest)
  BY DEF EditShape, Lines
<1>2. ~Gone(s, x)
  BY <1>1 DEF Gone
<1>3. CASE x.op = "insert_after"
  <2>1. \/ ApplyEdit(s, x) = InsertAt(s, x.line + 1, x.text)
       \/ (x.line + 1 > Len(s) /\ ApplyEdit(s, x) = Append(s, x.text))
    BY <1>3 DEF ApplyEdit, Put
  <2>2. Becomes(s[x.line], x) = <<s[x.line], x.text>>
    BY <1>3 DEF Becomes
  <2>3. CASE ApplyEdit(s, x) = InsertAt(s, x.line + 1, x.text)
    <3>1. x.line \in 1..Len(s) /\ x.text \in DOMAIN Digest
      BY <1>1
    <3>2. /\ InsertAt(s, x.line + 1, x.text) \in Lines
          /\ Spliced(s, InsertAt(s, x.line + 1, x.text), x.line, <<s[x.line], x.text>>)
      BY <3>1, InsertedBehind
    <3> QED
      BY <1>2, <2>2, <2>3, <3>2
  <2>4. CASE x.line + 1 > Len(s) /\ ApplyEdit(s, x) = Append(s, x.text)
    <3> DEFINE r == Append(s, x.text)
    <3>1. /\ r \in Seq(DOMAIN Digest) /\ Len(r) = Len(s) + 1
          /\ \A p \in 1..Len(s) : r[p] = s[p]
          /\ r[Len(s) + 1] = x.text
      BY <1>1, AppendProperties
    <3> HIDE DEF r
    <3>2. x.line = Len(s)
      BY <1>1, <2>4
    <3>3. Spliced(s, r, x.line, <<s[x.line], x.text>>)
      BY <1>1, <3>1, <3>2 DEF Spliced
    <3> QED
      BY <1>2, <2>2, <2>4, <3>1, <3>3 DEF r, Lines
  <2> QED
    BY <2>1, <2>3, <2>4
<1>4. CASE x.op = "insert_before"
  <2>1. ApplyEdit(s, x) = InsertAt(s, x.line, x.text)
    BY <1>1, <1>4 DEF ApplyEdit, Put
  <2>2. Becomes(s[x.line], x) = <<x.text, s[x.line]>>
    BY <1>4 DEF Becomes
  <2>3. x.line \in 1..Len(s) /\ x.text \in DOMAIN Digest
    BY <1>1
  <2>4. /\ InsertAt(s, x.line, x.text) \in Lines
        /\ Spliced(s, InsertAt(s, x.line, x.text), x.line, <<x.text, s[x.line]>>)
    BY <2>3, InsertedBefore
  <2> QED
    BY <1>2, <2>1, <2>2, <2>4
<1>5. CASE x.op = "replace"
  <2>1. ApplyEdit(s, x) = [s EXCEPT ![x.line] = x.text]
    BY <1>5 DEF ApplyEdit, ReplaceAt
  <2>2. Becomes(s[x.line], x) = <<x.text>>
    BY <1>5 DEF Becomes
  <2> DEFINE r == [s EXCEPT ![x.line] = x.text]
  <2>3. /\ r \in Seq(DOMAIN Digest) /\ Len(r) = Len(s)
        /\ \A p \in 1..Len(s) : r[p] = IF p = x.line THEN x.text ELSE s[p]
    BY <1>1, ExceptSeq
  <2> HIDE DEF r
  <2>4. Spliced(s, r, x.line, <<x.text>>)
    BY <1>1, <2>3 DEF Spliced
  <2> QED
    BY <1>2, <2>1, <2>2, <2>3, <2>4 DEF r, Lines
<1>6. CASE x.op = "delete"
  <2>1. ApplyEdit(s, x) = RemoveAt(s, x.line)
    BY <1>6 DEF ApplyEdit
  <2>2. Becomes(s[x.line], x) = <<>>
    BY <1>6 DEF Becomes
  <2> DEFINE r == RemoveAt(s, x.line)
  <2>3. /\ r \in Seq(DOMAIN Digest) /\ Len(r) = Len(s) - 1
        /\ \A p \in 1..x.line - 1 : r[p] = s[p]
        /\ \A p \in x.line + 1 .. Len(s) : r[p - 1] = s[p]
    BY <1>1, RemovedAt
  <2> HIDE DEF r
  <2>4. Spliced(s, r, x.line, <<>>)
    BY <1>1, <2>3 DEF Spliced
  <2> QED
    BY <1>2, <2>1, <2>2, <2>3, <2>4 DEF r, Lines
<1> QED
  BY <1>3, <1>4, <1>5, <1>6 DEF EditShape, Inserts

\* Whatever its line, what an edit leaves are lines.
LEMMA ApplyTypes ==
  ASSUME NEW s \in Lines, NEW x, EditShape(x), ~Gone(s, x)
  PROVE  ApplyEdit(s, x) \in Lines
<1>1. CASE x.line <= Len(s)
  BY <1>1, ApplySplices
<1>2. CASE x.line > Len(s)
  <2>1. x.op \in Inserts /\ x.line \in Nat /\ Len(s) \in Nat /\ s \in Seq(DOMAIN Digest) /\ x.text \in DOMAIN Digest
    BY <1>2 DEF Gone, EditShape, Lines
  <2>2. ApplyEdit(s, x) = Append(s, x.text)
    BY <1>2, <2>1 DEF ApplyEdit, Put, Inserts
  <2> QED
    BY <2>1, <2>2 DEF Lines
<1> QED
  BY <1>1, <1>2 DEF EditShape, Lines

\* What is put in and taken out before line n by the edits of D.
PutIn(edits, D, n) == {i \in D : edits[i].line < n /\ edits[i].op \in Inserts}
TakenOut(edits, D, n) == {i \in D : edits[i].line < n /\ edits[i].op = "delete"}

LEMMA BeginsByParts ==
  ASSUME NEW edits, NEW D, IsFiniteSet(D), NEW n \in Nat
  PROVE  /\ Begins(Part(edits, D), n) = n + Cardinality(PutIn(edits, D, n)) - Cardinality(TakenOut(edits, D, n))
         /\ IsFiniteSet(PutIn(edits, D, n)) /\ IsFiniteSet(TakenOut(edits, D, n))
         /\ Cardinality(PutIn(edits, D, n)) \in Nat /\ Cardinality(TakenOut(edits, D, n)) \in Nat
         /\ Begins(Part(edits, D), n) \in Int
<1>1. DOMAIN Part(edits, D) = D /\ \A i \in D : Part(edits, D)[i] = edits[i]
  BY DEF Part
<1>2. /\ {i \in DOMAIN Part(edits, D) : Part(edits, D)[i].line < n /\ Part(edits, D)[i].op \in Inserts} = PutIn(edits, D, n)
      /\ {i \in DOMAIN Part(edits, D) : Part(edits, D)[i].line < n /\ Part(edits, D)[i].op = "delete"} = TakenOut(edits, D, n)
  BY <1>1 DEF PutIn, TakenOut
<1>3. PutIn(edits, D, n) \in SUBSET D /\ TakenOut(edits, D, n) \in SUBSET D
  BY DEF PutIn, TakenOut
<1>4. /\ IsFiniteSet(PutIn(edits, D, n)) /\ IsFiniteSet(TakenOut(edits, D, n))
      /\ Cardinality(PutIn(edits, D, n)) \in Nat /\ Cardinality(TakenOut(edits, D, n)) \in Nat
  BY <1>3, FS_Subset, FS_CardinalityType
<1>5. Begins(Part(edits, D), n) = n + Cardinality(PutIn(edits, D, n)) - Cardinality(TakenOut(edits, D, n))
  BY <1>2 DEF Begins
<1> QED
  BY <1>4, <1>5

\* Before the first line that is edited nothing moves.
LEMMA BeginsThere ==
  ASSUME NEW edits, NEW D, IsFiniteSet(D), NEW n \in Nat, \A i \in D : ~(edits[i].line < n)
  PROVE  Begins(Part(edits, D), n) = n
<1>1. PutIn(edits, D, n) = {} /\ TakenOut(edits, D, n) = {}
  BY DEF PutIn, TakenOut
<1>2. Cardinality({}) = 0
  BY FS_EmptySet
<1>3. Begins(Part(edits, D), n) = n + Cardinality(PutIn(edits, D, n)) - Cardinality(TakenOut(edits, D, n))
  BY BeginsByParts
<1> QED
  BY <1>1, <1>2, <1>3

MovedBy(edits, D, u, n, text) ==
  Begins(Part(edits, D \cup {u}), n) = Begins(Part(edits, D), n) + Len(Becomes(text, edits[u])) - 1

\* One more edit moves what is behind its line by what it puts in or takes out.
LEMMA BeginsLater ==
  ASSUME NEW edits, NEW D, IsFiniteSet(D), NEW u, u \notin D, EditShape(edits[u]), NEW n \in Nat, edits[u].line < n, NEW text
  PROVE  MovedBy(edits, D, u, n, text)
<1> DEFINE P == PutIn(edits, D, n)
           T == TakenOut(edits, D, n)
           P2 == PutIn(edits, D \cup {u}, n)
           T2 == TakenOut(edits, D \cup {u}, n)
<1>0. IsFiniteSet(D \cup {u})
  BY FS_AddElement
<1>1. /\ Begins(Part(edits, D), n) = n + Cardinality(P) - Cardinality(T)
      /\ Begins(Part(edits, D \cup {u}), n) = n + Cardinality(P2) - Cardinality(T2)
      /\ IsFiniteSet(P) /\ IsFiniteSet(T) /\ Cardinality(P) \in Nat /\ Cardinality(T) \in Nat
  BY <1>0, BeginsByParts
<1>2. u \notin P /\ u \notin T
  BY DEF PutIn, TakenOut
<1>3. CASE edits[u].op \in Inserts
  <2>1. P2 = P \cup {u} /\ T2 = T
    BY <1>3 DEF PutIn, TakenOut, Inserts
  <2>2. Cardinality(P \cup {u}) = Cardinality(P) + 1
    <3> HIDE DEF P
    <3> QED
      BY <1>1, <1>2, FS_AddElement
  <2>3. Len(Becomes(text, edits[u])) = 2
    BY <1>3 DEF Becomes, Inserts
  <2> HIDE DEF P, T, P2, T2
  <2> QED
    BY <1>1, <2>1, <2>2, <2>3 DEF MovedBy
<1>4. CASE edits[u].op = "replace"
  <2>1. P2 = P /\ T2 = T
    BY <1>4 DEF PutIn, TakenOut, Inserts
  <2>2. Len(Becomes(text, edits[u])) = 1
    BY <1>4 DEF Becomes
  <2> HIDE DEF P, T, P2, T2
  <2> QED
    BY <1>1, <2>1, <2>2 DEF MovedBy
<1>5. CASE edits[u].op = "delete"
  <2>1. P2 = P /\ T2 = T \cup {u}
    BY <1>5 DEF PutIn, TakenOut, Inserts
  <2>2. Cardinality(T \cup {u}) = Cardinality(T) + 1
    <3> HIDE DEF T
    <3> QED
      BY <1>1, <1>2, FS_AddElement
  <2>3. Len(Becomes(text, edits[u])) = 0
    BY <1>5 DEF Becomes
  <2> HIDE DEF P, T, P2, T2
  <2> QED
    BY <1>1, <2>1, <2>2, <2>3 DEF MovedBy
<1> QED
  BY <1>3, <1>4, <1>5 DEF EditShape

LineOfItsOwn(edits, D, u) == \A i \in D : edits[i].line # edits[u].line
MeantNow(lines, edits, D, u, n) ==
  Meant(lines, Part(edits, D \cup {u}), n) =
    IF n = edits[u].line THEN Becomes(lines[n], edits[u]) ELSE Meant(lines, Part(edits, D), n)

\* One more edit changes what is meant of its own line only.
LEMMA MeantMore ==
  ASSUME NEW edits, NEW D, NEW u, NEW lines, NEW n, LineOfItsOwn(edits, D, u)
  PROVE  MeantNow(lines, edits, D, u, n)
<1> DEFINE E == D \cup {u}
           F == Part(edits, D)
           G == Part(edits, E)
           A == {i \in DOMAIN F : F[i].line = n}
           B == {i \in DOMAIN G : G[i].line = n}
<1>1. DOMAIN F = D /\ DOMAIN G = E /\ (\A i \in D : F[i] = edits[i]) /\ (\A i \in E : G[i] = edits[i])
  BY DEF Part
<1>2. /\ Meant(lines, F, n) = IF A = {} THEN <<lines[n]>> ELSE Becomes(lines[n], F[CHOOSE i \in A : TRUE])
      /\ Meant(lines, G, n) = IF B = {} THEN <<lines[n]>> ELSE Becomes(lines[n], G[CHOOSE i \in B : TRUE])
  BY DEF Meant
<1>3. A = {i \in D : edits[i].line = n} /\ B = {i \in E : edits[i].line = n}
  BY <1>1
<1>4. CASE n = edits[u].line
  <2>1. B = {u}
    BY <1>3, <1>4 DEF LineOfItsOwn
  <2>2. (CHOOSE i \in B : TRUE) = u
    BY <2>1
  <2> HIDE DEF A, B, F, G, E
  <2>3. G[u] = edits[u]
    BY <1>1 DEF E
  <2> QED
    BY <1>2, <1>4, <2>1, <2>2, <2>3 DEF F, G, E, MeantNow
<1>5. CASE n # edits[u].line
  <2>1. A = B
    BY <1>3, <1>5
  <2>2. CASE A = {}
    <3> HIDE DEF A, B, F, G, E
    <3> QED
      BY <1>2, <1>5, <2>1, <2>2 DEF F, G, E, MeantNow
  <2>3. CASE A # {}
    <3>1. (CHOOSE i \in A : TRUE) \in A
      BY <2>3
    <3>2. \A i \in A : F[i] = G[i]
      BY <1>1, <1>3
    <3> HIDE DEF A, B, F, G, E
    <3> QED
      BY <1>2, <1>5, <2>1, <2>3, <3>1, <3>2 DEF F, G, E, MeantNow
  <2> QED
    BY <2>2, <2>3
<1> QED
  BY <1>4, <1>5

LEMMA BecomesFew ==
  ASSUME NEW x, EditShape(x), NEW text
  PROVE  /\ Len(Becomes(text, x)) \in 0..2 /\ DOMAIN Becomes(text, x) = 1..Len(Becomes(text, x))
<1>1. x.op \in {"insert_after", "insert_before", "replace", "delete"}
  BY DEF EditShape, Inserts
<1>2. Becomes(text, x) \in {<<x.text>>, <<>>, <<x.text, text>>, <<text, x.text>>}
  BY <1>1 DEF Becomes
<1> QED
  BY <1>2

\* Making the next edit keeps the result the lines with the edits made.
LEMMA MadeMore ==
  ASSUME NEW lines \in Lines, NEW c, CallShape(c), c.todo # {}, Apart(c.edits),
         \A i \in DOMAIN c.edits : RefHolds(lines, c.edits[i]),
         Made(lines, c.edits, c.todo, c.new),
         NEW u, u = Upcoming(c.edits, c.todo), NEW r, r = ApplyEdit(c.new, c.edits[u])
  PROVE  ~Gone(c.new, c.edits[u]) /\ Made(lines, c.edits, c.todo \ {u}, r)
<1> DEFINE D == DOMAIN c.edits \ c.todo
           E == D \cup {u}
           F == Part(c.edits, D)
           G == Part(c.edits, E)
           N == Len(lines)
           L == c.edits[u].line
<1>1. PICK size \in Nat : DOMAIN c.edits = 1..size /\ \A i \in 1..size : EditShape(c.edits[i])
  BY DEF CallShape
<1>2. /\ u \in c.todo /\ u \in DOMAIN c.edits /\ u \notin D /\ EditShape(c.edits[u]) /\ L \in Nat \ {0}
      /\ \A j \in c.todo : c.edits[j].line <= L
      /\ \A i \in DOMAIN c.edits : c.edits[i].line \in Nat
  BY <1>1, UpcomingIsLast DEF CallShape, EditShape
<1>3. N \in Nat /\ L \in 1..N /\ c.new \in Lines /\ c.new \in Seq(DOMAIN Digest) /\ Len(c.new) \in Nat
  BY <1>2 DEF RefHolds, Lines, CallShape
<1>4. IsFiniteSet(D) /\ IsFiniteSet(E)
  <2>1. IsFiniteSet(1..size)
    BY FS_Interval
  <2>2. D \in SUBSET (1..size)
    BY <1>1
  <2>3. IsFiniteSet(D)
    <3> HIDE DEF D
    <3> QED
      BY <2>1, <2>2, FS_Subset
  <2> HIDE DEF D
  <2> QED
    BY <2>3, FS_AddElement
<1>5. \A j \in D : L < c.edits[j].line /\ c.edits[j].line \in Nat
  BY <1>2 DEF Made
<1>6. DOMAIN c.edits \ (c.todo \ {u}) = E
  BY <1>2
<1>7. /\ InPlace(lines, F, c.new) /\ Rising(lines, F)
      /\ \A i \in c.todo, j \in D : c.edits[i].line < c.edits[j].line
  BY DEF Made
<1>8. \A m \in 1..L + 1 : Begins(F, m) = m
  <2>1. SUFFICES ASSUME NEW m \in 1..L + 1 PROVE Begins(F, m) = m
    OBVIOUS
  <2>2. \A i \in D : ~(c.edits[i].line < m)
    BY <1>2, <1>5
  <2>3. m \in Nat
    BY <1>2
  <2> HIDE DEF D
  <2> QED
    BY <1>4, <2>2, <2>3, BeginsThere
<1>9. \A m \in 1..L : Begins(G, m) = m
  <2>1. SUFFICES ASSUME NEW m \in 1..L PROVE Begins(G, m) = m
    OBVIOUS
  <2>2. \A i \in E : ~(c.edits[i].line < m)
    BY <1>2, <1>5
  <2>3. m \in Nat
    BY <1>2
  <2> HIDE DEF E
  <2> QED
    BY <1>4, <2>2, <2>3, BeginsThere
<1> DEFINE b == Becomes(c.new[L], c.edits[u])
<1>10. \A m \in L + 1 .. N + 1 : Begins(G, m) = Begins(F, m) + Len(b) - 1
  <2>1. SUFFICES ASSUME NEW m \in L + 1 .. N + 1 PROVE Begins(G, m) = Begins(F, m) + Len(b) - 1
    OBVIOUS
  <2>2. m \in Nat /\ c.edits[u].line < m
    BY <1>2, <1>3
  <2>3. IsFiniteSet(D) /\ u \notin D /\ EditShape(c.edits[u])
    BY <1>2, <1>4
  <2> HIDE DEF D
  <2>4. MovedBy(c.edits, D, u, m, c.new[L])
    BY <2>2, <2>3, BeginsLater
  <2> QED
    BY <2>4, Zenon DEF MovedBy
<1>11. \A m \in 1..N + 1 : Begins(F, m) \in Int
  <2>1. SUFFICES ASSUME NEW m \in 1..N + 1 PROVE Begins(F, m) \in Int
    OBVIOUS
  <2> HIDE DEF D
  <2> QED
    BY <1>4, BeginsByParts
<1>12. Len(b) \in 0..2 /\ DOMAIN b = 1..Len(b)
  BY <1>2, BecomesFew
<1>a. \A m : Meant(lines, G, m) = IF m = L THEN Becomes(lines[m], c.edits[u]) ELSE Meant(lines, F, m)
  <2>1. LineOfItsOwn(c.edits, D, u)
    BY <1>2, <1>5 DEF LineOfItsOwn
  <2> HIDE DEF D
  <2>2. \A m : MeantNow(lines, c.edits, D, u, m)
    BY <2>1, MeantMore
  <2> QED
    BY <2>2, Zenon DEF MeantNow
<1>13. \A m \in 1..N : m # L => Meant(lines, G, m) = Meant(lines, F, m)
  BY <1>a, Zenon
<1>14. Meant(lines, G, L) = Becomes(lines[L], c.edits[u])
  BY <1>a, Zenon
<1>15. \A m \in 1..L : Meant(lines, F, m) = <<lines[m]>>
  <2>1. SUFFICES ASSUME NEW m \in 1..L PROVE Meant(lines, F, m) = <<lines[m]>>
    OBVIOUS
  <2>2. DOMAIN F = D /\ \A i \in D : F[i] = c.edits[i]
    BY DEF Part
  <2>3. {i \in DOMAIN F : F[i].line = m} = {}
    <3>1. \A i \in D : c.edits[i].line # m
      BY <1>2, <1>5
    <3> HIDE DEF D, F
    <3> QED
      BY <2>2, <3>1
  <2> HIDE DEF F
  <2> QED
    BY <2>3 DEF Meant
<1>16. DOMAIN lines = 1..N
  BY DEF Lines
<1>17. \A m \in 1..L : m \in DOMAIN c.new /\ c.new[m] = lines[m]
  <2>1. SUFFICES ASSUME NEW m \in 1..L PROVE m \in DOMAIN c.new /\ c.new[m] = lines[m]
    OBVIOUS
  <2>2. m \in DOMAIN lines /\ 1 \in DOMAIN Meant(lines, F, m) /\ Meant(lines, F, m)[1] = lines[m]
    <3>0. m \in DOMAIN lines
      BY <1>3, <1>16
    <3>1. Meant(lines, F, m) = <<lines[m]>>
      BY <1>15, Zenon
    <3> HIDE DEF F
    <3> QED
      BY <3>0, <3>1
  <2>3. Begins(F, m) + 1 - 1 = m
    <3>0. m \in Nat /\ m \in 1..L + 1
      BY <1>2
    <3>1. Begins(F, m) = m
      BY <1>8, <3>0, Zenon
    <3> HIDE DEF F
    <3> QED
      BY <3>0, <3>1
  <2> HIDE DEF F
  <2> QED
    BY <1>7, <2>2, <2>3 DEF InPlace
<1> HIDE DEF F, G
<1>18. Len(c.new) = Begins(F, N + 1) - 1 /\ L <= Len(c.new)
  BY <1>3, <1>7, <1>17 DEF InPlace
<1>19. ~Gone(c.new, c.edits[u]) /\ r \in Lines /\ Spliced(c.new, r, L, b)
  BY <1>2, <1>3, <1>18, ApplySplices
<1> HIDE DEF b
<1>20. /\ Len(r) = Len(c.new) + Len(b) - 1
       /\ \A p \in 1..L - 1 : r[p] = c.new[p]
       /\ \A k \in 1..Len(b) : r[L + k - 1] = b[k]
       /\ \A p \in L + 1 .. Len(c.new) : r[p + Len(b) - 1] = c.new[p]
       /\ DOMAIN r = 1..Len(r) /\ DOMAIN c.new = 1..Len(c.new)
  BY <1>3, <1>19 DEF Spliced, Lines
<1> HIDE DEF L, N
<1>21. Len(r) = Begins(G, N + 1) - 1
  BY <1>3, <1>10, <1>11, <1>12, <1>18, <1>20
<1>22. \A m \in DOMAIN lines : \A k \in DOMAIN Meant(lines, G, m) :
         LET place == Begins(G, m) + k - 1 IN place \in DOMAIN r /\ r[place] = Meant(lines, G, m)[k]
  <2>1. SUFFICES ASSUME NEW m \in 1..N, NEW k \in DOMAIN Meant(lines, G, m)
                 PROVE  /\ Begins(G, m) + k - 1 \in DOMAIN r
                        /\ r[Begins(G, m) + k - 1] = Meant(lines, G, m)[k]
    BY <1>16
  <2>2. CASE m \in 1..L - 1
    <3>1. Meant(lines, G, m) = <<lines[m]>>
      BY <1>3, <1>13, <1>15, <2>2
    <3>2. k = 1 /\ Meant(lines, G, m)[k] = lines[m]
      BY <2>1, <3>1
    <3>3. Begins(G, m) + k - 1 = m
      BY <1>3, <1>9, <2>2, <3>2
    <3>4. m \in DOMAIN r /\ r[m] = lines[m]
      BY <1>3, <1>12, <1>17, <1>18, <1>20, <2>2
    <3> QED
      BY <3>2, <3>3, <3>4
  <2>3. CASE m = L
    <3>1. Meant(lines, G, m) = b
      BY <1>3, <1>14, <1>17, <2>3 DEF b, L
    <3>2. k \in 1..Len(b)
      BY <1>12, <2>1, <3>1
    <3>3. Begins(G, m) + k - 1 = L + k - 1
      BY <1>3, <1>9, <2>3
    <3>4. L + k - 1 \in 1..Len(r)
      BY <1>3, <1>12, <1>18, <1>20, <3>2
    <3> QED
      BY <1>20, <3>1, <3>2, <3>3, <3>4
  <2>4. CASE m \in L + 1 .. N
    <3>1. Meant(lines, G, m) = Meant(lines, F, m)
      BY <1>3, <1>13, <2>4
    <3> DEFINE p == Begins(F, m) + k - 1
    <3>2. p \in DOMAIN c.new /\ c.new[p] = Meant(lines, F, m)[k]
      BY <1>7, <1>16, <2>1, <3>1 DEF InPlace
    <3>3. k \in Nat \ {0}
      <4>1. /\ \A i \in DOMAIN F : EditShape(F[i])
        BY <1>1 DEF F, Part
      <4>2. DOMAIN Meant(lines, F, m) \subseteq Nat \ {0}
        BY <4>1, BecomesFew DEF Meant
      <4> QED
        BY <2>1, <3>1, <4>2
    <3>4. Begins(F, m) >= L + 1 /\ Begins(F, m) \in Int
      <4>1. Begins(F, L + 1) <= Begins(F, m)
        BY <1>3, <1>7, <2>4 DEF Rising, N
      <4>2. Begins(F, L + 1) = L + 1
        BY <1>3, <1>8
      <4> QED
        BY <1>3, <1>11, <2>4, <4>1, <4>2
    <3>5. Begins(G, m) = Begins(F, m) + Len(b) - 1
      BY <1>3, <1>10, <2>4
    <3>a. L \in Nat /\ Len(b) \in Nat
      BY <1>3, <1>12
    <3>6. Begins(G, m) + k - 1 = p + Len(b) - 1 /\ p \in Int /\ p >= L + 1
      BY <3>3, <3>4, <3>5, <3>a
    <3>7. p \in L + 1 .. Len(c.new) /\ p + Len(b) - 1 \in 1..Len(r)
      BY <1>3, <1>12, <1>20, <3>2, <3>6
    <3> HIDE DEF p
    <3> QED
      BY <1>20, <3>1, <3>2, <3>6, <3>7
  <2> QED
    BY <1>3, <2>1, <2>2, <2>3, <2>4
<1>23. Rising(lines, G)
  <2>1. SUFFICES ASSUME NEW m \in 1..N + 1, NEW n \in 1..N + 1, m <= n
                 PROVE  Begins(G, m) <= Begins(G, n)
    BY DEF Rising, N
  <2>2. CASE n \in 1..L
    BY <1>3, <1>9, <2>1, <2>2
  <2>3. CASE m \in 1..L /\ n \in L + 1 .. N + 1
    <3>1. Begins(F, L + 1) <= Begins(F, n)
      BY <1>3, <1>7, <2>3 DEF Rising, N
    <3>2. Begins(F, L + 1) = L + 1
      BY <1>3, <1>8
    <3>3. Begins(G, n) = Begins(F, n) + Len(b) - 1 /\ Begins(F, n) \in Int /\ Begins(G, m) = m
      BY <1>3, <1>9, <1>10, <1>11, <2>3
    <3> QED
      BY <1>3, <1>12, <2>3, <3>1, <3>2, <3>3
  <2>4. CASE m \in L + 1 .. N + 1 /\ n \in L + 1 .. N + 1
    <3>1. Begins(F, m) <= Begins(F, n)
      BY <1>7, <2>1 DEF Rising, N
    <3> QED
      BY <1>3, <1>10, <1>11, <1>12, <2>4, <3>1
  <2> QED
    BY <1>3, <2>1, <2>2, <2>3, <2>4
<1>24. \A i \in c.todo \ {u}, j \in E : c.edits[i].line < c.edits[j].line
  <2>1. SUFFICES ASSUME NEW i \in c.todo \ {u} PROVE c.edits[i].line < L
    BY <1>7 DEF L
  <2>2. i \in DOMAIN c.edits /\ u \in DOMAIN c.edits /\ i # u
    BY <1>2, <2>1 DEF CallShape
  <2>3. c.edits[i].line # c.edits[u].line
    BY <2>2 DEF Apart
  <2> QED
    BY <1>2, <2>2, <2>3 DEF L
<1>25. InPlace(lines, G, r)
  BY <1>21, <1>22 DEF InPlace, N
<1> QED
  BY <1>6, <1>19, <1>23, <1>24, <1>25 DEF Made, G

\* Before any edit is made the lines are the result.
LEMMA MadeNone ==
  ASSUME NEW lines \in Lines, NEW edits
  PROVE  Made(lines, edits, DOMAIN edits, lines)
<1> DEFINE F == Part(edits, {})
           N == Len(lines)
<1>1. N \in Nat /\ DOMAIN lines = 1..N
  BY DEF Lines
<1>2. ASSUME NEW m \in 1..N + 1 PROVE Begins(F, m) = m
  <2>1. IsFiniteSet({}) /\ m \in Nat
    BY FS_EmptySet
  <2> QED
    BY <2>1, BeginsThere
<1>3. ASSUME NEW m PROVE Meant(lines, F, m) = <<lines[m]>>
  BY DEF Meant, Part
<1> HIDE DEF F, N
<1>4. Len(lines) = Begins(F, Len(lines) + 1) - 1
  <2>1. N + 1 \in 1..N + 1
    BY <1>1
  <2>2. Begins(F, N + 1) = N + 1
    BY <1>2, <2>1
  <2> QED
    BY <1>1, <2>2 DEF N
<1>5. ASSUME NEW m \in DOMAIN lines, NEW k \in DOMAIN Meant(lines, F, m)
      PROVE  Begins(F, m) + k - 1 \in DOMAIN lines /\ lines[Begins(F, m) + k - 1] = Meant(lines, F, m)[k]
  <2>1. m \in 1..N /\ m \in 1..N + 1
    BY <1>1
  <2>2. Begins(F, m) = m /\ Meant(lines, F, m) = <<lines[m]>>
    BY <1>2, <1>3, <2>1
  <2>3. k = 1 /\ Meant(lines, F, m)[k] = lines[m]
    BY <1>5, <2>2
  <2>4. Begins(F, m) + k - 1 = m
    BY <2>1, <2>2, <2>3
  <2> QED
    BY <1>5, <2>3, <2>4
<1>6. InPlace(lines, F, lines)
  BY <1>4, <1>5 DEF InPlace
<1>7. Rising(lines, F)
  BY <1>2 DEF Rising, N
<1>8. DOMAIN edits \ DOMAIN edits = {}
  OBVIOUS
<1> QED
  BY <1>6, <1>7, <1>8 DEF Made, F

LEMMA ReplacedTypes ==
  ASSUME NEW lines \in Lines, NEW old, Once(lines, old)
  PROVE  Replaced(lines, old) \in Lines /\ lines # <<>>
<1>1. {n \in DOMAIN lines : lines[n] = old} # {}
  BY FS_EmptySet DEF Once
<1>2. PICK n \in DOMAIN lines : lines[n] = old /\ n = (CHOOSE m \in DOMAIN lines : lines[m] = old)
  BY <1>1
<1>3. Replaced(lines, old) = [lines EXCEPT ![n] = "new"]
  BY <1>2 DEF Replaced, ReplaceAt
<1>4. "new" \in DOMAIN Digest /\ n \in 1..Len(lines) /\ lines \in Seq(DOMAIN Digest)
  BY FileEditsAssumption DEF Lines
<1>5. [lines EXCEPT ![n] = "new"] \in Seq(DOMAIN Digest)
  BY <1>4, ExceptSeq
<1>6. lines # <<>>
  BY <1>4
<1> QED
  BY <1>3, <1>5, <1>6 DEF Lines

\* Being late changes nothing else of a call, and there is nothing to say of it.
LEMMA LateShape ==
  ASSUME NEW c, CallShape(c), NEW d, d = IF c.pc = "idle" THEN c ELSE [c EXCEPT !.late = TRUE]
  PROVE  CallShape(d) /\ (d.pc = "idle" \/ d.late) /\ d.pc = c.pc
<1>1. CASE c.pc = "idle"
  BY <1>1
<1>2. CASE c.pc # "idle"
  <2>1. d = [c EXCEPT !.late = TRUE] /\ DOMAIN c = CallFields
    BY <1>2 DEF CallShape
  <2>2. /\ DOMAIN d = CallFields /\ d.pc = c.pc /\ d.tool = c.tool /\ d.edits = c.edits /\ d.todo = c.todo
        /\ d.new = c.new /\ d.late = TRUE
    BY <2>1 DEF CallFields
  <2> QED
    BY <2>2 DEF CallShape
<1> QED
  BY <1>1, <1>2

LEMMA IdleShape == CallShape(NoTool) /\ NoTool.pc = "idle"
<1>1. NoTool.edits = <<>> /\ DOMAIN NoTool.edits = 1..0 /\ NoTool.edits = [i \in DOMAIN NoTool.edits |-> NoTool.edits[i]]
  BY DEF NoTool
<1>2. NoTool.new \in Lines
  BY DEF NoTool, Lines
<1>3. \E n, b \in Nat : /\ DOMAIN NoTool.edits = 1..n
                        /\ \A i \in 1..n : EditShape(NoTool.edits[i]) /\ NoTool.edits[i].line <= b
  <2>1. DOMAIN NoTool.edits = 1..0 /\ \A i \in 1..0 : EditShape(NoTool.edits[i]) /\ NoTool.edits[i].line <= 0
    BY <1>1
  <2> QED
    BY <2>1
<1>4. /\ DOMAIN NoTool = CallFields /\ NoTool.pc = "idle" /\ NoTool.tool = "none" /\ NoTool.late = FALSE /\ NoTool.todo = {}
  BY DEF NoTool, CallFields
<1> QED
  BY <1>1, <1>2, <1>3, <1>4 DEF CallShape

\* One call changes, and is as sound as it was or as it is taken.
LEMMA CallMade ==
  ASSUME EditInv, NEW e \in Editors, NEW c, CallShape(c), CallSound(c, doc, whole),
         doc' = doc, whole' = whole, copy' = copy, editCall' = [editCall EXCEPT ![e] = c]
  PROVE  EditInv'
<1>1. doc' = doc /\ whole' = whole /\ copy' = copy /\ editCall' = [editCall EXCEPT ![e] = c]
  OBVIOUS
<1>2. DOMAIN editCall' = Editors /\ \A f \in Editors : editCall'[f] = IF f = e THEN c ELSE editCall[f]
  BY <1>1 DEF EditInv
<1>3. ASSUME NEW f \in Editors PROVE CallShape(editCall'[f]) /\ CallSound(editCall'[f], doc', whole')
  <2>1. CallShape(editCall[f]) /\ CallSound(editCall[f], doc, whole)
    BY DEF EditInv
  <2> QED
    BY <1>1, <1>2, <2>1
<1> QED
  BY <1>1, <1>2, <1>3 DEF EditInv

LEMMA CallTaken ==
  ASSUME EditInv, NEW e \in Editors, NEW c, CallShape(c), CallSound(c, doc, whole), Call(e, c)
  PROVE  EditInv'
<1>1. doc' = doc /\ whole' = whole /\ copy' = copy /\ editCall' = [editCall EXCEPT ![e] = c]
  BY DEF Call
<1> QED
  BY <1>1, CallMade

\* Whoever has the file in hand when it changes is late.
LEMMA OthersLate ==
  ASSUME EditInv, NEW f \in Editors, NEW held, NEW saved
  PROVE  CallShape(Late(editCall)[f]) /\ CallSound(Late(editCall)[f], held, saved)
<1>1. CallShape(editCall[f])
  BY DEF EditInv
<1>2. Late(editCall)[f] = IF editCall[f].pc = "idle" THEN editCall[f] ELSE [editCall[f] EXCEPT !.late = TRUE]
  BY DEF Late
<1>3. CallShape(Late(editCall)[f]) /\ (Late(editCall)[f].pc = "idle" \/ Late(editCall)[f].late)
  BY <1>1, <1>2, LateShape
<1> QED
  BY <1>3 DEF CallSound

LEMMA LinesTaken ==
  ASSUME EditInv, NEW e \in Editors, EditLines(e)
  PROVE  EditInv'
<1>1. PICK n \in 1..MaxEdits : \E edits \in [1..n -> EditsOn(e)] :
        /\ \A i \in 1..n : RefHolds(doc, edits[i])
        /\ Call(e, [NoTool EXCEPT !.pc = "editing", !.tool = "hashline", !.edits = edits, !.todo = 1..n, !.new = doc])
  BY DEF EditLines
<1>2. PICK edits \in [1..n -> EditsOn(e)] :
        /\ \A i \in 1..n : RefHolds(doc, edits[i])
        /\ Call(e, [NoTool EXCEPT !.pc = "editing", !.tool = "hashline", !.edits = edits, !.todo = 1..n, !.new = doc])
  BY <1>1
<1>3. PICK c : c = [NoTool EXCEPT !.pc = "editing", !.tool = "hashline", !.edits = edits, !.todo = 1..n, !.new = doc]
  OBVIOUS
<1>4. /\ DOMAIN c = CallFields /\ c.pc = "editing" /\ c.tool = "hashline" /\ c.late = FALSE
      /\ c.edits = edits /\ c.todo = 1..n /\ c.new = doc
  BY <1>3 DEF NoTool, CallFields
<1>5. doc \in Lines /\ whole \in Lines /\ (doc = <<>> \/ doc = whole) /\ copy[e] \in Lines
  BY DEF EditInv
<1>6. n \in Nat /\ 1 \in 1..n
  BY FileEditsAssumption
<1>7. \A i \in 1..n : EditShape(edits[i])
  <2>1. SUFFICES ASSUME NEW i \in 1..n PROVE EditShape(edits[i])
    OBVIOUS
  <2>2. edits[i] \in EditsOn(e)
    OBVIOUS
  <2>3. PICK o \in Ops, x \in Refs(e) : edits[i] = [op |-> o, line |-> x.line, hash |-> x.hash, text |-> "new"]
    BY <2>2 DEF EditsOn
  <2>4. x.line \in 1..Len(copy[e]) /\ Len(copy[e]) \in Nat
    BY <1>5 DEF Refs, Lines
  <2> QED
    BY <2>3, <2>4, FileEditsAssumption DEF EditShape
<1>8. \A i \in 1..n : edits[i].line <= Len(doc)
  BY <1>2 DEF RefHolds
<1>9. Len(doc) \in Nat
  BY <1>5 DEF Lines
<1>10. CallShape(c)
  <2>1. DOMAIN c.edits = 1..n /\ \A i \in 1..n : EditShape(c.edits[i]) /\ c.edits[i].line <= Len(doc)
    BY <1>4, <1>7, <1>8
  <2>2. \E m, b \in Nat : DOMAIN c.edits = 1..m /\ \A i \in 1..m : EditShape(c.edits[i]) /\ c.edits[i].line <= b
    BY <1>6, <1>9, <2>1
  <2>3. c.edits = [i \in DOMAIN c.edits |-> c.edits[i]] /\ c.todo = DOMAIN c.edits /\ c.todo # {}
    BY <1>4, <1>6
  <2> QED
    BY <1>4, <1>5, <2>2, <2>3 DEF CallShape
<1>11. doc = whole
  <2>1. edits[1].line \in 1..Len(doc)
    BY <1>2, <1>6 DEF RefHolds
  <2> QED
    BY <1>5, <2>1
<1>12. Made(whole, c.edits, c.todo, c.new)
  <2>1. Made(whole, edits, DOMAIN edits, whole)
    BY <1>5, MadeNone
  <2> QED
    BY <1>4, <1>11, <2>1
<1>13. CallSound(c, doc, whole)
  BY <1>2, <1>4, <1>11, <1>12 DEF CallSound
<1>14. Call(e, c)
  BY <1>2, <1>3
<1> QED
  BY <1>10, <1>13, <1>14, CallTaken

LEMMA TextTaken ==
  ASSUME EditInv, NEW e \in Editors, EditText(e) \/ WriteDoc(e)
  PROVE  EditInv'
<1>1. doc \in Lines /\ whole \in Lines /\ (doc = <<>> \/ doc = whole)
  BY DEF EditInv
<1>2. ASSUME NEW c, /\ DOMAIN c = CallFields /\ c.pc = "loaded" /\ c.tool \in {"edit", "write"} /\ c.late = FALSE
                    /\ c.edits = <<>> /\ c.todo = {} /\ c.new \in Lines
      PROVE  CallShape(c)
  <2>1. c.edits = NoTool.edits
    BY <1>2 DEF NoTool
  <2> QED
    BY <1>2, <2>1, IdleShape DEF CallShape
<1>3. CASE EditText(e)
  <2>1. PICK n \in DOMAIN copy[e] :
          /\ Once(doc, copy[e][n])
          /\ Call(e, [NoTool EXCEPT !.pc = "loaded", !.tool = "edit", !.old = copy[e][n], !.new = Replaced(doc, copy[e][n])])
    BY <1>3 DEF EditText
  <2>2. PICK old, new : old = copy[e][n] /\ new = Replaced(doc, old)
    OBVIOUS
  <2>3. PICK c : c = [NoTool EXCEPT !.pc = "loaded", !.tool = "edit", !.old = old, !.new = new]
    OBVIOUS
  <2>4. /\ DOMAIN c = CallFields /\ c.pc = "loaded" /\ c.tool = "edit" /\ c.late = FALSE
        /\ c.edits = <<>> /\ c.todo = {} /\ c.old = old /\ c.new = new
    BY <2>3 DEF NoTool, CallFields
  <2>5. Call(e, c) /\ Once(doc, old)
    BY <2>1, <2>2, <2>3
  <2>6. new \in Lines /\ doc # <<>>
    BY <1>1, <2>2, <2>5, ReplacedTypes
  <2>7. CallShape(c)
    BY <1>2, <2>4, <2>6
  <2>9. CallSound(c, doc, whole)
    BY <1>1, <2>2, <2>4, <2>5, <2>6 DEF CallSound
  <2> QED
    BY <2>5, <2>7, <2>9, CallTaken
<1>4. CASE WriteDoc(e)
  <2>1. Call(e, [NoTool EXCEPT !.pc = "loaded", !.tool = "write", !.new = <<"new">>])
    BY <1>4 DEF WriteDoc
  <2>2. PICK c : c = [NoTool EXCEPT !.pc = "loaded", !.tool = "write", !.new = <<"new">>]
    OBVIOUS
  <2>3. /\ DOMAIN c = CallFields /\ c.pc = "loaded" /\ c.tool = "write" /\ c.late = FALSE
        /\ c.edits = <<>> /\ c.todo = {} /\ c.new = <<"new">>
    BY <2>2 DEF NoTool, CallFields
  <2>4. <<"new">> \in Lines
    BY FileEditsAssumption DEF Lines
  <2>5. CallShape(c)
    BY <1>2, <2>3, <2>4
  <2>7. CallSound(c, doc, whole)
    BY <2>3 DEF CallSound
  <2> QED
    BY <2>1, <2>2, <2>5, <2>7, CallTaken
<1> QED
  BY <1>3, <1>4

LEMMA OneMade ==
  ASSUME EditInv, NEW e \in Editors, EditOne(e)
  PROVE  EditInv'
<1>1. PICK c, u : c = editCall[e] /\ u = Upcoming(c.edits, c.todo)
  OBVIOUS
<1>2. CallShape(c) /\ CallSound(c, doc, whole) /\ whole \in Lines
  BY <1>1 DEF EditInv
<1>3. c.pc = "editing" /\ c.tool = "hashline" /\ c.todo # {}
  BY <1>1, <1>2 DEF EditOne, CallShape
<1>4. u \in c.todo /\ u \in DOMAIN c.edits
  BY <1>1, <1>2, <1>3, UpcomingIsLast DEF CallShape
<1>5. EditShape(c.edits[u]) /\ c.new \in Lines
  BY <1>2, <1>4 DEF CallShape
<1>6. doc' = doc /\ whole' = whole /\ copy' = copy
  BY DEF EditOne
<1>7. CASE Gone(c.new, c.edits[u])
  <2>1. editCall' = [editCall EXCEPT ![e] = NoTool]
    BY <1>1, <1>7 DEF EditOne
  <2>2. CallShape(NoTool) /\ CallSound(NoTool, doc, whole)
    BY IdleShape DEF CallSound
  <2> QED
    BY <1>6, <2>1, <2>2, CallMade
<1>8. CASE ~Gone(c.new, c.edits[u])
  <2>1. PICK r, next : r = ApplyEdit(c.new, c.edits[u]) /\ next = IF c.todo = {u} THEN "loaded" ELSE "editing"
    OBVIOUS
  <2>2. PICK d : d = [c EXCEPT !.new = r, !.todo = c.todo \ {u}, !.pc = next]
    OBVIOUS
  <2>3. editCall' = [editCall EXCEPT ![e] = d]
    BY <1>1, <1>8, <2>1, <2>2 DEF EditOne
  <2>4. DOMAIN c = CallFields
    BY <1>2 DEF CallShape
  <2>5. /\ DOMAIN d = CallFields /\ d.pc = next /\ d.tool = c.tool /\ d.edits = c.edits /\ d.todo = c.todo \ {u}
        /\ d.old = c.old /\ d.new = r /\ d.late = c.late
    BY <2>2, <2>4 DEF CallFields
  <2>6. r \in Lines
    BY <1>5, <1>8, <2>1, ApplyTypes
  <2>7. (next = "loaded" /\ d.todo = {}) \/ (next = "editing" /\ d.todo # {})
    BY <1>4, <2>1, <2>5
  <2>8. CallShape(d)
    BY <1>2, <1>3, <2>5, <2>6, <2>7 DEF CallShape
  <2>9. ASSUME ~d.late, Apart(d.edits)
        PROVE  (\A i \in DOMAIN d.edits : RefHolds(whole, d.edits[i])) /\ Made(whole, d.edits, d.todo, d.new)
    <3>1. ~c.late /\ Apart(c.edits)
      BY <2>5, <2>9
    <3>2. (\A i \in DOMAIN c.edits : RefHolds(whole, c.edits[i])) /\ Made(whole, c.edits, c.todo, c.new)
      BY <1>2, <1>3, <3>1 DEF CallSound
    <3>3. Made(whole, c.edits, c.todo \ {u}, r)
      BY <1>1, <1>2, <1>3, <2>1, <3>1, <3>2, MadeMore
    <3> QED
      BY <2>5, <3>2, <3>3
  <2>10. ~d.late => doc = whole
    BY <1>2, <1>3, <2>5 DEF CallSound
  <2>11. CallSound(d, doc, whole)
    BY <1>3, <2>5, <2>7, <2>9, <2>10 DEF CallSound
  <2> QED
    BY <1>6, <2>3, <2>8, <2>11, CallMade
<1> QED
  BY <1>7, <1>8

\* The file changes under whoever has it in hand.
LEMMA DocChanges ==
  ASSUME EditInv, NEW e \in Editors, NEW c, CallShape(c), CallSound(c, doc', whole'),
         doc' \in Lines, whole' \in Lines, doc' = <<>> \/ doc' = whole', copy' = copy,
         editCall' = [(Late(editCall)) EXCEPT ![e] = c]
  PROVE  EditInv'
<1>1. DOMAIN Late(editCall) = Editors
  BY DEF Late
<1>2. DOMAIN editCall' = Editors /\ \A f \in Editors : editCall'[f] = IF f = e THEN c ELSE Late(editCall)[f]
  BY <1>1
<1>3. ASSUME NEW f \in Editors PROVE CallShape(editCall'[f]) /\ CallSound(editCall'[f], doc', whole')
  <2>1. CallShape(Late(editCall)[f]) /\ CallSound(Late(editCall)[f], doc', whole')
    BY OthersLate
  <2> QED
    BY <1>2, <2>1
<1>4. copy' \in [Editors -> Lines]
  BY DEF EditInv
<1> QED
  BY <1>2, <1>3, <1>4 DEF EditInv

LEMMA EmptyMade ==
  ASSUME EditInv, NEW e \in Editors, Empty(e)
  PROVE  EditInv'
<1>1. PICK c, d : c = editCall[e] /\ d = [c EXCEPT !.pc = "emptied"]
  OBVIOUS
<1>2. CallShape(c) /\ CallSound(c, doc, whole) /\ whole \in Lines /\ c.pc = "loaded"
  BY <1>1 DEF EditInv, Empty
<1>3. doc' = <<>> /\ whole' = whole /\ copy' = copy /\ editCall' = [(Late(editCall)) EXCEPT ![e] = d]
  BY <1>1 DEF Empty
<1>4. DOMAIN c = CallFields
  BY <1>2 DEF CallShape
<1>5. /\ DOMAIN d = CallFields /\ d.pc = "emptied" /\ d.tool = c.tool /\ d.edits = c.edits /\ d.todo = c.todo
      /\ d.old = c.old /\ d.new = c.new /\ d.late = c.late
  BY <1>1, <1>4 DEF CallFields
<1>6. CallShape(d)
  BY <1>2, <1>5 DEF CallShape
<1>7. CallSound(d, doc', whole')
  BY <1>2, <1>3, <1>5 DEF CallSound
<1>8. doc' \in Lines
  BY <1>3 DEF Lines
<1> QED
  BY <1>2, <1>3, <1>6, <1>7, <1>8, DocChanges

LEMMA FillMade ==
  ASSUME EditInv, NEW e \in Editors, Fill(e)
  PROVE  EditInv'
<1>1. PICK new : new = editCall[e].new
  OBVIOUS
<1>2. CallShape(editCall[e]) /\ doc \in Seq(DOMAIN Digest)
  BY DEF EditInv, Lines
<1>3. new \in Seq(DOMAIN Digest)
  BY <1>1, <1>2 DEF CallShape, Lines
<1>4. doc' = new \o SubSeq(doc, Len(new) + 1, Len(doc))
  BY <1>1 DEF Fill
<1>5. SubSeq(doc, Len(new) + 1, Len(doc)) \in Seq(DOMAIN Digest)
  BY <1>2, <1>3, SubSeqProperties
<1>6. doc' \in Lines
  <2> DEFINE rest == SubSeq(doc, Len(new) + 1, Len(doc))
  <2> HIDE DEF rest
  <2>1. rest \in Seq(DOMAIN Digest)
    BY <1>5 DEF rest
  <2>2. new \o rest \in Seq(DOMAIN Digest)
    BY <1>3, <2>1, ConcatProperties
  <2> QED
    BY <1>4, <2>2 DEF rest, Lines
<1>7. whole' = doc' /\ copy' = copy /\ editCall' = [(Late(editCall)) EXCEPT ![e] = NoTool]
  BY DEF Fill
<1>8. CallShape(NoTool) /\ CallSound(NoTool, doc', whole')
  BY IdleShape DEF CallSound
<1> QED
  BY <1>6, <1>7, <1>8, DocChanges

LEMMA SavesMade ==
  ASSUME EditInv, UserSaves
  PROVE  EditInv'
<1>1. PICK n \in 1..Len(doc) + 1, t \in Texts :
        doc' \in {InsertAt(doc, n, t)} \cup (IF n \in DOMAIN doc THEN {RemoveAt(doc, n), ReplaceAt(doc, n, t)} ELSE {})
  BY DEF UserSaves
<1>2. doc \in Seq(DOMAIN Digest) /\ t \in DOMAIN Digest
  BY FileEditsAssumption DEF EditInv, Lines
<1>3. doc' \in Seq(DOMAIN Digest)
  <2>1. CASE doc' = InsertAt(doc, n, t)
    <3>1. InsertAt(doc, n, t) \in Seq(DOMAIN Digest)
      BY <1>2, InsertedAt
    <3> QED
      BY <2>1, <3>1
  <2>2. CASE n \in 1..Len(doc) /\ doc' = RemoveAt(doc, n)
    <3>1. RemoveAt(doc, n) \in Seq(DOMAIN Digest)
      BY <1>2, <2>2, RemovedAt
    <3> QED
      BY <2>2, <3>1
  <2>3. CASE n \in 1..Len(doc) /\ doc' = ReplaceAt(doc, n, t)
    <3>1. [doc EXCEPT ![n] = t] \in Seq(DOMAIN Digest)
      BY <1>2, <2>3, ExceptSeq
    <3> QED
      BY <2>3, <3>1 DEF ReplaceAt
  <2>4. DOMAIN doc = 1..Len(doc)
    BY <1>2
  <2> QED
    BY <1>1, <2>1, <2>2, <2>3, <2>4
<1>4. whole' = doc' /\ copy' = copy /\ editCall' = Late(editCall)
  BY DEF UserSaves
<1>5. DOMAIN Late(editCall) = Editors
  BY DEF Late
<1>6. ASSUME NEW f \in Editors PROVE CallShape(editCall'[f]) /\ CallSound(editCall'[f], doc', whole')
  BY <1>4, OthersLate
<1>7. doc' \in Lines /\ whole' \in Lines /\ copy' \in [Editors -> Lines] /\ DOMAIN editCall' = Editors
  BY <1>3, <1>4, <1>5 DEF EditInv, Lines
<1> QED
  BY <1>4, <1>6, <1>7 DEF EditInv

LEMMA EditsBegin == EditInit => EditInv
<1>1. SUFFICES ASSUME EditInit PROVE EditInv
  OBVIOUS
<1>2. /\ doc \in Lines /\ whole = doc /\ DOMAIN editCall = Editors
      /\ \A e \in Editors : editCall[e] = NoTool
  BY <1>1, FileEditsAssumption DEF EditInit, Lines
<1>3. copy \in [Editors -> Lines]
  <2>1. <<>> \in Lines
    BY DEF Lines
  <2> QED
    BY <1>1, <2>1 DEF EditInit
<1>4. CallShape(NoTool) /\ CallSound(NoTool, doc, whole)
  BY IdleShape DEF CallSound
<1> QED
  BY <1>2, <1>3, <1>4 DEF EditInv

LEMMA EditsStep == EditInv /\ [EditNext]_editVars => EditInv'
<1>1. SUFFICES ASSUME EditInv, [EditNext]_editVars PROVE EditInv'
  OBVIOUS
<1>2. ASSUME NEW e \in Editors, ReadDoc(e) PROVE EditInv'
  <2>1. doc' = doc /\ whole' = whole /\ editCall' = editCall /\ copy' = [copy EXCEPT ![e] = doc]
    BY <1>2 DEF ReadDoc
  <2>2. copy' \in [Editors -> Lines]
    BY <1>1, <2>1 DEF EditInv
  <2> QED
    BY <1>1, <2>1, <2>2 DEF EditInv
<1>3. ASSUME NEW e \in Editors, KilledEmpty(e) PROVE EditInv'
  <2>1. doc' = doc /\ whole' = whole /\ copy' = copy /\ editCall' = [editCall EXCEPT ![e] = NoTool]
    BY <1>3 DEF KilledEmpty
  <2>2. CallShape(NoTool) /\ CallSound(NoTool, doc, whole)
    BY IdleShape DEF CallSound
  <2> QED
    BY <1>1, <2>1, <2>2, CallMade
<1>4. ASSUME NEW e \in Editors, EditLines(e) PROVE EditInv'
  BY <1>1, <1>4, LinesTaken
<1>5. ASSUME NEW e \in Editors, EditOne(e) PROVE EditInv'
  BY <1>1, <1>5, OneMade
<1>6. ASSUME NEW e \in Editors, EditText(e) \/ WriteDoc(e) PROVE EditInv'
  BY <1>1, <1>6, TextTaken
<1>7. ASSUME NEW e \in Editors, Empty(e) PROVE EditInv'
  BY <1>1, <1>7, EmptyMade
<1>8. ASSUME NEW e \in Editors, Fill(e) PROVE EditInv'
  BY <1>1, <1>8, FillMade
<1>9. ASSUME UserSaves PROVE EditInv'
  BY <1>1, <1>9, SavesMade
<1>10. ASSUME UNCHANGED editVars PROVE EditInv'
  <2>1. doc' = doc /\ whole' = whole /\ copy' = copy /\ editCall' = editCall
    BY <1>10 DEF editVars
  <2> QED
    BY <1>1, <2>1 DEF EditInv
<1> QED
  BY <1>1, <1>2, <1>3, <1>4, <1>5, <1>6, <1>7, <1>8, <1>9, <1>10 DEF EditNext

\* Only the step that fills the file leaves it written.
LEMMA WroteIsFill ==
  ASSUME EditInv, [EditNext]_editVars, NEW e \in Editors, Wrote(e)
  PROVE  Fill(e) \/ ((doc' = <<>> /\ whole' = whole) /\ KilledEmpty(e)) \/ editCall[e].late
<1>1. editCall[e].pc = "emptied" /\ editCall'[e].pc = "idle" /\ (doc' # <<>> \/ whole' # whole)
  BY DEF Wrote
<1>2. DOMAIN editCall = Editors /\ DOMAIN Late(editCall) = Editors
  BY DEF EditInv, Late
<1>3. Late(editCall)[e].pc = "emptied"
  <2>1. CallShape(editCall[e]) /\ Late(editCall)[e] = [editCall[e] EXCEPT !.late = TRUE]
    BY <1>1 DEF EditInv, Late
  <2> QED
    BY <1>1, <2>1 DEF CallShape, CallFields
<1>4. ASSUME editCall' = editCall PROVE FALSE
  BY <1>1, <1>4
<1>5. ASSUME NEW f \in Editors, f # e, NEW d, editCall' = [editCall EXCEPT ![f] = d] PROVE FALSE
  BY <1>1, <1>2, <1>5
<1>6. ASSUME NEW f \in Editors, f # e, NEW d, editCall' = [(Late(editCall)) EXCEPT ![f] = d] PROVE FALSE
  BY <1>1, <1>2, <1>3, <1>6
<1>7. ASSUME UNCHANGED editVars PROVE FALSE
  BY <1>4, <1>7 DEF editVars
<1>8. ASSUME UserSaves PROVE FALSE
  BY <1>1, <1>3, <1>8 DEF UserSaves
<1>9. ASSUME NEW f \in Editors, ReadDoc(f) PROVE FALSE
  BY <1>4, <1>9 DEF ReadDoc
<1>10. ASSUME NEW f \in Editors, NEW c, Call(f, c) PROVE FALSE
  <2>1. editCall[f].pc = "idle" /\ editCall' = [editCall EXCEPT ![f] = c]
    BY <1>10 DEF Call, MayCall
  <2>2. f # e
    BY <1>1, <2>1
  <2> QED
    BY <1>5, <2>1, <2>2
<1>11. ASSUME NEW f \in Editors, EditLines(f) \/ EditText(f) \/ WriteDoc(f) PROVE FALSE
  <2>1. \E c : Call(f, c)
    BY <1>11 DEF EditLines, EditText, WriteDoc
  <2> QED
    BY <1>10, <2>1
<1>12. ASSUME NEW f \in Editors, EditOne(f) PROVE FALSE
  <2>1. editCall[f].pc = "editing" /\ \E d : editCall' = [editCall EXCEPT ![f] = d]
    BY <1>12 DEF EditOne
  <2>2. f # e
    BY <1>1, <2>1
  <2> QED
    BY <1>5, <2>1, <2>2
<1>13. ASSUME NEW f \in Editors, Empty(f) PROVE FALSE
  <2>1. editCall[f].pc = "loaded" /\ \E d : editCall' = [(Late(editCall)) EXCEPT ![f] = d]
    BY <1>13 DEF Empty
  <2>2. f # e
    BY <1>1, <2>1
  <2> QED
    BY <1>6, <2>1, <2>2
<1>14. ASSUME NEW f \in Editors, Fill(f) PROVE f = e
  <2>1. \E d : editCall' = [(Late(editCall)) EXCEPT ![f] = d]
    BY <1>14 DEF Fill
  <2> QED
    BY <1>6, <2>1
<1>15. ASSUME NEW f \in Editors, KilledEmpty(f) PROVE f = e
  <2>1. \E d : editCall' = [editCall EXCEPT ![f] = d]
    BY <1>15 DEF KilledEmpty
  <2> QED
    BY <1>5, <2>1
<1>16. ASSUME KilledEmpty(e), ~editCall[e].late PROVE doc' = <<>> /\ whole' = whole
  <2>1. CallSound(editCall[e], doc, whole)
    BY DEF EditInv
  <2> QED
    BY <1>1, <1>16, <2>1 DEF CallSound, KilledEmpty
<1> QED
  BY <1>7, <1>8, <1>9, <1>11, <1>12, <1>13, <1>14, <1>15, <1>16 DEF EditNext

\* What the step leaves is what the tool made of the lines that were last saved.
LEMMA FillLands ==
  ASSUME EditInv, NEW e \in Editors, Fill(e), ~editCall[e].late
  PROVE  Landed(e)
<1>1. PICK c : c = editCall[e]
  OBVIOUS
<1>2. CallShape(c) /\ CallSound(c, doc, whole) /\ c.pc = "emptied" /\ ~c.late
  BY <1>1 DEF EditInv, Fill
<1>3. doc = <<>> /\ c.new \in Seq(DOMAIN Digest) /\ c.todo = {} /\ c.tool \in {"hashline", "edit", "write"}
  BY <1>2 DEF CallSound, CallShape, Lines
<1>4. doc' = c.new
  <2>1. doc' = c.new \o SubSeq(doc, Len(c.new) + 1, Len(doc))
    BY <1>1 DEF Fill
  <2>2. PICK new : new = c.new
    OBVIOUS
  <2>3. new \in Seq(DOMAIN Digest) /\ Len(new) \in Nat
    BY <1>3, <2>2
  <2>4. SubSeq(<<>>, Len(new) + 1, Len(<<>>)) = <<>>
    BY <2>3
  <2>5. new \o <<>> = new
    BY <2>3
  <2> QED
    BY <1>3, <2>1, <2>2, <2>4, <2>5
<1>5. CASE c.tool = "hashline"
  <2>1. ASSUME Apart(c.edits)
        PROVE  (\A i \in DOMAIN c.edits : RefHolds(whole, c.edits[i])) /\ InPlace(whole, c.edits, doc')
    <3>1. (\A i \in DOMAIN c.edits : RefHolds(whole, c.edits[i])) /\ Made(whole, c.edits, c.todo, c.new)
      BY <1>2, <1>5, <2>1 DEF CallSound
    <3>2. InPlace(whole, Part(c.edits, DOMAIN c.edits \ c.todo), c.new)
      BY <3>1 DEF Made
    <3>3. DOMAIN c.edits \ c.todo = DOMAIN c.edits
      BY <1>3
    <3>4. Part(c.edits, DOMAIN c.edits) = c.edits
      BY <1>2 DEF CallShape, Part
    <3> QED
      BY <1>4, <3>1, <3>2, <3>3, <3>4
  <2> QED
    BY <1>1, <1>5, <2>1 DEF Landed
<1>6. CASE c.tool = "edit"
  BY <1>1, <1>2, <1>4, <1>6 DEF Landed, CallSound
<1>7. CASE c.tool = "write"
  BY <1>1, <1>2, <1>4, <1>7 DEF Landed, CallSound
<1> QED
  BY <1>3, <1>5, <1>6, <1>7

\* Whoever writes the file without being late leaves the lines that were last
\* saved with its edits made, each on the line it names and in its place
\* (HashlineEditTool, EditTool, WriteTool).
THEOREM EditsHold == EditSpec => EditsLand
<1>1. ASSUME EditInv, [EditNext]_editVars, NEW e \in Editors, Wrote(e), ~editCall[e].late PROVE Landed(e)
  <2>1. Fill(e) \/ (doc' = <<>> /\ whole' = whole)
    BY <1>1, WroteIsFill
  <2>2. Fill(e)
    BY <1>1, <2>1 DEF Wrote
  <2> QED
    BY <1>1, <2>2, FillLands
<1>2. EditInv /\ [EditNext]_editVars => [\A e \in Editors : Wrote(e) /\ ~editCall[e].late => Landed(e)]_editVars
  BY <1>1
<1> QED
  BY EditsBegin, EditsStep, <1>2, PTL DEF EditSpec, EditsLand
===========================================================================
