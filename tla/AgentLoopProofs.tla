--------------------------- MODULE AgentLoopProofs ---------------------------
(***************************************************************************)
(* Proofs about AgentLoop, for every budget, retry policy, size of plans,  *)
(* number of sub-goals, calls, snapshots and orders.                       *)
(***************************************************************************)
EXTENDS AgentLoop, WellFoundedInduction, FiniteSetTheorems, TLAPS

-----------------------------------------------------------------------------
(* The inductive invariant.                                                *)

\* A run of a sub-goal is under way; one of its steps is.
Running == {"plan", "head", "waiting", "woken", "think", "llm", "act", "after", "finish",
            "decided"}
InStep  == {"think", "llm", "act"}

\* What is used and what is left make up the budget; the step of the run is
\* still in left, which NextGoal brings up to date.
Budget ==
  /\ used <= MaxSteps
  /\ pc \in {"route", "begin"} => used + left = MaxSteps
  /\ pc \in Running => used + left = MaxSteps + mem.step /\ mem.step <= left

\* A run is of a sub-goal that there is.
Goals == /\ pc = "route" => done = 0
         /\ pc \in {"begin"} \cup Running => done < goals

\* What is shown is what this attempt produced; between calls it is nothing.
Stream == seen = got /\ (pc # "llm" => got = 0)

\* A state of the loop, in memory or in a snapshot: one step of the plan is
\* worked on, a run that goes on, or may after a decision, has none that failed and
\* may still err, and a run that is complete has done its plan.
Sound(m) ==
  /\ \A i, j \in 1..PlanSize : m.plan[i] = "IN_PROGRESS" /\ m.plan[j] = "IN_PROGRESS" => i = j
  /\ m.stop \in {"NONE", "APPROVAL_REQUIRED"} =>
       m.errors < MaxErrors /\ \A i \in 1..PlanSize : m.plan[i] # "FAILED"
  /\ m.stop = "MODEL_FINAL" => \A i \in 1..PlanSize : m.plan[i] \in {"ABSENT", "DONE"}

\* The step under way works on step at of the plan; on none only when none is
\* left.
Plans ==
  /\ Sound(mem) /\ Sound(snap.state)
  /\ pc \in InStep \cup {"plan", "waiting", "woken", "after", "decided"} => mem.stop = "NONE"
  /\ pc \in InStep =>
       /\ \A i \in 1..PlanSize : mem.plan[i] = "IN_PROGRESS" => i = at
       /\ at = 0 => \A i \in 1..PlanSize : mem.plan[i] # "PENDING"
  /\ outcome.success => pc = "idle" /\ mem.stop = "MODEL_FINAL"

IInv == TypeOK /\ Budget /\ Goals /\ Stream /\ Plans

-----------------------------------------------------------------------------
(* The operators.                                                          *)

\* A non-empty set of natural numbers has a least element.
LEMMA LeastElement ==
  ASSUME NEW S \in SUBSET Nat, S # {}
  PROVE  \E i \in S : \A j \in S : i <= j
<1> DEFINE less == OpToRel(<, Nat)
<1>1. \A i, j \in Nat : i < j => <<i, j>> \in less
  BY DEF OpToRel
<1>2. IsWellFoundedOn(less, Nat)
  BY NatLessThanWellFounded
<1> HIDE DEF less
<1>3. PICK i \in S : \A j \in S : <<j, i>> \notin less
  BY <1>2, WFMin
<1>4. \A j \in S : ~ (j < i)
  BY <1>1, <1>3
<1> QED
  BY <1>4

\* Current is a step that is open: the one begun, if there is one; 0 if none is.
LEMMA CurrentStep ==
  ASSUME TypeOK
  PROVE  /\ Current \in 0..PlanSize
         /\ Current = 0 => \A i \in 1..PlanSize : mem.plan[i] \notin {"IN_PROGRESS", "PENDING"}
         /\ Current # 0 =>
              \/ mem.plan[Current] = "IN_PROGRESS"
              \/ /\ mem.plan[Current] = "PENDING"
                 /\ \A i \in 1..PlanSize : mem.plan[i] # "IN_PROGRESS"
<1> DEFINE begun   == {i \in 1..PlanSize : mem.plan[i] = "IN_PROGRESS"}
           pending == {i \in 1..PlanSize : mem.plan[i] = "PENDING"}
           open    == IF begun # {} THEN begun ELSE pending
<1>1. Current = IF open = {} THEN 0 ELSE CHOOSE i \in open : \A j \in open : i <= j
  BY DEF Current
<1>2. open \in SUBSET (1..PlanSize) /\ PlanSize \in Nat
  BY ConstantsAssumption DEF ConstantsAssumption
<1>3. CASE open = {}
  <2>1. begun = {} /\ pending = {}
    BY <1>3
  <2> QED
    BY <1>1, <1>2, <1>3, <2>1
<1>4. CASE open # {}
  <2>1. open \in SUBSET Nat
    BY <1>2
  <2> HIDE DEF open
  <2>2. Current \in open
    BY <1>1, <1>4, <2>1, LeastElement
  <2> USE DEF open
  <2> QED
    BY <1>2, <2>2
<1> QED
  BY <1>3, <1>4

\* What a run starts from.
LEMMA NewStateOK ==
  /\ NewState \in LoopState /\ NewState.step = 0 /\ NewState.errors = 0
  /\ NewState.stop = "NONE" /\ \A i \in 1..PlanSize : NewState.plan[i] = "ABSENT"
BY ConstantsAssumption DEF ConstantsAssumption, NewState, LoopState, PlanStep

\* A finite number of calls is left behind.
LEMMA LeftBehindOK == ASSUME stray \in Nat PROVE LeftBehind \in Nat
<1>1. IsFiniteSet(Call)
  BY ConstantsAssumption, FS_Interval DEF ConstantsAssumption, Call
<1>2. Open \subseteq Call
  BY DEF Open
<1>3. Cardinality(Open) \in Nat
  BY <1>1, <1>2, FS_Subset, FS_CardinalityType
<1> QED
  BY <1>3 DEF LeftBehind

\* Calls that are queued, or over, are calls.
LEMMA CallsOK ==
  ASSUME NEW n \in Call, NEW s \in CallState, NEW readonly \in BOOLEAN, Calls(n, s, readonly)
  PROVE  calls' \in [Call -> CallState] /\ parallel' \in BOOLEAN
<1>1. "none" \in CallState
  BY DEF CallState
<1>2. calls' = [c \in Call |-> IF c <= n THEN s ELSE "none"]
  BY DEF Calls
<1> QED
  BY <1>1, <1>2 DEF Calls

\* No call, no result and no snapshot are of their types.
LEMMA NoCallsOK == NoCalls \in [Call -> CallState]
BY DEF NoCalls, CallState

LEMMA NoOutcomeOK == NoOutcome \in Outcome /\ ~NoOutcome.success
BY DEF NoOutcome, Outcome

LEMMA NoSnapshotOK ==
  /\ NoSnapshot \in Snapshot /\ NoSnapshot.state = NewState /\ ~NoSnapshot.taken
BY NewStateOK DEF NoSnapshot, Snapshot, Life

\* A snapshot holds a state of the loop.
LEMMA SnapshotOK ==
  ASSUME snap \in Snapshot
  PROVE  /\ snap.state \in LoopState /\ snap.life \in Life /\ snap.taken \in BOOLEAN
         /\ snap.state.step \in 0..MaxSteps
BY DEF Snapshot, LoopState

\* A run that is stopped keeps everything but its reason.
LEMMA TerminateOK ==
  ASSUME mem \in LoopState, NEW s \in StopReason, Terminate(s)
  PROVE  /\ mem' \in LoopState /\ pc' = "finish"
         /\ mem'.step = mem.step /\ mem'.errors = mem.errors /\ mem'.plan = mem.plan
         /\ mem'.stop = s
BY DEF Terminate, LoopState

\* A step that begins counts, and marks the current step of the plan.
LEMMA BeginStepOK ==
  ASSUME TypeOK, Budget, pc \in {"head", "woken"}, ~OutOfSteps, BeginStep
  PROVE  /\ mem' \in LoopState /\ pc' = "think"
         /\ mem'.step = mem.step + 1 /\ mem'.errors = mem.errors /\ mem'.stop = mem.stop
         /\ mem'.plan = [i \in 1..PlanSize |-> IF i = Current THEN "IN_PROGRESS"
                                                              ELSE mem.plan[i]]
         /\ at' = Current /\ at' \in 0..PlanSize
         /\ saved' = mem.goal /\ saved' \in 0..PlanSize
         /\ used' = used + 1
<1> DEFINE P == [i \in 1..PlanSize |-> IF i = Current THEN "IN_PROGRESS" ELSE mem.plan[i]]
           G == IF Current = 0 THEN mem.goal ELSE Current
<1>1. /\ mem' = [mem EXCEPT !.step = @ + 1, !.goal = G, !.plan = P]
      /\ at' = Current /\ saved' = mem.goal /\ pc' = "think" /\ used' = used + 1
  BY DEF BeginStep
<1>2. P \in [1..PlanSize -> PlanStep]
  BY DEF TypeOK, LoopState, PlanStep
<1>3. Current \in 0..PlanSize
  BY CurrentStep
<1>4. G \in 0..PlanSize /\ mem.goal \in 0..PlanSize
  BY <1>3 DEF TypeOK, LoopState
<1>5. mem.step + 1 \in 0..MaxSteps
  BY ConstantsAssumption DEF ConstantsAssumption, TypeOK, LoopState, OutOfSteps
<1> HIDE DEF P, G
<1>6. mem' \in LoopState /\ mem'.plan = P /\ mem'.step = mem.step + 1
      /\ mem'.errors = mem.errors /\ mem'.stop = mem.stop
  BY <1>1, <1>2, <1>4, <1>5 DEF TypeOK, LoopState
<1> QED
  BY <1>1, <1>3, <1>4, <1>6 DEF P

\* Check stops the run or begins a step.
LEMMA CheckOK ==
  ASSUME TypeOK, Budget, pc \in {"head", "woken"}, Check
  PROVE  \/ /\ mem' \in LoopState /\ pc' = "finish"
            /\ mem'.step = mem.step /\ mem'.errors = mem.errors /\ mem'.plan = mem.plan
            /\ mem'.stop \in {"USER_CANCELLED", "BUDGET_EXHAUSTED", "MAX_STEPS"}
            /\ UNCHANGED <<used, at, saved>>
         \/ ~OutOfSteps /\ BeginStep
<1> DEFINE S == {"USER_CANCELLED", "BUDGET_EXHAUSTED", "MAX_STEPS"}
<1>1. \/ \E s \in S : Terminate(s) /\ Stay
      \/ ~OutOfSteps /\ BeginStep
  BY DEF Check
<1>2. ASSUME NEW s \in S, Terminate(s), Stay
      PROVE  /\ mem' \in LoopState /\ pc' = "finish"
             /\ mem'.step = mem.step /\ mem'.errors = mem.errors /\ mem'.plan = mem.plan
             /\ mem'.stop \in S
             /\ UNCHANGED <<used, at, saved>>
  <2>1. mem \in LoopState /\ s \in StopReason
    BY DEF TypeOK, StopReason
  <2>2. UNCHANGED <<used, at, saved>>
    BY <1>2 DEF Stay, locals
  <2> QED
    BY <1>2, <2>1, <2>2, TerminateOK
<1> QED
  BY <1>1, <1>2

\* What run_step() returns: the same step and errors, and the reason given - none
\* when a final answer leaves steps of the plan.
LEMMA StepReturnsOK ==
  ASSUME TypeOK, NEW m \in LoopState, NEW s \in StopReason \cup {"NONE"}
  PROVE  LET R == StepReturns(m, s) IN
         /\ R \in LoopState
         /\ R.step = m.step /\ R.errors = m.errors
         /\ \/ R.stop = s
            \/ R.stop = "NONE" /\ s = "MODEL_FINAL" /\ at # 0
         /\ s = "MODEL_FINAL" /\ at # 0 /\ (\A i \in 1..PlanSize : R.plan[i] # "PENDING")
              => R.stop = s
         /\ R.stop = "MODEL_FINAL" /\ at # 0 => \A i \in 1..PlanSize : R.plan[i] # "PENDING"
         /\ \A i \in 1..PlanSize \ {at} : R.plan[i] = m.plan[i]
         /\ at # 0 => R.plan[at] =
              IF s = "MODEL_FINAL" THEN "DONE"
              ELSE IF s \in {"LLM_ERROR_ABORT", "TOOL_ERROR_ABORT"} THEN "FAILED"
              ELSE m.plan[at]
<1> DEFINE P == IF at = 0 THEN m.plan
                ELSE [m.plan EXCEPT ![at] =
                        IF s = "MODEL_FINAL" THEN "DONE"
                        ELSE IF s \in {"LLM_ERROR_ABORT", "TOOL_ERROR_ABORT"} THEN "FAILED"
                        ELSE @]
           more == at # 0 /\ s = "MODEL_FINAL" /\ PlanMore(P)
           S == IF more THEN "NONE" ELSE s
           R == StepReturns(m, s)
<1>1. R = [m EXCEPT !.goal = saved, !.plan = P, !.stop = S]
  BY DEF StepReturns
<1>2. /\ P \in [1..PlanSize -> PlanStep]
      /\ \A i \in 1..PlanSize \ {at} : P[i] = m.plan[i]
      /\ at # 0 => P[at] = IF s = "MODEL_FINAL" THEN "DONE"
                           ELSE IF s \in {"LLM_ERROR_ABORT", "TOOL_ERROR_ABORT"} THEN "FAILED"
                           ELSE m.plan[at]
  <2>1. m.plan \in [1..PlanSize -> PlanStep]
    BY DEF LoopState
  <2>2. at # 0 => at \in 1..PlanSize
    BY ConstantsAssumption DEF ConstantsAssumption, TypeOK
  <2>3. CASE at = 0
    BY <2>1, <2>3
  <2>4. CASE at # 0
    <3> DEFINE v == IF s = "MODEL_FINAL" THEN "DONE"
                    ELSE IF s \in {"LLM_ERROR_ABORT", "TOOL_ERROR_ABORT"} THEN "FAILED"
                    ELSE m.plan[at]
    <3>1. v \in PlanStep
      BY <2>1, <2>2, <2>4 DEF PlanStep
    <3>2. P = [m.plan EXCEPT ![at] = v]
      BY <2>4
    <3> HIDE DEF P
    <3>3. P \in [1..PlanSize -> PlanStep] /\ P[at] = v
          /\ \A i \in 1..PlanSize \ {at} : P[i] = m.plan[i]
      <4> HIDE DEF v
      <4> QED
        BY <2>1, <2>2, <2>4, <3>1, <3>2
    <3> QED
      BY <3>3
  <2> QED
    BY <2>3, <2>4
<1>3. /\ S \in StopReason \cup {"NONE"}
      /\ \/ S = s
         \/ S = "NONE" /\ s = "MODEL_FINAL" /\ at # 0
      /\ s = "MODEL_FINAL" /\ at # 0 /\ (\A i \in 1..PlanSize : P[i] # "PENDING") => S = s
      /\ S = "MODEL_FINAL" /\ at # 0 => \A i \in 1..PlanSize : P[i] # "PENDING"
  <2> HIDE DEF P
  <2> QED
    BY DEF PlanMore
<1> HIDE DEF P, S, R
<1>4. R \in LoopState /\ R.step = m.step /\ R.errors = m.errors /\ R.plan = P /\ R.stop = S
  BY <1>1, <1>2, <1>3 DEF TypeOK, LoopState
<1> QED
  BY <1>2, <1>3, <1>4 DEF R

\* Every end of a step but Raised's.
LEMMA EndStepOK ==
  ASSUME TypeOK, NEW m \in LoopState, NEW s \in StopReason \cup {"NONE"},
         NEW message \in BOOLEAN, EndStep(m, s, message)
  PROVE  /\ mem' = StepReturns(m, s) /\ mem' \in LoopState
         /\ mem'.step = m.step /\ mem'.errors = m.errors
         /\ at' = 0 /\ saved' = 0 /\ attempt' = 1 /\ got' = 0 /\ seen' = 0
         /\ pc' \in {"after", "finish"}
         /\ pc' = "after" <=> mem'.stop = "NONE" /\ message
BY StepReturnsOK DEF EndStep

\* The errors that Observe counts.
LEMMA ErrorsOK ==
  ASSUME TypeOK, mem.errors < MaxErrors
  PROVE  /\ [mem EXCEPT !.errors = Errors] \in LoopState
         /\ Errors \in 0..MaxErrors
         /\ Verdict \in StopReason \cup {"NONE"}
         /\ Verdict = "NONE" \/ Verdict = "TOOL_ERROR_ABORT"
         /\ Verdict = "NONE" => Errors < MaxErrors
<1>1. mem.errors \in 0..MaxErrors /\ MaxErrors \in Nat
  BY ConstantsAssumption DEF ConstantsAssumption, TypeOK, LoopState
<1>2. Errors \in 0..MaxErrors
  BY <1>1 DEF Errors
<1>3. /\ Verdict \in StopReason \cup {"NONE"}
      /\ Verdict = "NONE" \/ Verdict = "TOOL_ERROR_ABORT"
  BY DEF Verdict, StopReason
<1>4. Verdict = "NONE" => Errors < MaxErrors
  BY <1>1, <1>2 DEF Verdict
<1> QED
  BY <1>2, <1>3, <1>4 DEF TypeOK, LoopState

-----------------------------------------------------------------------------
(* Every step keeps the types.                                             *)

\* The errors stay below their bound because a run that goes on has room for one
\* more, the steps because none begins when the budget is used.
LEMMA TypeStep ==
  ASSUME TypeOK, Budget, Goals, Plans, [Next]_vars
  PROVE  TypeOK'
<1> USE ConstantsAssumption
    DEF ConstantsAssumption, TypeOK, config, lifecycle, request, llm, act, locals, StepFrame,
        PC, Idle
<1>1. ASSUME Route PROVE TypeOK'
  BY <1>1 DEF Route
<1>2. ASSUME RouteFails PROVE TypeOK'
  <2>1. outcome' \in Outcome
    BY <1>2 DEF RouteFails, Return, Outcome, StopReason
  <2> QED
    BY <1>2, <2>1 DEF RouteFails, Return
<1>3. ASSUME Begin PROVE TypeOK'
  BY <1>3, NewStateOK, NoCallsOK DEF Begin, Life
<1>4. ASSUME MakePlan PROVE TypeOK'
  <2>1. PICK n \in 0..PlanSize :
          mem' = [mem EXCEPT !.plan = [i \in 1..PlanSize |->
                                         IF i <= n THEN "PENDING" ELSE "ABSENT"]]
    BY <1>4 DEF MakePlan
  <2>2. mem' \in LoopState
    BY <2>1 DEF LoopState, PlanStep
  <2> QED
    BY <1>4, <2>2 DEF MakePlan
<1>5. ASSUME FinishRun PROVE TypeOK'
  <2>1. mem.step \in 0..MaxSteps /\ mem.step <= left /\ mem.stop \in StopReason \cup {"NONE"}
        /\ done < goals
    BY <1>5 DEF FinishRun, LoopState, Budget, Goals, Running
  <2>2. left' \in 0..MaxSteps /\ done' \in 0..MaxGoals
    BY <1>5, <2>1 DEF FinishRun, NextGoal, Remaining
  <2>3. pc' \in PC
    BY <1>5 DEF FinishRun, NextGoal, Return
  <2>4. outcome' \in Outcome
    <3>1. \/ outcome' = outcome
          \/ \E b \in BOOLEAN, s \in StopReason \cup {"NONE"} :
               outcome' = [success |-> b, stop |-> s, over |-> TRUE]
      BY <1>5, <2>1 DEF FinishRun, NextGoal, Return, StopReason
    <3>2. \A b \in BOOLEAN, s \in StopReason \cup {"NONE"} :
            [success |-> b, stop |-> s, over |-> TRUE] \in Outcome
      BY DEF Outcome
    <3> QED
      BY <3>1, <3>2
  <2> QED
    BY <1>5, <2>2, <2>3, <2>4 DEF FinishRun
<1>6. ASSUME Head PROVE TypeOK'
  <2>1. CASE ~Check
    BY <1>6, <2>1 DEF Head, Woken, Stay
  <2>2. CASE Check
    <3>1. pc \in {"head", "woken"}
      BY <1>6 DEF Head, Woken
    <3>2. /\ mem' \in LoopState /\ pc' \in {"finish", "think"} /\ used' \in {used, used + 1}
          /\ at' \in 0..PlanSize /\ saved' \in 0..PlanSize
      <4> USE <3>1 DEF TypeOK
      <4>1. CASE ~OutOfSteps /\ BeginStep
        BY <4>1, BeginStepOK
      <4>2. CASE ~(~OutOfSteps /\ BeginStep)
        BY <2>2, <4>2, CheckOK
      <4> QED
        BY <4>1, <4>2
    <3> QED
      BY <1>6, <3>2 DEF Head, Woken
  <2> QED
    BY <2>1, <2>2
<1>7. ASSUME Woken PROVE TypeOK'
  <2>1. CASE ~Check
    BY <1>7, <2>1 DEF Head, Woken, Stay
  <2>2. CASE Check
    <3>1. pc \in {"head", "woken"}
      BY <1>7 DEF Head, Woken
    <3>2. /\ mem' \in LoopState /\ pc' \in {"finish", "think"} /\ used' \in {used, used + 1}
          /\ at' \in 0..PlanSize /\ saved' \in 0..PlanSize
      <4> USE <3>1 DEF TypeOK
      <4>1. CASE ~OutOfSteps /\ BeginStep
        BY <4>1, BeginStepOK
      <4>2. CASE ~(~OutOfSteps /\ BeginStep)
        BY <2>2, <4>2, CheckOK
      <4> QED
        BY <4>1, <4>2
    <3> QED
      BY <1>7, <3>2 DEF Head, Woken
  <2> QED
    BY <2>1, <2>2
<1>8. ASSUME Think PROVE TypeOK'
  <2>1. CASE cancelled
    <3>1. /\ mem' \in LoopState /\ at' = 0 /\ saved' = 0 /\ attempt' = 1 /\ got' = 0
          /\ seen' = 0 /\ pc' \in {"after", "finish"}
      BY <1>8, <2>1, EndStepOK DEF Think, StopReason
    <3> QED
      BY <1>8, <3>1 DEF Think
  <2>2. CASE ~cancelled
    BY <1>8, <2>2 DEF Think
  <2> QED
    BY <2>1, <2>2
<1>9. ASSUME Token PROVE TypeOK'
  BY <1>9 DEF Token
<1>10. ASSUME Retry PROVE TypeOK'
  BY <1>10 DEF Retry, MayRetry
<1>11. ASSUME LlmFails PROVE TypeOK'
  <2>1. /\ mem' \in LoopState /\ at' = 0 /\ saved' = 0 /\ attempt' = 1 /\ got' = 0
        /\ seen' = 0 /\ pc' \in {"after", "finish"}
    BY <1>11, EndStepOK DEF LlmFails, StopReason
  <2> QED
    BY <1>11, <2>1 DEF LlmFails
<1>12. ASSUME NEW s \in StopReason, Answer(s) PROVE TypeOK'
  <2>1. /\ mem' \in LoopState /\ at' = 0 /\ saved' = 0 /\ attempt' = 1 /\ got' = 0
        /\ seen' = 0 /\ pc' \in {"after", "finish"}
    BY <1>12, EndStepOK DEF Answer, StopReason
  <2> QED
    BY <1>12, <2>1 DEF Answer
<1>13. ASSUME NEW n \in Call, NEW readonly \in BOOLEAN, Propose(n, readonly) PROVE TypeOK'
  <2>1. Calls(n, "queued", readonly) /\ "queued" \in CallState
    BY <1>13 DEF Propose, CallState
  <2>2. calls' \in [Call -> CallState] /\ parallel' \in BOOLEAN
    BY <2>1, CallsOK
  <2> QED
    BY <1>13, <2>2 DEF Propose
<1>14. ASSUME NEW c \in Call, StartCall(c) PROVE TypeOK'
  BY <1>14 DEF StartCall, CallState
<1>15. ASSUME NEW c \in Call, NEW s \in {"ok", "error"}, EndCall(c, s) PROVE TypeOK'
  BY <1>15 DEF EndCall, CallState
<1>16. ASSUME Raised PROVE TypeOK'
  <2>1. mem' \in LoopState
    BY <1>16 DEF Raised, LoopState, StopReason
  <2> QED
    BY <1>16, <2>1 DEF Raised
<1>17. ASSUME Observe PROVE TypeOK'
  <2>1. mem.errors < MaxErrors
    BY <1>17 DEF Observe, Plans, Sound, InStep, LoopState
  <2>2. /\ mem' \in LoopState /\ at' = 0 /\ saved' = 0 /\ attempt' = 1 /\ got' = 0
        /\ seen' = 0 /\ pc' \in {"after", "finish"}
    <3> DEFINE m == [mem EXCEPT !.errors = Errors]
    <3>1. m \in LoopState /\ Verdict \in StopReason \cup {"NONE"}
      BY <2>1, ErrorsOK
    <3>2. EndStep(m, Verdict, TRUE)
      BY <1>17 DEF Observe
    <3> HIDE DEF m
    <3> QED
      BY <3>1, <3>2, EndStepOK
  <2>3. calls' \in [Call -> CallState] /\ parallel' \in BOOLEAN /\ stray' \in Nat /\ pc' \in PC
    BY <1>17, <2>2, NoCallsOK DEF Observe
  <2>4. StepFrame
    BY <1>17 DEF Observe
  <2> QED
    BY <2>2, <2>3, <2>4
<1>18. ASSUME AfterStep PROVE TypeOK'
  <2>1. mem' \in LoopState /\ pc' \in PC
    BY <1>18, TerminateOK DEF AfterStep, StopReason
  <2> QED
    BY <1>18, <2>1 DEF AfterStep
<1>19. ASSUME RunAgent PROVE TypeOK'
  <2>1. life' \in Life /\ paused' \in BOOLEAN /\ stopping' \in BOOLEAN
    BY <1>19 DEF RunAgent, Life
  <2>2. mem' \in LoopState /\ outcome' \in Outcome /\ snap' \in Snapshot
    BY <1>19, NewStateOK, NoOutcomeOK, NoSnapshotOK DEF RunAgent, KeepSnapshot
  <2>3. calls' \in [Call -> CallState] /\ parallel' \in BOOLEAN /\ stray' \in Nat
    BY <1>19, NoCallsOK, LeftBehindOK DEF RunAgent, LeaveCalls
  <2> QED
    BY <1>19, <2>1, <2>2, <2>3 DEF RunAgent
<1>20. ASSUME Pause PROVE TypeOK'
  <2>1. life' \in Life /\ pc' \in PC
    BY <1>20 DEF Pause, StopLife, Wake, Life
  <2>2. paused' \in BOOLEAN /\ stopping' \in BOOLEAN
    BY <1>20 DEF Pause, StopLife
  <2> QED
    BY <1>20, <2>1, <2>2 DEF Pause, Order
<1>21. ASSUME Resume PROVE TypeOK'
  <2>1. life' \in Life /\ pc' \in PC
    BY <1>21 DEF Resume, StopLife, Wake, Life
  <2>2. paused' \in BOOLEAN /\ stopping' \in BOOLEAN
    BY <1>21 DEF Resume, StopLife
  <2> QED
    BY <1>21, <2>1, <2>2 DEF Resume, Order
<1>22. ASSUME Stop PROVE TypeOK'
  <2>1. life' \in Life /\ pc' \in PC
    BY <1>22 DEF Stop, StopLife, Wake, Life
  <2>2. paused' \in BOOLEAN /\ stopping' \in BOOLEAN
    BY <1>22 DEF Stop, StopLife
  <2> QED
    BY <1>22, <2>1, <2>2 DEF Stop, Order
<1>23. ASSUME Cancel PROVE TypeOK'
  BY <1>23 DEF Cancel
<1>24. ASSUME SaveSnapshot PROVE TypeOK'
  <2>1. snap' \in Snapshot
    BY <1>24 DEF SaveSnapshot, Serialized, Snapshot
  <2> QED
    BY <1>24, <2>1 DEF SaveSnapshot
<1>25. ASSUME Crash PROVE TypeOK'
  <2>1. life' \in Life /\ pc' \in PC
    BY <1>25 DEF Crash, Life
  <2>2. mem' \in LoopState /\ calls' \in [Call -> CallState] /\ outcome' \in Outcome
    BY <1>25, NewStateOK, NoCallsOK, NoOutcomeOK DEF Crash
  <2>3. /\ left' \in 0..MaxSteps /\ goals' \in 0..MaxGoals /\ done' \in 0..MaxGoals
        /\ attempt' \in 1..(MaxRetries + 1) /\ got' \in 0..MaxTokens /\ seen' \in Nat
        /\ at' \in 0..PlanSize /\ saved' \in 0..PlanSize /\ used' \in Nat
    BY <1>25 DEF Crash
  <2>4. /\ paused' \in BOOLEAN /\ stopping' \in BOOLEAN /\ cancelled' \in BOOLEAN
        /\ parallel' \in BOOLEAN /\ stray' \in Nat /\ UNCHANGED <<config, snap, runs, orders>>
    BY <1>25 DEF Crash
  <2> QED
    BY <2>1, <2>2, <2>3, <2>4
<1>r. ASSUME NEW m \in LoopState, m.step \in 0..MaxSteps, Restored(m)
      PROVE  /\ mem' \in LoopState /\ outcome' \in Outcome /\ snap' \in Snapshot
             /\ left' \in 0..MaxSteps /\ goals' \in 0..MaxGoals /\ done' \in 0..MaxGoals
             /\ runs' \in 0..MaxRuns /\ used' \in Nat /\ stopping' \in BOOLEAN
             /\ UNCHANGED <<config, cancelled, locals, llm, orders>>
  <2>1. outcome' \in Outcome /\ snap' \in Snapshot
    BY <1>r, NoOutcomeOK, NoSnapshotOK DEF Restored, KeepSnapshot
  <2>2. used' = m.step /\ mem' = m /\ left' = MaxSteps /\ goals' = 1 /\ done' = 0
        /\ stopping' = FALSE /\ runs < MaxRuns /\ runs' = runs + 1
        /\ UNCHANGED <<config, cancelled, locals, llm, orders>>
    BY <1>r DEF Restored
  <2>3. mem' \in LoopState
    BY <1>r, <2>2
  <2>4. used' \in Nat
    BY <1>r, <2>2
  <2>5. left' \in 0..MaxSteps /\ goals' \in 0..MaxGoals /\ done' \in 0..MaxGoals
    BY <2>2
  <2>6. runs' \in 0..MaxRuns
    BY <2>2
  <2>7. stopping' \in BOOLEAN
    BY <2>2
  <2> QED
    BY <2>1, <2>2, <2>3, <2>4, <2>5, <2>6, <2>7
<1>s. /\ snap.state \in LoopState /\ snap.state.step \in 0..MaxSteps
      /\ Deserialized(snap) = snap.state
  BY SnapshotOK DEF Deserialized
<1>26. ASSUME RunFromSnapshot PROVE TypeOK'
  <2>1. Restored(snap.state)
    BY <1>26, <1>s DEF RunFromSnapshot
  <2>2. /\ calls' \in [Call -> CallState] /\ parallel' \in BOOLEAN /\ stray' \in Nat
        /\ life' \in Life /\ paused' \in BOOLEAN /\ pc' \in PC
    BY <1>26, NoCallsOK, LeftBehindOK DEF RunFromSnapshot, LeaveCalls, Life
  <2> QED
    BY <1>r, <1>s, <2>1, <2>2
<1>28. ASSUME WrongDecision PROVE TypeOK'
  <2>1. Restored(snap.state)
    BY <1>28, <1>s DEF WrongDecision
  <2>2. /\ calls' \in [Call -> CallState] /\ parallel' \in BOOLEAN /\ stray' \in Nat
        /\ life' \in Life /\ paused' \in BOOLEAN /\ pc' \in PC
    BY <1>28, NoCallsOK, LeftBehindOK DEF WrongDecision, LeaveCalls, Life
  <2> QED
    BY <1>r, <1>s, <2>1, <2>2
<1>29. ASSUME NEW n \in Call, NEW readonly \in BOOLEAN, NEW approved \in BOOLEAN,
              Decide(n, readonly, approved)
       PROVE  TypeOK'
  <2>1. PICK m \in LoopState : m = [snap.state EXCEPT !.stop = "NONE"]
    BY <1>s DEF LoopState
  <2>2. Restored(m) /\ m.step \in 0..MaxSteps
    BY <1>29, <1>s, <2>1 DEF Decide, LoopState
  <2>3. PICK s \in CallState : s = IF approved THEN "queued" ELSE "error"
    BY DEF CallState
  <2>4. Calls(n, s, readonly)
    BY <1>29, <2>3 DEF Decide
  <2>5. /\ calls' \in [Call -> CallState] /\ parallel' \in BOOLEAN
    BY <2>4, CallsOK
  <2>6. stray' \in Nat /\ life' \in Life /\ paused' \in BOOLEAN /\ pc' \in PC
    BY <1>29, LeftBehindOK DEF Decide, Life
  <2> QED
    BY <1>r, <2>2, <2>5, <2>6
<1>30. ASSUME Ask PROVE TypeOK'
  <2>1. /\ mem' \in LoopState /\ at' = 0 /\ saved' = 0 /\ attempt' = 1 /\ got' = 0
        /\ seen' = 0 /\ pc' \in {"after", "finish"}
    BY <1>30, EndStepOK DEF Ask, StopReason
  <2> QED
    BY <1>30, <2>1 DEF Ask
<1>31. ASSUME EndStray PROVE TypeOK'
  BY <1>31 DEF EndStray
<1>32. ASSUME ObserveDecided PROVE TypeOK'
  <2>1. mem.errors < MaxErrors
    BY <1>32 DEF ObserveDecided, Plans, Sound, InStep, LoopState
  <2>2. Errors \in 0..MaxErrors /\ Verdict \in StopReason \cup {"NONE"}
    BY <2>1, ErrorsOK
  <2>3. mem' \in LoopState
    BY <1>32, <2>2 DEF ObserveDecided, LoopState
  <2>4. calls' \in [Call -> CallState] /\ parallel' \in BOOLEAN /\ pc' \in PC
        /\ UNCHANGED <<stray, locals, llm>>
    BY <1>32, NoCallsOK DEF ObserveDecided
  <2>5. StepFrame
    BY <1>32 DEF ObserveDecided
  <2> QED
    BY <2>3, <2>4, <2>5
<1>27. CASE UNCHANGED vars
  BY <1>27 DEF vars
<1> QED
  BY <1>1, <1>2, <1>3, <1>4, <1>5, <1>6, <1>7, <1>8, <1>9, <1>10, <1>11, <1>12, <1>13,
     <1>14, <1>15, <1>16, <1>17, <1>18, <1>19, <1>20, <1>21, <1>22, <1>23, <1>24,
     <1>25, <1>26, <1>27, <1>28, <1>29, <1>30, <1>31, <1>32
  DEF Next, Loop, Model, Answers, Acts

-----------------------------------------------------------------------------
(* Every step keeps the budget, the count of the sub-goals and the stream.  *)

\* A step uses one of those left; what a finished run has used NextGoal takes off;
\* the tokens shown are the attempt's because none is tried again after one.
LEMMA CountsStep ==
  ASSUME TypeOK, Budget, Goals, Stream, [Next]_vars
  PROVE  Budget' /\ Goals' /\ Stream'
<1>a. /\ used \in Nat /\ left \in Nat /\ MaxSteps \in Nat /\ mem \in LoopState
      /\ mem.step \in Nat /\ done \in Nat /\ goals \in Nat /\ got \in Nat /\ seen \in Nat
      /\ MaxGoals \in Nat
  BY ConstantsAssumption DEF ConstantsAssumption, TypeOK, LoopState
<1> USE <1>a
    DEF Budget, Goals, Stream, Running, config, lifecycle, request, llm, act, locals, StepFrame
<1>1. ASSUME Route PROVE Budget' /\ Goals' /\ Stream'
  BY <1>1 DEF Route
<1>2. ASSUME RouteFails PROVE Budget' /\ Goals' /\ Stream'
  BY <1>2 DEF RouteFails, Return
<1>3. ASSUME Begin PROVE Budget' /\ Goals' /\ Stream'
  <2>1. mem'.step = 0
    BY <1>3, NewStateOK DEF Begin
  <2> QED
    BY <1>3, <2>1 DEF Begin
<1>4. ASSUME MakePlan PROVE Budget' /\ Goals' /\ Stream'
  <2>1. mem'.step = mem.step
    BY <1>4 DEF MakePlan, LoopState
  <2> QED
    BY <1>4, <2>1 DEF MakePlan
<1>5. ASSUME FinishRun PROVE Budget' /\ Goals' /\ Stream'
  BY <1>5 DEF FinishRun, NextGoal, Return, Remaining
<1>6. ASSUME Head PROVE Budget' /\ Goals' /\ Stream'
  <2>1. CASE ~Check
    BY <1>6, <2>1 DEF Head, Woken, Stay
  <2>2. CASE Check
    <3>1. pc \in {"head", "woken"} /\ UNCHANGED <<done, goals, left, llm>>
      BY <1>6 DEF Head, Woken
    <3>2. CASE ~OutOfSteps /\ BeginStep
      <4>1. mem'.step = mem.step + 1 /\ pc' = "think" /\ used' = used + 1
        BY <3>1, <3>2, BeginStepOK
      <4> QED
        BY <3>1, <3>2, <4>1 DEF OutOfSteps
    <3>3. CASE ~(~OutOfSteps /\ BeginStep)
      <4>1. mem'.step = mem.step /\ pc' = "finish" /\ used' = used
        BY <2>2, <3>1, <3>3, CheckOK
      <4> QED
        BY <3>1, <4>1
    <3> QED
      BY <3>2, <3>3
  <2> QED
    BY <2>1, <2>2
<1>7. ASSUME Woken PROVE Budget' /\ Goals' /\ Stream'
  <2>1. CASE ~Check
    BY <1>7, <2>1 DEF Head, Woken, Stay
  <2>2. CASE Check
    <3>1. pc \in {"head", "woken"} /\ UNCHANGED <<done, goals, left, llm>>
      BY <1>7 DEF Head, Woken
    <3>2. CASE ~OutOfSteps /\ BeginStep
      <4>1. mem'.step = mem.step + 1 /\ pc' = "think" /\ used' = used + 1
        BY <3>1, <3>2, BeginStepOK
      <4> QED
        BY <3>1, <3>2, <4>1 DEF OutOfSteps
    <3>3. CASE ~(~OutOfSteps /\ BeginStep)
      <4>1. mem'.step = mem.step /\ pc' = "finish" /\ used' = used
        BY <2>2, <3>1, <3>3, CheckOK
      <4> QED
        BY <3>1, <4>1
    <3> QED
      BY <3>2, <3>3
  <2> QED
    BY <2>1, <2>2
<1>8. ASSUME Think PROVE Budget' /\ Goals' /\ Stream'
  <2>1. CASE cancelled
    <3>1. mem'.step = mem.step /\ got' = 0 /\ seen' = 0 /\ pc' \in {"after", "finish"}
      BY <1>8, <2>1, EndStepOK DEF Think, StopReason
    <3> QED
      BY <1>8, <3>1 DEF Think
  <2>2. CASE ~cancelled
    BY <1>8, <2>2 DEF Think
  <2> QED
    BY <2>1, <2>2
<1>9. ASSUME Token PROVE Budget' /\ Goals' /\ Stream'
  BY <1>9 DEF Token
<1>10. ASSUME Retry PROVE Budget' /\ Goals' /\ Stream'
  BY <1>10 DEF Retry, MayRetry
<1>11. ASSUME LlmFails PROVE Budget' /\ Goals' /\ Stream'
  <2>1. mem'.step = mem.step /\ got' = 0 /\ seen' = 0 /\ pc' \in {"after", "finish"}
    BY <1>11, EndStepOK DEF LlmFails, StopReason
  <2> QED
    BY <1>11, <2>1 DEF LlmFails
<1>12. ASSUME NEW s \in StopReason, Answer(s) PROVE Budget' /\ Goals' /\ Stream'
  <2>1. mem'.step = mem.step /\ got' = 0 /\ seen' = 0 /\ pc' \in {"after", "finish"}
    BY <1>12, EndStepOK DEF Answer, StopReason
  <2> QED
    BY <1>12, <2>1 DEF Answer
<1>13. ASSUME NEW n \in Call, NEW readonly \in BOOLEAN, Propose(n, readonly) PROVE Budget' /\ Goals' /\ Stream'
  BY <1>13 DEF Propose
<1>14. ASSUME NEW c \in Call, StartCall(c) PROVE Budget' /\ Goals' /\ Stream'
  BY <1>14 DEF StartCall
<1>15. ASSUME NEW c \in Call, NEW s \in {"ok", "error"}, EndCall(c, s) PROVE Budget' /\ Goals' /\ Stream'
  BY <1>15 DEF EndCall
<1>16. ASSUME Raised PROVE Budget' /\ Goals' /\ Stream'
  <2>1. mem'.step = mem.step
    BY <1>16 DEF Raised, LoopState
  <2> QED
    BY <1>16, <2>1 DEF Raised
<1>17. ASSUME Observe PROVE Budget' /\ Goals' /\ Stream'
  <2>1. mem'.step = mem.step /\ got' = 0 /\ seen' = 0 /\ pc' \in {"after", "finish"}
    BY <1>17 DEF Observe, EndStep, StepReturns, LoopState
  <2> QED
    BY <1>17, <2>1 DEF Observe
<1>18. ASSUME AfterStep PROVE Budget' /\ Goals' /\ Stream'
  <2>1. mem'.step = mem.step /\ pc' \in {"finish", "head"}
    BY <1>18, TerminateOK DEF AfterStep, StopReason
  <2> QED
    BY <1>18, <2>1 DEF AfterStep
<1>19. ASSUME RunAgent PROVE Budget' /\ Goals' /\ Stream'
  <2>1. mem'.step = 0
    BY <1>19, NewStateOK DEF RunAgent
  <2> QED
    BY <1>19, <2>1 DEF RunAgent
<1>20. ASSUME Pause PROVE Budget' /\ Goals' /\ Stream'
  BY <1>20 DEF Pause, Order
<1>21. ASSUME Resume PROVE Budget' /\ Goals' /\ Stream'
  BY <1>21 DEF Resume, Order, Wake
<1>22. ASSUME Stop PROVE Budget' /\ Goals' /\ Stream'
  BY <1>22 DEF Stop, Order, StopLife, Wake
<1>23. ASSUME Cancel PROVE Budget' /\ Goals' /\ Stream'
  BY <1>23 DEF Cancel
<1>24. ASSUME SaveSnapshot PROVE Budget' /\ Goals' /\ Stream'
  BY <1>24 DEF SaveSnapshot, Serialized
<1>25. ASSUME Crash PROVE Budget' /\ Goals' /\ Stream'
  <2>1. mem'.step = 0
    BY <1>25, NewStateOK DEF Crash
  <2> QED
    BY <1>25, <2>1 DEF Crash
<1>r. ASSUME NEW m \in LoopState, m.step \in 0..MaxSteps, Restored(m), pc' \in Running
      PROVE  Budget' /\ Goals' /\ Stream'
  <2>1. /\ mem' = m /\ used' = m.step /\ left' = MaxSteps /\ goals' = 1 /\ done' = 0
        /\ pc # "llm" /\ UNCHANGED <<got, seen>>
    BY <1>r DEF Restored, Idle
  <2> QED
    BY <1>r, <2>1
<1>s. /\ snap.state \in LoopState /\ snap.state.step \in 0..MaxSteps
      /\ Deserialized(snap) = snap.state
  BY SnapshotOK DEF Deserialized, TypeOK
<1>26. ASSUME RunFromSnapshot PROVE Budget' /\ Goals' /\ Stream'
  BY <1>26, <1>r, <1>s DEF RunFromSnapshot
<1>28. ASSUME WrongDecision PROVE Budget' /\ Goals' /\ Stream'
  BY <1>28, <1>r, <1>s DEF WrongDecision
<1>29. ASSUME NEW n \in Call, NEW readonly \in BOOLEAN, NEW approved \in BOOLEAN,
              Decide(n, readonly, approved)
       PROVE  Budget' /\ Goals' /\ Stream'
  <2>1. PICK m \in LoopState : m = [snap.state EXCEPT !.stop = "NONE"]
    BY <1>s DEF LoopState, StopReason
  <2>2. Restored(m) /\ m.step \in 0..MaxSteps /\ pc' = "decided"
    BY <1>29, <1>s, <2>1 DEF Decide, LoopState
  <2> QED
    BY <1>r, <2>2
<1>30. ASSUME Ask PROVE Budget' /\ Goals' /\ Stream'
  <2>1. mem'.step = mem.step /\ got' = 0 /\ seen' = 0 /\ pc' \in {"after", "finish"}
    BY <1>30, EndStepOK DEF Ask, StopReason
  <2> QED
    BY <1>30, <2>1 DEF Ask
<1>31. ASSUME EndStray PROVE Budget' /\ Goals' /\ Stream'
  BY <1>31 DEF EndStray
<1>32. ASSUME ObserveDecided PROVE Budget' /\ Goals' /\ Stream'
  <2>1. mem'.step = mem.step /\ pc' = "head" /\ UNCHANGED llm
    BY <1>32 DEF ObserveDecided, LoopState
  <2> QED
    BY <1>32, <2>1 DEF ObserveDecided
<1>27. CASE UNCHANGED vars
  BY <1>27 DEF vars
<1> QED
  BY <1>1, <1>2, <1>3, <1>4, <1>5, <1>6, <1>7, <1>8, <1>9, <1>10, <1>11, <1>12, <1>13,
     <1>14, <1>15, <1>16, <1>17, <1>18, <1>19, <1>20, <1>21, <1>22, <1>23, <1>24,
     <1>25, <1>26, <1>27, <1>28, <1>29, <1>30, <1>31, <1>32
  DEF Next, Loop, Model, Answers, Acts

-----------------------------------------------------------------------------
(* Every step keeps the plan sound.                                        *)

\* A new state is sound.
LEMMA NewStateSound == Sound(NewState)
BY NewStateOK, ConstantsAssumption DEF Sound, ConstantsAssumption

\* A run that stops, but not with an answer, stays sound.
LEMMA StoppedSound ==
  ASSUME Sound(mem), mem'.plan = mem.plan,
         mem'.stop \notin {"NONE", "MODEL_FINAL", "APPROVAL_REQUIRED"}
  PROVE  Sound(mem')
BY DEF Sound

\* A step that begins works on the current step of the plan, and on no other.
LEMMA BeginStepSound ==
  ASSUME TypeOK, Budget, Sound(mem), mem.stop = "NONE",
         pc \in {"head", "woken"}, ~OutOfSteps, BeginStep
  PROVE  /\ Sound(mem') /\ mem'.stop = "NONE"
         /\ \A i \in 1..PlanSize : mem'.plan[i] = "IN_PROGRESS" => i = at'
         /\ at' = 0 => \A i \in 1..PlanSize : mem'.plan[i] # "PENDING"
<1>1. /\ mem'.errors = mem.errors /\ mem'.stop = mem.stop /\ at' = Current
      /\ \A i \in 1..PlanSize :
           mem'.plan[i] = IF i = Current THEN "IN_PROGRESS" ELSE mem.plan[i]
  BY BeginStepOK
<1>2. /\ Current \in 0..PlanSize
      /\ Current = 0 => \A i \in 1..PlanSize : mem.plan[i] \notin {"IN_PROGRESS", "PENDING"}
      /\ Current # 0 =>
           \/ mem.plan[Current] = "IN_PROGRESS"
           \/ /\ mem.plan[Current] = "PENDING"
              /\ \A i \in 1..PlanSize : mem.plan[i] # "IN_PROGRESS"
  BY CurrentStep
<1>3. \A i \in 1..PlanSize : mem'.plan[i] = "IN_PROGRESS" => i = Current
  <2>1. ASSUME NEW i \in 1..PlanSize, mem'.plan[i] = "IN_PROGRESS", i # Current
        PROVE  FALSE
    <3>1. mem.plan[i] = "IN_PROGRESS"
      BY <1>1, <2>1
    <3>2. Current # 0
      BY <1>2, <3>1
    <3>3. mem.plan[Current] = "IN_PROGRESS" /\ Current \in 1..PlanSize
      BY <1>2, <3>1, <3>2, ConstantsAssumption DEF ConstantsAssumption
    <3> QED
      BY <2>1, <3>1, <3>3 DEF Sound
  <2> QED
    BY <2>1
<1>4. Current = 0 => \A i \in 1..PlanSize : mem'.plan[i] # "PENDING"
  BY <1>1, <1>2
<1>5. mem'.errors < MaxErrors /\ \A i \in 1..PlanSize : mem'.plan[i] # "FAILED"
  BY <1>1 DEF Sound
<1> QED
  BY <1>1, <1>3, <1>4, <1>5 DEF Sound

\* What run_step() returns is sound: a final answer that ends the run has done the
\* last step of the plan, and a step that failed ends the run.
LEMMA StepReturnsSound ==
  ASSUME TypeOK, Plans, pc \in InStep, NEW m \in LoopState, m.plan = mem.plan,
         NEW s \in StopReason \cup {"NONE"},
         s \in {"NONE", "MODEL_FINAL", "APPROVAL_REQUIRED"} => m.errors < MaxErrors
  PROVE  Sound(StepReturns(m, s))
<1> DEFINE R == StepReturns(m, s)
<1>1. /\ R.errors = m.errors
      /\ \/ R.stop = s
         \/ R.stop = "NONE" /\ s = "MODEL_FINAL" /\ at # 0
      /\ R.stop = "MODEL_FINAL" /\ at # 0 => \A i \in 1..PlanSize : R.plan[i] # "PENDING"
      /\ \A i \in 1..PlanSize \ {at} : R.plan[i] = mem.plan[i]
      /\ at # 0 => R.plan[at] =
           IF s = "MODEL_FINAL" THEN "DONE"
           ELSE IF s \in {"LLM_ERROR_ABORT", "TOOL_ERROR_ABORT"} THEN "FAILED"
           ELSE mem.plan[at]
  BY StepReturnsOK
<1>2. /\ Sound(mem) /\ mem.stop = "NONE"
      /\ \A i \in 1..PlanSize : mem.plan[i] = "IN_PROGRESS" => i = at
      /\ at = 0 => \A i \in 1..PlanSize : mem.plan[i] # "PENDING"
  BY DEF Plans
<1>3. \A i \in 1..PlanSize : mem.plan[i] # "FAILED" /\ mem.plan[i] \in PlanStep
  BY <1>2 DEF Sound, TypeOK, LoopState
<1>4. at # 0 => at \in 1..PlanSize
  BY ConstantsAssumption DEF ConstantsAssumption, TypeOK
<1> HIDE DEF R
<1>5. \A i \in 1..PlanSize : R.plan[i] = "IN_PROGRESS" => i = at
  BY <1>1, <1>2
<1>6. R.stop \in {"NONE", "APPROVAL_REQUIRED"} =>
        R.errors < MaxErrors /\ \A i \in 1..PlanSize : R.plan[i] # "FAILED"
  <2>1. ASSUME R.stop \in {"NONE", "APPROVAL_REQUIRED"}, NEW i \in 1..PlanSize
        PROVE  R.plan[i] # "FAILED"
    <3>1. CASE i # at
      BY <1>1, <1>3, <3>1
    <3>2. CASE i = at
      <4>1. i # 0
        BY ConstantsAssumption DEF ConstantsAssumption
      <4> QED
        BY <1>1, <1>3, <2>1, <3>2, <4>1
    <3> QED
      BY <3>1, <3>2
  <2> QED
    BY <1>1, <2>1
<1>7. ASSUME R.stop = "MODEL_FINAL", NEW i \in 1..PlanSize
      PROVE  R.plan[i] \in {"ABSENT", "DONE"}
  <2>1. s = "MODEL_FINAL"
    BY <1>1, <1>7
  <2>2. CASE i = at
    <3>1. i # 0
      BY ConstantsAssumption DEF ConstantsAssumption
    <3> QED
      BY <1>1, <2>1, <2>2, <3>1
  <2>3. CASE i # at
    <3>1. R.plan[i] = mem.plan[i] /\ mem.plan[i] # "IN_PROGRESS" /\ mem.plan[i] # "FAILED"
      BY <1>1, <1>2, <1>3, <2>3
    <3>2. mem.plan[i] # "PENDING"
      BY <1>1, <1>2, <1>7, <3>1
    <3> QED
      BY <1>3, <3>1, <3>2 DEF PlanStep
  <2> QED
    BY <2>2, <2>3
<1> QED
  BY <1>5, <1>6, <1>7 DEF Sound, R

\* Wake moves only a run that waits.
LEMMA WakeOK ==
  ASSUME Wake
  PROVE  pc' = pc \/ (pc = "waiting" /\ pc' = "woken")
BY DEF Wake

\* The plan, the reason to stop and the step under way stay in agreement.
LEMMA PlansStep ==
  ASSUME TypeOK, Budget, Plans, [Next]_vars
  PROVE  Plans'
<1>a. /\ Sound(mem) /\ Sound(snap.state)
      /\ pc \in InStep \cup {"plan", "waiting", "woken", "after", "decided"} => mem.stop = "NONE"
      /\ outcome.success => pc = "idle" /\ mem.stop = "MODEL_FINAL"
      /\ mem \in LoopState
  BY DEF Plans, TypeOK
\* The end of a step.
<1>b. ASSUME pc \in InStep, NEW m \in LoopState, m.plan = mem.plan,
             NEW s \in StopReason \cup {"NONE"}, NEW message \in BOOLEAN,
             s \in {"NONE", "MODEL_FINAL", "APPROVAL_REQUIRED"} => m.errors < MaxErrors,
             EndStep(m, s, message), UNCHANGED <<snap, outcome>>
      PROVE  Plans'
  <2>1. Sound(mem') /\ pc' \in {"after", "finish"} /\ (pc' = "after" => mem'.stop = "NONE")
    BY <1>b, EndStepOK, StepReturnsSound
  <2>2. ~outcome.success
    BY <1>b, <1>a DEF InStep
  <2> QED
    BY <1>a, <1>b, <2>1, <2>2 DEF Plans, InStep
<1>c. pc \in InStep => mem.errors < MaxErrors
  BY <1>a DEF Sound
<1> USE <1>a
    DEF Plans, InStep, config, lifecycle, request, llm, act, locals, StepFrame
<1>1. ASSUME Route PROVE Plans'
  BY <1>1 DEF Route
<1>2. ASSUME RouteFails PROVE Plans'
  <2>1. ~outcome'.success /\ UNCHANGED <<mem, snap>> /\ pc' = "idle"
    BY <1>2 DEF RouteFails, Return
  <2> QED
    BY <2>1
<1>3. ASSUME Begin PROVE Plans'
  <2>1. Sound(mem') /\ mem'.stop = "NONE"
    BY <1>3, NewStateSound, NewStateOK DEF Begin
  <2>2. pc' \in {"plan", "head"} /\ ~outcome'.success /\ UNCHANGED snap
    BY <1>3 DEF Begin
  <2> QED
    BY <2>1, <2>2
<1>4. ASSUME MakePlan PROVE Plans'
  <2>1. /\ \A i \in 1..PlanSize : mem'.plan[i] \in {"ABSENT", "PENDING"}
        /\ mem'.errors = mem.errors /\ mem'.stop = mem.stop
    BY <1>4 DEF MakePlan, LoopState
  <2>2. mem.errors < MaxErrors /\ mem.stop = "NONE"
    BY <1>4 DEF MakePlan, Sound
  <2>3. Sound(mem')
    BY <2>1, <2>2 DEF Sound
  <2>4. pc' = "head" /\ ~outcome'.success /\ UNCHANGED snap
    BY <1>4 DEF MakePlan
  <2> QED
    BY <2>3, <2>4
<1>5. ASSUME FinishRun PROVE Plans'
  <2>1. pc' \in {"begin", "idle"} /\ UNCHANGED <<mem, snap>>
    BY <1>5 DEF FinishRun, NextGoal, Return
  <2>2. outcome'.success => pc' = "idle" /\ mem.stop = "MODEL_FINAL"
    BY <1>5 DEF FinishRun, NextGoal, Return
  <2> QED
    BY <2>1, <2>2
<1>6. ASSUME Head PROVE Plans'
  <2>1. ~outcome'.success /\ UNCHANGED snap /\ pc \in {"head", "woken"}
    BY <1>6 DEF Head, Woken
  <2>2. CASE mem.stop # "NONE" \/ ~Check
    <3>1. CASE mem.stop # "NONE"
      BY <1>6, <2>1, <3>1 DEF Head
    <3>2. CASE mem.stop = "NONE" /\ ~Check
      BY <1>6, <2>1, <2>2, <3>2 DEF Head, Woken
    <3> QED
      BY <2>2, <3>1, <3>2
  <2>3. CASE mem.stop = "NONE" /\ Check
    <3>1. CASE ~OutOfSteps /\ BeginStep
      <4>1. /\ Sound(mem') /\ mem'.stop = "NONE"
            /\ \A i \in 1..PlanSize : mem'.plan[i] = "IN_PROGRESS" => i = at'
            /\ at' = 0 => \A i \in 1..PlanSize : mem'.plan[i] # "PENDING"
        BY <2>1, <2>3, <3>1, BeginStepSound
      <4> QED
        BY <2>1, <4>1
    <3>2. CASE ~(~OutOfSteps /\ BeginStep)
      <4>1. Sound(mem') /\ pc' = "finish"
        BY <2>1, <2>3, <3>2, CheckOK, StoppedSound
      <4> QED
        BY <2>1, <4>1
    <3> QED
      BY <3>1, <3>2
  <2> QED
    BY <2>2, <2>3
<1>7. ASSUME Woken PROVE Plans'
  <2>1. ~outcome'.success /\ UNCHANGED snap /\ pc \in {"head", "woken"}
    BY <1>7 DEF Head, Woken
  <2>2. CASE mem.stop # "NONE" \/ ~Check
    <3>1. CASE mem.stop # "NONE"
      BY <1>7, <2>1, <3>1 DEF Woken
    <3>2. CASE mem.stop = "NONE" /\ ~Check
      BY <1>7, <2>1, <2>2, <3>2 DEF Head, Woken
    <3> QED
      BY <2>2, <3>1, <3>2
  <2>3. CASE mem.stop = "NONE" /\ Check
    <3>1. CASE ~OutOfSteps /\ BeginStep
      <4>1. /\ Sound(mem') /\ mem'.stop = "NONE"
            /\ \A i \in 1..PlanSize : mem'.plan[i] = "IN_PROGRESS" => i = at'
            /\ at' = 0 => \A i \in 1..PlanSize : mem'.plan[i] # "PENDING"
        BY <2>1, <2>3, <3>1, BeginStepSound
      <4> QED
        BY <2>1, <4>1
    <3>2. CASE ~(~OutOfSteps /\ BeginStep)
      <4>1. Sound(mem') /\ pc' = "finish"
        BY <2>1, <2>3, <3>2, CheckOK, StoppedSound
      <4> QED
        BY <2>1, <4>1
    <3> QED
      BY <3>1, <3>2
  <2> QED
    BY <2>2, <2>3
<1>8. ASSUME Think PROVE Plans'
  <2>1. CASE cancelled
    <3>1. /\ EndStep(mem, "USER_CANCELLED", FALSE) /\ "USER_CANCELLED" \in StopReason
          /\ pc \in InStep /\ UNCHANGED <<snap, outcome>>
      BY <1>8, <2>1 DEF Think, StopReason
    <3> QED
      BY <1>b, <3>1
  <2>2. CASE ~cancelled
    BY <1>8, <2>2 DEF Think
  <2> QED
    BY <2>1, <2>2
<1>9. ASSUME Token PROVE Plans'
  BY <1>9 DEF Token
<1>10. ASSUME Retry PROVE Plans'
  BY <1>10 DEF Retry, MayRetry
<1>11. ASSUME LlmFails PROVE Plans'
  <2>1. /\ EndStep(mem, "LLM_ERROR_ABORT", FALSE) /\ "LLM_ERROR_ABORT" \in StopReason
        /\ pc \in InStep /\ UNCHANGED <<snap, outcome>>
    BY <1>11 DEF LlmFails, StopReason
  <2> QED
    BY <1>b, <2>1
<1>12. ASSUME NEW s \in StopReason, Answer(s) PROVE Plans'
  <2>1. EndStep(mem, s, TRUE) /\ pc \in InStep /\ UNCHANGED <<snap, outcome>>
    BY <1>12 DEF Answer
  <2> QED
    BY <1>b, <1>c, <2>1
<1>13. ASSUME NEW n \in Call, NEW readonly \in BOOLEAN, Propose(n, readonly) PROVE Plans'
  BY <1>13 DEF Propose
<1>14. ASSUME NEW c \in Call, StartCall(c) PROVE Plans'
  BY <1>14 DEF StartCall
<1>15. ASSUME NEW c \in Call, NEW s \in {"ok", "error"}, EndCall(c, s) PROVE Plans'
  BY <1>15 DEF EndCall
<1>16. ASSUME Raised PROVE Plans'
  <2>1. mem'.plan = mem.plan /\ mem'.stop = "ERROR"
    BY <1>16 DEF Raised, LoopState
  <2>2. pc' = "finish" /\ ~outcome'.success /\ UNCHANGED snap
    BY <1>16 DEF Raised
  <2> QED
    BY <2>1, <2>2, StoppedSound
<1>17. ASSUME Observe PROVE Plans'
  <2> DEFINE m == [mem EXCEPT !.errors = Errors]
  <2>1. EndStep(m, Verdict, TRUE) /\ pc \in InStep /\ UNCHANGED <<snap, outcome>>
    BY <1>17 DEF Observe
  <2>2. /\ m \in LoopState /\ Verdict \in StopReason \cup {"NONE"}
        /\ Verdict = "NONE" \/ Verdict = "TOOL_ERROR_ABORT"
        /\ Verdict = "NONE" => Errors < MaxErrors
    BY <1>c, <2>1, ErrorsOK
  <2>3. m.plan = mem.plan /\ m.errors = Errors
    BY DEF LoopState
  <2>4. Verdict \in {"NONE", "MODEL_FINAL", "APPROVAL_REQUIRED"} => m.errors < MaxErrors
    BY <2>2, <2>3
  <2> HIDE DEF m
  <2> QED
    BY <1>b, <2>1, <2>2, <2>3, <2>4
<1>18. ASSUME AfterStep PROVE Plans'
  <2>1. ~outcome'.success /\ UNCHANGED snap
    BY <1>18 DEF AfterStep
  <2>2. CASE Terminate("BUDGET_EXHAUSTED")
    <3>1. Sound(mem') /\ pc' = "finish"
      BY <2>2, TerminateOK, StoppedSound DEF StopReason
    <3> QED
      BY <2>1, <3>1
  <2>3. CASE pc' = "head" /\ UNCHANGED mem
    BY <2>1, <2>3
  <2> QED
    BY <1>18, <2>2, <2>3 DEF AfterStep
<1>19. ASSUME RunAgent PROVE Plans'
  <2>1. Sound(mem') /\ Sound(snap'.state) /\ ~outcome'.success /\ pc' = "route"
    BY <1>19, NewStateSound, NoOutcomeOK, NoSnapshotOK DEF RunAgent, KeepSnapshot
  <2> QED
    BY <2>1
<1>20. ASSUME Pause PROVE Plans'
  BY <1>20 DEF Pause, Order
<1>21. ASSUME Resume PROVE Plans'
  <2>1. UNCHANGED <<mem, at, snap, outcome>> /\ Wake
    BY <1>21 DEF Resume, Order
  <2>2. pc' = pc \/ (pc = "waiting" /\ pc' = "woken")
    BY <2>1, WakeOK
  <2> QED
    BY <2>1, <2>2
<1>22. ASSUME Stop PROVE Plans'
  <2>1. UNCHANGED <<mem, at, snap, outcome>> /\ Wake
    BY <1>22 DEF Stop, Order, StopLife
  <2>2. pc' = pc \/ (pc = "waiting" /\ pc' = "woken")
    BY <2>1, WakeOK
  <2> QED
    BY <2>1, <2>2
<1>23. ASSUME Cancel PROVE Plans'
  BY <1>23 DEF Cancel
<1>24. ASSUME SaveSnapshot PROVE Plans'
  <2>1. snap'.state = mem
    BY <1>24 DEF SaveSnapshot, Serialized
  <2> QED
    BY <1>24, <2>1 DEF SaveSnapshot
<1>25. ASSUME Crash PROVE Plans'
  <2>1. Sound(mem') /\ UNCHANGED snap /\ ~outcome'.success /\ pc' = "down"
    BY <1>25, NewStateSound, NoOutcomeOK DEF Crash
  <2> QED
    BY <2>1
<1>r. ASSUME NEW m, Restored(m), Sound(m), pc' \in {"head", "finish", "decided"},
             pc' = "decided" => m.stop = "NONE"
      PROVE  Plans'
  <2>1. mem' = m /\ Sound(snap'.state) /\ ~outcome'.success
    BY <1>r, NewStateSound, NoOutcomeOK, NoSnapshotOK DEF Restored, KeepSnapshot
  <2> QED
    BY <1>r, <2>1
<1>26. ASSUME RunFromSnapshot PROVE Plans'
  BY <1>26, <1>r DEF RunFromSnapshot, Deserialized
<1>28. ASSUME WrongDecision PROVE Plans'
  BY <1>28, <1>r DEF WrongDecision, Deserialized
<1>29. ASSUME NEW n \in Call, NEW readonly \in BOOLEAN, NEW approved \in BOOLEAN,
              Decide(n, readonly, approved)
       PROVE  Plans'
  <2> DEFINE m == [snap.state EXCEPT !.stop = "NONE"]
  <2>1. Restored(m) /\ pc' = "decided"
    BY <1>29 DEF Decide, Deserialized
  <2>2. m.plan = snap.state.plan /\ m.errors = snap.state.errors /\ m.stop = "NONE"
    BY SnapshotOK DEF TypeOK, LoopState
  <2>3. snap.state.stop = "APPROVAL_REQUIRED"
    BY <1>29 DEF Decide, Pending
  <2> HIDE DEF m
  <2>4. Sound(m)
    BY <2>2, <2>3 DEF Sound
  <2> QED
    BY <1>r, <2>1, <2>2, <2>4
<1>30. ASSUME Ask PROVE Plans'
  <2>1. EndStep(mem, "APPROVAL_REQUIRED", TRUE) /\ "APPROVAL_REQUIRED" \in StopReason
        /\ pc \in InStep /\ UNCHANGED <<snap, outcome>>
    BY <1>30 DEF Ask, StopReason
  <2> QED
    BY <1>b, <1>c, <2>1
<1>31. ASSUME EndStray PROVE Plans'
  BY <1>31 DEF EndStray
<1>32. ASSUME ObserveDecided PROVE Plans'
  <2>1. mem.errors < MaxErrors /\ mem.stop = "NONE"
    BY <1>32 DEF ObserveDecided, Sound
  <2>2. /\ Verdict = "NONE" \/ Verdict = "TOOL_ERROR_ABORT"
        /\ Verdict = "NONE" => Errors < MaxErrors
    BY <2>1, ErrorsOK
  <2>3. mem'.errors = Errors /\ mem'.stop = Verdict /\ mem'.plan = mem.plan
    BY <1>32 DEF ObserveDecided, LoopState
  <2>4. Sound(mem')
    BY <2>1, <2>2, <2>3 DEF Sound
  <2>5. pc' = "head" /\ ~outcome'.success /\ UNCHANGED snap
    BY <1>32 DEF ObserveDecided
  <2> QED
    BY <2>4, <2>5
<1>27. CASE UNCHANGED vars
  BY <1>27 DEF vars
<1> QED
  BY <1>1, <1>2, <1>3, <1>4, <1>5, <1>6, <1>7, <1>8, <1>9, <1>10, <1>11, <1>12, <1>13,
     <1>14, <1>15, <1>16, <1>17, <1>18, <1>19, <1>20, <1>21, <1>22, <1>23, <1>24,
     <1>25, <1>26, <1>27, <1>28, <1>29, <1>30, <1>31, <1>32
  DEF Next, Loop, Model, Answers, Acts

-----------------------------------------------------------------------------
(* The theorems.                                                           *)

\* The first states satisfy the invariant, and no step leaves it.
LEMMA InitInvariant == Init => IInv
<1> SUFFICES ASSUME Init PROVE IInv
  OBVIOUS
<1>1. TypeOK
  <2>1. mem \in LoopState /\ calls \in [Call -> CallState] /\ outcome \in Outcome /\ snap \in Snapshot
    BY NewStateOK, NoCallsOK, NoOutcomeOK, NoSnapshotOK DEF Init
  <2>2. life \in Life /\ pc \in PC
    BY DEF Init, Life, PC, Idle
  <2>3. /\ goals \in 0..MaxGoals /\ done \in 0..MaxGoals /\ left \in 0..MaxSteps /\ used \in Nat
        /\ at \in 0..PlanSize /\ saved \in 0..PlanSize /\ attempt \in 1..(MaxRetries + 1)
        /\ got \in 0..MaxTokens /\ seen \in Nat /\ stray \in Nat /\ runs \in 0..MaxRuns /\ orders \in 0..MaxOrders
    BY ConstantsAssumption DEF ConstantsAssumption, Init
  <2>4. /\ tools \in BOOLEAN /\ planning \in BOOLEAN /\ paused \in BOOLEAN
        /\ stopping \in BOOLEAN /\ cancelled \in BOOLEAN /\ parallel \in BOOLEAN
    BY DEF Init
  <2> QED
    BY <2>1, <2>2, <2>3, <2>4 DEF TypeOK
<1>2. Budget /\ Goals /\ Stream
  BY ConstantsAssumption DEF ConstantsAssumption, Init, Budget, Goals, Stream, Running
<1>3. Plans
  BY NewStateSound, NoOutcomeOK, NoSnapshotOK DEF Init, Plans, InStep
<1> QED
  BY <1>1, <1>2, <1>3 DEF IInv

LEMMA InvariantAlways == Spec => []IInv
<1>1. IInv /\ [Next]_vars => IInv'
  BY TypeStep, CountsStep, PlansStep DEF IInv
<1> QED
  BY <1>1, InitInvariant, PTL DEF Spec

\* The types of the agent: its step never passes the budget, nor its errors their
\* bound, whatever orders, snapshots and crashes come between (AgentLoopState).
THEOREM AgentTypeCorrect == Spec => []TypeOK
<1>1. IInv => TypeOK
  BY DEF IInv
<1> QED
  BY <1>1, InvariantAlways, PTL

\* No client is shown a token of an attempt that was given up: a stream that has
\* shown something is not begun again (LLMRetryPolicy.iterate).
THEOREM TokensShownOnce == Spec => []ShownOnce
<1>1. IInv => ShownOnce
  BY DEF IInv, Stream, ShownOnce
<1> QED
  BY <1>1, InvariantAlways, PTL

\* All the runs of a request together, and a run that goes on from a snapshot, take
\* at most max_steps steps (run_with_routing, run_from_snapshot).
THEOREM RequestKeepsBudget == Spec => []BudgetKept
<1>1. IInv => BudgetKept
  BY DEF IInv, Budget, BudgetKept
<1> QED
  BY <1>1, InvariantAlways, PTL

\* A run reports success only with every step of its plan done
\* (PlanExecuteStrategy.run_step, _build_result).
THEOREM SuccessHasPlanDone == Spec => []SuccessCompletesPlan
<1>1. IInv => SuccessCompletesPlan
  BY DEF IInv, Plans, Sound, SuccessCompletesPlan
<1> QED
  BY <1>1, InvariantAlways, PTL

=============================================================================
