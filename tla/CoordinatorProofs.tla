------------------------- MODULE CoordinatorProofs -------------------------
(***************************************************************************)
(* Proofs about Coordinator, for any number of sub-tasks and agents.       *)
(***************************************************************************)
EXTENDS Coordinator, NaturalsInduction, FiniteSetTheorems, TLAPS

-----------------------------------------------------------------------------
(* Choosing agents.                                                        *)

\* A non-empty set of numbers has a least element, and Min is it.
LEMMA MinOK ==
  ASSUME NEW S \in SUBSET Nat, S # {}
  PROVE  Min(S) \in S
<1> DEFINE less == OpToRel(<, Nat)
<1>1. \A i, j \in Nat : i < j => <<i, j>> \in less
  BY DEF OpToRel
<1>2. IsWellFoundedOn(less, Nat)
  BY NatLessThanWellFounded
<1> HIDE DEF less
<1>3. PICK i \in S : \A j \in S : <<j, i>> \notin less
  BY <1>2, WFMin
<1>4. \A j \in S : ~ (j < i)
  BY <1>1, <1>3
<1>5. \A j \in S : i <= j
  BY <1>4
<1> QED
  BY <1>5 DEF Min

\* The numbers of S below x.
Below(S, x) == {y \in S : y < x}

\* A set of numbers up to n is finite.
LEMMA UpToFinite ==
  ASSUME NEW n \in Nat, NEW S \in SUBSET (1..n)
  PROVE  /\ IsFiniteSet(S)
         /\ Cardinality(S) \in Nat
         /\ S # {} => Cardinality(S) # 0
<1>1. 1 \in Int /\ n \in Int
  OBVIOUS
<1>2. IsFiniteSet(1..n)
  BY <1>1, FS_Interval, Zenon
<1>3. IsFiniteSet(S)
  BY <1>2, FS_Subset, Zenon
<1>4. Cardinality(S) \in Nat
  BY <1>3, FS_CardinalityType, Zenon
<1>5. S # {} => Cardinality(S) # 0
  BY <1>3, FS_EmptySet, Zenon
<1> QED
  BY <1>3, <1>4, <1>5

\* Of n numbers one is the k-th, for k from 0 to n - 1.
LEMMA NthExists ==
  ASSUME NEW n \in Nat, NEW S \in SUBSET (1..n), NEW k \in Nat, k < Cardinality(S)
  PROVE  \E a \in S : Index(S, a) = k
<1> DEFINE less  == OpToRel(<, Nat)
           C(x)  == Cardinality(Below(S, x))
           Past  == {x \in Nat : C(x) > k}
<1>1. Cardinality(S) \in Nat /\ \A y \in S : y \in 1..n
  BY UpToFinite
<1>2. ASSUME NEW x \in Nat PROVE IsFiniteSet(Below(S, x)) /\ C(x) \in Nat
  <2>1. Below(S, x) \in SUBSET (1..n)
    BY DEF Below
  <2> QED
    BY <2>1, UpToFinite, Zenon
<1>3. n + 1 \in Past
  <2>1. \A y \in S : y < n + 1
    BY <1>1
  <2>2. Below(S, n + 1) = S
    BY <2>1 DEF Below
  <2> QED
    BY <1>1, <2>2
<1>4. PICK x \in Past : \A y \in Past : <<y, x>> \notin less
  <2>1. IsWellFoundedOn(less, Nat)
    BY NatLessThanWellFounded
  <2>2. Past \in SUBSET Nat
    OBVIOUS
  <2> HIDE DEF less, Past
  <2> QED
    BY <1>3, <2>1, <2>2, WFMin
<1>5. \A i, j \in Nat : i < j => <<i, j>> \in less
  BY DEF OpToRel
<1> HIDE DEF less
<1>6. x \in Nat /\ C(x) > k
  BY <1>4
<1>7. x # 0
  <2>1. \A y \in S : ~(y < 0)
    BY <1>1
  <2>2. Below(S, 0) = {}
    BY <2>1 DEF Below
  <2>3. C(0) = 0
    BY <2>2, FS_EmptySet, Zenon
  <2> QED
    BY <1>6, <2>3
<1>8. PICK w \in Nat : x = w + 1
  BY <1>6, <1>7
<1>9. w \notin Past
  <2>1. w < x
    BY <1>8
  <2>2. <<w, x>> \in less
    BY <1>5, <1>6, <2>1
  <2> HIDE DEF Past
  <2> QED
    BY <1>4, <2>2
<1>10. C(w) \in Nat /\ C(x) \in Nat /\ C(w) <= k /\ C(x) > k
  BY <1>2, <1>6, <1>9
<1>11. \A y \in S : y < x <=> (y < w \/ y = w)
  BY <1>1, <1>8
<1>12. w \in S
  <2>1. w \notin S => Below(S, x) = Below(S, w)
    BY <1>11 DEF Below
  <2> QED
    BY <1>10, <2>1
<1>13. C(x) = C(w) + 1
  <2>1. Below(S, x) = Below(S, w) \cup {w}
    BY <1>11, <1>12 DEF Below
  <2>2. w \notin Below(S, w)
    BY DEF Below
  <2>3. IsFiniteSet(Below(S, w))
    BY <1>2
  <2>4. Cardinality(Below(S, w) \cup {w}) = Cardinality(Below(S, w)) + 1
    BY <2>2, <2>3, FS_AddElement, Zenon
  <2> QED
    BY <2>1, <2>4
<1>14. C(w) = k
  BY <1>10, <1>13
<1> QED
  BY <1>12, <1>14 DEF Index, Below

\* The round robin takes a member of a non-empty set.
LEMMA NthOK ==
  ASSUME NEW n \in Nat, NEW S \in SUBSET (1..n), S # {}, NEW k \in Nat
  PROVE  Nth(S, k) \in S
<1>1. Cardinality(S) \in Nat /\ Cardinality(S) # 0
  BY UpToFinite
<1>2. k % Cardinality(S) \in Nat /\ k % Cardinality(S) < Cardinality(S)
  BY <1>1
<1>3. \E a \in S : Index(S, a) = k % Cardinality(S)
  BY <1>2, NthExists
<1> QED
  BY <1>3 DEF Nth

\* An index is a number.
LEMMA IndexOK ==
  ASSUME NEW S \in SUBSET Task, NEW x
  PROVE  Index(S, x) \in Nat
<1>1. {y \in S : y < x} \in SUBSET (1..Tasks)
  BY DEF Task
<1> QED
  BY <1>1, UpToFinite, SizesAssumption DEF Index

-----------------------------------------------------------------------------
(* The inductive invariant.                                                *)

\* Agents were there when the tasks were assigned, and what a task depends on
\* is a task.
Assignment ==
  /\ phase = "decompose" => deps = NoDeps
  /\ phase \in {"next", "running"} => ids # {}
  /\ \A t \in Task : \A d \in deps[t] : status[d] # "none"

\* Of a dag's tasks, completed holds those that have run, all of them between
\* two layers. What waits for one of them that failed has been skipped, and
\* nothing is skipped without a failure.
Layers ==
  Mode = "dag" =>
    /\ phase \in {"decompose", "dag"} =>
         skipped = {} /\ completed = {} /\ Running = {} /\ Settled = {}
    /\ completed \subseteq Settled
    /\ phase = "next" => Running = {} /\ completed = Settled
    /\ \A t \in completed, u \in Task :
         status[t] = "failed" /\ t \in deps[u] /\ status[u] = "pending" => u \in skipped
    /\ phase \in {"next", "running"} /\ skipped # {} => \E t \in Task : status[t] = "failed"
    /\ phase = "done" => /\ Running = {}
                         /\ \/ \E t \in Task : status[t] = "failed"
                            \/ \A t \in Task : status[t] # "pending"

\* In a dag a completed task has succeeded, and one that still runs has not
\* answered.
Answers ==
  Mode = "dag" =>
    \A t \in Task : /\ status[t] = "completed" => answer[t] = "success"
                    /\ status[t] \in {"none", "pending", "running"} => answer[t] = "none"

IInv == TypeOK /\ Assignment /\ Layers /\ Answers /\ DepsSucceedFirst

-----------------------------------------------------------------------------
(* Types.                                                                  *)

\* The agent a task is assigned to is one of the agents.
LEMMA AssignedOK ==
  ASSUME TypeOK, agents # {}, NEW t \in Task
  PROVE  Assigned(t) \in Agent
<1>1. agents \subseteq 1..Agents /\ fits[t] \cap agents \subseteq Nat
  BY SizesAssumption DEF TypeOK, Agent
<1>2. CASE fits[t] \cap agents # {}
  <2>1. Min(fits[t] \cap agents) \in fits[t] \cap agents
    BY <1>1, <1>2, MinOK
  <2> QED
    BY <1>1, <1>2, <2>1 DEF Assigned, Agent
<1>3. CASE fits[t] \cap agents = {}
  <2>1. Index(Task, t) \in Nat
    BY IndexOK
  <2>2. Nth(agents, Index(Task, t)) \in agents
    BY <1>1, <2>1, NthOK, SizesAssumption
  <2> QED
    BY <1>1, <1>3, <2>2 DEF Assigned, Agent
<1> QED
  BY <1>2, <1>3

\* The ready tasks are tasks, and the round robin gives each one an agent.
LEMMA RoundRobin ==
  ASSUME TypeOK, ids # {}, NEW t
  PROVE  Nth(ids, Index(Ready, t)) \in Agent
<1>1. Ready \in SUBSET Task
  BY DEF Ready, Pending
<1>2. Index(Ready, t) \in Nat
  BY <1>1, IndexOK
<1>3. ids \in SUBSET (1..Agents)
  BY DEF TypeOK, Agent
<1>4. Nth(ids, Index(Ready, t)) \in ids
  BY <1>2, <1>3, NthOK, SizesAssumption
<1> QED
  BY <1>3, <1>4 DEF Agent

\* The variables keep their types.
LEMMA TypeStep ==
  TypeOK /\ Assignment /\ [Next]_vars => TypeOK'
<1> SUFFICES ASSUME TypeOK, Assignment, [Next]_vars PROVE TypeOK'
  OBVIOUS
<1> USE DEF TypeOK, given, Strategy, Status, Answer
<1>1. ASSUME NEW n \in 0..Tasks, Decompose(n) PROVE TypeOK'
  <2>1. CASE agents = {}
    BY <1>1, <2>1 DEF Decompose, Raise
  <2>2. CASE agents # {}
    <3>1. \A t \in Task : Assigned(t) \in Agent
      BY <2>2, AssignedOK
    <3>2. agent' \in [Task -> Agent \cup {0}]
      BY <1>1, <2>2, <3>1 DEF Decompose
    <3>3. status' \in [Task -> Status]
      BY <1>1, <2>2 DEF Decompose, Parts
    <3> QED
      BY <1>1, <2>2, <3>2, <3>3 DEF Decompose
  <2> QED
    BY <2>1, <2>2
<1>2. ASSUME BeginDag PROVE TypeOK'
  <2>1. CASE agents = {}
    BY <1>2, <2>1 DEF BeginDag, Raise
  <2>2. CASE agents # {}
    <3>1. agents \in SUBSET Nat
      BY SizesAssumption DEF Agent
    <3>2. Min(agents) \in Agent
      BY <2>2, <3>1, MinOK
    <3>3. agent' \in [Task -> Agent \cup {0}]
      BY <1>2, <2>2, <3>2 DEF BeginDag
    <3> QED
      BY <1>2, <2>2, <3>3 DEF BeginDag
  <2> QED
    BY <2>1, <2>2
<1>3. ASSUME NextLayer PROVE TypeOK'
  <2>1. CASE Ready # {}
    <3>1. \A t \in Task : Nth(ids, Index(Ready, t)) \in Agent
      BY <1>3, RoundRobin DEF NextLayer, Assignment
    <3>2. agent' \in [Task -> Agent \cup {0}]
      BY <1>3, <2>1, <3>1 DEF NextLayer
    <3> QED
      BY <1>3, <2>1, <3>2 DEF NextLayer, Start
  <2>2. CASE Ready = {}
    BY <1>3, <2>2 DEF NextLayer, Pending
  <2> QED
    BY <2>1, <2>2
<1>4. ASSUME EndLayer PROVE TypeOK'
  <2>1. skipped' \subseteq Task /\ completed' \subseteq Task
    BY <1>4 DEF EndLayer, Downstream, Pending, Settled
  <2> QED
    BY <1>4, <2>1 DEF EndLayer
<1>5. ASSUME StartAll PROVE TypeOK'
  BY <1>5 DEF StartAll, Start
<1>6. ASSUME StartNext PROVE TypeOK'
  BY <1>6 DEF StartNext, Start, Raise
<1>7. ASSUME EndTasks PROVE TypeOK'
  BY <1>7 DEF EndTasks
<1>8. ASSUME NEW t \in Task, NEW a \in Answer, AgentEnds(t, a) PROVE TypeOK'
  <2>1. Verdict(a) \in Status
    BY DEF Verdict
  <2>2. /\ status' \in [Task -> Status]
        /\ answer' \in [Task -> Answer \cup {"none"}]
    BY <1>8, <2>1 DEF AgentEnds
  <2> QED
    BY <1>8, <2>2 DEF AgentEnds
<1>9. ASSUME NEW a \in Agent, UnregisterAgent(a) PROVE TypeOK'
  BY <1>9 DEF UnregisterAgent
<1>10. CASE UNCHANGED vars
  BY <1>10 DEF vars
<1> QED
  BY <1>1, <1>2, <1>3, <1>4, <1>5, <1>6, <1>7, <1>8, <1>9, <1>10
  DEF Next

-----------------------------------------------------------------------------
(* The invariant is kept.                                                  *)

\* Whether there is a cycle, and so the mode, does not change.
LEMMA ModeKept ==
  [Next]_vars => Mode' = Mode /\ deps' = deps
<1> SUFFICES ASSUME [Next]_vars PROVE Mode' = Mode /\ deps' = deps
  OBVIOUS
<1>1. strategy' = strategy /\ deps' = deps
  BY DEF Next, vars, given, Decompose, BeginDag, NextLayer, EndLayer, StartAll, StartNext,
         EndTasks, AgentEnds, UnregisterAgent
<1>2. HasCycle' <=> HasCycle
  BY <1>1 DEF HasCycle
<1> QED
  BY <1>1, <1>2 DEF Mode

\* A task there is stays one.
LEMMA AssignmentStep ==
  TypeOK /\ Assignment /\ [Next]_vars => Assignment'
<1> SUFFICES ASSUME TypeOK, Assignment, [Next]_vars PROVE Assignment'
  OBVIOUS
<1>a. deps' = deps
  BY ModeKept
<1> USE <1>a DEF Assignment
<1>1. ASSUME NEW n \in 0..Tasks, Decompose(n) PROVE Assignment'
  <2>1. \A t \in Task : deps[t] = {}
    BY <1>1 DEF Decompose, NoDeps
  <2> QED
    BY <1>1, <2>1 DEF Decompose, Raise
<1>2. ASSUME BeginDag PROVE Assignment'
  BY <1>2 DEF BeginDag, Raise
<1>3. ASSUME NextLayer PROVE Assignment'
  <2>1. \A t \in Task : status[t] # "none" => status'[t] # "none"
    BY <1>3 DEF NextLayer, Start
  <2> QED
    BY <1>3, <2>1 DEF NextLayer, Start, TypeOK
<1>4. ASSUME EndLayer PROVE Assignment'
  BY <1>4 DEF EndLayer
<1>5. ASSUME StartAll PROVE Assignment'
  <2>1. \A t \in Task : status[t] # "none" => status'[t] # "none"
    BY <1>5 DEF StartAll, Start
  <2> QED
    BY <1>5, <2>1 DEF StartAll, Start, TypeOK
<1>6. ASSUME StartNext PROVE Assignment'
  <2>1. \A t \in Task : status[t] # "none" => status'[t] # "none"
    BY <1>6 DEF StartNext, Start, Raise
  <2> QED
    BY <1>6, <2>1 DEF StartNext, Start, Raise, TypeOK
<1>7. ASSUME EndTasks PROVE Assignment'
  BY <1>7 DEF EndTasks
<1>8. ASSUME NEW t \in Task, NEW a \in Answer, AgentEnds(t, a) PROVE Assignment'
  <2>1. \A u \in Task : status[u] # "none" => status'[u] # "none"
    BY <1>8 DEF AgentEnds, Verdict, TypeOK
  <2> QED
    BY <1>8, <2>1 DEF AgentEnds, TypeOK
<1>9. ASSUME NEW a \in Agent, UnregisterAgent(a) PROVE Assignment'
  BY <1>9 DEF UnregisterAgent
<1>10. CASE UNCHANGED vars
  BY <1>10 DEF vars
<1> QED
  BY <1>1, <1>2, <1>3, <1>4, <1>5, <1>6, <1>7, <1>8, <1>9, <1>10
  DEF Next

\* A task that has run stays as it is, and the others change as the actions say.
LEMMA AnswersStep ==
  TypeOK /\ Layers /\ Answers /\ [Next]_vars => Answers'
<1> SUFFICES ASSUME TypeOK, Layers, Answers, [Next]_vars, Mode = "dag" PROVE Answers'
  BY ModeKept DEF Answers
<1> USE DEF Answers, TypeOK
<1>a. Mode' = Mode
  BY ModeKept
<1>1. ASSUME NEW n \in 0..Tasks, Decompose(n) PROVE Answers'
  <2>1. CASE agents = {}
    BY <1>1, <2>1 DEF Decompose, Raise
  <2>2. CASE agents # {}
    <3>1. Running = {} /\ Settled = {}
      BY <1>1 DEF Decompose, Layers
    <3>2. \A t \in Task : status[t] \in {"none", "pending"}
      BY <3>1 DEF Running, Settled, Status
    <3>3. \A t \in Task : answer[t] = "none"
      BY <3>2
    <3> QED
      BY <1>1, <2>2, <3>3 DEF Decompose, Parts
  <2> QED
    BY <2>1, <2>2
<1>2. ASSUME BeginDag PROVE Answers'
  BY <1>2 DEF BeginDag, Raise
<1>3. ASSUME NextLayer PROVE Answers'
  <2>1. \A t \in Task : \/ status'[t] = status[t]
                        \/ status[t] = "pending" /\ status'[t] = "running"
    BY <1>3 DEF NextLayer, Start, Raise, Ready, Pending, Min
  <2> QED
    BY <1>3, <2>1 DEF NextLayer
<1>4. ASSUME EndLayer PROVE Answers'
  BY <1>4 DEF EndLayer
<1>5. ASSUME StartAll PROVE Answers'
  BY <1>5 DEF StartAll
<1>6. ASSUME StartNext PROVE Answers'
  BY <1>6 DEF StartNext
<1>7. ASSUME EndTasks PROVE Answers'
  BY <1>7 DEF EndTasks
<1>8. ASSUME NEW t \in Task, NEW a \in Answer, AgentEnds(t, a) PROVE Answers'
  <2>1. status[t] = "running"
    BY <1>8 DEF AgentEnds, Running
  <2>2. Verdict(a) = "completed" => a = "success"
    BY DEF Verdict, Answer
  <2>3. Verdict(a) \in {"completed", "failed"}
    BY DEF Verdict
  <2> QED
    BY <1>8, <2>1, <2>2, <2>3 DEF AgentEnds
<1>9. ASSUME NEW a \in Agent, UnregisterAgent(a) PROVE Answers'
  BY <1>9 DEF UnregisterAgent
<1>10. CASE UNCHANGED vars
  BY <1>10 DEF vars
<1> QED
  BY <1>1, <1>2, <1>3, <1>4, <1>5, <1>6, <1>7, <1>8, <1>9, <1>10
  DEF Next

\* A task starts once those it depends on have succeeded, and they stay so.
LEMMA DepsStep ==
  TypeOK /\ Layers /\ Answers /\ DepsSucceedFirst /\ [Next]_vars => DepsSucceedFirst'
<1> SUFFICES ASSUME TypeOK, Layers, Answers, DepsSucceedFirst, [Next]_vars, Mode = "dag"
             PROVE  DepsSucceedFirst'
  BY ModeKept DEF DepsSucceedFirst
<1> USE DEF DepsSucceedFirst, TypeOK
<1>a. Mode' = Mode /\ deps' = deps
  BY ModeKept
<1>1. ASSUME NEW n \in 0..Tasks, Decompose(n) PROVE DepsSucceedFirst'
  <2>1. CASE agents = {}
    BY <1>1, <1>a, <2>1 DEF Decompose, Raise
  <2>2. CASE agents # {}
    BY <1>1, <1>a, <2>2 DEF Decompose, Parts
  <2> QED
    BY <2>1, <2>2
<1>2. ASSUME BeginDag PROVE DepsSucceedFirst'
  BY <1>2, <1>a DEF BeginDag, Raise
<1>3. ASSUME NextLayer PROVE DepsSucceedFirst'
  <2>1. CASE Ready # {}
    <3>1. ASSUME NEW t \in Ready, NEW d \in deps[t] PROVE answer[d] = "success"
      <4>1. t \in Task /\ status[t] = "pending" /\ t \notin skipped /\ d \in completed
        BY <3>1 DEF Ready, Pending
      <4>2. d \in Task /\ status[d] # "failed"
        BY <3>1, <4>1 DEF Layers
      <4>3. status[d] \in {"completed", "failed"}
        BY <4>1 DEF Layers, Settled
      <4> QED
        BY <4>2, <4>3 DEF Answers
    <3>2. \A t \in Task : t \in Ready \/ status'[t] = status[t]
      BY <1>3, <2>1 DEF NextLayer, Start
    <3>3. answer' = answer
      BY <1>3 DEF NextLayer
    <3> QED
      BY <1>a, <3>1, <3>2, <3>3
  <2>2. CASE Ready = {}
    BY <1>3, <1>a, <2>2 DEF NextLayer
  <2> QED
    BY <2>1, <2>2
<1>4. ASSUME EndLayer PROVE DepsSucceedFirst'
  BY <1>4, <1>a DEF EndLayer
<1>5. ASSUME StartAll PROVE DepsSucceedFirst'
  BY <1>5 DEF StartAll, Start
<1>6. ASSUME StartNext PROVE DepsSucceedFirst'
  BY <1>6 DEF StartNext, Start, Raise
<1>7. ASSUME EndTasks PROVE DepsSucceedFirst'
  BY <1>7 DEF EndTasks
<1>8. ASSUME NEW t \in Task, NEW a \in Answer, AgentEnds(t, a) PROVE DepsSucceedFirst'
  <2>1. status[t] = "running" /\ answer[t] = "none"
    BY <1>8 DEF AgentEnds, Running, Answers
  <2>2. \A u \in Task : status'[u] \notin {"none", "pending"} => status[u] \notin {"none", "pending"}
    BY <1>8, <2>1 DEF AgentEnds
  <2>3. \A d \in Task : answer[d] = "success" => answer'[d] = "success"
    BY <1>8, <2>1 DEF AgentEnds
  <2> QED
    BY <1>a, <2>2, <2>3
<1>9. ASSUME NEW a \in Agent, UnregisterAgent(a) PROVE DepsSucceedFirst'
  BY <1>9, <1>a DEF UnregisterAgent
<1>10. CASE UNCHANGED vars
  BY <1>10, <1>a DEF vars
<1> QED
  BY <1>1, <1>2, <1>3, <1>4, <1>5, <1>6, <1>7, <1>8, <1>9, <1>10
  DEF Next

\* Between two layers of a dag without a failure some task is ready, if any is
\* pending at all: there is no cycle, and nothing it could wait for.
LEMMA NoneLeft ==
  ASSUME TypeOK, Assignment, Layers, Mode = "dag", phase = "next", Ready = {},
         \A t \in Task : status[t] # "failed"
  PROVE  \A t \in Task : status[t] # "pending"
<1>1. skipped = {} /\ Running = {} /\ completed = Settled
  BY DEF Layers
<1>2. ~HasCycle
  BY DEF Mode
<1>3. \A t \in Pending : deps[t] \cap Pending # {}
  <2> SUFFICES ASSUME NEW t \in Pending PROVE deps[t] \cap Pending # {}
    OBVIOUS
  <2>1. PICK d \in deps[t] : d \notin completed
    BY DEF Ready
  <2>2. t \in Task /\ d \in Task
    BY DEF Pending, TypeOK
  <2>3. status[d] # "none"
    BY <2>2 DEF Assignment
  <2>4. status[d] \notin {"running", "completed", "failed"}
    BY <1>1, <2>1, <2>2 DEF Running, Settled
  <2>5. status[d] = "pending"
    BY <2>2, <2>3, <2>4 DEF TypeOK, Status
  <2> QED
    BY <1>1, <2>1, <2>2, <2>5 DEF Pending
<1>4. Pending = {}
  <2>1. Pending \in SUBSET Task
    BY DEF Pending
  <2> QED
    BY <1>2, <1>3, <2>1 DEF HasCycle
<1> QED
  BY <1>1, <1>4 DEF Pending

\* The layers are kept.
LEMMA LayersStep ==
  TypeOK /\ Assignment /\ Layers /\ [Next]_vars => Layers'
<1> SUFFICES ASSUME TypeOK, Assignment, Layers, [Next]_vars, Mode = "dag" PROVE Layers'
  BY ModeKept DEF Layers
<1> USE DEF Layers, TypeOK
<1>a. Mode' = Mode /\ deps' = deps
  BY ModeKept
<1>b. Running' = {t \in Task : status'[t] = "running"}
  BY DEF Running
<1>c. Settled' = {t \in Task : status'[t] \in {"completed", "failed"}}
  BY DEF Settled
<1>1. ASSUME NEW n \in 0..Tasks, Decompose(n) PROVE Layers'
  <2>0. Running = {} /\ Settled = {} /\ completed = {} /\ skipped = {}
    BY <1>1 DEF Decompose
  <2>1. CASE agents = {}
    BY <1>1, <1>a, <1>b, <1>c, <2>0, <2>1 DEF Decompose, Raise, Running, Settled
  <2>2. CASE agents # {}
    <3>1. Running' = {} /\ Settled' = {}
      BY <1>1, <1>b, <1>c, <2>2 DEF Decompose, Parts
    <3> QED
      BY <1>1, <1>a, <2>0, <2>2, <3>1 DEF Decompose
  <2> QED
    BY <2>1, <2>2
<1>2. ASSUME BeginDag PROVE Layers'
  <2>0. Running = {} /\ Settled = {} /\ completed = {} /\ skipped = {}
    BY <1>2 DEF BeginDag
  <2>1. Running' = {} /\ Settled' = {}
    BY <1>2, <1>b, <1>c, <2>0 DEF BeginDag, Raise, Running, Settled
  <2> QED
    BY <1>2, <1>a, <2>0, <2>1 DEF BeginDag, Raise
<1>3. ASSUME NextLayer PROVE Layers'
  <2>0. Running = {} /\ completed = Settled
    BY <1>3 DEF NextLayer
  <2>1. CASE Ready # {}
    <3>1. \A t \in Task : \/ status'[t] = status[t]
                          \/ status[t] = "pending" /\ status'[t] = "running"
      BY <1>3, <2>1 DEF NextLayer, Start, Ready, Pending
    <3>2. completed' = completed /\ skipped' = skipped /\ phase' = "running"
      BY <1>3, <2>1 DEF NextLayer, Start
    <3>3. completed \subseteq Settled'
      BY <1>c, <3>1 DEF Settled
    <3>4. skipped # {} => \E t \in Task : status'[t] = "failed"
      BY <1>3, <3>1 DEF NextLayer
    <3> QED
      BY <1>a, <3>1, <3>2, <3>3, <3>4
  <2>2. CASE Ready = {}
    <3>1. status' = status /\ completed' = completed /\ skipped' = skipped \cup Pending
          /\ phase' = "done" /\ phase = "next"
      BY <1>3, <2>2 DEF NextLayer
    <3>2. \/ \E t \in Task : status[t] = "failed"
          \/ \A t \in Task : status[t] # "pending"
      BY <1>3, <2>0, <2>2, <3>1, NoneLeft
    <3>3. Running' = {} /\ Settled' = Settled
      BY <1>b, <1>c, <2>0, <3>1 DEF Running, Settled
    <3>4. \A t \in completed, u \in Task :
            status[t] = "failed" /\ t \in deps[u] /\ status[u] = "pending" => u \in skipped \cup Pending
      OBVIOUS
    <3> QED
      BY <1>a, <3>1, <3>2, <3>3, <3>4
  <2> QED
    BY <2>1, <2>2
<1>4. ASSUME EndLayer PROVE Layers'
  <2>1. status' = status /\ completed' = Settled /\ phase' = "next" /\ Running = {}
    BY <1>4 DEF EndLayer
  <2>2. Running' = {} /\ Settled' = Settled
    BY <1>b, <1>c, <2>1 DEF Running, Settled
  <2>3. ASSUME NEW t \in Settled, NEW u \in Task,
               status[t] = "failed", t \in deps[u], status[u] = "pending"
        PROVE  u \in skipped'
    <3>1. t \in {w \in Task : status[w] = "failed"}
      BY <2>3 DEF Settled
    <3>2. u \in skipped \/ u \in Downstream(t)
      BY <2>3 DEF Downstream, Pending
    <3> QED
      BY <1>4, <3>1, <3>2 DEF EndLayer
  <2>4. skipped' # {} => \E t \in Task : status[t] = "failed"
    <3>1. skipped # {} => \E t \in Task : status[t] = "failed"
      BY <1>4 DEF EndLayer
    <3> QED
      BY <1>4, <3>1 DEF EndLayer
  <2> QED
    BY <1>a, <2>1, <2>2, <2>3, <2>4
<1>5. ASSUME StartAll PROVE Layers'
  BY <1>5 DEF StartAll, Start
<1>6. ASSUME StartNext PROVE Layers'
  BY <1>6 DEF StartNext, Start, Raise
<1>7. ASSUME EndTasks PROVE Layers'
  BY <1>7 DEF EndTasks
<1>8. ASSUME NEW t \in Task, NEW a \in Answer, AgentEnds(t, a) PROVE Layers'
  <2>1. status[t] = "running" /\ Running # {}
    BY <1>8 DEF AgentEnds, Running
  <2>2. phase \notin {"next", "done", "decompose", "dag"}
    BY <2>1
  <2>3. Verdict(a) \in {"completed", "failed"}
    BY DEF Verdict
  <2>4. /\ completed' = completed /\ skipped' = skipped /\ phase' = phase
        /\ \A u \in Task : u # t => status'[u] = status[u]
        /\ status'[t] = Verdict(a)
    BY <1>8 DEF AgentEnds
  <2>5. t \notin completed
    BY <2>1 DEF Settled
  <2>6. completed \subseteq Settled'
    BY <1>c, <2>4, <2>5 DEF Settled
  <2>7. \A u \in Task : /\ status'[u] = "pending" => status[u] = "pending"
                        /\ status[u] = "failed" => status'[u] = "failed"
    BY <2>1, <2>3, <2>4
  <2>8. \A w \in completed : status'[w] = status[w]
    BY <2>4, <2>5
  <2> QED
    BY <1>a, <2>2, <2>4, <2>6, <2>7, <2>8
<1>9. ASSUME NEW a \in Agent, UnregisterAgent(a) PROVE Layers'
  BY <1>9, <1>a, <1>b, <1>c DEF UnregisterAgent, Running, Settled
<1>10. CASE UNCHANGED vars
  BY <1>10, <1>a, <1>b, <1>c DEF vars, Running, Settled
<1> QED
  BY <1>1, <1>2, <1>3, <1>4, <1>5, <1>6, <1>7, <1>8, <1>9, <1>10
  DEF Next

-----------------------------------------------------------------------------
(* Theorems.                                                               *)

\* The initial states satisfy the invariant.
LEMMA InvInit ==
  Init => IInv
<1> SUFFICES ASSUME Init PROVE IInv
  OBVIOUS
<1> USE DEF Init
<1>1. /\ answer = [t \in Task |-> "none"] /\ skipped = {} /\ completed = {} /\ ids = {}
      /\ phase \in {"decompose", "dag"}
  OBVIOUS
<1>2. \A t \in Task : t <= Tasks /\ ~(t <= 0)
  BY SizesAssumption DEF Task
<1>3. \A t \in Task : status[t] = IF phase = "decompose" THEN "none" ELSE "pending"
  BY <1>2 DEF Parts
<1>4. TypeOK
  <2>1. status \in [Task -> Status]
    BY DEF Parts, Status
  <2>2. deps \in [Task -> SUBSET Task]
    BY DEF NoDeps
  <2>3. answer \in [Task -> Answer \cup {"none"}] /\ agent \in [Task -> Agent \cup {0}]
    OBVIOUS
  <2> QED
    BY <1>1, <2>1, <2>2, <2>3 DEF TypeOK
<1>5. Assignment
  <2>1. CASE phase = "decompose"
    BY <2>1 DEF Assignment, NoDeps
  <2>2. CASE phase = "dag"
    BY <1>3, <1>4, <2>2 DEF Assignment, TypeOK
  <2> QED
    BY <1>1, <2>1, <2>2
<1>6. Running = {} /\ Settled = {}
  BY <1>3 DEF Running, Settled
<1>7. Layers
  BY <1>1, <1>6 DEF Layers
<1>8. Answers
  BY <1>1, <1>3 DEF Answers
<1>9. DepsSucceedFirst
  BY <1>3 DEF DepsSucceedFirst
<1> QED
  BY <1>4, <1>5, <1>7, <1>8, <1>9 DEF IInv

\* Every step keeps the invariant.
LEMMA InvStep ==
  IInv /\ [Next]_vars => IInv'
BY TypeStep, AssignmentStep, LayersStep, AnswersStep, DepsStep DEF IInv

\* The invariant holds in every reachable state.
LEMMA InvAlways ==
  Spec => []IInv
<1>1. Init => IInv
  BY InvInit
<1>2. IInv /\ [Next]_vars => IInv'
  BY InvStep
<1> QED
  BY <1>1, <1>2, PTL DEF Spec

\* The variables have their types; an assignment names a registered agent's
\* number, whichever way it is chosen.
THEOREM CoordinatorTypeCorrect ==
  Spec => []TypeOK
<1>1. IInv => TypeOK
  BY DEF IInv
<1> QED
  BY <1>1, InvAlways, PTL

\* In a dag no task runs before every task it depends on has succeeded, though
\* completed_ids takes the failed ones too (_execute_dag).
THEOREM DepsAlwaysFirst ==
  Spec => []DepsSucceedFirst
<1>1. IInv => DepsSucceedFirst
  BY DEF IInv
<1> QED
  BY <1>1, InvAlways, PTL

\* A success rate of 1 hides no task that was passed over (_aggregate_results):
\* a dag without a cycle leaves a task behind only after a failure.
THEOREM SuccessPassesNothingOver ==
  Spec => []NothingPassedOver
<1>1. IInv => NothingPassedOver
  <2> SUFFICES ASSUME IInv, phase = "done", AllSucceeded, NEW t \in Task
               PROVE  status[t] \in {"completed", "none"}
    BY DEF NothingPassedOver
  <2>1. CASE Mode = "dag"
    <3>1. \A u \in Task : status[u] # "failed"
      BY <2>1 DEF AllSucceeded, Reported
    <3>2. Running = {} /\ \A u \in Task : status[u] # "pending"
      BY <2>1, <3>1 DEF IInv, Layers
    <3> QED
      BY <3>1, <3>2 DEF IInv, TypeOK, Status, Running
  <2>2. CASE Mode # "dag"
    BY <2>2 DEF AllSucceeded, Reported
  <2> QED
    BY <2>1, <2>2
<1> QED
  BY <1>1, InvAlways, PTL
=============================================================================
