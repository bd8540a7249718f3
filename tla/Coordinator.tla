----------------------------- MODULE Coordinator -----------------------------
(***************************************************************************)
(* MultiAgentCoordinator (multi_agents/coordinator.py): coordinate() has a *)
(* task taken apart by one of the registered agents and the parts run by   *)
(* them all at once (parallel) or one after another (sequential, dynamic). *)
(* _execute_dag() runs parts layer by layer of their dependencies; it is   *)
(* given those (SubTask), or, by coordinate(), parts without any.          *)
(*                                                                         *)
(* An agent's run answers with success, without (out of steps, stopped,    *)
(* tool errors), or raises. Agents may be unregistered at any await.       *)
(***************************************************************************)
EXTENDS Naturals, FiniteSets, FiniteSetsExt

CONSTANTS
  Tasks,  \* bound on the number of sub-tasks
  Agents  \* number of agents, in the order of their registration
ASSUME SizesAssumption == Tasks \in Nat \ {0} /\ Agents \in Nat

Task     == 1..Tasks
Agent    == 1..Agents
Strategy == {"dag", "parallel", "sequential", "dynamic"}
Status   == {"none", "pending", "running", "completed", "failed"}
Answer   == {"success", "no_success", "raise"}

VARIABLES
  strategy,  \* the strategy asked for
  deps,      \* SubTask.deps
  agents,    \* registered agents
  ids,       \* agent_ids: those registered when the tasks were assigned
  fits,      \* agents whose capabilities match the task
  agent,     \* TaskAssignment.agent_id, 0 for none
  skipped,   \* SubTask.status = "skipped"
  status,    \* TaskAssignment.status; "none" for a task there is not
  answer,    \* history: what the agent's run answered
  completed, \* completed_ids of the dag
  phase      \* where coordinate() stands

given == <<strategy, deps, fits>>
vars  == <<given, agents, ids, agent, skipped, status, answer, completed, phase>>

TypeOK ==
  /\ strategy \in Strategy /\ deps \in [Task -> SUBSET Task]
  /\ agents \subseteq Agent /\ ids \subseteq Agent /\ fits \in [Task -> SUBSET Agent]
  /\ agent \in [Task -> Agent \cup {0}]
  /\ skipped \subseteq Task /\ completed \subseteq Task
  /\ status \in [Task -> Status] /\ answer \in [Task -> Answer \cup {"none"}]
  /\ phase \in {"decompose", "dag", "next", "running", "done", "raised"}

NoDeps == [t \in Task |-> {}]

Parts(n) == [t \in Task |-> IF t <= n THEN "pending" ELSE "none"]

\* coordinate() with a task, or _execute_dag() with parts and any dependencies
\* among them. Capabilities matter to the other strategies only.
Init ==
  /\ strategy \in Strategy /\ agents \in SUBSET Agent
  /\ \/ phase = "decompose" /\ deps = NoDeps /\ status = Parts(0)
     \/ /\ phase = "dag" /\ strategy = "dag"
        /\ deps \in [Task -> SUBSET Task] /\ status = Parts(Tasks)
  /\ fits \in [Task -> SUBSET Agent]
  /\ strategy = "dag" => fits = NoDeps
  /\ ids = {} /\ agent = [t \in Task |-> 0] /\ skipped = {} /\ completed = {}
  /\ answer = [t \in Task |-> "none"]

\* dfs() meets a task of its own path: some tasks depend on one another.
HasCycle == \E S \in (SUBSET Task) \ {{}} : \A t \in S : deps[t] \cap S # {}

\* A cyclic dag is executed as a sequence.
Mode == IF strategy = "dag" /\ HasCycle THEN "sequential" ELSE strategy

Pending == {t \in Task : status[t] = "pending" /\ t \notin skipped}
Running == {t \in Task : status[t] = "running"}

Start(S) == /\ status' = [t \in Task |-> IF t \in S THEN "running" ELSE status[t]]
            /\ phase' = "running"

Raise == phase' = "raised" /\ UNCHANGED <<ids, agent, status>>

\* Where x stands in S, and the one a round robin takes k-th.
Index(S, x) == Cardinality({y \in S : y < x})
Nth(S, k)   == CHOOSE a \in S : Index(S, a) = k % Cardinality(S)

\* _assign_tasks: the first agent that fits best, or the next in turn. The
\* scores are told apart as zero or not.
Assigned(t) ==
  IF fits[t] \cap agents # {} THEN Min(fits[t] \cap agents)
  ELSE Nth(agents, Index(Task, t))

-----------------------------------------------------------------------------
(* Decomposition and assignment.                                           *)

\* Without agents the task is its only part, and the assignment raises. With
\* them the provider's or the agent's answer gives the parts, none perhaps;
\* an answer that is not a list of strings leaves the task whole.
Decompose(n) ==
  /\ phase = "decompose"
  /\ IF agents = {} THEN Raise
     ELSE /\ status' = Parts(n) /\ phase' = "next" /\ ids' = agents
          /\ agent' = [t \in Task |->
               IF strategy # "dag" /\ t <= n THEN Assigned(t) ELSE 0]
  /\ UNCHANGED <<given, agents, skipped, answer, completed>>

\* The first agent gets every task of a cyclic dag.
BeginDag ==
  /\ phase = "dag"
  /\ IF agents = {} THEN Raise
     ELSE /\ phase' = "next" /\ ids' = agents /\ UNCHANGED status
          /\ agent' = [t \in Task |-> IF HasCycle THEN Min(agents) ELSE 0]
  /\ UNCHANGED <<given, agents, skipped, answer, completed>>

-----------------------------------------------------------------------------
(* The dag.                                                                *)

Ready == {t \in Pending : deps[t] \subseteq completed}

\* The next layer runs; without one, what is left is skipped.
NextLayer ==
  /\ Mode = "dag" /\ phase = "next"
  /\ IF Ready # {}
       THEN /\ Start(Ready) /\ UNCHANGED skipped
            /\ agent' = [t \in Task |->
                 IF t \in Ready THEN Nth(ids, Index(Ready, t)) ELSE agent[t]]
       ELSE skipped' = skipped \cup Pending /\ phase' = "done" /\ UNCHANGED <<agent, status>>
  /\ UNCHANGED <<given, agents, ids, answer, completed>>

\* Mutant of Downstream: the tasks it depends on, not those that depend on it.
DownstreamReversed(t) == {u \in Pending : u \in deps[t]}

\* The tasks that wait for t.
Downstream(t) == {u \in Pending : t \in deps[u]}

\* Mutant of Settled: only the last layer is remembered.
SettledLast == {t \in Task : status[t] \in {"completed", "failed"}} \ completed

\* completed_ids takes the failed tasks too.
Settled == {t \in Task : status[t] \in {"completed", "failed"}}

EndLayer ==
  /\ Mode = "dag" /\ phase = "running" /\ Running = {}
  /\ completed' = Settled /\ phase' = "next"
  /\ skipped' = skipped \cup
       UNION {Downstream(t) : t \in {u \in Task : status[u] = "failed"}}
  /\ UNCHANGED <<given, agents, ids, agent, status, answer>>

-----------------------------------------------------------------------------
(* The other strategies.                                                   *)

StartAll ==
  /\ Mode = "parallel" /\ phase = "next"
  /\ IF Pending # {} THEN Start(Pending) ELSE phase' = "done" /\ UNCHANGED status
  /\ UNCHANGED <<given, agents, ids, agent, skipped, answer, completed>>

\* The next task in turn; its agent may have been unregistered since.
StartNext ==
  /\ Mode \in {"sequential", "dynamic"} /\ phase = "next"
  /\ IF Pending = {} THEN phase' = "done" /\ UNCHANGED <<ids, agent, status>>
     ELSE IF agent[Min(Pending)] \notin agents THEN Raise
     ELSE Start({Min(Pending)}) /\ UNCHANGED <<ids, agent>>
  /\ UNCHANGED <<given, agents, skipped, answer, completed>>

\* A sequence ends with the first failure, the others when all have run.
EndTasks ==
  /\ Mode # "dag" /\ phase = "running" /\ Running = {}
  /\ phase' = IF \/ Pending = {}
                 \/ Mode = "sequential" /\ \E t \in Task : status[t] = "failed"
                THEN "done" ELSE "next"
  /\ UNCHANGED <<given, agents, ids, agent, skipped, status, answer, completed>>

-----------------------------------------------------------------------------

\* Only the dag looks at result.success.
Verdict(a) ==
  IF a = "raise" \/ (Mode = "dag" /\ a = "no_success") THEN "failed" ELSE "completed"

\* An agent's run ends. In the dag an agent that is gone counts as a failure.
AgentEnds(t, a) ==
  /\ t \in Running /\ a \in Answer
  /\ status' = [status EXCEPT ![t] = Verdict(a)]
  /\ answer' = [answer EXCEPT ![t] = a]
  /\ UNCHANGED <<given, agents, ids, agent, skipped, completed, phase>>

\* While coordinate() awaits an answer.
UnregisterAgent(a) ==
  /\ a \in agents /\ phase \in {"decompose", "running"}
  /\ agents' = agents \ {a}
  /\ UNCHANGED <<given, ids, agent, skipped, status, answer, completed, phase>>

-----------------------------------------------------------------------------
(* _aggregate_results: what the caller is told.                            *)

\* The dag hands over the tasks that ran, the others all that were assigned.
Reported == {t \in Task : IF Mode = "dag" THEN status[t] \in {"completed", "failed"}
                          ELSE status[t] # "none"}

\* The success rate is 1.
AllSucceeded == Reported # {} /\ \A t \in Reported : status[t] = "completed"

Next ==
  \/ \E n \in 0..Tasks : Decompose(n)
  \/ BeginDag \/ NextLayer \/ EndLayer \/ StartAll \/ StartNext \/ EndTasks
  \/ \E t \in Task, a \in Answer : AgentEnds(t, a)
  \/ \E a \in Agent : UnregisterAgent(a)

Spec == Init /\ [][Next]_vars

-----------------------------------------------------------------------------
(* Properties.                                                             *)

\* In a dag a task runs only when every task it depends on has succeeded,
\* though completed_ids holds the failed ones too: what waits for a failure is
\* skipped in time, and so is what waits for the skipped (_execute_dag).
DepsSucceedFirst ==
  Mode = "dag" =>
    \A t \in Task : status[t] \notin {"none", "pending"} => \A d \in deps[t] : answer[d] = "success"

\* A success rate of 1 hides no task that was passed over, though the dag
\* counts only the tasks that ran (_aggregate_results).
NothingPassedOver ==
  (phase = "done" /\ AllSucceeded) =>
    \A t \in Task : status[t] \in {"completed", "none"}

\* docs/design/multi-agent: results are those of the agents. A task that counts
\* as completed is one whose run succeeded.
CompletedSucceeded ==
  \A t \in Task : status[t] = "completed" => answer[t] = "success"
=============================================================================
