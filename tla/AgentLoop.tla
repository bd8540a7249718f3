------------------------------ MODULE AgentLoop ------------------------------
(***************************************************************************)
(* The Agent of the SDK: one run at a time of the loop Think, Act, Observe *)
(* (runtime/harness/harness.py, engine/loop.py) under its budget, its plan *)
(* (engine/planning), its retry policy (llm/retry.py), the split of a goal *)
(* into sub-goals (engine/runner.py) and the life cycle that pause(),      *)
(* resume() and stop() drive from outside (engine/lifecycle.py), with the  *)
(* snapshots a restarted process goes on from (engine/agent.py).           *)
(*                                                                         *)
(* The policy of Agent.create() stops a run whose message has a gated call *)
(* until a decision comes with its snapshot. Which calls wait is left out: *)
(* that a decision is for them, and the tool ledger, are DurableRun's;     *)
(* here no ledger is plugged in.                                           *)
(***************************************************************************)
EXTENDS Naturals, FiniteSets

CONSTANTS
  MaxSteps,   \* AgentBudget.max_steps
  MaxErrors,  \* Observe.max_consecutive_errors
  MaxRetries, \* LLMRetryPolicy.max_retries
  MaxCalls,   \* bound on the tool calls of one message
  Slots,      \* Act.max_concurrency
  MaxTokens,  \* bound on the tokens of one streamed answer
  Deadline,   \* AgentBudget.max_duration_seconds is set
  AbortOnError, \* Observe.abort_on_tool_error
  PlanSize,   \* bound on the steps of a plan
  MaxGoals,   \* bound on the sub-goals of a request
  MaxRuns,    \* bound on the requests run(), snapshots and restarts
  MaxOrders   \* bound on the calls of pause(), resume() and stop()

ASSUME ConstantsAssumption ==
  /\ MaxSteps \in Nat \ {0} /\ MaxErrors \in Nat \ {0} /\ Slots \in Nat \ {0}
  /\ MaxRetries \in Nat /\ MaxCalls \in Nat /\ MaxTokens \in Nat
  /\ Deadline \in BOOLEAN /\ AbortOnError \in BOOLEAN
  /\ PlanSize \in Nat /\ MaxGoals \in Nat \ {0}
  /\ MaxRuns \in Nat /\ MaxOrders \in Nat

Call == 1..MaxCalls

StopReason == {"MODEL_FINAL", "MAX_STEPS", "BUDGET_EXHAUSTED", "USER_CANCELLED",
               "LLM_ERROR_ABORT", "TOOL_ERROR_ABORT", "ERROR", "APPROVAL_REQUIRED"}

Life     == {"IDLE", "RUNNING", "PAUSED", "STOPPED"}
PlanStep == {"ABSENT", "PENDING", "IN_PROGRESS", "DONE", "FAILED"}

\* AgentLoopState: goal is 0 for the goal of the run, i while it stands for the
\* goal of plan step i. A state has a pending approval exactly while it has
\* stopped for one.
LoopState == [step : 0..MaxSteps, stop : StopReason \cup {"NONE"},
              errors : 0..MaxErrors, plan : [1..PlanSize -> PlanStep],
              goal : 0..PlanSize]

\* AgentLoopResult, and what a snapshot holds.
Outcome  == [success : BOOLEAN, stop : StopReason \cup {"NONE"}, over : BOOLEAN]
Snapshot == [state : LoopState, life : Life, taken : BOOLEAN]

NewState == [step |-> 0, stop |-> "NONE", errors |-> 0,
             plan |-> [i \in 1..PlanSize |-> "ABSENT"], goal |-> 0]

NoSnapshot == [state |-> NewState, life |-> "IDLE", taken |-> FALSE]
NoOutcome  == [success |-> FALSE, stop |-> "NONE", over |-> FALSE]

VARIABLES
  tools,    \* the agent has tools: its answers are not streamed
  planning, \* the strategy is plan_execute
  life, paused, stopping,  \* LifecycleManager: state, ~_pause_event, _stop_requested
  cancelled,               \* what the callback is_cancelled answers
  goals, done, left,       \* the sub-goals, how many have been run, the steps left
  used,                    \* history: steps of the whole request
  pc, mem,                 \* where the run stands and its AgentLoopState
  at, saved,               \* run_step()'s current plan step and original_goal
  attempt, got, seen,      \* of the call to the model; tokens of it, tokens shown
  calls, parallel,         \* the tool calls of the message, and how they are run
  stray,                   \* calls that went on after the run that made them
  outcome,                 \* AgentLoopResult
  snap,                    \* the snapshot on disk
  runs, orders             \* counters for the bounds

lifecycle == <<life, paused, stopping>>
request   == <<goals, done, left, used, outcome>>
llm       == <<attempt, got, seen>>
act       == <<calls, parallel, stray>>
config    == <<tools, planning>>
locals    == <<at, saved>>
vars == <<config, lifecycle, cancelled, request, pc, mem, locals, llm, act, snap, runs,
          orders>>

Idle == {"idle", "down"}
PC   == Idle \cup {"route", "begin", "plan", "head", "waiting", "woken", "think",
                   "llm", "act", "after", "finish", "decided"}

CallState == {"none", "queued", "running", "ok", "error", "cancelled", "raised"}

TypeOK ==
  /\ tools \in BOOLEAN /\ planning \in BOOLEAN
  /\ life \in Life /\ paused \in BOOLEAN /\ stopping \in BOOLEAN
  /\ cancelled \in BOOLEAN
  /\ goals \in 0..MaxGoals /\ done \in 0..MaxGoals
  /\ left \in 0..MaxSteps /\ used \in Nat
  /\ pc \in PC /\ mem \in LoopState
  /\ at \in 0..PlanSize /\ saved \in 0..PlanSize
  /\ attempt \in 1..(MaxRetries + 1) /\ got \in 0..MaxTokens /\ seen \in Nat
  /\ calls \in [Call -> CallState] /\ parallel \in BOOLEAN /\ stray \in Nat
  /\ outcome \in Outcome /\ snap \in Snapshot
  /\ runs \in 0..MaxRuns /\ orders \in 0..MaxOrders

NoCalls == [c \in Call |-> "none"]

\* What Agent.create() has put together: a loop with or without tools, with or
\* without the planning strategy, and a life cycle of its own.
Init ==
  /\ tools \in BOOLEAN /\ planning \in BOOLEAN
  /\ life = "IDLE" /\ paused = FALSE /\ stopping = FALSE /\ cancelled = FALSE
  /\ goals = 0 /\ done = 0 /\ left = MaxSteps /\ used = 0
  /\ pc = "idle" /\ mem = NewState /\ at = 0 /\ saved = 0
  /\ attempt = 1 /\ got = 0 /\ seen = 0
  /\ calls = NoCalls /\ parallel = FALSE /\ stray = 0
  /\ outcome = NoOutcome /\ snap = NoSnapshot
  /\ runs = 0 /\ orders = 0

-----------------------------------------------------------------------------
(* The life cycle.                                                         *)

CanTransition(to) ==
  \/ life = "IDLE"    /\ to = "RUNNING"
  \/ life = "RUNNING" /\ to \in {"PAUSED", "STOPPED"}
  \/ life = "PAUSED"  /\ to \in {"RUNNING", "STOPPED"}

\* Setting the event releases the loop that waits for it, even if the event is
\* cleared again before it runs.
Wake == pc' = IF pc = "waiting" THEN "woken" ELSE pc

\* Mutant of StopLife: a paused loop is left waiting.
StopLifePaused == /\ life' = "STOPPED" /\ stopping' = TRUE
                  /\ UNCHANGED <<paused, pc>>

StopLife == /\ life' = "STOPPED" /\ stopping' = TRUE /\ paused' = FALSE
            /\ Wake

\* pause(), resume() and stop() raise when the transition is not allowed.
Order(to) ==
  /\ orders < MaxOrders /\ orders' = orders + 1
  /\ pc # "down" /\ CanTransition(to)
  /\ UNCHANGED <<config, cancelled, request, mem, locals, llm, act, snap, runs>>

Pause  == /\ Order("PAUSED") /\ life' = "PAUSED" /\ paused' = TRUE
          /\ UNCHANGED <<stopping, pc>>

Resume == /\ life = "PAUSED" /\ Order("RUNNING")
          /\ life' = "RUNNING" /\ paused' = FALSE /\ stopping' = FALSE
          /\ Wake

Stop   == Order("STOPPED") /\ StopLife

\* The caller's is_cancelled turns true, and stays so.
Cancel ==
  /\ orders < MaxOrders /\ orders' = orders + 1
  /\ ~cancelled /\ cancelled' = TRUE
  /\ UNCHANGED <<config, lifecycle, request, pc, mem, locals, llm, act, snap, runs>>

-----------------------------------------------------------------------------
(* A request: Agent.run(), its sub-goals and their runs.                   *)

Open == {c \in Call : calls[c] \in {"queued", "running"}}

\* The calls gathered with one that raised outlive their run. Requests without
\* sub-goals share the semaphore of their runner, and wait for such calls; the
\* run of a sub-goal has a runner, and a semaphore, of its own.
LeftBehind == stray + IF parallel /\ goals = 1 THEN Cardinality(Open) ELSE 0

LeaveCalls == calls' = NoCalls /\ parallel' = FALSE /\ stray' = LeftBehind

\* With the last run of the bound goes the snapshot no run will use.
KeepSnapshot == snap' = IF runs' = MaxRuns THEN NoSnapshot ELSE snap

\* run(): a stopped life cycle starts again. A pause that came after the last
\* run ended stays in force.
RunAgent ==
  /\ pc = "idle" /\ runs < MaxRuns /\ runs' = runs + 1
  /\ IF life = "STOPPED"
       THEN life' = "IDLE" /\ paused' = FALSE /\ stopping' = FALSE
       ELSE UNCHANGED lifecycle
  /\ goals' = 0 /\ done' = 0 /\ left' = MaxSteps /\ used' = 0
  /\ outcome' = NoOutcome /\ mem' = NewState /\ pc' = "route"
  /\ LeaveCalls /\ KeepSnapshot
  /\ UNCHANGED <<config, cancelled, locals, llm, orders>>

\* The result the caller gets.
Return(success, stop) ==
  /\ outcome' = [success |-> success, stop |-> stop, over |-> TRUE]
  /\ pc' = "idle"

\* TaskRouter.route(): the goal itself (always so without routing), or sub-goals.
Route ==
  /\ pc = "route" /\ pc' = "begin"
  /\ goals' \in 1..MaxGoals
  /\ UNCHANGED <<config, lifecycle, cancelled, done, left, used, outcome, mem, locals,
                 llm, act, snap, runs, orders>>

\* The router's own call to the model fails: run() raises.
RouteFails ==
  /\ pc = "route" /\ Return(FALSE, "ERROR")
  /\ UNCHANGED <<config, lifecycle, cancelled, goals, done, left, used, mem, locals,
                 llm, act, snap, runs, orders>>

\* harness.run() with a new state.
Begin ==
  /\ pc = "begin" /\ mem' = NewState
  /\ life' = IF life = "IDLE" THEN "RUNNING" ELSE life
  /\ pc' = IF planning THEN "plan" ELSE "head"
  /\ UNCHANGED <<config, paused, stopping, cancelled, request, locals, llm, act, snap,
                 runs, orders>>

\* on_run_start(): a plan of n steps, none when the model gives none or fails.
MakePlan ==
  /\ pc = "plan" /\ pc' = "head"
  /\ \E n \in 0..PlanSize :
       mem' = [mem EXCEPT !.plan = [i \in 1..PlanSize |->
                                      IF i <= n THEN "PENDING" ELSE "ABSENT"]]
  /\ UNCHANGED <<config, lifecycle, cancelled, request, locals, llm, act, snap, runs,
                 orders>>

\* Mutant of Remaining: each sub-goal has the whole budget.
RemainingAll == left

Remaining == left - mem.step

\* The run of a sub-goal has ended: the next one while steps are left.
NextGoal ==
  /\ done' = done + 1 /\ left' = Remaining
  /\ IF mem.stop # "MODEL_FINAL" THEN Return(FALSE, mem.stop)
     ELSE IF done' < goals /\ left' > 0 THEN pc' = "begin" /\ UNCHANGED outcome
     ELSE Return(TRUE, "MODEL_FINAL")

FinishRun ==
  /\ pc = "finish" /\ NextGoal
  /\ UNCHANGED <<config, lifecycle, cancelled, goals, used, mem, locals, llm, act, snap,
                 runs, orders>>

\* The run stops for reason s.
Terminate(s) == mem' = [mem EXCEPT !.stop = s] /\ pc' = "finish"

-----------------------------------------------------------------------------
(* The head of the loop.                                                   *)

OutOfSteps == mem.step >= left

\* The step of the plan a round works on: the one begun, else the first pending.
Current ==
  LET begun   == {i \in 1..PlanSize : mem.plan[i] = "IN_PROGRESS"}
      pending == {i \in 1..PlanSize : mem.plan[i] = "PENDING"}
      open    == IF begun # {} THEN begun ELSE pending
  IN  IF open = {} THEN 0 ELSE CHOOSE i \in open : \A j \in open : i <= j

\* run_step() of the plan puts the step's goal in the place of the run's.
BeginStep ==
  /\ mem' = [mem EXCEPT !.step = @ + 1,
               !.goal = IF Current = 0 THEN @ ELSE Current,
               !.plan = [i \in 1..PlanSize |-> IF i = Current THEN "IN_PROGRESS"
                                                              ELSE mem.plan[i]]]
  /\ at' = Current /\ saved' = mem.goal
  /\ pc' = "think" /\ used' = used + 1

Stay == UNCHANGED <<used, locals>>

\* is_stop_requested(), then before_step(): budget first, then is_cancelled.
Check ==
  IF stopping THEN Terminate("USER_CANCELLED") /\ Stay
  ELSE \/ Deadline /\ Terminate("BUDGET_EXHAUSTED") /\ Stay
       \/ OutOfSteps /\ Terminate("MAX_STEPS") /\ Stay
       \/ ~OutOfSteps /\ cancelled /\ Terminate("USER_CANCELLED") /\ Stay
       \/ ~OutOfSteps /\ ~cancelled /\ BeginStep

\* A restored state that has terminated is not run.
Head ==
  /\ pc = "head"
  /\ IF mem.stop # "NONE" THEN pc' = "finish" /\ UNCHANGED mem /\ Stay
     ELSE IF paused THEN pc' = "waiting" /\ UNCHANGED mem /\ Stay
     ELSE Check
  /\ UNCHANGED <<config, lifecycle, cancelled, goals, done, left, outcome, llm, act, snap,
                 runs, orders>>

Woken ==
  /\ pc = "woken" /\ Check
  /\ UNCHANGED <<config, lifecycle, cancelled, goals, done, left, outcome, llm, act, snap,
                 runs, orders>>

-----------------------------------------------------------------------------
(* One step.                                                               *)

\* Mutant of PlanMore: a done step of the plan is taken for the whole plan.
PlanMoreNever(plan) == FALSE

\* The plan has steps left after the current one.
PlanMore(plan) == \E i \in 1..PlanSize : plan[i] = "PENDING"

\* run_step() returns with reason s: the plan's step is done, failed, or goes on;
\* a final answer ends the run only with the last step of the plan.
StepReturns(m, s) ==
  LET i    == at
      plan == IF i = 0 THEN m.plan
              ELSE [m.plan EXCEPT ![i] =
                      IF s = "MODEL_FINAL" THEN "DONE"
                      ELSE IF s \in {"LLM_ERROR_ABORT", "TOOL_ERROR_ABORT"} THEN "FAILED"
                      ELSE @]
      more == i # 0 /\ s = "MODEL_FINAL" /\ PlanMore(plan)
  IN  [m EXCEPT !.goal = saved, !.plan = plan, !.stop = IF more THEN "NONE" ELSE s]

\* The step is over, with or without a message of the model; what only the step
\* knew is gone.
EndStep(m, s, message) ==
  /\ mem' = StepReturns(m, s)
  /\ at' = 0 /\ saved' = 0 /\ attempt' = 1 /\ got' = 0 /\ seen' = 0
  /\ pc' = IF mem'.stop = "NONE" /\ message THEN "after" ELSE "finish"

StepFrame == UNCHANGED <<config, lifecycle, cancelled, request, snap, runs, orders>>

\* Memory and compaction have been awaited; is_cancelled is asked once more.
Think ==
  /\ pc = "think"
  /\ IF cancelled
       THEN EndStep(mem, "USER_CANCELLED", FALSE)
       ELSE pc' = "llm" /\ UNCHANGED <<mem, llm, locals>>
  /\ UNCHANGED act /\ StepFrame

\* A token of the stream reaches the callback and the trace's clients.
Token ==
  /\ pc = "llm" /\ ~tools /\ got < MaxTokens
  /\ got' = got + 1 /\ seen' = seen + 1
  /\ UNCHANGED <<pc, mem, attempt, locals, act>> /\ StepFrame

\* Mutant of MayRetry: a stream that has shown tokens is begun again.
MayRetryAlways == attempt <= MaxRetries

MayRetry == attempt <= MaxRetries /\ got = 0

\* The provider is slow, refuses or breaks off, and the policy tries again.
Retry ==
  /\ pc = "llm" /\ MayRetry
  /\ attempt' = attempt + 1 /\ got' = 0
  /\ UNCHANGED <<pc, mem, seen, locals, act>> /\ StepFrame

\* Not retryable, or too late for that: Think ends the run.
LlmFails ==
  /\ pc = "llm" /\ EndStep(mem, "LLM_ERROR_ABORT", FALSE)
  /\ UNCHANGED act /\ StepFrame

\* A message without tool calls: the answer, or nothing at all.
Answer(s) ==
  /\ pc = "llm" /\ s \in {"MODEL_FINAL", "LLM_ERROR_ABORT"}
  /\ EndStep(mem, s, TRUE)
  /\ UNCHANGED act /\ StepFrame

\* n tool calls, in state s: ones that write nothing run together, others in order.
Calls(n, s, readonly) ==
  /\ n > 0 /\ calls' = [c \in Call |-> IF c <= n THEN s ELSE "none"]
  /\ parallel' = (readonly /\ n > 1)

\* A message with n tool calls, none of them gated.
Propose(n, readonly) ==
  /\ pc = "llm" /\ tools /\ Calls(n, "queued", readonly) /\ UNCHANGED stray
  /\ pc' = "act" /\ attempt' = 1 /\ got' = 0 /\ seen' = 0
  /\ UNCHANGED <<mem, locals>> /\ StepFrame

\* A message with a gated call, one that writes or that no tool answers to: none
\* is made, and the run stops to ask. The plan's step stays begun.
Ask ==
  /\ pc = "llm" /\ tools /\ EndStep(mem, "APPROVAL_REQUIRED", TRUE)
  /\ UNCHANGED act /\ StepFrame

-----------------------------------------------------------------------------
(* The tool calls.                                                         *)

\* Mutant of Busy: a finished call keeps its place in the semaphore.
BusyForever == Cardinality({c \in Call : calls[c] \in {"running", "ok", "error"}})

\* The places taken: those left behind came first.
Busy == Cardinality({c \in Call : calls[c] = "running"}) + IF goals = 1 THEN stray ELSE 0

\* A call gets its place: cancelled runs call nothing, an unknown tool raises
\* out of the whole step - the calls gathered with it go on.
StartCall(c) ==
  /\ calls[c] = "queued" /\ Busy < Slots
  /\ \/ parallel
     \/ /\ pc \in {"act", "decided"} /\ \A d \in Open : c <= d
  /\ \E s \in IF cancelled THEN {"cancelled"} ELSE {"running", "raised"} :
       calls' = [calls EXCEPT ![c] = s]
  /\ UNCHANGED <<pc, mem, locals, llm, parallel, stray>> /\ StepFrame

\* The handler returns, or it fails, is refused or takes too long.
EndCall(c, s) ==
  /\ calls[c] = "running" /\ s \in {"ok", "error"}
  /\ calls' = [calls EXCEPT ![c] = s]
  /\ UNCHANGED <<pc, mem, locals, llm, parallel, stray>> /\ StepFrame

\* A call left behind gets a place, if it has none, and is over.
EndStray ==
  /\ stray > 0 /\ stray' = stray - 1
  /\ UNCHANGED <<pc, mem, locals, llm, calls, parallel>> /\ StepFrame

\* The exception reaches harness.run(), which leaves the plan as it is.
Raised ==
  /\ pc \in {"act", "decided"} /\ \E c \in Call : calls[c] = "raised"
  /\ mem' = [mem EXCEPT !.goal = IF pc = "act" THEN saved ELSE @, !.stop = "ERROR"]
  /\ pc' = "finish"
  /\ at' = 0 /\ saved' = 0
  /\ UNCHANGED <<llm, act>> /\ StepFrame

Results == {c \in Call : calls[c] # "none"}
Failed  == {c \in Call : calls[c] = "error"}

\* Only a step whose calls all failed counts; one without an error clears.
Errors == IF Failed = Results THEN mem.errors + 1
          ELSE IF Failed = {} THEN 0 ELSE mem.errors

\* The reason to stop after the results have been looked at.
Verdict == IF (AbortOnError /\ Failed # {}) \/ Errors >= MaxErrors THEN "TOOL_ERROR_ABORT"
           ELSE "NONE"

AllIn == Open = {} /\ \A c \in Call : calls[c] # "raised"

Observe ==
  /\ pc = "act" /\ AllIn
  /\ EndStep([mem EXCEPT !.errors = Errors], Verdict, TRUE)
  /\ calls' = NoCalls /\ parallel' = FALSE /\ UNCHANGED stray /\ StepFrame

\* The calls of a decided message have been made outside any step: the loop goes
\* on, and takes up the plan's step that asked.
ObserveDecided ==
  /\ pc = "decided" /\ AllIn /\ pc' = "head"
  /\ mem' = [mem EXCEPT !.errors = Errors, !.stop = Verdict]
  /\ calls' = NoCalls /\ parallel' = FALSE /\ UNCHANGED <<stray, locals, llm>> /\ StepFrame

\* Feedback has been collected; after_step() looks at the clock.
AfterStep ==
  /\ pc = "after"
  /\ \/ Deadline /\ Terminate("BUDGET_EXHAUSTED")
     \/ pc' = "head" /\ UNCHANGED mem
  /\ UNCHANGED <<locals, llm, act>> /\ StepFrame

-----------------------------------------------------------------------------
(* Snapshots.                                                              *)

\* serialize_state(): the state and the life cycle, long outputs cut. What a
\* step knows besides is not written: the goal that a plan's step has replaced,
\* the tokens shown, the sub-goals to come.
Serialized(m, l) == [state |-> m, life |-> l, taken |-> TRUE]

\* deserialize_state(): the whole of it, a reason to stop too.
Deserialized(s) == s.state

\* save_snapshot() copies the state as it stands, in the middle of a step too.
\* Only a snapshot that a later run may use is of interest.
SaveSnapshot ==
  /\ pc \in PC \ {"idle", "down", "route", "begin"} /\ ~snap.taken /\ runs < MaxRuns
  /\ snap' = Serialized(mem, life)
  /\ UNCHANGED <<config, lifecycle, cancelled, request, pc, mem, locals, llm, act, runs,
                 orders>>

\* The process ends; only crashes with something to go on from are of interest.
Crash ==
  /\ snap.taken /\ runs < MaxRuns /\ pc # "down" /\ pc' = "down"
  /\ life' = "IDLE" /\ paused' = FALSE /\ stopping' = FALSE /\ cancelled' = FALSE
  /\ mem' = NewState /\ at' = 0 /\ saved' = 0 /\ calls' = NoCalls /\ parallel' = FALSE
  /\ stray' = 0 /\ attempt' = 1 /\ got' = 0 /\ seen' = 0
  /\ goals' = 0 /\ done' = 0 /\ left' = MaxSteps /\ used' = 0 /\ outcome' = NoOutcome
  /\ UNCHANGED <<config, snap, runs, orders>>

\* run_from_snapshot() goes on with state m. It runs no further sub-goals, and it
\* has the whole budget of its agent.
Restored(m) ==
  /\ pc \in Idle /\ snap.taken /\ runs < MaxRuns /\ runs' = runs + 1
  /\ stopping' = FALSE /\ mem' = m
  /\ goals' = 1 /\ done' = 0 /\ left' = MaxSteps /\ used' = m.step
  /\ outcome' = NoOutcome /\ KeepSnapshot
  /\ UNCHANGED <<config, cancelled, locals, llm, orders>>

Pending == snap.state.stop = "APPROVAL_REQUIRED"

\* Nothing is pending: a paused snapshot waits for resume().
RunFromSnapshot ==
  /\ ~Pending /\ Restored(Deserialized(snap)) /\ LeaveCalls
  /\ paused' = (snap.life = "PAUSED")
  /\ life' = IF snap.life = "PAUSED" THEN "PAUSED" ELSE "RUNNING"
  /\ pc' = "head"

\* With a pending approval run_from_snapshot() wants a decision, and pauses for
\* nothing else. One for another request is an error in harness.run(): the run
\* ends as it had stopped.
WrongDecision ==
  /\ Pending /\ Restored(Deserialized(snap)) /\ LeaveCalls
  /\ life' = "RUNNING" /\ paused' = FALSE /\ pc' = "finish"

\* The decision for the n calls that wait: they are made, or each has failed.
Decide(n, readonly, approved) ==
  /\ Pending /\ Restored([Deserialized(snap) EXCEPT !.stop = "NONE"])
  /\ life' = "RUNNING" /\ paused' = FALSE /\ pc' = "decided"
  /\ Calls(n, IF approved THEN "queued" ELSE "error", readonly) /\ stray' = LeftBehind

-----------------------------------------------------------------------------

Model   == Think \/ Token \/ Retry \/ LlmFails
Answers == \E s \in StopReason : Answer(s)
Acts    == \E c \in Call : StartCall(c) \/ EndCall(c, "ok") \/ EndCall(c, "error")

\* What the run does by itself.
Loop ==
  \/ Route \/ RouteFails \/ Begin \/ MakePlan \/ FinishRun
  \/ Head \/ Woken \/ Model \/ Answers
  \/ \E n \in Call, readonly \in BOOLEAN : Propose(n, readonly)
  \/ Ask \/ Acts \/ EndStray \/ Raised \/ Observe \/ ObserveDecided \/ AfterStep

Next ==
  \/ Loop
  \/ RunAgent \/ Pause \/ Resume \/ Stop \/ Cancel
  \/ SaveSnapshot \/ Crash \/ RunFromSnapshot \/ WrongDecision
  \/ \E n \in Call, readonly, approved \in BOOLEAN : Decide(n, readonly, approved)

\* The event loop runs the run; tools and the model answer, for both have
\* timeouts. Nobody has to resume what they paused.
Fairness == WF_vars(Loop)

Spec == Init /\ [][Next]_vars /\ Fairness

-----------------------------------------------------------------------------
(* Properties.                                                             *)

\* A client is shown each token once: what it has seen of the step's answer is
\* what the attempt that goes on has produced, whatever attempts broke off
\* before (LLMRetryPolicy.iterate: "to prevent duplicate output").
ShownOnce == pc = "llm" => seen = got

\* A run reports success only when every step of its plan is done; across
\* steps that needed several rounds, a snapshot and a restart
\* (PlanExecuteStrategy.run_step, _build_result).
SuccessCompletesPlan ==
  outcome.success => \A i \in 1..PlanSize : mem.plan[i] \in {"ABSENT", "DONE"}

\* All the runs of a request together take at most max_steps steps, and so does
\* a run that goes on from a snapshot (run_with_routing's remaining_steps).
BudgetKept == used <= MaxSteps

\* A request ends, or it waits for resume(): no sequence of refusals by the
\* model, failing tools, pauses and places in the semaphore leaves it hanging.
RunEnds == (pc \notin Idle) ~> (pc \in Idle \cup {"waiting"})

\* stop() ends the request, one that is paused too, and with sub-goals left
\* (Agent.stop: run() returns).
StopEnds == (stopping /\ pc \notin Idle) ~> (pc \in Idle)

\* What docs/design/execution/task-router.md says of a complex goal: every
\* sub-goal is executed. A request that reports success has executed them all.
SuccessRunsEveryGoal == outcome.success => done = goals
=============================================================================
