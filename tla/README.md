# TLA+ models of TaskPilot

TaskPilot runs long agent tasks behind an HTTP API: a request creates a row in
MySQL, one asyncio task of one server process runs the agent, and the row, a
ledger of side effects and a stored event stream let a run be cancelled, paused
for a person, resumed and followed across restarts. Around it stand the loop of
the agent itself, several agents that share a task, a chat, a skill store,
accounts, and the services all of them write through. This directory holds TLA+
modules of these parts, the TLC configurations that check them on small
instances, and proofs, checked by TLAPS, of what matters most for instances of
any size.

Paths below are relative to the repository, whose code is under `src/`.

    The run of a task
      TaskScheduler.tla        rows, requests, asyncio tasks, lifecycle managers
      TaskSchedulerProofs.tla  theorems about it
      TaskTools.tla            the agent's tools that write rows, beside the scheduler
      SideEffects.tla          what the execution ledger promises (abstract)
      DurableRun.tla           one run, its ledger, its pauses and their reviewers
      DurableRunProofs.tla     theorems about it; it implements SideEffects
      TraceStream.tla          the events of a trace, in memory and stored
      TraceStreamProofs.tla    theorems about it
    The agent
      AgentLoop.tla            Think, Act, Observe; budget, plan, retry, life cycle
      AgentLoopProofs.tla      theorems about it
      ToolAccess.tla           which tools a run may call, from request to handler
      ContextWindow.tla        what a step sends to the model
      Coordinator.tla          a task taken apart and run by several agents
      CoordinatorProofs.tla    theorems about it
      MessageBus.tla           the agents' mailboxes
      Chat.tla                 conversations, turns, the trace of each message
      MessageTree.tla          the messages of a trace as a tree
      AgentParts.tla           ToolAccess, ContextWindow, MessageBus, Chat and
                               MessageTree together
      AgentPartsProofs.tla     theorems about them
    The platform
      Accounts.tla             registration, login, tokens, administration
      SkillStore.tla           skills, their files, imports, the registry
      Observability.tla        the log and alert services
      ConnectionPool.tla       the MySQL pool
      ConnectionPoolProofs.tla theorems about it
      PlatformParts.tla        the four together
      PlatformProofs.tla       theorems about them
    Instances for TLC
      MCTaskScheduler.tla      TS_*.cfg       MCTaskTools.tla   TT_V_Moves.cfg
      MCDurableRun.tla         DR_*.cfg       MCTraceStream.tla TR_Safe.cfg
      MCAgentLoop.tla          AL_Safe.cfg
      MCAgents.tla             Agents.cfg     (the Coordinator and AgentParts)
      MCPlatform.tla           Platform.cfg   (PlatformParts)
    PROJECT.json               components, runs, mutants, map to the source,
                               findings, hazards, theorems

To check a run: `tlc -config TS_Limit.cfg MCTaskScheduler`. To check the
proofs: `tlapm DurableRunProofs.tla`.

## 1. The system

### Components

| Component (code) | State it keeps | Operations | What makes it correct |
|---|---|---|---|
| **Task scheduler** (`src/jobs/task_scheduler.py`, `task_config.py`) | the row of `task_manager`: status, start time, data | `deal` = concurrency check and sweep, `INSERT IGNORE`, lock, spawn; `_task_wrapper` = handler, release, unregister, close; `cancel_task` | one task per trace at a time; a final status stays; no row is stranded |
| **Lifecycle manager** (`src/jobs/task_lifecycle.py`) | per worker: registry of asyncio tasks, poll loop | `register`, `unregister`, poll of `CANCEL_REQUESTED` rows, `cancel_local` with two timeouts, `shutdown` | a cancellation reaches the task it was meant for; shutdown finds every task |
| **Task tools** (`capabilities/tools/task.py`, `chat_ops.py`) | none (rows of tasks) | create, run, cancel a task, update a status | legal transitions only |
| **Resume endpoints** (`src/api/v1/endpoints/agent.py`) | none but the row they read | `resolve_approval`, `resolve_reconciliation`, `run_agent`: check, claim (CAS), reopen the trace, `deal`, restore | a pause is claimed once; a refused or dead request loses nothing |
| **Execution ledger** (`src/core/agents/execution/ledger.py`) | `agent_tool_executions`: one row per call | `claim` (`INSERT IGNORE`), `complete`, `fail`, `resolve` | a side effect is attempted once and settled once |
| **Agent run task** (`src/core/agent_task/run_goal.py`) | checkpoint in `task_manager.data`, cancel flag | restore, run, persist, returned status | a paused row holds what is needed to resume it |
| **Agent loop, harness, planning, life cycle** (`engine/`, `runtime/harness/`, `llm/retry.py`) | `AgentLoopState`, budget, plan, pause event, attempt | Think, Act, Observe; sub-goals; pause, resume, stop; snapshot; retry | the request ends within its budget; tokens are shown once; success means the plan is done |
| **Skill registry, policy, executor** (`capabilities/skills/`, `tools/loader.py`) | registry; the request's policy, its copy in the row | advertise, guard, validate, attempt, invoke | no handler runs outside the policy |
| **Context window** (`state/context/`) | none; the messages of a run | fold, truncate, summarise | what is sent fits, and no call is torn from its result |
| **Multi-agent** (`multi_agents/`) | assignments, layers; queues, messages put aside | decompose, assign, run, aggregate; send, receive, drain | dependencies first; nothing passed over; a message once |
| **Chat, message tree** (`src/core/chat/`, `state/message_tree.py`) | conversations, messages, `trace_head` | turns of two kinds, append, cancel; compact, backtrack | the messages of a trace form one chain, or one tree |
| **Trace event bus** (`src/infra/streaming/trace_event_bus.py`) | per trace: sequence, replay buffer, subscribers, closed | `ensure_trace`, `publish`, `subscribe`, `reopen`, `close_trace` | numbers are never given twice; order; bounded queues |
| **Event persister** (`src/infra/streaming/event_persister.py`) | bounded queue, batch, `agent_events` | enqueue, flush, drain at stop | no event is lost but by a bound or a failure |
| **Task events endpoint** (`src/api/v1/endpoints/tasks.py`) | one generator per client | replay from Last-Event-ID, forward, heartbeat | every client is informed and let go |
| **Bootstrap and shutdown** (`src/core/bootstrap/`) | order of services | start, shutdown | tasks end before what they write to |
| **Accounts** (`src/core/auth/`, `endpoints/auth.py`) | accounts, tokens, invite codes, login failures, avatars | register, login, tokens, password, address, deletion, administration | a code is spent once; a lock does not slip |
| **Skill store** (`src/core/skill_store/`, `src/core/skills/`, endpoints) | skills, files, keywords, tags, dependencies, system and personal skills, registry | create, upload, import, change, delete, load at start | tables agree with one another and with the registry |
| **Log and alert services** (`src/infra/observability/`) | bounded queue, deduplication | hand in, write, stop | what was accepted is written or given up at a stop, once |
| **MySQL pool** (`src/infra/database/mysql/pool.py`) | pools, connections, transactions | acquire, execute, commit, rollback, release, close | a transaction commits whole or not at all; a call that was answered "ok" is committed |

PROJECT.json lists every part with its status; section 5 says what is left out.

### How they interact

    HTTP request --deal()--> row INIT --lock--> PROCESSING --create_task--> _task_wrapper
         |                                                                  |
    resolve_*: CAS WAITING_* -> INIT <---- release: WAITING_*, SUCCESS, ... +-- handler: agent loop
         |                                                                      |-- ledger: claim, settle
    cancel_task: -> CANCEL_REQUESTED --poll loop--> Task.cancel()               |-- checkpoint -> row.data
                                                                                +-- events -> bus -> clients
                                                                                              \-> persister

 * **Shared state.** The row is written by requests (insert, lock, claim, restore,
   cancel, sweep), by the task (release, data) and by other workers' requests.
   Each statement is atomic and commits at once; nothing spans two statements but
   compare-and-set conditions in their `WHERE`.
 * **Calls.** The wrapper, the handler and the poll loop of a worker are coroutines
   of one event loop: they interleave at awaits only, and may be cancelled there.
 * **The agent's own process state.** The skill registry is one object for all runs and
   requests; a run's budget, plan and pause event are touched by whoever holds the `Agent`.
   Agents that work together share the bus and the coordinator's assignments.
 * **Tables without transactions.** Accounts, skills and tokens are written by operations of
   several statements, each of which commits by itself, and so are the statements the driver makes
   of a long batch of events; only a chat message is stored in a transaction. Other requests run between any two statements.
 * **Messages.** Events go from the run through the bus to each client's queue and
   to the persister's queue, both bounded.

### What is hard

Interleaving of requests and tasks over one row; values read before an await and
acted on after it (the sweep's rows, the poll loop's rows, the reviewer's copy of
the row); asyncio cancellation that arrives before the first step of a task or
inside its `finally`; crashes between a side effect and its record; a write that
is applied and whose reply is lost; several reviewers deciding at once; numbers
that must continue after a restart; bounded queues; shutdown order; a pause or a stop at any await of the loop; several
calls of a message in flight at once; operations of many statements, overlapping or broken off
in the middle; connections given back in the middle of a transaction. Every such point, with its line and the properties that would notice, is listed under
`hazards` in PROJECT.json.

## 2. The models

In all modules, code between two awaits is one action, because a worker is one event loop,
and an SQL statement is one action; what a coroutine read earlier stays in a local of its own
and may be stale.

### TaskScheduler

One variable per column or attribute the code's conditions look at. `status`,
`expired` and `claimed` are the row (`claimed` is `data.status = "resuming"` with
the kind of decision). `pc[r]` is where request *r* stands: first as the HTTP
request (`RequestPC`), then, from `Spawn` on, as the asyncio task it created
(`TaskPC`). `registry`, `phase`, `rows`, `target` belong to each worker's
lifecycle manager, `mode` and `drain` to its shutdown.

| Actions | Code |
|---|---|
| `Submit`, `Look`, `Claim`, `Restore` | `run_agent`; `resolve_*`: read and check the row, CAS, restore after a refusal |
| `Check`, `Sweep`, `Insert`, `Lock`, `Spawn` | the statements of `deal` and of the checks it calls |
| `Start`, `NeverStart`, `SeeCancel`, `HandlerReturn`, `Unwind`, `Log`, `UnwindLog`, `Release`, `UnwindRelease`, `Unregister` | `_task_wrapper`, with each point where `CancelledError` may be raised |
| `CancelTask`, `CancelAnyTask` | `cancel_task`, `AdminService.cancel_any_task` |
| `Poll*` | `_poll_loop`, `cancel_local` and its two `wait_for` timeouts |
| `Expire`, `Abort`, `ReleaseFails`, `Shutdown`, `ShutdownTimeout`, `Stop`, `Crash` | time, failures, process end |

The reply of an SQL statement is the coroutine's next action, so a cancellation can fall
between commit and reply (`UnwindRelease` at `unregister`).

Simplifications: all rows have one account and one task name, the scope the
code counts and sweeps in; the decision on a pause is told apart only by its kind
(DurableRun has the rest); a handler is its result.

### DurableRun and SideEffects

One run of one trace. TaskScheduler shows that a trace has one task at a time, so
the run has one program counter, `pc`, and locking the row is one step (`Deal`).
`mem` is `AgentLoopState` reduced to what the control looks at: the pending
pause, the current batch and the index of the next call, the outcome the
transcript holds for each call, and the reviewer's decision. `data` is the copy
of it in the row, `seen[r]` the copy a reviewer's request has read. `ledger` and
`executed` are the ledger's rows and the number of times each handler was
invoked, `approved` and `overlap` are history variables.

| Actions | Code |
|---|---|
| `Begin`, `ResumeApproved`, `ResumeRejected`, `ResumeReconciled`, `ResumeRefused` | `harness.run`, `_resume_pending_approval`, `_resume_pending_reconciliation` |
| `Propose`, `Conclude` | Think and the approval gate; the ends of the loop |
| `SkipCancelled`, `ClaimCall`, `Replay`, `InDoubt`, `ClaimFails`, `Execute`, `Settle`, `SettleFails` | the execution of one call through the ledger (`loop.py`) |
| `Persist`, `PersistFails`, `Release`, `Interrupt` | `_run_agent_mode`, the wrapper's release, a cancelled task or a crash |
| `Cancel`, `Sweep` | `cancel_task`, `_force_release_task` |
| `Read`, `Resolve`, `Claim`, `Deal`, `Refuse`, `Restore`, `Abort` | `resolve_approval`, `resolve_reconciliation` |

A write that fails is a fault, applied or not, bounded by `MaxFaults`; an
interrupted run and an aborted request are not bounded. All calls are write or
destructive calls, the only ones the ledger sees. The digest check of a reused
call id is left out: call ids are never reused (`issued`).

`SideEffects` is the abstract promise: a call is taken once, attempted at most
once under its claim, decided once for good. `KeepsPromise` says that DurableRun
implements it with `record <- ledger`, `attempts <- executed`.

### TraceStream

The events of one trace. `log` is a history of every event published, with its
number and whether it is to be stored; queues and buffers hold positions of it.
`stream` is the in-memory `_TraceStream`, `waiting`, `batch` and `worker` the
persister, `table` the stored events by number (`INSERT IGNORE` keeps the first
of a number), `conn`, `inbox`, `last` each client, and `row`, `closing`,
`request`, `refusals`, `cancelled` the run, the wrappers and requests that
publish.

| Actions | Code |
|---|---|
| `Announce`, `Accept`, `Reject`, `Emit`, `Release`, `Finish`, `Cancel`, `CancelPublished` | `run_agent`, `deal`, the run's events, the wrapper's `finally`, `cancel_task` |
| `Claim`, `Fetch`, `Reopen`, `Resume`, `Restore`, `CloseRefused` | the resume endpoints, `reopen` with `MAX(sequence)` |
| `Take`, `Flush`, `FlushFails`, `Drain`, `Drained`, `DrainTimesOut` | the persister's worker and `stop` |
| `Connect`, `Receive`, `Leave`, `Disconnect` | `task_events` |
| `Shutdown`, `StopPersister`, `Exit`, `Crash`, `Restart` | `AppContext.shutdown`, process end |

A write of a batch that fails (`FlushFails`) leaves the first so many of its events in the table,
none or all of them included: the driver sends a long batch in several statements, and the
connection is in autocommit.

Simplifications: one process (the configuration's `workers = 1`); one request to
resume in flight (TaskScheduler and DurableRun have several); requests end when
shutdown begins; a resumption that overtakes the wrapper of the run before counts
as a fault, because that wrapper's `unregister` hides the new run from shutdown
(see `StartedIsRegistered`).

### TaskTools

Extends TaskScheduler: `tool[k]` is a call of `task_update_status` with the status it read.

| Actions | Code |
|---|---|
| `RunTask`, `TaskCreate`, `TaskCancel` | `run_task` (through `deal`), `task_create`, `task_cancel` |
| `ReadStatus`, `WriteStatus` | the SELECT with the check against the table of transitions; the UPDATE |

### AgentLoop

One `Agent`, one request at a time. `mem` is `AgentLoopState` reduced to step, reason to stop,
errors in a row and plan; `pc` where the run stands; `life`, `paused`, `stopping` the
`LifecycleManager`; `goals`, `done`, `left` the sub-goals of `run_with_routing` and the steps it
has left; `attempt`, `got`, `seen` the call to the model and what of its answer the client saw;
`calls` the calls of one message, `stray` how many went on after the run that made them. `used`
is a history of the steps of the whole request.

| Actions | Code |
|---|---|
| `Route`, `RouteFails`, `Begin`, `MakePlan`, `FinishRun` | `runner.py` (`run`, `run_with_routing`), `plan_execute.run_step` before the loop, `_build_result` |
| `Head`, `Woken` | the checks at the head of a step: budget, cancellation, stop, pause |
| `Think`, `Token`, `Retry`, `LlmFails`, `Answer` | `Think.run`, the planner's stream, `LLMRetryPolicy` |
| `Propose`, `StartCall`, `EndCall`, `Raised` | the calls of a message; parallel ones take a place in the semaphore |
| `Ask` | the approval gate of `react.py`: a message with a gated call stops the run, and no call of it is made |
| `EndStray` | calls gathered with one that raised: they go on, in the semaphore too, whatever run is next |
| `Observe`, `AfterStep` | counting of errors, the plan's step, the constraints after a step |
| `RunAgent`, `Pause`, `Resume`, `Stop`, `Cancel` | the methods of `Agent` that others call |
| `SaveSnapshot`, `Crash`, `RunFromSnapshot` | `serialize_state`, the end of the process, `run_from_snapshot` |
| `Decide`, `ObserveDecided`, `WrongDecision` | `run_from_snapshot` of a run that waits for an approval, with its decision or that of another request: `_resume_pending_approval` |

`Agent.create()` gives every agent an `ApprovalPolicy`, so any message with calls may stop the run.
Which calls are gated, and that a decision is for the request it names, are DurableRun's: here a
message with calls has a gated one or has not. A decided message has any number of calls, since a
snapshot's messages are not kept; its results count as errors as in `Observe`. No ledger is plugged
in, as in `Agent.create()`, so there is no pause in doubt here. A snapshot is taken once, when a later
run may use it.

### ToolAccess

`request` is what was asked for, `data` what the row holds of it, `policy` what the run made of
that, `guard` what its executor checks; `registry` the skills by name. `executed` and `invoked`
are histories.

| Actions | Code |
|---|---|
| `Submit`, `RunTask` | the request's or the tool's policy on its way to the row |
| `StartRun`, `Pause`, `Resume`, `Finish` | `_run_agent_mode`: loading of areas, `from_mapping`, the tools offered, the guard; `to_dict` into the checkpoint |
| `Call`, `Execute` | any name the model gives, through guard, lookup and validator to an attempt of the handler |
| `Invoke` | direct invocation by an endpoint |
| `RegisterSystem`, `Unregister` | system skills that take and leave names |

### ContextWindow

`messages` of a run with their sizes and calls, `sent` what the last step sent. `Observe` adds
the results of a step; `SendWhole`, `SendTruncated`, `SendSummarized` are `_truncate_middle` and
`_compact_with_summary` with their conditions, and the folding of old results before.
`Total` adds sizes up and `Chosen` walks the middle from its newest message back, each as a
recursive function of the position, so that it can be reasoned about.

### Coordinator and MessageBus

`Coordinator`: `Decompose`, `BeginDag`, then per strategy `NextLayer`/`EndLayer` (dag),
`StartAll` (parallel), `StartNext` (sequential, dynamic), `EndTasks`; `AgentEnds` with success,
without, or with an exception; `UnregisterAgent` at any await. `completed` is `completed_ids`,
failed tasks included, as in the code. `MessageBus`: `Send`, `BeginReceive`, `Receive` (one get of
a receive, with its filter), `TimeOut`, `DrainDeferred`, `Unregister`, `Register`, `ResetStats`. A
queue is an object: `queues[a]` has one for each registration of *a*, `current[a]` is the one the
bus knows, and a receive keeps the one it found (`waits`), so an agent may be unregistered, and
registered again with a new queue, while receives wait. `gone` is a history of what the bus
discards: `reset_stats()` clears what was put aside, and `drain_deferred()` takes it before it
looks for a queue.

### Chat and MessageTree

`Chat`: turns of two kinds ("chat": `run_chat_turn`; "task": `_run_chat_mode` with its poller),
under the trace of their request, which two may share (`shared`). `Look`, `AllocSeq`,
`AppendQuestion`, `BuildMessages`, `RunLoop`, `AppendAnswer`, `End` are a turn; numbering is a
plain SELECT (`AllocSeq`) before the transaction's first row lock (`AppendQuestion`). An append
fails before its commit (`QuestionFails`, `AnswerFails`) or after it, when only the reply is lost:
the turn then goes the way of a failure with its question stored (`AppendQuestion`), and for an
answer that is the state `AppendAnswer` leaves, since the turn ends either way.
`MessageTree`: `AppendMessage`, `Compact` (any of its statements may be the last), `Backtrack`.

### Accounts

One record `req[r]` per request: where its handler stands and what it holds. Each action is one
statement: `Reserve` to `ReleaseCode` are `register`, `LoginFind` to `LoginRevokeRefresh`
`login`, and likewise for tokens, password, address, deletion, avatars and administration.
`Authenticated` and `RequireAdmin` precede the handlers: the role is read once. An administrator's
batch of codes is one INSERT per code, each committed by itself (`CreateCode`). `DbError` fails
a statement; only `register` undoes anything then.

### SkillStore

Tables as functions of ids, `registry` as a function of names. Creating and uploading
(`CreateRow`, `InsertFile`; `UpdateRow`, `SaveFile`; `ClearKeywords`, ...), deleting, importing a directory and linking it, system
and personal skills, and `Boot`, which fills the registry as `bootstrap` does. A document is a
record of what its parsers find in it; a name that comes with a blank line, or a title that is
made of a directory's name, is modelled by what the parsers do with it. The registry holds, for
each name, the document a skill was made of and what its content is (`Skill`): the endpoints give
it the request's `detail` or the document's body (`FromRequest`), a start the whole text of the row.

`overlap` and `torn` are histories of what the code does not order or mend: two uploads of one skill
at once, two changes of system skills at once, a request that ends between a row and what belongs
to it. `torn` is cleared by the next upload of the skill that comes through, the mark of the system
skills by the next start. An import runs in a thread with an event loop of its own over the same
pool; it is a request like the others here, whose statements may fail.

### Observability and ConnectionPool

`Observability` is both services, told apart by `service`: `HandIn` with deduplication and a
full queue, `Get`, `Written`, `BeginStop`, `Drain`, `DrainWritten`, `DrainDone`, `DrainTimeout`,
`Cancel`, and a start after a stop. `ConnectionPool`: creation at start or by the first callers,
`Acquire`, `BeginTransaction`, `Execute`, `Commit`, `Fails`, `Cancelled`, `Rollback`, `Release`,
`ClosePools`. A call is a fetch, one statement, a batch or a transaction (`Writes`); a batch
(`async_save(batch=True)`) and a transaction are of several statements, the one in autocommit, the
other not. What the module shows is what the others rest on: a statement or a transaction commits
whole or not at all, a batch that failed perhaps in part.

## 3. The runs

Nine runs pass, and three show a statement of the docs violated by what the code does. Every
property of a passing run has a mutant, a plausible bug in the modelled code, that violates
it (PROJECT.json, `mutants`).

| Run | Instance | Checks | States |
|---|---|---|---|
| `ts_limit` | 3 requests, 2 traces, 1 worker, limit 1, pauses only, no faults | `InitIsAttended` | 890k |
| `ts_resume` | 3 requests on 1 trace, all outcomes, 1 fault | `SingleRun`, `OwnedRowIsActive`, `NoResurrection` | 955k |
| `ts_nopause` | 2 requests, 2 traces, no pauses, admin, 1 fault | `StartedIsRegistered`, `SweptInTime`, `ProcessingHasOwner`, `ShutdownCancelsAll` | 492k |
| `ts_live` | 2 requests, 2 traces, no pauses, fairness | `RowsSettle`, `CancelStopsHandler` | 245k |
| `ts_v_orphan` | 2 requests, 1 trace, pauses, no faults | `ProcessingHasOwner` is violated | |
| `tt_v_moves` | 2 requests, 1 trace, 1 call of `task_update_status` | `ToolMovesValidly` is violated | |
| `dr_safe` | 3 batches of 2 calls, 2 gated, 2 reviewers, 1 failed write | `AtMostOnce`, `OnlyApproved`, `ToldAsRecorded`, `NothingForgotten`, `RecoverableUnlessFault`, `StopsInDoubt`, `KeepsPromise` | 511k |
| `dr_v_rejected` | 2 batches of 1 call, 2 reviewers, no faults | `RejectedNeverRan` is violated | |
| `tr_safe` | 1 client, 2 events, 1 resumption, restart, cancellation and fault, queues of 2 | `NothingVanishes`, `InOrder`, `FlushedIsStored`, `LeavesInformed`, `ClientsReleased` | 1.1M |
| `al_safe` | 2 steps, 2 errors, 1 retry, 2 calls, a plan of 2, 2 sub-goals, 2 requests, 2 orders | `ShownOnce`, `SuccessCompletesPlan`, `BudgetKept`, `RunEnds`, `StopEnds` | 284k |
| `agents` | the parts around the loop, below | `DepsSucceedFirst`, `NothingPassedOver`, `DeliveredOnce`, `ExecutedWithinPolicy`, `TruncationSound`, `TraceIsChain`, `TreeIsSound` | 1.25M |
| `platform` | the platform's parts, below | `InviteSpentOnce`, `LockedWhenExceeded`, `PrimaryMatches`, `RegistryFollowsTable`, `AcceptedIsHeld`, `CommittedWhole` | 1.02M |

`agents` and `platform` hold several parts each. The parts share no state, so a product of
them would show nothing that each does not show alone: `part` is chosen at the start, one part
acts and the others stand still, and each property is about one part's states.

### What they show

 * *One task per trace.* However requests, resumptions, sweeps, cancellations,
   crashes and shutdowns interleave, the compare-and-sets let one task hold a row
   (`SingleRun`), the row says so meanwhile (`OwnedRowIsActive`), and a final
   status is left by a sweep only (`NoResurrection`). `InitIsAttended`: without
   faults no `INIT` row is left behind.
 * *What holds only without pauses.* Trace ids are reused when a run resumes, and
   the registry and the poll loop know tasks by trace id alone. Without pauses every
   started task is registered and shutdown cancels them all; with pauses a late
   `unregister` removes the resumed task's entry, and a stale row cancels it before
   its first step. That is why `ts_nopause` has no pauses, and what `ts_v_orphan` shows.
 * *Side effects.* Never twice, only as approved, and the transcript, the
   checkpoint and reviewers' copies agree with the ledger.
   `NothingForgotten` needs that reviewers do not overlap and `RecoverableUnlessFault` that
   no write fails: `dr_v_rejected` shows what happens otherwise to the first.
   `StopsInDoubt` needs that reviewers do not overlap and that at most one write fails; the
   attempt to prove it without these conditions showed that it is false then (Findings).
 * *Events.* Without failures none that is to be kept is lost, but from a full
   queue; a batch written stores all its events; a client that returns is
   continued in order, and is let go when the trace is closed.
 * *The loop.* Retries never show a token twice; `success` is never said of a plan with a step
   open or failed, restarts in between or not; all the sub-goals together keep the budget; every
   request ends or waits for `resume()`, and `stop()` ends it even then.
 * *Around the loop.* A dag runs a task only after all it depends on succeeded, although
   `completed_ids` holds failed tasks; a success rate of 1 hides no task; a bus message is in one
   place, a queue that the bus has forgotten being one, or was discarded where the code does so; no handler runs that the request's policy forbids, through row, pause and resume,
   whoever takes a name; truncation keeps pairs whole and fits; turns and failures leave a
   trace's messages one chain; compactions and backtracking leave a tree.
 * *The platform.* Two registrations never spend one code; a lock follows the last allowed
   failure however requests overlap; a skill's row and its SKILL.md hold one document between
   uploads, also after an upload that ended half-way once another comes through; the registry
   has the documents of the table of system skills, through renamings and starts (its texts are not
   the same before and after a start, see Findings). Overlapping changes of one skill, and of system
   skills, are excluded by name (`overlap`, `torn`). Every accepted log or alert is in one place
   until it has its fate; a transaction's writes are committed whole, and a batch's when its caller
   was told so, whatever fails or is cancelled and whoever gets the connection next.
 * *What the runs leave open.* `InitIsAttended` and `RowsSettle` are checked without faults:
   that the process dies between claim and lock, or a release raises, is in `ts_resume`, not in
   them. `ts_nopause` says nothing of resumed runs, by its choice. `RecoverableUnlessFault` holds of
   runs without a failed write only. Two turns that share a trace are excepted from `TraceIsChain`.

### Findings

PROJECT.json, `findings`, quotes the lines. Three have a run:

 * a stale cancellation leaves a `PROCESSING` row with no task (`ts_v_orphan`);
 * a rejection read before another reviewer's approval may claim a later pause and rewrite the
   transcript (`dr_v_rejected`);
 * `task_update_status` checks one status and overwrites another (`tt_v_moves`).

The others have no run of their own. Most are stated in their modules, where TLC violates them under
the constants of the runs; the others are shown by an action itself (named in brackets):

| Statement | Where the code departs from it |
|---|---|
| `DurableRun!DoubtFreezesBatch` | a claim that raises lets the batch go on behind a call in doubt; the run comes back to such a call by a request that resumes an older pause, or after another write failed (violated with one batch of three calls, none gated) |
| `DurableRun!Recoverable` | one failed write of the checkpoint leaves a pause that no decision resumes |
| `TraceStream!NumbersResume` | a cancellation after a restart publishes under number 1, which is taken |
| `TaskScheduler` (`Sweep`; `NoResurrection` excepts it) | a sweep does not look at the status it overwrites |
| `MessageBus` (`DrainDeferred`; `DeliveredOnce` excepts it) | for an agent that was unregistered, what is to be put back into the queue is dropped |
| `TraceStream` (`FlushFails`; `NothingVanishes` has no faults) | a failed batch is logged as lost whole although a part may be stored |
| `SkillStore` (`UpdateRow`, `torn`; `PrimaryMatches` excepts it) | an upload that ended half-way is not mended by repeating it |
| `SkillStore` (`FromRequest`, `Boot`) | what the agents read of a system skill changes with a restart |
| `MessageBus!OrderKept` | messages put aside come back behind later ones |
| `MessageTree!TipIsKept`, `AlwaysEnds` | a compaction moves the head off the messages it keeps; broken off, it may leave a circle |
| `Chat!SeqIsUnique` | turns that share a trace may take one number |
| `Chat!QuestionInPrompt` | the history is the first messages of a conversation, not the last |
| `Chat!PollerEnds` | early returns leave the poller running |
| `ContextWindow!GoalKept`, `SummarySound` | compaction drops the first user message, and the summary may part a call from its result |
| `AgentLoop!SuccessRunsEveryGoal` | a request out of steps reports success with sub-goals left |
| `Coordinator!CompletedSucceeded` | outside of a dag every run that returned counts as completed |
| `SkillStore!LinksStored` | importing a skill deletes the links that others have to it |
| `Accounts` (`Reserve`) | an address that is refused leaves the invite code used |
| `Observability!AlertDrainAdvances`, `SuppressedRepeats` | nobody empties the queue that `stop()` waits for; an alert is suppressed for one that was dropped |
| `ConnectionPool!NoPoolLost` | two first callers make two pools, and one is lost |
| `ToolAccess!AreasLoaded` | a system skill that took a tool's name removes the tool when it goes |

### Bounds, and why they are enough

*TaskScheduler.* `Req`: two requests are what a race needs, the third adds a
sweeper or a second resumption. Every conflict in the code is over one row, or
between a row and another that fills the limit: one trace or two. All but the
registry is shared by workers through the database, and a request is not told
apart by its worker there, so one worker already has every interleaving of
statements; its registry is the case in which entries can be confused. `MaxFaults`
bounds crashes, aborted requests, failed releases and shutdowns together; each
of them kills coroutines, so one of them before or after any step is what matters.
`MaxConcurrent = 1` makes the limit bite with two rows. `ts_limit` and `ts_live` cut the
outcomes: a release is the same whatever it writes, but for a pause.
`MCTaskScheduler!View` leaves out the locals of coroutines that have ended, which no
action reads; `ts_live` does not use it.

*DurableRun.* Two calls give a batch an earlier and a later call, three
batches an ungated one and two different approvals. Two reviewers are what
overlapping needs. One failed write, anywhere; interruptions without bound.

*TraceStream.* Queues of two overflow with the four or more events of a run.
One resumption after one restart is the case the numbering is about. Clients do not
interact, so one is enough.

*TaskTools.* One call of the tool and one trace: the tool's two statements around any step of the
scheduler.

*AgentLoop.* Two steps let a step follow a step, a plan of two its second step a failed first one,
two sub-goals share one budget; one retry has a first and a last attempt; two calls and one place
in the semaphore make one wait for the other; two requests let a snapshot outlive a process; two
orders let `resume()` or `stop()` follow a `pause()`. The agent has tools or not, and a plan or not,
in each behaviour.

*Agents.cfg.* Three tasks, for a dependency of a dependency, and two agents, for a round robin;
two mailboxes, receivers and messages, so that one is put aside while the other is received by
somebody else, and two queues per mailbox, so that an agent comes back to a new one while somebody
holds the old; two tools in two areas and of two risks, and one retry; a window that holds nine
short messages, three kept, a long result of four, eight messages: calls of none, one or two
results on either side of the cut; one conversation with two traces, two turns and a history
of two, so that turns share a trace or do not and the history overflows; five rows of a
tree, for a compaction of a compacted path.

*Platform.cfg.* Two requests overlap, a third follows; one invite code to fight for, two passwords
(each form brings one, both are tried at login), three accounts, a lock after two failures,
one failed statement. Two documents of different names,
so that a system skill is renamed and its old name taken by another, a directory of two skills that
link to each other, two rows, one restart. Three requests and one fault let an upload end half-way
and another mend it. Three items and a queue of
one, which overflows. Two coroutines, one connection, two pools. The two requests are
interchangeable, which `Symmetric` uses; no property there is temporal.

Deadlock is checked in the TS and TT runs: a poll loop always has a step. It is not in
the others, where a run that is over with every request served, or a part whose bounds are
reached, has nothing left to do, which is as it should be.

### Fairness

 * `LoopFairness` (TaskScheduler): each request, each task outside its handler and each
   poll loop takes a step if it can. An asyncio loop runs every coroutine that is
   ready; the poll loop catches its exceptions and goes on. It says nothing of timeouts,
   faults, handlers or users.
 * `HandlerFairness` is a premise of `RowsSettle` and of nothing else: a handler
   returns in the end, as `max_steps` and the time limits of its calls make an agent do.
   `CancelStopsHandler` must not assume it: its point is a handler that never returns.
   Neither is stated under crashes: a row whose process died is settled by a sweep only.
 * `FairSpec` (TraceStream): a client reads what it is sent, and its generator, which wakes
   for a heartbeat at least every 15 s, ends once there is nothing more to come.
 * `Fairness` (AgentLoop): the run's own steps go on. The event loop runs it, and tools and
   model both have timeouts. It says nothing of those who pause, resume and stop: `RunEnds`
   therefore lets a request wait for `resume()`, and `StopEnds` must not.

## 4. The proofs

Every safety property of a passing run is also a theorem: TLC checks it on the instance of
the run, TLAPS for all values of the constants. Each rests on an inductive invariant, stronger
than the property. PROJECT.json, `theorems`, lists the results.

The constants satisfy what the modules assume: bounds are natural numbers, `None` is not
a request, `Outcomes` are statuses a handler may return, gated batches are batches, a batch has a
call, the accounts of the start are numbered from 1 and name no invite code. `AgentParts` and
`PlatformParts` hold several modules at once, each with constants and variables of its own; the
theorems about them are of the part's own specification (`MB!Spec => []DeliveredOnce`), and state
what its bounds must be as hypotheses (`MaxSent \in Nat`).

Three hypotheses are more than the shape of a constant:

 * `NoPauses` (`Outcomes \cap Paused = {}`), in the four theorems about the registry and shutdown:
   no handler pauses. It replaces the run `ts_nopause`'s choice of outcomes, and it is needed:
   `ts_v_orphan` violates `ProcessingHasOwner` without it.
 * `~Strangers`, in the theorems about TraceStream: no task is cancelled in a process that has no
   stream of its trace. Such a cancellation publishes under number 1 (finding `NumbersResume`),
   after which `NothingVanishes`, `InOrder` and `FlushedIsStored` are false. `TR_Safe.cfg` leaves
   it out for the same reason.
 * The window is of at least a token (`Limit \in Nat \ {0}`): with a smaller one the code
   sends the system prompt alone, whatever its size. `Long > 2` only says that a folded result is
   shorter than what it stands for.
What a property itself excepts (`faults = 0`, `~overlap`, `Unbroken`, `~torn`) is in its
statement, as the runs check it.

### The run of a task

**TaskSchedulerProofs.**

 * `TypeCorrect`: `TypeOK`, with the conjunct `RestorerClaimed`, without which it is not
   inductive: a request that restores has a paused status to restore to.
 * `SingleRunAlways`, `OwnedRowAlwaysActive`: `SingleRun /\ OwnedRowIsActive`, the inductive
   invariant `Ownership`. Neither half is inductive alone. A second owner appears only by `Lock`,
   which needs an `INIT` row, and the second half says an owned row is not `INIT`; that a row
   leaves the owned statuses only when its owner releases it needs that the owner is the only one.
 * `NoResurrectionAlways`: step by step from the types and the `WHERE` clauses.
 * `InitAlwaysAttended`: by `Attended`. That some request stands before the lock is not inductive:
   it may be refused before it has inserted anything. The request must have inserted the
   row, or claimed it (`Attends`). Each step is shown to hand over: who stops attending has moved the row.
 * Without pauses (`Unpaused`): nothing is ever resumed (`NeverPaused`), so a row is locked once
   (`OneHolder`), so the registry entry of a trace is its task's (`Found`), so what the poll loop
   cancels has been moved on by somebody (`Moved`), and what a sweep fails is late (`InTime`).
   From it `StartedAlwaysRegistered`, `SweptInTimeAlways`, `ProcessingAlwaysOwned`, `ShutdownReachesAll`.

**DurableRunProofs.**

 * `RunTypeCorrect`: `TypeInv` = `TypeOK`, a run that executes stands at a call of its batch
   (`PlacedRun`), and what can be resumed fits a pause (`Starts`, `Fits`).
 * `LedgerInv`: a call without a ledger row was not attempted; one about to be executed is
   `running` and was not attempted; a checkpoint in doubt names a call that was claimed
   (`Known`). The run and the reviewers both write the ledger, so it needs one thing more: no
   copy of a checkpoint in doubt, in the row or in a reviewer's hands, is about the call that
   is being executed (`Elsewhere`), or a reviewer could settle it before its effect.
 * `ToldAsRecordedAlways`: settled rows never change (`LedgerMonotone`), and every copy
   of the transcript comes from a memory that agreed with them.
 * `PromiseKept`: `Spec => KeepsPromise`. Every step is a step of `SideEffects` or leaves
   `ledger` and `executed` alone; `Execute` is an `Attempt` because the call was claimed by
   this run just before and `LedgerInv` says it was not attempted.
 * `AtMostOnceAlways`: from the same invariant.
 * `OnlyApprovedAlways`: by `ApprovalInv`. Beyond the run's own program counter it speaks of
   copies: any checkpoint from which the run may go on with its batch (`Opens`: in doubt in its
   middle, or approved), in memory, in the row or in a reviewer's hands, is of a batch that
   was approved, if that is needed (`Permitted`).
 * `RecoverableAlways`: by `Kept`. A checkpoint in doubt, wherever it is, is of a call that the
   ledger still takes a verdict on: nobody has settled it, or a reviewer whose request came to
   nothing has, and his verdict may be given again.
 * `NothingForgottenAlways`: by `Alone` (one request in progress, and the row is as that
   request expects it) and `Complete` (all calls but the current one are executed, settled and
   told, or not begun).
 * `DoubtStopsBatch`: by `Stops`. With one failed write the row may be behind the memory, but
   not the other way round, and what lies before the place a run goes on from has been decided.

**TraceStreamProofs** (`~Strangers`).

 * `TraceTypeCorrect`: `TypeOK` is inductive only with a count of what is still to be published
   (`Counted`), for the numbers are bounded by it; with what refers to an event refers to a
   published one (`Published`), and with what a process without a stream has not (`Lives`).
 * `FlushesStoreAll`: by `Fresh`: the stream is past every number in the table or on its way there,
   and so is what a request to resume has read. This is what `reopen` with `MAX(sequence)` is for.
 * `KeptAlways`: the property is nearly inductive; `Orderly` adds that a persister that has
   drained has nobody left to publish to it.
 * `AlwaysInOrder`, `LeaveAfterTheLast`: as long as no number was given twice, numbers are
   positions of the log (`Straight`), queues increase (`Sorted`), and what a client follows ends with
   the stream's last event (`Followed`).

### The agent

 * **AgentLoopProofs**: `AgentTypeCorrect`; `RequestKeepsBudget` from the sum that the steps used and
   left make at each place of the loop (`Budget`, which must count the current run's steps on top);
   `SuccessHasPlanDone` from `Plans`: one step of the plan is in progress, a run that goes on has
   none that failed, in memory and in a snapshot; `TokensShownOnce`.
 * **CoordinatorProofs**: `DepsAlwaysFirst` from `Layers`: what waits for a failed task has
   been skipped before the next layer is computed, so that the failed ids in `completed_ids` make
   nothing ready. `SuccessPassesNothingOver` from the converse: nothing is skipped without a failure.
   `CoordinatorTypeCorrect`: an assignment names a registered agent, whichever way it is found.
 * **AgentPartsProofs**: `ToolTypeCorrect`, `ToolsStayWithinPolicy` (the row says the same as the request
   however often it was rewritten; `to_dict` and `from_mapping` are inverse where it matters);
   `MessagesDeliveredOnce` (the places of an agent's messages, its queues of all registrations, what
   was put aside and what was received, share no message and repeat none: a step moves a piece of one
   place to the end of another, or discards it); `TreeAlwaysSound` (`Acyclic`, stated with sets of rows, gives a way to the root by a
   pigeonhole argument, `PathInTree`); `TraceAlwaysChain` (a turn that is alone on its trace has read
   the head of the chain, `UpToDate`); `CutAlwaysSound` (`ChosenFits`, `ChosenPaired` and
   `HeadPaired` say of the pieces of a cut prompt what `TruncationSound` says of the whole, and
   `ConversingGrows` that a run leaves every call before its results).

### The platform

 * **PlatformProofs**: `CodesSpentOnce` (a code is held by one registration, or named by an account, never
   both: `Held`, `Spent`, `Named`); `AlwaysLocked` is inductive with the types; `UploadsAlwaysMatch` and
   `RegistryAlwaysFollows` (between two statements of a change, what it will still write is what the
   row holds, `Uploaded`; the registry departs from the table by just what the one change under way
   will do next, `Owed`; both with the exceptions of the properties, kept in `overlap` and `torn`); `AcceptedAlwaysHeld` (`Placed`, with where the worker and
   `stop()` stand).
 * **ConnectionPoolProofs**: `PoolTypeCorrect`, `CallsCommitWhole` (`Exclusive`: what is on a
   connection is its holder's; `Intact`: until its commit nothing of a transaction is in the table,
   and a batch's writes are there one by one).
   `PoolCommitsWhole` (PlatformProofs) says it of the platform's instance of the pool.

### On the form of the proofs

What a recursive function computes for every input is proved without an induction theorem:
among the places where the statement fails there is a least one (`LeastElement`), or the set of places
where it holds is closed under successor (`UpTo`). `Total`, `Chosen`, `Later` and the walks of
`MessageTree` are reasoned about in this way. The parser of the prover reads `SUBSET X \ Y` as
`SUBSET (X \ Y)`, unlike SANY; the modules write the parentheses.

Only model-checked: the liveness properties (`RowsSettle`, `CancelStopsHandler`, `ClientsReleased`,
`RunEnds`, `StopEnds`), which TLAPS cannot prove under fairness. That a finding's statement is violated is
shown by TLC's counterexample.

## 5. Not modelled, and why

 * *Sub-agents and dispatcher*: nothing in the service calls them; the dispatcher passes
   parameters that `coordinate()` does not have.
 * *Memory*: retrieval of texts for the prompt; what would persist them has no caller.
 * *Rate limit and request middleware*: a window per client, checked and counted in one
   synchronous stretch of one event loop.
 * *Task handler registry*: a lookup by name.
 * *Evaluation, replay and debugging views*: they read what runs recorded.
 * *Providers' HTTP, prompts, reflection texts, metrics*: wording and parsing; the model's answer
   is any of those the code tells apart.
 * *Code without a caller or an effect*: `run_flat`, the deprecated planner, `core/chat/runner.py`,
   the registry of `core/chat/cancel.py`, `prune_expired`.
 * *In parts that are modelled*: heartbeat and health figures of the agents, `send_and_wait`,
   listing and searching of skills, archives of uploads, hashes and dates of expiry, the digest
   check of a reused call id.

## 6. Plan

What is left to prove or to state:

 1. The safety part of liveness: that whenever a row is `PROCESSING` without a pause some
    fair step of its task is enabled, written out without `ENABLED`.
 2. TraceStream with strangers: `TypeOK` and what of `NothingVanishes` is left when a
    number is given twice.
 3. The abstract counterpart of the row: a specification of one task per trace that TaskScheduler
    implements without pauses, with `OneHolder` as the refinement's invariant.
 4. The hazards without a property: the check of the limit before the insert
    (`task_scheduler.py:187`), the closing of the trace after the release
    (`task_scheduler.py:362`) and the trace that `run_agent` leaves open
    (`endpoints/agent.py:171`).
