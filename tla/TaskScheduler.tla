--------------------------- MODULE TaskScheduler ---------------------------
(***************************************************************************)
(* The task scheduler of task_pilot: the rows of table task_manager, the   *)
(* requests that schedule or resume a task (src/jobs/task_scheduler.py and *)
(* the resume endpoints of api/v1/endpoints/agent.py), the asyncio task    *)
(* that runs it, and the lifecycle manager of each worker process          *)
(* (src/jobs/task_lifecycle.py): its registry, its poller and its          *)
(* shutdown.                                                               *)
(*                                                                         *)
(* A worker is one event loop, so code between two awaits is one step. An  *)
(* SQL statement is one step at the database (autocommit); its reply is a  *)
(* later step of the coroutine, and a cancellation may arrive in between.  *)
(* All rows belong to one account and one task name, the scope in which    *)
(* the code counts and sweeps.                                             *)
(***************************************************************************)
EXTENDS Naturals, FiniteSets

CONSTANTS
  Trace,          \* trace ids: the unique key of a row
  Worker,         \* server processes
  Req,            \* HTTP requests; each becomes at most one asyncio task
  None,           \* no asyncio task
  MaxConcurrent,  \* TaskConfig.max_concurrent
  Outcomes,       \* what a handler that saw no cancellation may return
  Admin,          \* whether the admin console cancels tasks too
  MaxFaults       \* bound on crashes, aborted requests, lost writes, shutdowns

Paused  == {"WAITING_APPROVAL", "WAITING_RECONCILIATION"}
Final   == {"SUCCESS", "CANCELLED", "FAILED"}
Status  == {"INIT", "PROCESSING", "CANCEL_REQUESTED"} \cup Paused \cup Final

ASSUME ConstantsAssumption ==
  /\ None \notin Req
  /\ MaxConcurrent \in Nat \ {0}
  /\ MaxFaults \in Nat
  /\ Admin \in BOOLEAN
  /\ Outcomes \subseteq {"SUCCESS", "FAILED"} \cup Paused

VARIABLES
  \* table task_manager
  status,     \* [Trace -> Status], or "ABSENT"
  expired,    \* now - start_timestamp > timeout
  claimed,    \* data.status = "resuming", with the decision of this kind
  \* requests and the asyncio tasks they create
  pc,         \* where the request, then its task, stands
  trace,      \* its trace id
  host,       \* the worker that serves it
  from,       \* the paused status a resuming request claims, or "NONE"
  prior,      \* claimed, as the resuming request read it (run_data)
  stale,      \* timed-out rows it read and has still to force-release
  full,       \* it read max_concurrent active rows
  outcome,    \* the status its task is to be released with
  seen,       \* the handler's own cancel flag
  cancelled,  \* Task.cancel() was called and CancelledError not yet raised
  \* TaskLifecycleManager
  registry,   \* [Worker -> [Trace -> Req or None]]
  phase,      \* where the poll loop stands
  rows,       \* the traces it has still to cancel
  target,     \* the task cancel_local waits for
  mode,       \* "up", or waiting for tasks in shutdown()
  drain,      \* the tasks shutdown() waits for
  faults      \* faults so far

row     == <<status, expired, claimed>>
request == <<from, prior, stale, full>>
run     == <<outcome, seen, cancelled>>
rigid   == <<trace, host>>
poll    == <<phase, rows, target>>
server  == <<mode, drain>>
vars    == <<row, pc, request, run, rigid, registry, poll, server, faults>>

-----------------------------------------------------------------------------
RequestPC == {"claim", "check", "sweep", "insert", "lock", "spawn", "restore"}
TaskPC    == {"starting", "handler", "logging", "release", "unregister"}
PC        == {"idle", "ended"} \cup RequestPC \cup TaskPC

TypeOK ==
  /\ status    \in [Trace -> Status \cup {"ABSENT"}]
  /\ expired   \in [Trace -> BOOLEAN]
  /\ claimed   \in [Trace -> Paused \cup {"NONE"}]
  /\ pc        \in [Req -> PC]
  /\ trace     \in [Req -> Trace]
  /\ host      \in [Req -> Worker]
  /\ from      \in [Req -> Paused \cup {"NONE"}]
  /\ prior     \in [Req -> Paused \cup {"NONE"}]
  /\ stale     \in [Req -> SUBSET Trace]
  /\ full      \in [Req -> BOOLEAN]
  /\ outcome   \in [Req -> Paused \cup Final]
  /\ seen      \in [Req -> BOOLEAN]
  /\ cancelled \in [Req -> BOOLEAN]
  /\ registry  \in [Worker -> [Trace -> Req \cup {None}]]
  /\ phase     \in [Worker -> {"sleep", "fetched", "walk", "wait", "forced"}]
  /\ rows      \in [Worker -> SUBSET Trace]
  /\ target    \in [Worker -> Req \cup {None}]
  /\ mode      \in [Worker -> {"up", "waiting", "forced"}]
  /\ drain     \in [Worker -> SUBSET Req]
  /\ faults    \in 0..MaxFaults

Init ==
  /\ status    = [t \in Trace |-> "ABSENT"]
  /\ expired   = [t \in Trace |-> FALSE]
  /\ claimed   = [t \in Trace |-> "NONE"]
  /\ pc        = [r \in Req |-> "idle"]
  /\ trace     \in [Req -> Trace]
  /\ host      \in [Req -> Worker]
  /\ from      = [r \in Req |-> "NONE"]
  /\ prior     = [r \in Req |-> "NONE"]
  /\ stale     = [r \in Req |-> {}]
  /\ full      = [r \in Req |-> FALSE]
  /\ outcome   = [r \in Req |-> "FAILED"]
  /\ seen      = [r \in Req |-> FALSE]
  /\ cancelled = [r \in Req |-> FALSE]
  /\ registry  = [w \in Worker |-> [t \in Trace |-> None]]
  /\ phase     = [w \in Worker |-> "sleep"]
  /\ rows      = [w \in Worker |-> {}]
  /\ target    = [w \in Worker |-> None]
  /\ mode      = [w \in Worker |-> "up"]
  /\ drain     = [w \in Worker |-> {}]
  /\ faults    = 0

Goto(r, l) == pc' = [pc EXCEPT ![r] = l]

\* UPDATE ... SET task_status = s WHERE trace_id = t AND task_status IN S
Update(t, S, s) == status' = [status EXCEPT ![t] = IF @ \in S THEN s ELSE @]

-----------------------------------------------------------------------------
(* Requests: deal(), and the endpoints that resume a paused run.           *)

\* A request to run a task under this trace id.
Submit(r) ==
  /\ pc[r] = "idle" /\ mode[host[r]] = "up"
  /\ Goto(r, "check")
  /\ UNCHANGED <<row, request, run, rigid, registry, poll, server, faults>>

\* resolve_approval and resolve_reconciliation read the row and check it: a
\* paused row is to be claimed; a row somebody claimed with this decision
\* and then abandoned is scheduled again without a claim.
Look(r) ==
  LET t == trace[r] IN
  /\ pc[r] = "idle" /\ mode[host[r]] = "up"
  /\ status[t] \in Paused \/ (status[t] = "INIT" /\ claimed[t] # "NONE")
  /\ from' = [from EXCEPT ![r] = IF status[t] = "INIT" THEN claimed[t] ELSE status[t]]
  /\ Goto(r, IF status[t] = "INIT" THEN "check" ELSE "claim")
  /\ prior' = [prior EXCEPT ![r] = claimed[t]]
  /\ UNCHANGED <<row, stale, full, run, rigid, registry, poll, server, faults>>

\* The compare-and-set on the paused status; its loser answers 409.
Claim(r) ==
  LET t   == trace[r]
      won == status[t] = from[r]
  IN
  /\ pc[r] = "claim"
  /\ Update(t, {from[r]}, "INIT")
  /\ expired' = [expired EXCEPT ![t] = @ /\ ~won]
  /\ claimed' = [claimed EXCEPT ![t] = IF won THEN from[r] ELSE @]
  /\ Goto(r, IF won THEN "check" ELSE "ended")
  /\ UNCHANGED <<request, run, rigid, registry, poll, server, faults>>

\* Mutant of Refused: no refused request restores.
NeverRestore(r) == "ended"

\* Where a request goes that deal() refuses: a resuming one restores the row.
Refused(r) == IF from[r] = "NONE" THEN "ended" ELSE "restore"

Processing == {t \in Trace : status[t] = "PROCESSING"}

\* Mutant of Late: the comparison with the timeout is lost.
LateOrNot == Processing

Late == {t \in Processing : expired[t]}

\* _check_task_concurrency_and_timeout: one SELECT of the PROCESSING rows,
\* split into those past their timeout and those that count as active.
Check(r) ==
  LET isFull == Cardinality(Processing \ Late) >= MaxConcurrent IN
  /\ pc[r] = "check"
  /\ stale' = [stale EXCEPT ![r] = Late]
  /\ full'  = [full EXCEPT ![r] = isFull]
  /\ Goto(r, IF Late # {} THEN "sweep" ELSE IF isFull THEN Refused(r) ELSE "insert")
  /\ UNCHANGED <<row, from, prior, run, rigid, registry, poll, server, faults>>

\* _force_release_task: whatever the row says by now, it becomes FAILED.
Sweep(r, t) ==
  /\ pc[r] = "sweep" /\ t \in stale[r]
  /\ Update(t, Status, "FAILED")
  /\ stale' = [stale EXCEPT ![r] = @ \ {t}]
  /\ Goto(r, IF stale[r] # {t} THEN "sweep" ELSE IF full[r] THEN Refused(r) ELSE "insert")
  /\ UNCHANGED <<expired, claimed, from, prior, full, run, rigid, registry, poll,
                 server, faults>>

\* _insert_or_ignore_task
Insert(r) ==
  /\ pc[r] = "insert"
  /\ Update(trace[r], {"ABSENT"}, "INIT")
  /\ Goto(r, "lock")
  /\ UNCHANGED <<expired, claimed, request, run, rigid, registry, poll, server, faults>>

\* Mutant of Lockable: a row whose cancellation is pending may be locked.
LockableOrCancelling == {"INIT", "CANCEL_REQUESTED"}

Lockable == {"INIT"}

\* _try_lock_task: the row's compare-and-set from INIT to PROCESSING.
Lock(r) ==
  /\ pc[r] = "lock"
  /\ Update(trace[r], Lockable, "PROCESSING")
  /\ Goto(r, IF status[trace[r]] \in Lockable THEN "spawn" ELSE Refused(r))
  /\ UNCHANGED <<expired, claimed, request, run, rigid, registry, poll, server, faults>>

\* Mutant of Spawn: the task is not registered.
SpawnUnregistered(r) ==
  /\ pc[r] = "spawn" /\ Goto(r, "starting")
  /\ UNCHANGED <<row, request, run, rigid, registry, poll, server, faults>>

\* create_task and register, with no await between them; the request has
\* been answered and r goes on as the asyncio task.
Spawn(r) ==
  /\ pc[r] = "spawn"
  /\ registry' = [registry EXCEPT ![host[r]][trace[r]] = r]
  /\ Goto(r, "starting")
  /\ UNCHANGED <<row, request, run, rigid, poll, server, faults>>

\* A refused resumption puts the paused row back, if nobody moved it on.
Restore(r) ==
  LET t == trace[r] IN
  /\ pc[r] = "restore"
  /\ Update(t, {"INIT"}, from[r])
  /\ claimed' = [claimed EXCEPT ![t] = IF status[t] = "INIT" THEN prior[r] ELSE @]
  /\ Goto(r, "ended")
  /\ UNCHANGED <<expired, request, run, rigid, registry, poll, server, faults>>

-----------------------------------------------------------------------------
(* The asyncio task: _task_wrapper around the handler.                     *)

Start(r) ==
  /\ pc[r] = "starting" /\ ~cancelled[r]
  /\ Goto(r, "handler")
  /\ UNCHANGED <<row, request, run, rigid, registry, poll, server, faults>>

\* A task cancelled before its first step never enters its try block, and
\* so never reaches the finally that releases the row.
NeverStart(r) ==
  /\ pc[r] = "starting" /\ cancelled[r]
  /\ cancelled' = [cancelled EXCEPT ![r] = FALSE]
  /\ Goto(r, "ended")
  /\ UNCHANGED <<row, request, outcome, seen, rigid, registry, poll, server, faults>>

\* The handler's poller (_start_cancel_poller) reads the row.
SeeCancel(r) ==
  /\ pc[r] = "handler" /\ ~seen[r]
  /\ status[trace[r]] = "CANCEL_REQUESTED"
  /\ seen' = [seen EXCEPT ![r] = TRUE]
  /\ UNCHANGED <<row, pc, request, outcome, cancelled, rigid, registry, poll, server,
                 faults>>

\* The handler returns s, or raises (FAILED). Unless it failed early it has
\* rewritten the row's data just before.
HandlerReturn(r, s) ==
  LET t == trace[r] IN
  /\ pc[r] = "handler" /\ ~cancelled[r]
  /\ s \in IF seen[r] THEN {"CANCELLED", "FAILED"} ELSE Outcomes
  /\ outcome' = [outcome EXCEPT ![r] = s]
  /\ claimed' = IF s = "FAILED" THEN claimed ELSE [claimed EXCEPT ![t] = "NONE"]
  /\ Goto(r, "logging")
  /\ UNCHANGED <<status, expired, request, seen, cancelled, rigid, registry, poll,
                 server, faults>>

\* CancelledError inside the handler: the wrapper logs and will re-raise.
Unwind(r) ==
  /\ pc[r] = "handler" /\ cancelled[r]
  /\ outcome'   = [outcome EXCEPT ![r] = "CANCELLED"]
  /\ cancelled' = [cancelled EXCEPT ![r] = FALSE]
  /\ Goto(r, "logging")
  /\ UNCHANGED <<row, request, seen, rigid, registry, poll, server, faults>>

Log(r) ==
  /\ pc[r] = "logging" /\ ~cancelled[r]
  /\ Goto(r, "release")
  /\ UNCHANGED <<row, request, run, rigid, registry, poll, server, faults>>

\* CancelledError while the wrapper logs: after a normal return it turns the
\* outcome into CANCELLED; inside an except clause it does not.
UnwindLog(r) ==
  /\ pc[r] = "logging" /\ cancelled[r]
  /\ \E s \in {"CANCELLED"} \cup ({outcome[r]} \cap {"FAILED"}) :
       outcome' = [outcome EXCEPT ![r] = s]
  /\ cancelled' = [cancelled EXCEPT ![r] = FALSE]
  /\ Goto(r, "release")
  /\ UNCHANGED <<row, request, seen, rigid, registry, poll, server, faults>>

\* Mutant of Releasable: the UPDATE does not look at the status.
ReleasableAlways == Status

Releasable == {"PROCESSING", "CANCEL_REQUESTED"}

\* _release_task at the database.
Release(r) ==
  /\ pc[r] = "release"
  /\ Update(trace[r], Releasable, outcome[r])
  /\ Goto(r, "unregister")
  /\ UNCHANGED <<expired, claimed, request, run, rigid, registry, poll, server, faults>>

\* CancelledError at the await of the release, whether or not the UPDATE was
\* committed: the rest of the finally block is skipped.
UnwindRelease(r) ==
  /\ pc[r] \in {"release", "unregister"} /\ cancelled[r]
  /\ cancelled' = [cancelled EXCEPT ![r] = FALSE]
  /\ Goto(r, "ended")
  /\ UNCHANGED <<row, request, outcome, seen, rigid, registry, poll, server, faults>>

\* unregister drops whatever is registered under the trace id; the task ends.
Unregister(r) ==
  /\ pc[r] = "unregister" /\ ~cancelled[r]
  /\ registry' = [registry EXCEPT ![host[r]][trace[r]] = None]
  /\ Goto(r, "ended")
  /\ UNCHANGED <<row, request, run, rigid, poll, server, faults>>

-----------------------------------------------------------------------------
(* Cancellation requests.                                                  *)

\* Mutant of Cancelled: a running task's row is CANCELLED at once.
CancelledAtOnce(s) == "CANCELLED"

\* What cancel_task makes of a row in status s.
Cancelled(s) == IF s = "PROCESSING" THEN "CANCEL_REQUESTED" ELSE "CANCELLED"

\* cancel_task
CancelTask(t) ==
  /\ status[t] \in {"INIT", "PROCESSING"} \cup Paused
  /\ Update(t, Status, Cancelled(status[t]))
  /\ UNCHANGED <<expired, claimed, pc, request, run, rigid, registry, poll, server, faults>>

\* AdminService.cancel_any_task
CancelAnyTask(t) ==
  /\ Admin /\ status[t] \in {"INIT", "PROCESSING"}
  /\ Update(t, {"INIT", "PROCESSING"}, "CANCEL_REQUESTED")
  /\ UNCHANGED <<expired, claimed, pc, request, run, rigid, registry, poll, server, faults>>

-----------------------------------------------------------------------------
(* TaskLifecycleManager: the poll loop of a worker.                        *)

\* Mutant of Registered: the membership test is inverted.
NotRegistered(w) == {t \in Trace : registry[w][t] = None}

Registered(w) == {t \in Trace : registry[w][t] # None}

\* Mutant of Signalled: every active row is a signal.
SignalledOrActive == {t \in Trace : status[t] \in {"PROCESSING", "CANCEL_REQUESTED"}}

Signalled == {t \in Trace : status[t] = "CANCEL_REQUESTED"}

PollFetch(w) ==
  /\ phase[w] = "sleep"
  /\ rows'  = [rows EXCEPT ![w] = Signalled]
  /\ phase' = [phase EXCEPT ![w] = "fetched"]
  /\ UNCHANGED <<row, pc, request, run, rigid, registry, target, server, faults>>

PollSnapshot(w) ==
  /\ phase[w] = "fetched"
  /\ rows'  = [rows EXCEPT ![w] = @ \cap Registered(w)]
  /\ phase' = [phase EXCEPT ![w] = "walk"]
  /\ UNCHANGED <<row, pc, request, run, rigid, registry, target, server, faults>>

\* cancel_local finds a task under the trace id, and it is not done.
Cancellable(w, t) == registry[w][t] # None /\ pc[registry[w][t]] # "ended"

\* cancel_local up to its wait_for.
PollCancel(w, t) ==
  LET r == registry[w][t] IN
  /\ phase[w] = "walk" /\ t \in rows[w]
  /\ Cancellable(w, t)
  /\ rows'      = [rows EXCEPT ![w] = @ \ {t}]
  /\ cancelled' = [cancelled EXCEPT ![r] = TRUE]
  /\ target'    = [target EXCEPT ![w] = r]
  /\ phase'     = [phase EXCEPT ![w] = "wait"]
  /\ UNCHANGED <<row, pc, request, outcome, seen, rigid, registry, server, faults>>

PollSkip(w, t) ==
  /\ phase[w] = "walk" /\ t \in rows[w]
  /\ ~Cancellable(w, t)
  /\ rows' = [rows EXCEPT ![w] = @ \ {t}]
  /\ UNCHANGED <<row, pc, request, run, rigid, registry, phase, target, server, faults>>

\* force_kill_timeout: wait_for cancels the task again and goes on waiting.
PollForce(w) ==
  /\ phase[w] = "wait" /\ pc[target[w]] # "ended"
  /\ cancelled' = [cancelled EXCEPT ![target[w]] = TRUE]
  /\ phase' = [phase EXCEPT ![w] = "forced"]
  /\ UNCHANGED <<row, pc, request, outcome, seen, rigid, registry, rows, target, server,
                 faults>>

PollNext(w) ==
  /\ phase[w] \in {"wait", "forced"} /\ pc[target[w]] = "ended"
  /\ phase'  = [phase EXCEPT ![w] = "walk"]
  /\ target' = [target EXCEPT ![w] = None]
  /\ UNCHANGED <<row, pc, request, run, rigid, registry, rows, server, faults>>

PollSleep(w) ==
  /\ phase[w] = "walk" /\ rows[w] = {}
  /\ phase' = [phase EXCEPT ![w] = "sleep"]
  /\ UNCHANGED <<row, pc, request, run, rigid, registry, rows, target, server, faults>>

-----------------------------------------------------------------------------
(* Time, faults and shutdown.                                              *)

Expire(t) ==
  /\ status[t] # "ABSENT" /\ ~expired[t]
  /\ expired' = [expired EXCEPT ![t] = TRUE]
  /\ UNCHANGED <<status, claimed, pc, request, run, rigid, registry, poll, server, faults>>

Fault == faults < MaxFaults /\ faults' = faults + 1

\* The client disconnects, or a database call of the request raises.
Abort(r) ==
  /\ Fault /\ pc[r] \in RequestPC
  /\ Goto(r, "ended")
  /\ UNCHANGED <<row, request, run, rigid, registry, poll, server>>

\* The release's UPDATE raises: the finally block ends there.
ReleaseFails(r) ==
  /\ Fault /\ pc[r] = "release"
  /\ Goto(r, "ended")
  /\ UNCHANGED <<row, request, run, rigid, registry, poll, server>>

Unfinished(w) == {r \in Req : host[r] = w /\ pc[r] \in TaskPC}

\* Mutant of Local: a task that has not taken its first step is passed over.
LocalStarted(w) == {r \in Unfinished(w) : registry[w][trace[r]] = r /\ pc[r] # "starting"}

\* The tasks in the registry of w that are not done.
Local(w) == {r \in Unfinished(w) : registry[w][trace[r]] = r}

\* shutdown() cancels every registered task and waits for them.
Shutdown(w) ==
  /\ Fault /\ mode[w] = "up"
  /\ mode'  = [mode EXCEPT ![w] = "waiting"]
  /\ drain' = [drain EXCEPT ![w] = Local(w)]
  /\ cancelled' = [r \in Req |-> cancelled[r] \/ r \in Local(w)]
  /\ UNCHANGED <<row, pc, request, outcome, seen, rigid, registry, poll>>

\* Its timeout: wait_for cancels the gather, hence the tasks, once more.
ShutdownTimeout(w) ==
  LET late == drain[w] \cap Unfinished(w) IN
  /\ mode[w] = "waiting" /\ late # {}
  /\ mode' = [mode EXCEPT ![w] = "forced"]
  /\ cancelled' = [r \in Req |-> cancelled[r] \/ r \in late]
  /\ UNCHANGED <<row, pc, request, outcome, seen, rigid, registry, poll, drain, faults>>

\* The process of w ends, with every coroutine it had, and starts afresh.
Restart(w) ==
  /\ pc' = [r \in Req |-> IF host[r] = w /\ pc[r] # "idle" THEN "ended" ELSE pc[r]]
  /\ cancelled' = [r \in Req |-> host[r] # w /\ cancelled[r]]
  /\ registry'  = [registry EXCEPT ![w] = [t \in Trace |-> None]]
  /\ phase'  = [phase EXCEPT ![w] = "sleep"]
  /\ rows'   = [rows EXCEPT ![w] = {}]
  /\ target' = [target EXCEPT ![w] = None]
  /\ mode'   = [mode EXCEPT ![w] = "up"]
  /\ drain'  = [drain EXCEPT ![w] = {}]
  /\ UNCHANGED <<row, request, outcome, seen, rigid>>

Stop(w) ==
  /\ mode[w] # "up" /\ drain[w] \cap Unfinished(w) = {}
  /\ Restart(w)
  /\ UNCHANGED faults

Crash(w) == Fault /\ Restart(w)

-----------------------------------------------------------------------------
RequestStep(r) ==
  \/ Claim(r) \/ Check(r) \/ Insert(r) \/ Lock(r) \/ Spawn(r) \/ Restore(r)
  \/ \E t \in Trace : Sweep(r, t)

\* Steps of the task that need nothing but the event loop and the database.
TaskStep(r) ==
  \/ Start(r) \/ NeverStart(r) \/ Unwind(r) \/ Log(r) \/ UnwindLog(r)
  \/ Release(r) \/ UnwindRelease(r) \/ Unregister(r)

HandlerStep(r) == SeeCancel(r) \/ \E s \in Paused \cup Final : HandlerReturn(r, s)

PollStep(w) ==
  \/ PollFetch(w) \/ PollSnapshot(w) \/ PollNext(w) \/ PollSleep(w)
  \/ \E t \in Trace : PollCancel(w, t) \/ PollSkip(w, t)

Next ==
  \/ \E r \in Req : \/ Submit(r) \/ Look(r) \/ Abort(r) \/ ReleaseFails(r)
                    \/ RequestStep(r) \/ TaskStep(r) \/ HandlerStep(r)
  \/ \E t \in Trace : CancelTask(t) \/ CancelAnyTask(t) \/ Expire(t)
  \/ \E w \in Worker : \/ PollStep(w) \/ PollForce(w)
                       \/ Shutdown(w) \/ ShutdownTimeout(w) \/ Stop(w) \/ Crash(w)

Spec == Init /\ [][Next]_vars

\* The event loop runs every coroutine that is ready and the poll loop never
\* stops; nothing makes a handler return.
LoopFairness ==
  /\ \A r \in Req : WF_vars(RequestStep(r)) /\ WF_vars(TaskStep(r))
  /\ \A w \in Worker : WF_vars(PollStep(w))

\* A handler is bounded by max_steps and by the time limits of its calls.
HandlerFairness == \A r \in Req : WF_vars(HandlerStep(r))

FairSpec == Spec /\ LoopFairness

-----------------------------------------------------------------------------
(* Properties.                                                             *)

\* The requests and tasks that hold their row: they locked it and have not
\* yet released it.
Owner(r) == pc[r] \in {"spawn", "starting", "handler", "logging", "release"}

Started(r) == pc[r] \in {"handler", "logging", "release"}

\* No two tasks ever run for one trace id, on any workers, however requests,
\* resumptions, sweeps, cancellations and crashes interleave: _try_lock_task.
SingleRun ==
  \A r, q \in Req : Owner(r) /\ Owner(q) /\ trace[r] = trace[q] => r = q

\* While a task holds a row, the row is never INIT, paused, SUCCESS or
\* CANCELLED, so nobody can claim, lock or restore it: what the row says of
\* a run agrees with the run, but for a row swept as timed out.
OwnedRowIsActive ==
  \A r \in Req : Owner(r) =>
    status[trace[r]] \in {"PROCESSING", "CANCEL_REQUESTED", "FAILED"}

\* A task that is over stays over: no resumption, restoration, late release
\* or cancellation moves a row out of a final status, except that a sweep
\* may turn it to FAILED: _force_release_task does not look at the status.
NoResurrection ==
  [][\A t \in Trace : status[t] \in Final => status'[t] \in {status[t], "FAILED"}]_vars

\* An INIT row is never stranded while no fault happens: a request that will
\* lock it or restore it is on its way (deal and the resume endpoints).
InitIsAttended ==
  faults = 0 => \A t \in Trace : status[t] = "INIT" =>
    \E r \in Req : trace[r] = t /\ pc[r] \in RequestPC \ {"claim", "spawn"}

\* Without faults a row is PROCESSING only while a task that will release it is
\* there (docs/project.md): the release is skipped for no reason but a
\* cancellation, which moves the row on first.
ProcessingHasOwner ==
  faults = 0 => \A t \in Trace : status[t] = "PROCESSING" =>
    \E r \in Req : trace[r] = t /\ Owner(r)

\* Every started task can be found by the poller and by shutdown().
StartedIsRegistered ==
  \A r \in Req : Started(r) => registry[host[r]][trace[r]] = r

\* A run that has not used up its time is not failed by a sweep.
SweptInTime ==
  \A r \in Req : Owner(r) /\ status[trace[r]] = "FAILED" => expired[trace[r]]

\* shutdown() cancels every task of its worker (task_lifecycle.py:8).
ShutdownCancelsAll ==
  [][\A w \in Worker : mode[w] = "up" /\ mode'[w] = "waiting" =>
        \A r \in Req : host[r] = w /\ pc[r] \in {"starting", "handler"} => cancelled'[r]]_vars

\* Without faults, and if no handler hangs, every scheduled row is settled:
\* locked or restored, run, and released.
RowsSettle ==
  HandlerFairness => \A t \in Trace : status[t] \in {"INIT", "PROCESSING"}
                     ~> status[t] \notin {"INIT", "PROCESSING"}

\* A cancellation reaches a handler that would never return by itself, through
\* the poll loop and cancel_local, unless a sweep overwrites the request with
\* FAILED before the poll loop reads it: then nothing stops that handler.
CancelStopsHandler ==
  \A r \in Req : pc[r] = "handler" /\ status[trace[r]] = "CANCEL_REQUESTED"
                   ~> pc[r] # "handler" \/ status[trace[r]] = "FAILED"
=============================================================================
