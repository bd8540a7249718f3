----------------------------- MODULE DurableRun -----------------------------
(***************************************************************************)
(* One durable agent run: the loop that proposes batches of tool calls and *)
(* executes them through the ledger (engine/loop.py, execution/ledger.py), *)
(* the pauses for approval and for reconciliation with the checkpoint they *)
(* leave in the task row (harness.py, run_goal.py), and the reviewers'     *)
(* requests that resume the run (api/v1/endpoints/agent.py).               *)
(*                                                                         *)
(* TaskScheduler shows that a trace has one task at a time; here the run   *)
(* is that task, and locking the row is one step. All calls are write or   *)
(* destructive, so a batch is executed call after call.                    *)
(***************************************************************************)
EXTENDS Naturals

CONSTANTS
  Batches,    \* how many batches the model may propose
  Calls,      \* calls in a batch
  Gated,      \* the batches that need approval
  Reviewer,   \* requests to resolve a pause
  MaxFaults   \* bound on failed database writes

Batch == 1..Batches
Call  == Batch \X (1..Calls)

ASSUME ConstantsAssumption ==
  /\ Batches \in Nat /\ Calls \in Nat \ {0}
  /\ Gated \subseteq Batch
  /\ MaxFaults \in Nat

Pauses == {"APPROVAL", "RECONCILIATION"}

\* task_status: a pause stands for WAITING_<pause>, OVER for a final status.
Status == {"INIT", "PROCESSING", "CANCEL_REQUESTED", "OVER"} \cup Pauses

\* What a person decides. "completed" quotes the tool's own result, "verified"
\* words it differently: resolve() compares the texts.
Approval       == {"approve", "reject"}
Reconciliation == {"completed", "verified", "refuted"}

\* The settled rows of agent_tool_executions: "failed" is the tool's error,
\* "refuted" a person's.
Settled == Reconciliation \cup {"failed"}

\* What the model is told of a call.
Result == Settled \cup {"NONE", "error", "rejected", "skipped", "cancelled"}

\* What a run starts from and leaves in task_manager.data.
Checkpoint ==
  [pending  : Pauses \cup {"NONE"},
   batch    : 0..Batches,
   index    : 1..(Calls + 1),
   results  : [Call -> Result],
   decision : Approval \cup Reconciliation \cup {"NONE"}]

Fresh == [pending |-> "NONE", batch |-> 0, index |-> 1,
          results |-> [c \in Call |-> "NONE"], decision |-> "NONE"]

VARIABLES
  status,    \* task_manager.task_status
  data,      \* task_manager.data
  ledger,    \* agent_tool_executions
  executed,  \* how often each call's handler was invoked
  issued,    \* batches proposed so far: call ids are never reused
  approved,  \* history: the batches an approval was claimed for
  pc,        \* where the run stands
  mem,       \* its AgentLoopState
  cancel,    \* its cancel flag
  at,        \* where each reviewer's request stands
  seen,      \* run_data, the row as the request read it
  choice,    \* the decision it carries
  recovers,  \* it takes over a claim that was abandoned
  overlap,   \* history: a request began while another was being served
  faults     \* failed writes so far

row     == <<status, data>>
tools   == <<ledger, executed>>
run     == <<pc, mem, cancel>>
request == <<at, seen, choice, recovers, overlap>>
vars    == <<row, tools, issued, approved, run, request, faults>>

PC == {"idle", "start", "think", "call", "execute", "complete", "fail", "persist",
       "release"}

TypeOK ==
  /\ status   \in Status
  /\ data     \in Checkpoint
  /\ ledger   \in [Call -> Settled \cup {"NONE", "running"}]
  /\ executed \in [Call -> Nat]
  /\ issued   \in 0..Batches
  /\ approved \subseteq Batch
  /\ pc       \in PC
  /\ mem      \in Checkpoint
  /\ cancel   \in BOOLEAN
  /\ at       \in [Reviewer -> {"idle", "resolve", "claim", "deal", "restore", "ended"}]
  /\ seen     \in [Reviewer -> Checkpoint]
  /\ choice   \in [Reviewer -> Approval \cup Reconciliation]
  /\ recovers \in [Reviewer -> BOOLEAN]
  /\ overlap  \in BOOLEAN
  /\ faults   \in 0..MaxFaults

\* deal() has just started the run.
Init ==
  /\ status = "PROCESSING" /\ data = Fresh
  /\ ledger   = [c \in Call |-> "NONE"]
  /\ executed = [c \in Call |-> 0]
  /\ issued = 0 /\ approved = {}
  /\ pc = "start" /\ mem = Fresh /\ cancel = FALSE
  /\ at       = [r \in Reviewer |-> "idle"]
  /\ seen     = [r \in Reviewer |-> Fresh]
  /\ choice   = [r \in Reviewer |-> "reject"]
  /\ recovers = [r \in Reviewer |-> FALSE]
  /\ overlap = FALSE /\ faults = 0

-----------------------------------------------------------------------------
(* The ledger.                                                             *)

Current == <<mem.batch, mem.index>>

Record(c, s) == ledger' = [ledger EXCEPT ![c] = s]

\* UPDATE ... SET status = s WHERE status = 'running'
Finish(c, s) == Record(c, IF ledger[c] = "running" THEN s ELSE ledger[c])

\* Mutant of Resolvable: the same decision is refused the second time.
ResolvableOnce(c, s) == ledger[c] = "running"

\* Mutant of Resolvable: the last decision wins.
ResolvableAlways(c, s) == ledger[c] # "NONE"

\* resolve() accepts a decision on a running call, and the same one again.
Resolvable(c, s) == ledger[c] \in {"running", s}

Fault == faults < MaxFaults /\ faults' = faults + 1

-----------------------------------------------------------------------------
(* The run.                                                                *)

\* The batch from index i on has been answered with s: on to the next step.
Answer(i, s) ==
  /\ mem' = [mem EXCEPT !.pending = "NONE", !.decision = "NONE", !.index = Calls + 1,
               !.results = [c \in Call |-> IF c[1] = mem.batch /\ c[2] >= i
                                             THEN s ELSE mem.results[c]]]
  /\ pc' = "think"

\* The current call has been answered with s: the next call, or the next step.
Tell(s) ==
  /\ mem' = [mem EXCEPT !.pending = "NONE", !.decision = "NONE",
               !.results[Current] = s, !.index = @ + 1]
  /\ pc'  = IF mem.index = Calls THEN "think" ELSE "call"

\* The loop stops here, with the current batch frozen.
Pause(kind) ==
  /\ mem' = [mem EXCEPT !.pending = kind, !.decision = "NONE"]
  /\ pc'  = "persist"

Begin ==
  /\ pc = "start" /\ mem.pending = "NONE"
  /\ pc' = "think"
  /\ UNCHANGED <<row, tools, issued, approved, mem, cancel, request, faults>>

\* _resume_pending_approval
ResumeApproved ==
  /\ pc = "start" /\ mem.pending = "APPROVAL" /\ mem.decision = "approve"
  /\ mem' = [mem EXCEPT !.pending = "NONE", !.decision = "NONE"]
  /\ pc'  = "call"
  /\ UNCHANGED <<row, tools, issued, approved, cancel, request, faults>>

ResumeRejected ==
  /\ pc = "start" /\ mem.pending = "APPROVAL" /\ mem.decision = "reject"
  /\ Answer(1, "rejected")
  /\ UNCHANGED <<row, tools, issued, approved, cancel, request, faults>>

\* What is not executed once the current call was reconciled as failed.
Skipped(c) == c[1] = mem.batch /\ c[2] > mem.index

\* _resume_pending_reconciliation: a call that took place is answered and the
\* rest of the batch goes on; after one that did not, the rest is skipped.
ResumeReconciled ==
  /\ pc = "start" /\ mem.pending = "RECONCILIATION"
  /\ Resolvable(Current, mem.decision)
  /\ Record(Current, mem.decision)
  /\ IF mem.decision = "refuted"
       THEN /\ mem' = [mem EXCEPT !.pending = "NONE", !.decision = "NONE",
                         !.index = Calls + 1,
                         !.results = [c \in Call |->
                            IF c = Current THEN "refuted"
                            ELSE IF Skipped(c) THEN "skipped"
                            ELSE mem.results[c]]]
            /\ pc'  = "think"
       ELSE Tell(mem.decision)
  /\ UNCHANGED <<row, executed, issued, approved, cancel, request, faults>>

\* ... or the ledger refuses, and the run pauses again where it was.
ResumeRefused ==
  /\ pc = "start" /\ mem.pending = "RECONCILIATION"
  /\ \/ ~Resolvable(Current, mem.decision) /\ UNCHANGED <<ledger, faults>>
     \/ Fault /\ UNCHANGED ledger
  /\ Pause("RECONCILIATION")
  /\ UNCHANGED <<row, executed, issued, approved, cancel, request>>

\* The run's poller reads the row, until the run is about to be persisted.
SeeCancel ==
  /\ pc \notin {"idle", "release"} /\ ~cancel
  /\ status = "CANCEL_REQUESTED"
  /\ cancel' = TRUE
  /\ UNCHANGED <<row, tools, issued, approved, pc, mem, request, faults>>

\* The loop ends: a final answer, an error, a limit, the cancel flag; or the next call
\* names a tool that does not exist, which nothing catches.
Conclude ==
  /\ pc = "think" \/ (pc = "call" /\ ~cancel /\ ledger[Current] = "NONE")
  /\ pc' = "persist"
  /\ UNCHANGED <<row, tools, issued, approved, mem, cancel, request, faults>>

\* Mutant of NeedsApproval: an approval opens the rest of the run.
NotYetApproved(b) == b \in Gated /\ approved = {}

NeedsApproval(b) == b \in Gated

\* The model proposes a batch of calls: pause, or execute it.
Propose ==
  /\ pc = "think" /\ ~cancel /\ issued < Batches
  /\ issued' = issued + 1
  /\ mem' = [mem EXCEPT !.batch = issued + 1, !.index = 1, !.decision = "NONE",
               !.pending = IF NeedsApproval(issued + 1) THEN "APPROVAL" ELSE "NONE"]
  /\ pc' = IF NeedsApproval(issued + 1) THEN "persist" ELSE "call"
  /\ UNCHANGED <<row, tools, approved, cancel, request, faults>>

SkipCancelled ==
  /\ pc = "call" /\ cancel
  /\ Tell("cancelled")
  /\ UNCHANGED <<row, tools, issued, approved, cancel, request, faults>>

\* Mutant of Claimable: a call left running is tried again.
ClaimableOrRunning(c) == ledger[c] \in {"NONE", "running"}

\* INSERT IGNORE inserts.
Claimable(c) == ledger[c] = "NONE"

ClaimCall ==
  /\ pc = "call" /\ ~cancel
  /\ Claimable(Current)
  /\ Record(Current, "running")
  /\ pc' = "execute"
  /\ UNCHANGED <<row, executed, issued, approved, mem, cancel, request, faults>>

\* Mutant of Replay: what was claimed before is taken for done.
ReplayAsDone ==
  /\ pc = "call" /\ ~cancel
  /\ ledger[Current] \in Settled
  /\ Tell("completed")
  /\ UNCHANGED <<row, tools, issued, approved, cancel, request, faults>>

\* A call the ledger knows the outcome of is not executed again.
Replay ==
  /\ pc = "call" /\ ~cancel
  /\ ledger[Current] \in Settled
  /\ Tell(ledger[Current])
  /\ UNCHANGED <<row, tools, issued, approved, cancel, request, faults>>

\* A call left running by an earlier task is in doubt.
InDoubt ==
  /\ pc = "call" /\ ~cancel
  /\ ledger[Current] = "running"
  /\ Pause("RECONCILIATION")
  /\ UNCHANGED <<row, tools, issued, approved, cancel, request, faults>>

\* The call fails: its arguments are refused, or the claim raises, whether or not its
\* row was inserted.
ClaimFails ==
  /\ pc = "call" /\ ~cancel
  /\ \/ ledger[Current] = "NONE" /\ UNCHANGED <<ledger, faults>>
     \/ Fault /\ UNCHANGED ledger
     \/ Fault /\ ledger[Current] = "NONE" /\ Record(Current, "running")
  /\ Tell("error")
  /\ UNCHANGED <<row, executed, issued, approved, cancel, request>>

\* The handler is invoked. It returns, raises a ToolExecutionError, or raises
\* something else, a timeout for one, which leaves the call in doubt.
Execute ==
  /\ pc = "execute"
  /\ executed' = [executed EXCEPT ![Current] = @ + 1]
  /\ \/ pc' \in {"complete", "fail"} /\ UNCHANGED mem
     \/ Pause("RECONCILIATION")
  /\ UNCHANGED <<row, ledger, issued, approved, cancel, request, faults>>

\* What is to be recorded of the call: complete() or fail().
Outcome == IF pc = "complete" THEN "completed" ELSE "failed"

Settle ==
  /\ pc \in {"complete", "fail"}
  /\ Finish(Current, Outcome)
  /\ IF ledger[Current] = "running" THEN Tell(Outcome) ELSE Pause("RECONCILIATION")
  /\ UNCHANGED <<row, executed, issued, approved, cancel, request, faults>>

\* Mutant of SettleFails: the failure is told as the call's, and the batch goes on.
SettleFailsTold ==
  /\ Fault /\ pc \in {"complete", "fail"}
  /\ Finish(Current, Outcome) \/ UNCHANGED ledger
  /\ Tell("error")
  /\ UNCHANGED <<row, executed, issued, approved, cancel, request>>

\* complete() or fail() raises, whether or not its UPDATE was applied.
SettleFails ==
  /\ Fault /\ pc \in {"complete", "fail"}
  /\ Finish(Current, Outcome) \/ UNCHANGED ledger
  /\ Pause("RECONCILIATION")
  /\ UNCHANGED <<row, executed, issued, approved, cancel, request>>

\* _run_agent_mode rewrites the row's data.
Persist ==
  /\ pc = "persist"
  /\ data' = mem
  /\ pc' = "release"
  /\ UNCHANGED <<status, tools, issued, approved, mem, cancel, request, faults>>

\* Its except clause only logs.
PersistFails ==
  /\ Fault /\ pc = "persist"
  /\ pc' = "release"
  /\ UNCHANGED <<row, tools, issued, approved, mem, cancel, request>>

\* The run's memory is gone.
Forget == pc' = "idle" /\ mem' = Fresh /\ cancel' = FALSE

Active == {"PROCESSING", "CANCEL_REQUESTED"}

\* The status _run_agent_mode returns.
Returned == IF cancel \/ mem.pending = "NONE" THEN "OVER" ELSE mem.pending

\* _release_task
Release ==
  /\ pc = "release"
  /\ status' = IF status \in Active THEN Returned ELSE status
  /\ Forget
  /\ UNCHANGED <<data, tools, issued, approved, request, faults>>

\* The task is cancelled, or its process dies.
Interrupt ==
  /\ pc # "idle"
  /\ UNCHANGED status \/ (status \in Active /\ status' = "OVER")
  /\ Forget
  /\ UNCHANGED <<data, tools, issued, approved, request, faults>>

\* cancel_task
Cancel ==
  /\ status \in {"INIT", "PROCESSING"} \cup Pauses
  /\ status' = IF status = "PROCESSING" THEN "CANCEL_REQUESTED" ELSE "OVER"
  /\ UNCHANGED <<data, tools, issued, approved, run, request, faults>>

\* _force_release_task
Sweep ==
  /\ status = "PROCESSING"
  /\ status' = "OVER"
  /\ UNCHANGED <<data, tools, issued, approved, run, request, faults>>

-----------------------------------------------------------------------------
(* The reviewers' requests: resolve_approval and resolve_reconciliation.   *)

Goto(r, l) == at' = [at EXCEPT ![r] = l]

\* Read the row and check decision d against it.
Read(r, d) ==
  /\ at[r] = "idle"
  /\ \/ data.pending = "APPROVAL" /\ d \in Approval
     \/ data.pending = "RECONCILIATION" /\ d \in Reconciliation
  /\ \/ status = data.pending
     \/ status = "INIT" /\ data.decision = d
  /\ seen'     = [seen EXCEPT ![r] = data]
  /\ choice'   = [choice EXCEPT ![r] = d]
  /\ recovers' = [recovers EXCEPT ![r] = status = "INIT"]
  /\ overlap'  = (overlap \/ \E q \in Reviewer : at[q] \notin {"idle", "ended"})
  /\ Goto(r, IF data.pending = "RECONCILIATION" THEN "resolve"
             ELSE IF status = "INIT" THEN "deal" ELSE "claim")
  /\ UNCHANGED <<row, tools, issued, approved, run, faults>>

\* The call in doubt that the request is about.
Doubted(r) == <<seen[r].batch, seen[r].index>>

\* The ledger decides before the row is claimed; it refuses a different
\* decision on a call that is settled.
Resolve(r) ==
  /\ at[r] = "resolve"
  /\ IF Resolvable(Doubted(r), choice[r])
       THEN /\ Record(Doubted(r), choice[r])
            /\ Goto(r, IF recovers[r] THEN "deal" ELSE "claim")
       ELSE UNCHANGED ledger /\ Goto(r, "ended")
  /\ UNCHANGED <<row, executed, issued, approved, run, seen, choice, recovers, overlap, faults>>

\* Mutant of Resumed: the run goes on from the pause without its transcript.
ResumedAfresh(r) ==
  [seen[r] EXCEPT !.decision = choice[r], !.results = Fresh.results]

Resumed(r) == [seen[r] EXCEPT !.decision = choice[r]]

\* The compare-and-set on the waiting status.
Claim(r) ==
  /\ at[r] = "claim"
  /\ IF status = seen[r].pending
       THEN /\ status' = "INIT"
            /\ data' = Resumed(r)
            /\ approved' = IF choice[r] = "approve" THEN approved \cup {seen[r].batch}
                           ELSE approved
            /\ Goto(r, "deal")
       ELSE Goto(r, "ended") /\ UNCHANGED <<row, approved>>
  /\ UNCHANGED <<tools, issued, run, seen, choice, recovers, overlap, faults>>

\* deal() locks the row, and the run starts from the request's own data ...
Deal(r) ==
  /\ at[r] = "deal" /\ status = "INIT"
  /\ status' = "PROCESSING"
  /\ pc' = "start" /\ mem' = Resumed(r) /\ cancel' = FALSE
  /\ Goto(r, "ended")
  /\ UNCHANGED <<data, tools, issued, approved, seen, choice, recovers, overlap, faults>>

\* ... or refuses.
Refuse(r) ==
  /\ at[r] = "deal"
  /\ Goto(r, "restore")
  /\ UNCHANGED <<row, tools, issued, approved, run, seen, choice, recovers, overlap, faults>>

Restore(r) ==
  /\ at[r] = "restore"
  /\ IF status = "INIT" THEN status' = seen[r].pending /\ data' = seen[r]
                        ELSE UNCHANGED row
  /\ Goto(r, "ended")
  /\ UNCHANGED <<tools, issued, approved, run, seen, choice, recovers, overlap, faults>>

\* The request is aborted, or a write of it fails, applied (see Resolve and
\* Claim) or not.
Abort(r) ==
  /\ at[r] \notin {"idle", "ended"}
  /\ Goto(r, "ended")
  /\ UNCHANGED <<row, tools, issued, approved, run, seen, choice, recovers, overlap, faults>>

-----------------------------------------------------------------------------
RunStep ==
  \/ Begin \/ ResumeApproved \/ ResumeRejected \/ ResumeReconciled \/ ResumeRefused
  \/ SeeCancel \/ Conclude \/ Propose
  \/ SkipCancelled \/ ClaimCall \/ Replay \/ InDoubt \/ ClaimFails
  \/ Execute \/ Settle \/ SettleFails
  \/ Persist \/ PersistFails \/ Release \/ Interrupt

RequestStep(r) ==
  \/ \E d \in Approval \cup Reconciliation : Read(r, d)
  \/ Resolve(r) \/ Claim(r) \/ Deal(r) \/ Refuse(r) \/ Restore(r) \/ Abort(r)

Next == RunStep \/ Cancel \/ Sweep \/ \E r \in Reviewer : RequestStep(r)

Spec == Init /\ [][Next]_vars

-----------------------------------------------------------------------------
(* Properties.                                                             *)

Effects == INSTANCE SideEffects
             WITH Verdict <- Settled, record <- ledger, attempts <- executed

\* The run, the requests and the ledger together keep the ledger's promise: a
\* call is claimed once, attempted at most once and under its claim, settled
\* once and for good (execution/ledger.py).
KeepsPromise == Effects!Spec

\* The side effect of a call is attempted at most once, however the run is
\* paused, resumed, resumed twice or interrupted (execution/ledger.py).
AtMostOnce == \A c \in Call : executed[c] <= 1

\* A call that needs approval is executed only after a reviewer approved
\* its batch.
OnlyApproved ==
  \A c \in Call : executed[c] > 0 /\ c[1] \in Gated => c[1] \in approved

\* What the model, the checkpoint and a reviewer's copy of it say of a call's
\* outcome is what the ledger holds: no decision, replay or lost write lets
\* the transcript and the ledger disagree.
ToldAsRecorded ==
  \A c \in Call, m \in {mem, data} \cup {seen[r] : r \in Reviewer} :
    m.results[c] \in Settled => ledger[c] = m.results[c]

\* No call is executed after a call of its batch that is in doubt.
WaitsForVerdict ==
  \A c \in Call : executed'[c] > executed[c] =>
    \A i \in 1..(c[2] - 1) :
      executed[<<c[1], i>>] > 0 => ledger[<<c[1], i>>] # "running"

\* A batch stops at a call in doubt (docs/agent-run-design.md 7.4): its later calls wait
\* for the verdict.
DoubtFreezesBatch == [][WaitsForVerdict]_vars

\* ... as long as reviewers do not overlap and at most one write fails. A second
\* failure, or a request that resumes from an older pause, lets the batch come back to
\* the call with a claim that raises, which engine/loop.py takes for its own error.
StopsInDoubt == [][faults <= 1 /\ ~overlap => WaitsForVerdict]_vars

\* A call the model is told a reviewer rejected was not executed
\* (docs/agent-runtime-v2.md).
RejectedNeverRan ==
  \A c \in Call : mem.results[c] = "rejected" => executed[c] = 0

\* If no write fails and reviewers do not overlap, what the model is told of
\* the side effects attempted is complete and true when it decides on the
\* next step: none is forgotten, none was rejected.
NothingForgotten ==
  faults = 0 /\ ~overlap /\ pc = "think" =>
    \A c \in Call : executed[c] > 0 <=> mem.results[c] \in Settled

\* A paused run can be resumed: the row holds the pause its status names, and
\* the ledger accepts some decision on the call in doubt.
Recoverable ==
  status \in Pauses =>
    /\ data.pending = status
    /\ status = "RECONCILIATION" =>
         \E s \in Reconciliation : Resolvable(<<data.batch, data.index>>, s)

\* ... as long as no write fails.
RecoverableUnlessFault == faults = 0 => Recoverable
=============================================================================
