------------------------------- MODULE TaskTools -------------------------------
(***************************************************************************)
(* The task tools of an agent (capabilities/tools/task.py, run_task of     *)
(* chat_ops.py) beside the scheduler: they write the rows of TaskScheduler *)
(* with statements of their own. task_update_status reads the row in one   *)
(* statement and writes it in another.                                     *)
(***************************************************************************)
EXTENDS TaskScheduler

CONSTANTS
  Tool,  \* calls of task_update_status
  Asked  \* the statuses they ask for

VARIABLE tool  \* each call: its trace, the new status, the status it read

all == <<vars, tool>>

NotCalled == [trace |-> "none", new |-> "NONE", read |-> "NONE"]
Done      == [NotCalled EXCEPT !.trace = "done"]

ToolInit == Init /\ tool = [k \in Tool |-> NotCalled]

UnchangedButStatus ==
  UNCHANGED <<expired, claimed, pc, request, run, rigid, registry, poll, server, faults>>

\* run_task starts a task as a request does, under a new trace id.
RunTask(r) == Submit(r) /\ status[trace[r]] = "ABSENT" /\ UNCHANGED tool

\* task_create inserts a row; nobody runs it until it is asked for.
TaskCreate(t) ==
  /\ Update(t, {"ABSENT"}, "INIT") /\ status[t] = "ABSENT"
  /\ UnchangedButStatus /\ UNCHANGED tool

\* task_cancel: as cancel_task, but for a row that waits for reconciliation.
TaskCancel(t) ==
  /\ status[t] \in {"INIT", "PROCESSING", "WAITING_APPROVAL"}
  /\ Update(t, Status, Cancelled(status[t]))
  /\ UnchangedButStatus /\ UNCHANGED tool

\* _VALID_TRANSITIONS
ValidTransitions(s) ==
  CASE s = "INIT"             -> {"PROCESSING", "CANCELLED"}
    [] s = "PROCESSING"       -> {"SUCCESS", "CANCEL_REQUESTED", "FAILED"}
    [] s = "CANCEL_REQUESTED" -> {"CANCELLED"}
    [] s \in Paused           -> {"INIT", "CANCELLED"}
    [] OTHER                  -> {}

\* task_update_status: the SELECT and the check of the transition.
ReadStatus(k, t, new) ==
  /\ tool[k] = NotCalled /\ status[t] # "ABSENT" /\ new \in Asked
  /\ tool' = [tool EXCEPT ![k] =
       IF new \in ValidTransitions(status[t])
         THEN [trace |-> t, new |-> new, read |-> status[t]] ELSE Done]
  /\ UNCHANGED vars

\* The UPDATE, whatever the status is by now.
WriteStatus(k) ==
  /\ tool[k].new # "NONE"
  /\ Update(tool[k].trace, Status, tool[k].new)
  /\ tool' = [tool EXCEPT ![k] = Done]
  /\ UnchangedButStatus

ToolNext ==
  \/ Next /\ UNCHANGED tool
  \/ \E r \in Req : RunTask(r)
  \/ \E t \in Trace : TaskCreate(t) \/ TaskCancel(t)
  \/ \E k \in Tool, t \in Trace, s \in Asked : ReadStatus(k, t, s)
  \/ \E k \in Tool : WriteStatus(k)

ToolSpec == ToolInit /\ [][ToolNext]_all

-----------------------------------------------------------------------------
(* Properties.                                                             *)

ToolTypeOK == TypeOK /\ \A k \in Tool : tool[k].read \in Status \cup {"NONE"}

\* task_update_status (tools/task.py): only valid transitions are made.
ToolMovesValidly ==
  [][\A k \in Tool : (tool[k].new # "NONE" /\ tool'[k] # tool[k]) =>
       tool[k].new \in ValidTransitions(status[tool[k].trace])]_all
=============================================================================
