---------------------------- MODULE TraceStream -----------------------------
(***************************************************************************)
(* The events of one trace: the in-memory stream they are numbered in and  *)
(* replayed from (infra/streaming/trace_event_bus.py), the persister that  *)
(* writes them to agent_events in batches (event_persister.py), the server *)
(* sent events that clients follow (api/v1/endpoints/tasks.py), and the    *)
(* run that publishes them, pauses and is resumed across restarts of the   *)
(* process (task_scheduler.py, agent.py, resource_manager.py).             *)
(*                                                                         *)
(* One process serves the application (config.toml: workers = 1).          *)
(***************************************************************************)
EXTENDS Naturals, Sequences, SequencesExt

CONSTANTS
  Client,        \* subscribers
  MaxEvents,     \* bound on the events a run publishes of its own accord
  MaxResumes,    \* bound on resumptions
  MaxRestarts,   \* bound on restarts
  MaxCancels,    \* bound on requests to cancel the task
  MaxFaults,     \* bound on crashes, lost batches, shutdowns that time out, and
                 \* resumptions that overtake the wrapper of the run before
  ReplayLimit,   \* events kept for replay (200)
  ClientQueue,   \* events queued for a subscriber (200)
  PersistQueue,  \* events queued for the persister (10000)
  Deltas,        \* whether the run streams tokens, which are not persisted
  Strangers      \* whether a task may be cancelled after a restart, by a process that
                 \* has no stream of it

ASSUME LimitsAssumption ==
  /\ ReplayLimit \in Nat \ {0} /\ ClientQueue \in Nat \ {0} /\ PersistQueue \in Nat \ {0}
  /\ ReplayLimit <= ClientQueue
  /\ MaxEvents \in Nat /\ MaxResumes \in Nat /\ MaxRestarts \in Nat /\ MaxCancels \in Nat
  /\ MaxFaults \in Nat
  /\ Deltas \in BOOLEAN /\ Strangers \in BOOLEAN

VARIABLES
  log,        \* every event published, in order: its number, and whether it is persisted
  stream,     \* the _TraceStream, or NoStream; its replay holds positions in log
  row,        \* the task: new, running, cancelling (CANCEL_REQUESTED), paused, claimed
              \* (INIT), over, refused, or stranded (PROCESSING in no process)
  closing,    \* wrappers that released the row, and have yet to publish and close
  request,    \* where the request to resume the run stands
  highest,    \* SELECT MAX(sequence), as that request read it
  refusals,   \* refused requests that have yet to close the trace
  waiting,    \* the persister's queue
  batch,      \* what its worker has taken off it
  worker,     \* on, stopping, drained or off
  table,      \* agent_events: the event stored under each number
  overflowed, \* history: events dropped from the persister's queue
  conn,       \* each client's subscription: away, open, or dropped for being slow
  inbox,      \* its queue
  last,       \* the event it was sent last, 0 for none
  mode,       \* the process: up, stopping or down
  cancelled,  \* cancel requests that have written the row, and have yet to publish it
  cancels, resumes, restarts, faults

task     == <<row, closing, request, highest, refusals, cancelled, cancels, resumes>>
persist  == <<waiting, batch, worker, table, overflowed>>
clients  == <<conn, inbox, last>>
process  == <<mode, restarts, faults>>
vars     == <<log, stream, task, persist, clients, process>>

Events == DOMAIN log

NoStream == [sequence |-> 0, replay |-> <<>>, closed |-> FALSE, exists |-> FALSE]

\* How many events there can be: the run's own, and one per acceptance, ending and
\* cancellation.
MaxLog == MaxEvents + 2 * (MaxResumes + 1) + MaxCancels

Id == 1..MaxLog

TypeOK ==
  /\ log \in Seq([number : Id, kept : BOOLEAN]) /\ Len(log) <= MaxLog
  /\ stream \in [sequence : 0..MaxLog, replay : Seq(Id), closed : BOOLEAN, exists : BOOLEAN]
  /\ Len(stream.replay) <= ReplayLimit
  /\ row \in {"new", "running", "cancelling", "paused", "claimed", "over", "refused",
              "stranded"}
  /\ closing \in 0..(MaxResumes + 1) /\ refusals \in 0..MaxResumes
  /\ cancelled \in 0..MaxCancels /\ cancels \in 0..MaxCancels
  /\ request \in {"idle", "claimed", "fetched", "deal"} /\ highest \in 0..MaxLog
  /\ waiting \in Seq(Id) /\ Len(waiting) <= PersistQueue /\ batch \in Seq(Id)
  /\ worker \in {"on", "stopping", "drained", "off"}
  /\ table \in [Id -> Id \cup {0}] /\ overflowed \subseteq Id
  /\ conn \in [Client -> {"away", "open", "dropped"}]
  /\ inbox \in [Client -> Seq(Id)] /\ \A c \in Client : Len(inbox[c]) <= ClientQueue
  /\ last \in [Client -> Id \cup {0}]
  /\ mode \in {"up", "stopping", "down"}
  /\ resumes \in 0..MaxResumes /\ restarts \in 0..MaxRestarts /\ faults \in 0..MaxFaults

Init ==
  /\ log = <<>> /\ stream = NoStream
  /\ row = "new" /\ closing = 0 /\ request = "idle" /\ highest = 0 /\ refusals = 0
  /\ waiting = <<>> /\ batch = <<>> /\ worker = "on"
  /\ table = [n \in Id |-> 0] /\ overflowed = {}
  /\ conn = [c \in Client |-> "away"] /\ inbox = [c \in Client |-> <<>>]
  /\ last = [c \in Client |-> 0]
  /\ mode = "up" /\ cancelled = 0 /\ cancels = 0 /\ resumes = 0 /\ restarts = 0 /\ faults = 0

Fault == faults < MaxFaults /\ faults' = faults + 1

-----------------------------------------------------------------------------
(* The bus.                                                                *)

\* Mutant of Raised: the number read from the table replaces the stream's.
RaisedToTable(s, n) == n

\* Mutant of Raised: the number read from the table is not used.
RaisedNever(s, n) == s.sequence

Raised(s, n) == IF n > s.sequence THEN n ELSE s.sequence

\* ensure_trace
Ensured(s, n) == [s EXCEPT !.exists = TRUE, !.sequence = Raised(s, n)]

Newest(q, n) == IF Len(q) <= n THEN q ELSE SubSeq(q, Len(q) - n + 1, Len(q))

\* The persister drops its oldest row rather than wait.
Queued(e) == Newest(Append(waiting, e), PersistQueue)

\* The subscribers whose queue is full.
Slow(c) == conn[c] = "open" /\ Len(inbox[c]) >= ClientQueue

\* publish(persist = kept) into stream s; closed says what becomes of it then. A
\* subscriber that is slow is dropped.
Publish(s, kept, closed) ==
  LET e == Len(log) + 1
  IN /\ log' = Append(log, [number |-> s.sequence + 1, kept |-> kept])
     /\ stream' = [s EXCEPT !.exists = TRUE, !.sequence = @ + 1, !.closed = closed,
                            !.replay = Newest(Append(@, e), ReplayLimit)]
     /\ conn'  = [c \in Client |-> IF Slow(c) THEN "dropped" ELSE conn[c]]
     /\ inbox' = [c \in Client |-> IF conn[c] = "open" /\ ~Slow(c) THEN Append(inbox[c], e)
                                  ELSE inbox[c]]
     /\ waiting' = IF kept THEN Queued(e) ELSE waiting
     /\ overflowed' = IF kept THEN overflowed \cup (Range(waiting) \ Range(Queued(e)))
                      ELSE overflowed
     /\ UNCHANGED <<last, batch, worker, table>>

\* close_trace
Closed(s) == IF s.exists THEN [s EXCEPT !.closed = TRUE] ELSE s

-----------------------------------------------------------------------------
(* The run and its scheduler.                                              *)

Working == {"running", "cancelling"}

\* run_agent pre-creates the trace; deal accepts the task, or refuses it and
\* leaves the trace open.
Announce ==
  /\ mode = "up" /\ row = "new" /\ ~stream.exists
  /\ stream' = Ensured(stream, 0)
  /\ UNCHANGED <<log, task, persist, clients, process>>

Accept ==
  /\ mode = "up" /\ row = "new" /\ stream.exists
  /\ row' = "running"
  /\ Publish(stream, TRUE, stream.closed)
  /\ UNCHANGED <<closing, request, highest, refusals, cancelled, cancels, resumes, process>>

Reject ==
  /\ mode = "up" /\ row = "new" /\ stream.exists
  /\ row' = "refused"
  /\ UNCHANGED <<log, stream, closing, request, highest, refusals, cancelled, cancels, resumes,
                 persist, clients, process>>

\* An event of the run; token deltas are not persisted.
Emit ==
  /\ mode # "down" /\ row \in Working /\ Len(log) < MaxEvents
  /\ \E kept \in (IF Deltas THEN BOOLEAN ELSE {TRUE}) : Publish(stream, kept, stream.closed)
  /\ UNCHANGED <<task, process>>

\* The wrapper releases the row ...
Release ==
  /\ mode # "down" /\ row \in Working
  /\ row' \in {"paused", "over"}
  /\ closing' = closing + 1
  /\ UNCHANGED <<log, stream, request, highest, refusals, cancelled, cancels, resumes, persist,
                 clients, process>>

\* ... and then publishes that the task waits or is finished, and closes the trace.
Finish ==
  /\ mode # "down" /\ closing > 0
  /\ closing' = closing - 1
  /\ Publish(stream, TRUE, TRUE)
  /\ UNCHANGED <<row, request, highest, refusals, cancelled, cancels, resumes, process>>

\* cancel_task: the row first, as long as the task is not over ...
Cancel ==
  /\ mode = "up" /\ cancels < MaxCancels
  /\ row \in {"running", "paused", "claimed", "stranded"}
  /\ stream.exists \/ Strangers
  /\ row' = IF row = "running" THEN "cancelling" ELSE "over"
  /\ cancelled' = cancelled + 1 /\ cancels' = cancels + 1
  /\ UNCHANGED <<log, stream, closing, request, highest, refusals, resumes, persist, clients,
                 process>>

\* ... then the event, into a new stream when this process has none.
CancelPublished ==
  /\ mode = "up" /\ cancelled > 0
  /\ cancelled' = cancelled - 1
  /\ Publish(Ensured(stream, 0), TRUE, stream.closed)
  /\ UNCHANGED <<row, closing, request, highest, refusals, cancels, resumes, process>>

-----------------------------------------------------------------------------
(* A request to resume the run (resolve_approval, resolve_reconciliation). *)

\* Claim a paused row, or take over a claim that was abandoned.
Claim ==
  /\ mode = "up" /\ request = "idle" /\ row \in {"paused", "claimed"}
  /\ resumes < MaxResumes
  /\ row' = "claimed" /\ request' = "claimed" /\ resumes' = resumes + 1
  /\ UNCHANGED <<log, stream, closing, highest, refusals, cancelled, cancels, persist, clients,
                 process>>

Fetch ==
  /\ mode = "up" /\ request = "claimed"
  /\ highest' = Max({n \in Id : table[n] # 0} \cup {0})
  /\ request' = "fetched"
  /\ UNCHANGED <<log, stream, row, closing, refusals, cancelled, cancels, resumes, persist, clients,
                 process>>

Reopen ==
  /\ mode = "up" /\ request = "fetched"
  /\ stream' = [Ensured(stream, highest) EXCEPT !.closed = FALSE]
  /\ request' = "deal" /\ highest' = 0
  /\ UNCHANGED <<log, row, closing, refusals, cancelled, cancels, resumes, persist, clients,
                 process>>

\* deal locks the row. The wrapper of the run before may still be closing: its
\* unregister will hide the new one from a shutdown.
Resume ==
  /\ mode = "up" /\ request = "deal" /\ row = "claimed"
  /\ request' = "idle" /\ row' = "running"
  /\ Publish(stream, TRUE, stream.closed)
  /\ IF closing > 0 THEN Fault ELSE UNCHANGED faults
  /\ UNCHANGED <<closing, highest, refusals, cancelled, cancels, resumes, mode, restarts>>

\* deal refuses, and the row is restored if it is still the one claimed ...
Restore ==
  /\ mode = "up" /\ request = "deal"
  /\ request' = "idle" /\ refusals' = refusals + 1
  /\ row' = IF row = "claimed" THEN "paused" ELSE row
  /\ UNCHANGED <<log, stream, closing, highest, cancelled, cancels, resumes, persist, clients,
                 process>>

\* ... before the trace is closed.
CloseRefused ==
  /\ mode = "up" /\ refusals > 0
  /\ refusals' = refusals - 1
  /\ stream' = Closed(stream)
  /\ UNCHANGED <<log, row, closing, request, highest, cancelled, cancels, resumes, persist, clients,
                 process>>

-----------------------------------------------------------------------------
(* The persister.                                                          *)

\* The worker may have been waiting for a row when it was told to stop.
Take ==
  /\ worker \in {"on", "stopping"} /\ waiting # <<>>
  /\ batch' = Append(batch, Head(waiting)) /\ waiting' = Tail(waiting)
  /\ UNCHANGED <<worker, table, overflowed, log, stream, task, clients, process>>

\* INSERT IGNORE: a number that is taken keeps its event.
Stored(t, es) ==
  [n \in Id |-> LET same == {e \in Range(es) : log[e].number = n}
                IN IF t[n] # 0 \/ same = {} THEN t[n] ELSE Min(same)]

Flush ==
  /\ worker # "off" /\ batch # <<>>
  /\ table' = Stored(table, batch)
  /\ batch' = <<>>
  /\ UNCHANGED <<waiting, worker, overflowed, log, stream, task, clients, process>>

\* The write fails, and the batch is gone: all of it for the persister. The
\* driver sends a long batch in several statements, each committed by itself, so
\* those before the one that fails are in the table, and all are when only the
\* reply is lost.
FlushFails ==
  /\ Fault /\ worker # "off" /\ batch # <<>>
  /\ \E k \in 0..Len(batch) : table' = Stored(table, SubSeq(batch, 1, k))
  /\ batch' = <<>>
  /\ UNCHANGED <<waiting, worker, overflowed, log, stream, task, clients, mode, restarts>>

\* Mutant of Queue: what is queued is forgotten.
QueueForgotten == <<>>

Queue == waiting

\* Once the loop has stopped and flushed, what is queued is drained ...
Drain ==
  /\ worker = "stopping" /\ batch = <<>>
  /\ batch' = Queue /\ waiting' = <<>> /\ worker' = "drained"
  /\ UNCHANGED <<table, overflowed, log, stream, task, clients, process>>

\* ... and flushed.
Drained ==
  /\ worker = "drained" /\ batch = <<>>
  /\ worker' = "off"
  /\ UNCHANGED <<waiting, batch, table, overflowed, log, stream, task, clients, process>>

\* ... unless it takes more than 5 seconds.
DrainTimesOut ==
  /\ Fault /\ worker \in {"stopping", "drained"}
  /\ worker' = "off" /\ batch' = <<>>
  /\ UNCHANGED <<waiting, table, overflowed, log, stream, task, clients, mode, restarts>>

-----------------------------------------------------------------------------
(* Clients of GET /task_events/<trace_id>.                                 *)

\* Replay what comes after the client's Last-Event-ID.
Missed(e, n) == log[e].number > n

Later(q, n) ==
  LET upTo[i \in 0..Len(q)] ==
        IF i = 0 THEN <<>>
        ELSE IF Missed(q[i], n) THEN Append(upTo[i - 1], q[i]) ELSE upTo[i - 1]
  IN  upTo[Len(q)]

Connect(c) ==
  /\ mode = "up" /\ conn[c] = "away" /\ stream.exists
  /\ \E reload \in BOOLEAN :
       LET known == IF reload \/ last[c] = 0 THEN 0 ELSE log[last[c]].number
       IN /\ inbox' = [inbox EXCEPT ![c] = Later(stream.replay, known)]
          /\ last' = IF reload THEN [last EXCEPT ![c] = 0] ELSE last
  /\ conn' = [conn EXCEPT ![c] = "open"]
  /\ UNCHANGED <<log, stream, task, persist, process>>

Receive(c) ==
  /\ conn[c] # "away" /\ inbox[c] # <<>>
  /\ last' = [last EXCEPT ![c] = Head(inbox[c])]
  /\ inbox' = [inbox EXCEPT ![c] = Tail(@)]
  /\ UNCHANGED <<conn, log, stream, task, persist, process>>

\* Mutant of Done: only a subscriber in good standing is let go.
DoneOpen(c) == conn[c] = "open" /\ stream.closed /\ inbox[c] = <<>>

\* Mutant of Done: the trace is over, whatever is still queued.
DoneClosed(c) == stream.closed

\* The trace is closed and the queue is empty.
Done(c) == stream.closed /\ inbox[c] = <<>>

Away(cs) ==
  /\ conn'  = [c \in Client |-> IF c \in cs THEN "away" ELSE conn[c]]
  /\ inbox' = [c \in Client |-> IF c \in cs THEN <<>> ELSE inbox[c]]
  /\ UNCHANGED last

Leave(c) ==
  /\ conn[c] # "away" /\ Done(c)
  /\ Away({c})
  /\ UNCHANGED <<log, stream, task, persist, process>>

\* The connection is lost.
Disconnect(c) ==
  /\ conn[c] # "away" /\ ~Done(c)
  /\ Away({c})
  /\ UNCHANGED <<log, stream, task, persist, process>>

-----------------------------------------------------------------------------
(* The process.                                                            *)

\* Requests have ended; AppContext.shutdown begins, and cancels the tasks.
Shutdown ==
  /\ mode = "up" /\ restarts < MaxRestarts
  /\ mode' = "stopping"
  /\ request' = "idle" /\ highest' = 0 /\ refusals' = 0 /\ cancelled' = 0
  /\ Away(Client)
  /\ UNCHANGED <<log, stream, row, closing, cancels, resumes, persist, restarts, faults>>

\* Mutant of TasksEnded: the persister is stopped without waiting for the tasks.
TasksEndedOrNot == TRUE

TasksEnded == row \notin Working /\ closing = 0

\* Once the tasks have ended, or 30 seconds later, the persister is stopped.
StopPersister ==
  /\ mode = "stopping" /\ worker = "on"
  /\ \/ TasksEnded /\ UNCHANGED faults
     \/ ~TasksEnded /\ Fault
  /\ worker' = "stopping"
  /\ UNCHANGED <<log, stream, task, waiting, batch, table, overflowed, clients, mode, restarts>>

\* What the process held is gone. A task that ran is never resumed: its row stays as
\* it was.
Gone ==
  /\ mode' = "down" /\ stream' = NoStream
  /\ closing' = 0 /\ request' = "idle" /\ highest' = 0 /\ refusals' = 0 /\ cancelled' = 0
  /\ row' = CASE row = "running" -> "stranded" [] row = "cancelling" -> "over" [] OTHER -> row
  /\ waiting' = <<>> /\ batch' = <<>> /\ worker' = "off"
  /\ Away(Client)
  /\ UNCHANGED <<log, cancels, resumes, table, overflowed>>

Exit == mode = "stopping" /\ worker = "off" /\ Gone /\ UNCHANGED <<restarts, faults>>

Crash == mode # "down" /\ restarts < MaxRestarts /\ Fault /\ Gone /\ UNCHANGED restarts

Restart ==
  /\ mode = "down" /\ restarts < MaxRestarts
  /\ mode' = "up" /\ worker' = "on" /\ restarts' = restarts + 1
  /\ UNCHANGED <<log, stream, task, waiting, batch, table, overflowed, clients, faults>>

-----------------------------------------------------------------------------
ClientStep(c) == Connect(c) \/ Receive(c) \/ Leave(c) \/ Disconnect(c)

Next ==
  \/ Announce \/ Accept \/ Reject \/ Emit \/ Release \/ Finish
  \/ Cancel \/ CancelPublished
  \/ Claim \/ Fetch \/ Reopen \/ Resume \/ Restore \/ CloseRefused
  \/ Take \/ Flush \/ FlushFails \/ Drain \/ Drained \/ DrainTimesOut
  \/ \E c \in Client : ClientStep(c)
  \/ Shutdown \/ StopPersister \/ Exit \/ Crash \/ Restart

Spec == Init /\ [][Next]_vars

\* A client reads what it is sent, and its generator ends at the next heartbeat once
\* there is nothing more to come. Nothing else is assumed.
FairSpec == Spec /\ \A c \in Client : WF_vars(Receive(c)) /\ WF_vars(Leave(c))

-----------------------------------------------------------------------------
(* Properties.                                                             *)

\* A batch that is written stores every one of its events: no event finds its number
\* taken by another, in this process or after a restart (INSERT IGNORE would drop it
\* and say nothing).
FlushedIsStored ==
  [][Flush => \A e \in Range(batch) : table'[log[e].number] = e]_vars

Accounted(e) ==
  \/ e \in Range(waiting) \cup Range(batch) \cup overflowed
  \/ table[log[e].number] = e

\* Unless something fails, every event that is to be kept is queued, being written,
\* stored, or was dropped from a full queue: the tasks end, and then the persister
\* drains its queue, before the process exits.
NothingVanishes == faults = 0 => \A e \in Events : log[e].kept => Accounted(e)

\* No number was given twice, as far as the process can help it: there was no restart,
\* or none but orderly ones of a run whose events are all kept.
Unbroken == restarts = 0 \/ (faults = 0 /\ \A e \in Events : log[e].kept)

\* What a client was sent last and what is queued for it have increasing numbers: it is
\* sent no event twice and none out of order, on the stream it follows or on the one
\* it comes back to. And when it comes back with the number of its last event, it is
\* refused no later event for having a number that is not higher.
InOrder ==
  Unbroken => \A c \in Client :
    LET sent == (IF last[c] = 0 THEN <<>> ELSE <<last[c]>>) \o inbox[c]
    IN /\ \A i, j \in DOMAIN sent : i < j => log[sent[i]].number < log[sent[j]].number
       /\ last[c] # 0 =>
            \A e \in Events : e > last[c] => log[e].number > log[last[c]].number

\* A client that is let go because the trace is closed has been sent its last event,
\* unless it was dropped for being slow, or asked for later events than there are.
LeavesInformed ==
  [][\A c \in Client :
       Leave(c) /\ conn[c] = "open" /\ stream.replay # <<>> =>
         /\ last[c] # 0
         /\ log[last[c]].number >= log[stream.replay[Len(stream.replay)]].number]_vars

\* Once the trace is closed for good, every client is let go, even one that was dropped.
ClientsReleased ==
  \A c \in Client : <>[](stream.closed) => []<>(conn[c] = "away")

\* Violated: numbers resume from the highest persisted one after a restart.
NumbersResume ==
  [][Len(log') > Len(log) =>
       \A n \in Id : table[n] # 0 => log'[Len(log')].number > n]_vars
=============================================================================
