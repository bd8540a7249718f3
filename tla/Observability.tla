---------------------------- MODULE Observability ----------------------------
(***************************************************************************)
(* The log service and the alert service (infra/observability): a bounded  *)
(* queue, a worker that empties it, and a stop() that waits for a while.   *)
(* Both are of one shape; they differ in how stop() empties the queue, in  *)
(* what an interrupted write leaves, and in the alerts' deduplication.     *)
(***************************************************************************)
EXTENDS Naturals, Sequences, FiniteSets, SequencesExt

CONSTANTS
  MaxItems, \* bound on the logs or alerts handed in
  QueueSize \* maxsize of the queue, not 0

Item == 1..MaxItems

VARIABLES
  service,  \* "log" or "alert"
  running,  \* _running
  stop,     \* where stop() stands
  queue,    \* queue
  worker,   \* where the worker stands
  held,     \* the item whose write the worker awaits, and that of stop()
  sent,     \* items handed in so far, with their dedup_key (0 for none)
  recent,   \* dedup keys of the last minute
  fate      \* history: what became of each item

vars == <<service, running, stop, queue, worker, held, sent, recent, fate>>

Init ==
  /\ service \in {"log", "alert"}
  /\ running = FALSE /\ stop = "down" /\ worker = "none"
  /\ queue = <<>> /\ held = [worker |-> 0, stop |-> 0]
  /\ sent = <<>> /\ recent = {} /\ fate = <<>>

Start ==
  /\ stop = "down" /\ running' = TRUE /\ stop' = "up" /\ worker' = "get"
  /\ queue' = <<>>
  /\ UNCHANGED <<service, held, sent, recent, fate>>

\* What happens to an item that is handed in, critical or not: without room a
\* critical log goes to a file, if that can be written.
Hand(critical, key) ==
  IF ~running THEN {"ignored"}
  ELSE IF key \in recent THEN {"suppressed"}
  ELSE IF Len(queue) < QueueSize THEN {"accepted"}
  ELSE IF service = "log" /\ critical THEN {"dropped", "file"} ELSE {"dropped"}

\* log(), or send_alert(), whose key is remembered whether there is room or not.
HandIn(critical, key) ==
  /\ Len(sent) < MaxItems /\ (key = 0 \/ service = "alert")
  /\ sent' = Append(sent, key)
  /\ \E f \in Hand(critical, key) :
       /\ fate' = Append(fate, f)
       /\ queue' = IF f = "accepted" THEN Append(queue, Len(sent) + 1) ELSE queue
  /\ recent' = IF running /\ key # 0 THEN recent \cup {key} ELSE recent
  /\ UNCHANGED <<service, running, stop, worker, held>>

Forget(key) ==
  /\ key \in recent /\ recent' = recent \ {key}
  /\ UNCHANGED <<service, running, stop, queue, worker, held, sent, fate>>

-----------------------------------------------------------------------------
(* The worker.                                                             *)

\* Mutant of Rest: an item is read, and taken out when it is done.
RestUntilDone == queue

\* The queue without the item that is taken.
Rest == Tail(queue)

Get ==
  /\ worker = "get" /\ queue # <<>>
  /\ held' = [held EXCEPT !.worker = Head(queue)] /\ queue' = Rest
  /\ worker' = "write"
  /\ UNCHANGED <<service, running, stop, sent, recent, fate>>

\* The write returns or raises; the worker looks at _running before the next.
Written ==
  /\ worker = "write"
  /\ \E f \in {"written", "failed"} : fate' = [fate EXCEPT ![held.worker] = f]
  /\ held' = [held EXCEPT !.worker = 0]
  /\ worker' = IF running THEN "get" ELSE "none"
  /\ UNCHANGED <<service, running, stop, queue, sent, recent>>

-----------------------------------------------------------------------------
(* stop().                                                                 *)

BeginStop ==
  /\ stop = "up" /\ running' = FALSE
  /\ stop' = IF queue = <<>> THEN "cancel" ELSE "drain"
  /\ UNCHANGED <<service, queue, worker, held, sent, recent, fate>>

\* The log service empties the queue itself; the alert service waits for the
\* worker.
Drain ==
  /\ service = "log" /\ stop = "drain" /\ held.stop = 0 /\ queue # <<>>
  /\ held' = [held EXCEPT !.stop = Head(queue)] /\ queue' = Rest
  /\ UNCHANGED <<service, running, stop, worker, sent, recent, fate>>

DrainWritten ==
  /\ stop = "drain" /\ held.stop # 0
  /\ \E f \in {"written", "failed"} : fate' = [fate EXCEPT ![held.stop] = f]
  /\ held' = [held EXCEPT !.stop = 0]
  /\ UNCHANGED <<service, running, stop, queue, worker, sent, recent>>

\* The alert service also waits for what the worker has taken (queue.join).
DrainDone ==
  /\ stop = "drain" /\ queue = <<>> /\ held.stop = 0
  /\ service = "alert" => held.worker = 0
  /\ stop' = "cancel"
  /\ UNCHANGED <<service, running, queue, worker, held, sent, recent, fate>>

\* drain_timeout. The thread that writes a log goes on.
DrainTimeout ==
  /\ stop = "drain" /\ stop' = "cancel"
  /\ held' = [held EXCEPT !.stop = 0]
  /\ fate' = [i \in DOMAIN fate |->
       IF i \in ToSet(queue) THEN "timed_out"
       ELSE IF i = held.stop THEN "written" ELSE fate[i]]
  /\ queue' = <<>>
  /\ UNCHANGED <<service, running, worker, sent, recent>>

\* The worker is cancelled: the thread that writes a log goes on, the
\* coroutine that sends an alert is broken off.
Cancel ==
  /\ stop = "cancel" /\ stop' = "down" /\ worker' = "none"
  /\ fate' = IF held.worker = 0 THEN fate
             ELSE [fate EXCEPT ![held.worker] = IF service = "log" THEN "written"
                                                ELSE "broken_off"]
  /\ held' = [held EXCEPT !.worker = 0] /\ queue' = <<>>
  /\ UNCHANGED <<service, running, sent, recent>>

Next ==
  \/ Start \/ Get \/ Written \/ BeginStop
  \/ \E critical \in BOOLEAN, key \in 0..1 : HandIn(critical, key)
  \/ Forget(1)
  \/ Drain \/ DrainWritten \/ DrainDone \/ DrainTimeout \/ Cancel

Spec == Init /\ [][Next]_vars

-----------------------------------------------------------------------------
(* Properties.                                                             *)

TypeOK ==
  /\ running \in BOOLEAN /\ stop \in {"up", "drain", "cancel", "down"}
  /\ worker \in {"none", "get", "write"} /\ queue \in Seq(Item)
  /\ held.worker \in Item \cup {0} /\ held.stop \in Item \cup {0}
  /\ recent \subseteq {1} /\ Len(fate) = Len(sent)

\* An accepted item is in the queue, in one hand or settled, and in one of them
\* only, across restarts (_worker, _drain_remaining, stop).
AcceptedIsHeld ==
  \A i \in DOMAIN fate :
    LET places == (IF i \in ToSet(queue) THEN 1 ELSE 0)
                  + (IF held.worker = i THEN 1 ELSE 0) + (IF held.stop = i THEN 1 ELSE 0)
    IN  places = IF fate[i] = "accepted" THEN 1 ELSE 0

\* While stop() waits for the queue of alerts, somebody empties it (stop:
\* "AlertService draining").
AlertDrainAdvances ==
  (service = "alert" /\ stop = "drain") => worker # "none" \/ queue = <<>>

\* A suppressed alert repeats one that was accepted (_is_duplicate).
SuppressedRepeats ==
  \A i \in DOMAIN fate : fate[i] = "suppressed" =>
    \E j \in 1..(i - 1) : sent[j] = sent[i] /\ fate[j] \notin {"dropped", "ignored", "suppressed"}
=============================================================================
