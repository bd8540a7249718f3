------------------------------ MODULE MessageBus ------------------------------
(***************************************************************************)
(* The message bus of the agents (multi_agents/bus.py): a queue per        *)
(* registration of an agent, the low-priority messages a filtered receive()*)
(* puts aside, and their way back into a queue. A receive() keeps the queue*)
(* object it got: when the agent is unregistered it goes on with a queue   *)
(* that the bus no longer has. Puts never wait, for the queues are         *)
(* unbounded; each get with a timeout lets others run.                     *)
(***************************************************************************)
EXTENDS Naturals, Sequences, FiniteSets, SequencesExt

CONSTANTS
  Agents,    \* agents
  Receiver,  \* concurrent calls of receive()
  MaxSent,   \* bound on the messages sent
  MaxQueues  \* bound on the registrations of an agent, each with a queue of its own

Message == [id : 1..MaxSent, urgent : BOOLEAN]

VARIABLES
  queues,   \* the Queue objects of each agent, those no longer in _queues too
  current,  \* _queues: the number of the agent's queue, 0 when it is not registered
  made,     \* how many queues register_agent() has made for the agent
  deferred, \* _deferred
  history,  \* _history, with the receivers
  got,      \* history: what each agent has received
  gone,     \* history: what reset_stats() and drain_deferred() have discarded
  waits     \* the calls of receive(): agent, the queue they hold, filter

vars == <<queues, current, made, deferred, history, got, gone, waits>>

NotWaiting == [agent |-> "none", queue |-> 0, urgent |-> FALSE]

TypeOK ==
  /\ queues \in [Agents -> [1..MaxQueues -> Seq(Message)]]
  /\ made \in [Agents -> 1..MaxQueues]
  /\ \A a \in Agents : current[a] \in {0, made[a]}
  /\ deferred \in [Agents -> Seq(Message)] /\ got \in [Agents -> Seq(Message)]
  /\ gone \in [Agents -> SUBSET Message]
  /\ \A r \in Receiver :
       waits[r] # NotWaiting =>
         /\ waits[r].agent \in Agents /\ waits[r].queue \in 1..made[waits[r].agent]
         /\ waits[r].urgent \in BOOLEAN

Registered(a) == current[a] # 0

Init ==
  /\ queues = [a \in Agents |-> [q \in 1..MaxQueues |-> <<>>]]
  /\ current = [a \in Agents |-> 1] /\ made = [a \in Agents |-> 1]
  /\ deferred = [a \in Agents |-> <<>>] /\ got = [a \in Agents |-> <<>>]
  /\ gone = [a \in Agents |-> {}]
  /\ history = <<>>
  /\ waits = [r \in Receiver |-> NotWaiting]

\* A message for an agent, or for all but its sender; one that has outlived its
\* TTL is not sent, one for an agent that is not registered reaches nobody.
Send(urgent, to) ==
  /\ Len(history) < MaxSent
  /\ LET m    == [id |-> Len(history) + 1, urgent |-> urgent]
         here == {a \in to : Registered(a)}
     IN  /\ history' = Append(history, [message |-> m, to |-> here])
         /\ queues' = [a \in Agents |->
                         IF a \in here
                           THEN [queues[a] EXCEPT ![current[a]] = Append(@, m)]
                           ELSE queues[a]]
  /\ UNCHANGED <<current, made, deferred, got, gone, waits>>

BeginReceive(r, a, urgent) ==
  /\ waits[r] = NotWaiting /\ Registered(a)
  /\ waits' = [waits EXCEPT ![r] = [agent |-> a, queue |-> current[a], urgent |-> urgent]]
  /\ UNCHANGED <<queues, current, made, deferred, history, got, gone>>

\* Mutant of Requeued: the messages put aside come back, and stay aside.
RequeuedKept(a) == deferred[a]

\* What is left aside after the way back.
Requeued(a) == <<>>

\* The head of the queue the call holds is returned, and what was put aside under
\* the agent's name goes to the tail of that queue; or the head is put aside.
Receive(r) ==
  LET a == waits[r].agent
      q == waits[r].queue
      m == Head(queues[a][q])
  IN  /\ waits[r] # NotWaiting /\ queues[a][q] # <<>>
      /\ IF m.urgent \/ ~waits[r].urgent
           THEN /\ got' = [got EXCEPT ![a] = Append(@, m)]
                /\ queues' = [queues EXCEPT ![a][q] = Tail(@) \o deferred[a]]
                /\ deferred' = [deferred EXCEPT ![a] = Requeued(a)]
                /\ waits' = [waits EXCEPT ![r] = NotWaiting]
           ELSE /\ queues' = [queues EXCEPT ![a][q] = Tail(@)]
                /\ deferred' = [deferred EXCEPT ![a] = Append(@, m)]
                /\ UNCHANGED <<got, waits>>
      /\ UNCHANGED <<current, made, history, gone>>

\* A timeout leaves what was put aside where it is.
TimeOut(r) ==
  /\ waits[r] # NotWaiting /\ waits' = [waits EXCEPT ![r] = NotWaiting]
  /\ UNCHANGED <<queues, current, made, deferred, history, got, gone>>

\* What was put aside is taken first; without a queue to put it in it is lost.
DrainDeferred(a) ==
  /\ deferred[a] # <<>> /\ deferred' = [deferred EXCEPT ![a] = <<>>]
  /\ \/ /\ Registered(a)
        /\ queues' = [queues EXCEPT ![a][current[a]] = @ \o deferred[a]]
        /\ UNCHANGED gone
     \/ /\ ~Registered(a)
        /\ gone' = [gone EXCEPT ![a] = @ \cup ToSet(deferred[a])]
        /\ UNCHANGED queues
  /\ UNCHANGED <<current, made, history, got, waits>>

\* reset_stats() clears what was put aside along with the figures.
ResetStats ==
  /\ \E a \in Agents : deferred[a] # <<>>
  /\ gone' = [a \in Agents |-> gone[a] \cup ToSet(deferred[a])]
  /\ deferred' = [a \in Agents |-> <<>>]
  /\ UNCHANGED <<queues, current, made, history, got, waits>>

\* The bus forgets the queue, whoever waits for it and whatever is in it; what was
\* put aside is kept for whoever registers under the name.
Unregister(a) ==
  /\ Registered(a) /\ current' = [current EXCEPT ![a] = 0]
  /\ UNCHANGED <<queues, made, deferred, history, got, gone, waits>>

Register(a) ==
  /\ ~Registered(a) /\ made[a] < MaxQueues
  /\ made' = [made EXCEPT ![a] = @ + 1]
  /\ current' = [current EXCEPT ![a] = made[a] + 1]
  /\ UNCHANGED <<queues, deferred, history, got, gone, waits>>

Next ==
  \/ \E u \in BOOLEAN, to \in (SUBSET Agents) \ {{}} : Send(u, to)
  \/ \E r \in Receiver : Receive(r) \/ TimeOut(r)
  \/ \E r \in Receiver, a \in Agents, u \in BOOLEAN : BeginReceive(r, a, u)
  \/ \E a \in Agents : DrainDeferred(a) \/ Unregister(a) \/ Register(a)
  \/ ResetStats

Spec == Init /\ [][Next]_vars

-----------------------------------------------------------------------------
(* Properties.                                                             *)

\* The places a message for an agent can be in: one of its queues, aside (0), or
\* received.
Received == MaxQueues + 1
At(a, p) ==
  CASE p = 0 -> deferred[a] [] p = Received -> got[a] [] OTHER -> queues[a][p]
Copies(m, a) ==
  UNION {{<<p, i>> : i \in {j \in 1..Len(At(a, p)) : At(a, p)[j] = m}} : p \in 0..Received}

\* Whatever filtered receives put aside and put back, and whoever registers and
\* unregisters while they wait, a message that was sent to an agent is in one place,
\* once: it is received at most once, by its addressee, and what is not received is
\* in a queue, possibly one that the bus has forgotten, or put aside, unless
\* reset_stats() or a drain_deferred() without a queue has discarded it.
DeliveredOnce ==
  \A i \in 1..Len(history), a \in Agents :
    Cardinality(Copies(history[i].message, a))
      = IF a \in history[i].to /\ history[i].message \notin gone[a] THEN 1 ELSE 0

\* What receive() says of the list of messages put aside: it keeps their order.
\* The messages of one priority are received in the order they were sent.
OrderKept ==
  \A a \in Agents : \A i, j \in 1..Len(got[a]) :
    (i < j /\ got[a][i].urgent = got[a][j].urgent) => got[a][i].id < got[a][j].id
=============================================================================
