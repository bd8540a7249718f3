---------------------------- MODULE ConnectionPool ----------------------------
(***************************************************************************)
(* The pool of MySQL connections (infra/database/mysql/pool.py): fetch,    *)
(* save and transaction() take a connection, run statements on it and give *)
(* it back, whatever fails or is cancelled on the way; the pool is created *)
(* when the application starts, or by whoever needs it first, and closed   *)
(* at shutdown. Chat rows are written in a transaction of two statements,  *)
(* a single row in one statement that commits at once. A batch of rows     *)
(* (events, codes, subscriptions) goes through executemany, which sends it *)
(* in as many statements as its length needs; the connections commit every *)
(* statement by itself, so what a batch has sent before it fails stays.    *)
(***************************************************************************)
EXTENDS Naturals, FiniteSets

CONSTANTS
  Coroutine, \* callers of the pool
  MaxSize,   \* maxsize of a pool, not 0
  MaxPools   \* bound on the pools that are created

Pool == 1..MaxPools
Connection == Pool \X (1..MaxSize)

\* The kinds of call, and the number of statements of each that write: a batch is
\* one too long for one statement (a shorter one is a save).
Writes == [none |-> 0, fetch |-> 0, save |-> 1, batch |-> 2, transaction |-> 2]

VARIABLES
  pools,   \* the state of each pool that create_pool has made
  default, \* pools["default"], 0 before there is one
  kind, pc, conn, \* each caller: its call, where it stands, its connection
  reply,   \* what its caller was told
  begun,   \* connections in a transaction
  pending, \* what each connection has written and not committed
  broken,  \* connections that are closed
  table    \* the writes that are committed

vars == <<pools, default, kind, pc, conn, reply, begun, pending, broken, table>>

NoConnection == <<0, 0>>

\* A pool that is closing gives out nothing; it is closed once all is back.
PoolState == {"absent", "open", "closing", "closed"}

Init ==
  /\ pools = [p \in Pool |-> "absent"] /\ default = 0
  /\ kind = [c \in Coroutine |-> "none"] /\ pc = [c \in Coroutine |-> "idle"]
  /\ conn = [c \in Coroutine |-> NoConnection]
  /\ reply = [c \in Coroutine |-> "none"]
  /\ begun = {} /\ pending = [k \in Connection |-> {}] /\ broken = {}
  /\ table = {}

-----------------------------------------------------------------------------
(* Pools.                                                                  *)

\* create_pool has returned: whatever was "default" is replaced.
InitPools ==
  \E p \in Pool :
    /\ pools[p] = "absent" /\ \A q \in 1..(p - 1) : pools[q] # "absent"
    /\ pools' = [pools EXCEPT ![p] = "open"] /\ default' = p

\* AppContext.start_up, before any request is served.
StartUp ==
  /\ default = 0 /\ \A c \in Coroutine : pc[c] = "idle"
  /\ InitPools
  /\ UNCHANGED <<kind, pc, conn, reply, begun, pending, broken, table>>

\* close_pools: the pool that is registered, if there is one.
ClosePools ==
  /\ default # 0 /\ pools[default] = "open"
  /\ pools' = [pools EXCEPT ![default] = "closing"]
  /\ UNCHANGED <<default, kind, pc, conn, reply, begun, pending, broken, table>>

Used == {conn[c] : c \in Coroutine} \ {NoConnection}

\* wait_closed
WaitClosed ==
  \E p \in Pool :
    /\ pools[p] = "closing" /\ \A k \in Used : k[1] # p
    /\ pools' = [pools EXCEPT ![p] = "closed"]
    /\ UNCHANGED <<default, kind, pc, conn, reply, begun, pending, broken, table>>

-----------------------------------------------------------------------------
(* A call.                                                                 *)

Goto(c, step) == pc' = [pc EXCEPT ![c] = step]

PoolFrame == UNCHANGED <<pools, default>>

\* async_fetch, async_save or transaction(): without a pool the caller makes one.
Call(c, k) ==
  /\ pc[c] = "idle" /\ kind' = [kind EXCEPT ![c] = k]
  /\ Goto(c, IF default = 0 THEN "init" ELSE "acquire")
  /\ conn' = [conn EXCEPT ![c] = <<default, 0>>]
  /\ PoolFrame /\ UNCHANGED <<reply, begun, pending, broken, table>>

\* init_pools() on demand; without the pool after all, the call raises.
InitOnDemand(c) ==
  /\ pc[c] = "init"
  /\ \/ /\ InitPools /\ Goto(c, "acquire")
        /\ conn' = [conn EXCEPT ![c] = <<default', 0>>] /\ UNCHANGED reply
     \/ /\ Goto(c, "done") /\ reply' = [reply EXCEPT ![c] = "error"]
        /\ conn' = [conn EXCEPT ![c] = NoConnection] /\ PoolFrame
  /\ UNCHANGED <<kind, begun, pending, broken, table>>

\* pool.acquire(): a connection nobody uses, a new one in place of a closed one;
\* a pool that is closing refuses.
Acquire(c) ==
  /\ pc[c] = "acquire"
  /\ IF pools[conn[c][1]] = "open"
       THEN \E k \in Connection :
              /\ k[1] = conn[c][1] /\ k \notin Used
              /\ conn' = [conn EXCEPT ![c] = k] /\ broken' = broken \ {k}
              /\ Goto(c, IF kind[c] = "transaction" THEN "begin" ELSE "run")
              /\ UNCHANGED reply
       ELSE /\ conn' = [conn EXCEPT ![c] = NoConnection] /\ UNCHANGED broken
            /\ Goto(c, "done") /\ reply' = [reply EXCEPT ![c] = "error"]
  /\ PoolFrame /\ UNCHANGED <<kind, begun, pending, table>>

\* Mutant of Begin: transaction() relies on the connection as it is.
BeginAutocommit(k) == begun

\* conn.begin(): until the end of the transaction nothing is committed.
Begin(k) == begun \cup {k}

BeginTransaction(c) ==
  /\ pc[c] = "begin" /\ begun' = Begin(conn[c]) /\ Goto(c, "run")
  /\ PoolFrame /\ UNCHANGED <<kind, conn, reply, pending, broken, table>>

Written(c) == table \cup pending[conn[c]]

\* The next write of c.
NextWrite(c) == <<c, Cardinality({w \in Written(c) : w[1] = c}) + 1>>

\* A statement: on a connection without a transaction it is committed (the pools
\* are made with autocommit), whether or not it is the last of its call.
Execute(c) ==
  /\ pc[c] = "run" /\ conn[c] \notin broken
  /\ NextWrite(c)[2] <= Writes[kind[c]]
  /\ IF conn[c] \in begun
       THEN pending' = [pending EXCEPT ![conn[c]] = @ \cup {NextWrite(c)}] /\ UNCHANGED table
       ELSE table' = table \cup {NextWrite(c)} /\ UNCHANGED pending
  /\ PoolFrame /\ UNCHANGED <<kind, pc, conn, reply, begun, broken>>

\* The rows have been fetched, or what was to be written is: commit(), which a
\* fetch does without.
Commit(c) ==
  /\ pc[c] = "run" /\ conn[c] \notin broken
  /\ NextWrite(c)[2] > Writes[kind[c]]
  /\ table' = Written(c) /\ pending' = [pending EXCEPT ![conn[c]] = {}]
  /\ begun' = begun \ {conn[c]}
  /\ \/ Goto(c, "release") /\ reply' = [reply EXCEPT ![c] = "ok"]
     \/ Goto(c, "rollback") /\ UNCHANGED reply      \* committed, and its answer lost
  /\ PoolFrame /\ UNCHANGED <<kind, conn, broken>>

\* A statement, or the commit, raises.
Fails(c) ==
  /\ pc[c] \in {"begin", "run"}
  /\ \/ UNCHANGED <<begun, pending, broken>>
     \/ /\ broken' = broken \cup {conn[c]}          \* the connection is lost
        /\ begun' = begun \ {conn[c]} /\ pending' = [pending EXCEPT ![conn[c]] = {}]
  /\ Goto(c, IF pc[c] = "begin" \/ kind[c] = "fetch" THEN "release" ELSE "rollback")
  /\ reply' = [reply EXCEPT ![c] = "error"]
  /\ PoolFrame /\ UNCHANGED <<kind, conn, table>>

\* The handler of the exception; rollback() raises on a connection that is lost.
\* It undoes a transaction; statements that committed by themselves stay.
Rollback(c) ==
  /\ pc[c] = "rollback"
  /\ begun' = begun \ {conn[c]} /\ pending' = [pending EXCEPT ![conn[c]] = {}]
  /\ Goto(c, "release") /\ reply' = [reply EXCEPT ![c] = "error"]
  /\ PoolFrame /\ UNCHANGED <<kind, conn, broken, table>>

\* CancelledError is no Exception: nothing is rolled back. The driver closes a
\* connection whose answer nobody awaits any more.
Cancelled(c) ==
  /\ pc[c] \in {"init", "acquire", "begin", "run", "rollback"}
  /\ reply' = [reply EXCEPT ![c] = "cancelled"]
  /\ IF conn[c][2] = 0
       THEN Goto(c, "done") /\ conn' = [conn EXCEPT ![c] = NoConnection]
            /\ UNCHANGED <<begun, pending, broken>>
       ELSE /\ Goto(c, "release") /\ UNCHANGED conn
            /\ \/ UNCHANGED <<begun, pending, broken>>  \* between two statements
               \/ /\ broken' = broken \cup {conn[c]}
                  /\ begun' = begun \ {conn[c]}
                  /\ pending' = [pending EXCEPT ![conn[c]] = {}]
  /\ PoolFrame /\ UNCHANGED <<kind, table>>

\* The connection goes back; the driver closes one that is in a transaction, and
\* the server drops what it has not committed.
Release(c) ==
  /\ pc[c] = "release" /\ Goto(c, "done")
  /\ conn' = [conn EXCEPT ![c] = NoConnection]
  /\ broken' = IF conn[c] \in begun THEN broken \cup {conn[c]} ELSE broken
  /\ begun' = begun \ {conn[c]} /\ pending' = [pending EXCEPT ![conn[c]] = {}]
  /\ PoolFrame /\ UNCHANGED <<kind, reply, table>>

Next ==
  \/ StartUp \/ ClosePools \/ WaitClosed
  \/ \E c \in Coroutine :
       \/ \E k \in DOMAIN Writes \ {"none"} : Call(c, k)
       \/ InitOnDemand(c) \/ Acquire(c) \/ BeginTransaction(c) \/ Execute(c)
       \/ Commit(c) \/ Fails(c) \/ Rollback(c) \/ Cancelled(c) \/ Release(c)

Spec == Init /\ [][Next]_vars

-----------------------------------------------------------------------------
(* Properties.                                                             *)

TypeOK ==
  /\ pools \in [Pool -> PoolState] /\ default \in Pool \cup {0}
  /\ kind \in [Coroutine -> DOMAIN Writes]
  /\ reply \in [Coroutine -> {"none", "ok", "error", "cancelled"}]
  /\ begun \subseteq Connection /\ broken \subseteq Connection
  /\ table \subseteq Coroutine \X (1..2)

\* Of a transaction's writes all are committed or none, whatever failed or was
\* cancelled and whoever uses its connection next (transaction(): commit, or
\* rollback on an exception). A batch that failed or was cancelled may be there in
\* part: async_save has no transaction to undo. Of every kind of call, what the
\* caller was told is written is committed to the last row.
CommittedWhole ==
  \A c \in Coroutine :
    LET done == Cardinality({w \in table : w[1] = c})
    IN  /\ kind[c] # "batch" => done \in {0, Writes[kind[c]]}
        /\ reply[c] = "ok" => done = Writes[kind[c]]

\* A pool that was made is open under its name, or has been closed: none is lost
\* with its connections (async_fetch: two first callers each make one).
NoPoolLost == \A p \in Pool : pools[p] = "open" => p = default
=============================================================================
