------------------------- MODULE ConnectionPoolProofs -------------------------
(***************************************************************************)
(* Proofs about the connection pool: the types of its state, that of the   *)
(* writes of a transaction all are committed or none, and that what any    *)
(* call reported as written is.                                            *)
(***************************************************************************)
EXTENDS ConnectionPool, FiniteSetTheorems, TLAPS
-----------------------------------------------------------------------------
(* The inductive invariant.                                                *)

Write == Coroutine \X (1..2)

Step == {"idle", "init", "acquire", "begin", "run", "rollback", "release", "done"}

\* A connection is held from acquire() to release().
Held(c) == conn[c] \in Connection

Typed ==
  /\ TypeOK
  /\ pc \in [Coroutine -> Step]
  /\ conn \in [Coroutine -> Connection \cup ((Pool \cup {0}) \X {0})]
  /\ pending \in [Connection -> SUBSET Write]

\* No connection is held twice, and none that is not held is in a transaction or
\* has something written and not committed.
Exclusive ==
  /\ \A c, d \in Coroutine : Held(c) /\ conn[c] = conn[d] => c = d
  /\ \A k \in Connection :
       k \in begun \/ pending[k] # {} => \E c \in Coroutine : conn[c] = k

\* What is on c's connection is c's, in order, and none of it is in the table yet.
HeldClean(c) ==
  /\ conn[c] \in begun => kind[c] = "transaction" /\ pc[c] \in {"run", "rollback", "release"}
  /\ pending[conn[c]] # {} => conn[c] \in begun /\ <<c, 1>> \notin table
  /\ \A w \in pending[conn[c]] : w[1] = c
  /\ <<c, 2>> \in pending[conn[c]] => <<c, 1>> \in pending[conn[c]]

\* Until its commit a transaction is on a connection that does not commit by
\* itself, and nothing of it is in the table.
Intact(c) ==
  /\ Held(c) <=> pc[c] \in {"begin", "run", "rollback", "release"}
  /\ kind[c] = "none" <=> pc[c] = "idle"
  /\ pc[c] = "begin" => kind[c] = "transaction"
  /\ Held(c) => HeldClean(c)
  /\ <<c, 2>> \in table => <<c, 1>> \in table /\ kind[c] \in {"batch", "transaction"}
  /\ pc[c] \in {"idle", "init", "acquire", "begin"} \/ kind[c] = "fetch" => <<c, 1>> \notin table
  /\ kind[c] = "transaction" /\ <<c, 1>> \in table => <<c, 2>> \in table
  /\ kind[c] = "transaction" /\ pc[c] = "run" =>
       <<c, 1>> \notin table /\ (conn[c] \notin broken => conn[c] \in begun)
  /\ reply[c] = "ok" =>
       /\ pc[c] \in {"release", "done"} /\ (kind[c] # "fetch" => <<c, 1>> \in table)
       /\ kind[c] = "batch" => <<c, 2>> \in table

IInv == Typed /\ Exclusive /\ \A c \in Coroutine : Intact(c)

\* A step that is not c's: its state, what is on its connection and its rows stay.
Untouched(c) ==
  /\ kind'[c] = kind[c] /\ pc'[c] = pc[c] /\ conn'[c] = conn[c] /\ reply'[c] = reply[c]
  /\ \A i \in 1..2 : <<c, i>> \in table' <=> <<c, i>> \in table
  /\ Held(c) => /\ pending'[conn[c]] = pending[conn[c]]
                /\ conn[c] \in begun' <=> conn[c] \in begun
                /\ conn[c] \in broken' <=> conn[c] \in broken

\* The steps of one caller.
CallStep(c) ==
  \/ \E k \in DOMAIN Writes \ {"none"} : Call(c, k)
  \/ InitOnDemand(c) \/ Acquire(c) \/ BeginTransaction(c) \/ Execute(c)
  \/ Commit(c) \/ Fails(c) \/ Rollback(c) \/ Cancelled(c) \/ Release(c)

-----------------------------------------------------------------------------
(* Counting the writes of a call.                                          *)

\* Of a set of writes in which none of c's second writes is without its first,
\* the number of c's tells which they are: what Execute and Commit decide by.
LEMMA Count ==
  ASSUME NEW S, S \subseteq Write, NEW c \in Coroutine, <<c, 2>> \in S => <<c, 1>> \in S
  PROVE  Cardinality({w \in S : w[1] = c}) =
           IF <<c, 2>> \in S THEN 2 ELSE IF <<c, 1>> \in S THEN 1 ELSE 0
<1> DEFINE N == {w \in S : w[1] = c}
<1>a. \A w \in N : w = <<c, 1>> \/ w = <<c, 2>>
  BY DEF Write
<1>b. \A i \in 1..2 : <<c, i>> \in N <=> <<c, i>> \in S
  OBVIOUS
<1> HIDE DEF N
<1> SUFFICES Cardinality(N) = IF <<c, 2>> \in S THEN 2 ELSE IF <<c, 1>> \in S THEN 1 ELSE 0
  BY DEF N
<1>1. CASE <<c, 1>> \notin S
  <2>1. N = {}
    BY <1>1, <1>a, <1>b
  <2> QED
    BY <2>1, <1>1, FS_EmptySet
<1>2. CASE <<c, 1>> \in S /\ <<c, 2>> \notin S
  <2>1. N = {<<c, 1>>}
    BY <1>2, <1>a, <1>b
  <2> QED
    BY <2>1, <1>2, FS_Singleton
<1>3. CASE <<c, 1>> \in S /\ <<c, 2>> \in S
  <2>1. N = {<<c, 1>>} \cup {<<c, 2>>}
    BY <1>3, <1>a, <1>b
  <2>2. IsFiniteSet({<<c, 1>>}) /\ Cardinality({<<c, 1>>}) = 1
    BY FS_Singleton
  <2>3. <<c, 2>> \notin {<<c, 1>>}
    OBVIOUS
  <2>4. Cardinality({<<c, 1>>} \cup {<<c, 2>>}) = 1 + 1
    BY <2>2, <2>3, FS_AddElement
  <2>5. Cardinality(N) = 2
    BY <2>1, <2>4
  <2> QED
    BY <2>5, <1>3
<1> QED
  BY <1>1, <1>2, <1>3

\* A caller on a connection: which write its next one is.
LEMMA NextIs ==
  ASSUME IInv, NEW c \in Coroutine, Held(c)
  PROVE  /\ Written(c) \subseteq Write
         /\ <<c, 2>> \in Written(c) => <<c, 1>> \in Written(c)
         /\ <<c, 2>> \in Written(c) => NextWrite(c) = <<c, 3>>
         /\ <<c, 1>> \in Written(c) /\ <<c, 2>> \notin Written(c) => NextWrite(c) = <<c, 2>>
         /\ <<c, 1>> \notin Written(c) => NextWrite(c) = <<c, 1>>
<1>1. Written(c) \subseteq Write
  BY DEF IInv, Typed, TypeOK, Held, Written, Write
<1>2. <<c, 2>> \in Written(c) => <<c, 1>> \in Written(c)
  BY DEF IInv, Intact, HeldClean, Written
<1>3. Cardinality({w \in Written(c) : w[1] = c}) =
        IF <<c, 2>> \in Written(c) THEN 2 ELSE IF <<c, 1>> \in Written(c) THEN 1 ELSE 0
  BY <1>1, <1>2, Count
<1> QED
  BY <1>1, <1>2, <1>3 DEF NextWrite

\* The invariant implies what the runs check: a call's writes are all in the
\* table or none of them is.
LEMMA IntactImplies == IInv => CommittedWhole
<1> SUFFICES ASSUME IInv, NEW c \in Coroutine
             PROVE  LET done == Cardinality({w \in table : w[1] = c})
                    IN  /\ kind[c] # "batch" => done \in {0, Writes[kind[c]]}
                        /\ reply[c] = "ok" => done = Writes[kind[c]]
  BY DEF CommittedWhole
<1>0. Intact(c)
  BY DEF IInv
<1>1. Cardinality({w \in table : w[1] = c}) =
        IF <<c, 2>> \in table THEN 2 ELSE IF <<c, 1>> \in table THEN 1 ELSE 0
  BY <1>0, Count DEF IInv, Typed, TypeOK, Intact, Write
<1>2. kind[c] \in {"none", "fetch", "save", "batch", "transaction"}
  BY DEF IInv, Typed, TypeOK, Writes
<1>4. CASE kind[c] \in {"none", "fetch"}
  BY <1>0, <1>1, <1>4 DEF Intact, Writes
<1>5. CASE kind[c] = "save"
  BY <1>0, <1>1, <1>5 DEF Intact, Writes
<1>6. CASE kind[c] = "transaction"
  BY <1>0, <1>1, <1>6 DEF Intact, Writes
<1>7. CASE kind[c] = "batch"
  BY <1>0, <1>1, <1>7 DEF Intact, Writes
<1> QED
  BY <1>2, <1>4, <1>5, <1>6, <1>7

-----------------------------------------------------------------------------
(* The invariant is inductive.                                             *)

\* A pool without a connection is none: what a caller has before acquire().
LEMMA NotHeld == \A p : <<p, 0>> \notin Connection
  BY DEF Connection

\* What is not c's step leaves c intact.
LEMMA UntouchedIntact ==
  ASSUME NEW c \in Coroutine, Intact(c), Untouched(c) PROVE Intact(c)'
<1>1. Held(c)' <=> Held(c)
  BY DEF Held, Untouched
<1>2. <<c, 1>> \in table' <=> <<c, 1>> \in table
  BY DEF Untouched
<1>3. <<c, 2>> \in table' <=> <<c, 2>> \in table
  BY DEF Untouched
<1>4. Held(c) /\ HeldClean(c) => HeldClean(c)'
  BY <1>2 DEF HeldClean, Untouched
<1>5. Held(c) => (conn[c] \in begun' <=> conn[c] \in begun)
      /\ (conn[c] \in broken' <=> conn[c] \in broken)
  BY DEF Untouched
<1>6. kind'[c] = kind[c] /\ pc'[c] = pc[c] /\ conn'[c] = conn[c] /\ reply'[c] = reply[c]
  BY DEF Untouched
<1> QED
  BY <1>1, <1>2, <1>3, <1>4, <1>5, <1>6 DEF Intact

\* It holds before anyone has called.
LEMMA InitInv == Init => IInv
  BY NotHeld DEF Init, IInv, Typed, TypeOK, Exclusive, Intact, Step, Held, Pool, PoolState,
     Writes,
         NoConnection

\* No step leaves the types.
LEMMA TypedKept ==
  ASSUME MaxSize \in Nat, MaxPools \in Nat, IInv, [Next]_vars
  PROVE  Typed'
<1>1. ASSUME StartUp PROVE Typed'
  BY <1>1 DEF StartUp, InitPools, IInv, Typed, TypeOK, Pool, PoolState
<1>2. ASSUME ClosePools PROVE Typed'
  BY <1>2 DEF ClosePools, IInv, Typed, TypeOK, PoolState
<1>3. ASSUME WaitClosed PROVE Typed'
  BY <1>3 DEF WaitClosed, IInv, Typed, TypeOK, PoolState
<1>4. ASSUME NEW c \in Coroutine, NEW k \in DOMAIN Writes \ {"none"}, Call(c, k) PROVE Typed'
  <2>1. pools' \in [Pool -> PoolState] /\ default' \in Pool \cup {0}
    BY <1>4 DEF Call, Goto, PoolFrame, IInv, Typed, TypeOK, PoolState
  <2>2. kind' \in [Coroutine -> DOMAIN Writes]
    BY <1>4 DEF Call, Goto, PoolFrame, IInv, Typed, TypeOK
  <2>3. reply' \in [Coroutine -> {"none", "ok", "error", "cancelled"}]
    BY <1>4 DEF Call, Goto, PoolFrame, IInv, Typed, TypeOK
  <2>4. pc' \in [Coroutine -> Step]
    BY <1>4 DEF Call, Goto, PoolFrame, IInv, Typed, Step
  <2>5. conn' \in [Coroutine -> Connection \cup ((Pool \cup {0}) \X {0})]
    BY <1>4, <2>1 DEF Call, Goto, PoolFrame, IInv, Typed, TypeOK, NoConnection
  <2>6. begun' \subseteq Connection /\ broken' \subseteq Connection
    BY <1>4 DEF Call, Goto, PoolFrame, IInv, Typed, TypeOK, Intact, Held, Step
  <2>7. pending' \in [Connection -> SUBSET Write] /\ table' \subseteq Write
    BY <1>4 DEF Call, Goto, PoolFrame, IInv, Typed, TypeOK, Write
  <2> QED
    BY <2>1, <2>2, <2>3, <2>4, <2>5, <2>6, <2>7 DEF Typed, TypeOK, Write
<1>5. ASSUME NEW c \in Coroutine, InitOnDemand(c) PROVE Typed'
  <2>1. pools' \in [Pool -> PoolState] /\ default' \in Pool \cup {0}
    BY <1>5 DEF InitOnDemand, InitPools, Goto, PoolFrame, IInv, Typed, TypeOK, PoolState
  <2>2. kind' \in [Coroutine -> DOMAIN Writes]
    BY <1>5 DEF InitOnDemand, InitPools, Goto, PoolFrame, IInv, Typed, TypeOK
  <2>3. reply' \in [Coroutine -> {"none", "ok", "error", "cancelled"}]
    BY <1>5 DEF InitOnDemand, InitPools, Goto, PoolFrame, IInv, Typed, TypeOK
  <2>4. pc' \in [Coroutine -> Step]
    BY <1>5 DEF InitOnDemand, InitPools, Goto, PoolFrame, IInv, Typed, Step
  <2>5. conn' \in [Coroutine -> Connection \cup ((Pool \cup {0}) \X {0})]
    BY <1>5, <2>1 DEF InitOnDemand, InitPools, Goto, PoolFrame, IInv, Typed, TypeOK, NoConnection
  <2>6. begun' \subseteq Connection /\ broken' \subseteq Connection
    BY <1>5 DEF InitOnDemand, InitPools, Goto, PoolFrame, IInv, Typed, TypeOK, Intact, Held, Step
  <2>7. pending' \in [Connection -> SUBSET Write] /\ table' \subseteq Write
    BY <1>5 DEF InitOnDemand, InitPools, Goto, PoolFrame, IInv, Typed, TypeOK, Write
  <2> QED
    BY <2>1, <2>2, <2>3, <2>4, <2>5, <2>6, <2>7 DEF Typed, TypeOK, Write
<1>6. ASSUME NEW c \in Coroutine, Acquire(c) PROVE Typed'
  <2>1. pools' \in [Pool -> PoolState] /\ default' \in Pool \cup {0}
    BY <1>6 DEF Acquire, Goto, PoolFrame, Used, IInv, Typed, TypeOK, PoolState
  <2>2. kind' \in [Coroutine -> DOMAIN Writes]
    BY <1>6 DEF Acquire, Goto, PoolFrame, Used, IInv, Typed, TypeOK
  <2>3. reply' \in [Coroutine -> {"none", "ok", "error", "cancelled"}]
    BY <1>6 DEF Acquire, Goto, PoolFrame, Used, IInv, Typed, TypeOK
  <2>4. pc' \in [Coroutine -> Step]
    BY <1>6 DEF Acquire, Goto, PoolFrame, Used, IInv, Typed, Step
  <2>5. conn' \in [Coroutine -> Connection \cup ((Pool \cup {0}) \X {0})]
    BY <1>6, <2>1 DEF Acquire, Goto, PoolFrame, Used, IInv, Typed, TypeOK, NoConnection
  <2>6. begun' \subseteq Connection /\ broken' \subseteq Connection
    BY <1>6 DEF Acquire, Goto, PoolFrame, Used, IInv, Typed, TypeOK, Intact, Held, Step
  <2>7. pending' \in [Connection -> SUBSET Write] /\ table' \subseteq Write
    BY <1>6 DEF Acquire, Goto, PoolFrame, Used, IInv, Typed, TypeOK, Write
  <2> QED
    BY <2>1, <2>2, <2>3, <2>4, <2>5, <2>6, <2>7 DEF Typed, TypeOK, Write
<1>7. ASSUME NEW c \in Coroutine, BeginTransaction(c) PROVE Typed'
  <2>1. pools' \in [Pool -> PoolState] /\ default' \in Pool \cup {0}
    BY <1>7 DEF BeginTransaction, Begin, Goto, PoolFrame, IInv, Typed, TypeOK, PoolState
  <2>2. kind' \in [Coroutine -> DOMAIN Writes]
    BY <1>7 DEF BeginTransaction, Begin, Goto, PoolFrame, IInv, Typed, TypeOK
  <2>3. reply' \in [Coroutine -> {"none", "ok", "error", "cancelled"}]
    BY <1>7 DEF BeginTransaction, Begin, Goto, PoolFrame, IInv, Typed, TypeOK
  <2>4. pc' \in [Coroutine -> Step]
    BY <1>7 DEF BeginTransaction, Begin, Goto, PoolFrame, IInv, Typed, Step
  <2>5. conn' \in [Coroutine -> Connection \cup ((Pool \cup {0}) \X {0})]
    BY <1>7, <2>1 DEF BeginTransaction, Begin, Goto, PoolFrame, IInv, Typed, TypeOK, NoConnection
  <2>6. begun' \subseteq Connection /\ broken' \subseteq Connection
    BY <1>7 DEF BeginTransaction, Begin, Goto, PoolFrame, IInv, Typed, TypeOK, Intact, Held, Step
  <2>7. pending' \in [Connection -> SUBSET Write] /\ table' \subseteq Write
    BY <1>7 DEF BeginTransaction, Begin, Goto, PoolFrame, IInv, Typed, TypeOK, Write
  <2> QED
    BY <2>1, <2>2, <2>3, <2>4, <2>5, <2>6, <2>7 DEF Typed, TypeOK, Write
<1>8. ASSUME NEW c \in Coroutine, Execute(c) PROVE Typed'
  <2>1. Held(c) /\ kind[c] \in DOMAIN Writes
    BY <1>8 DEF Execute, IInv, Intact, Typed, TypeOK
  <2>a. NextWrite(c) \in {<<c, 1>>, <<c, 2>>, <<c, 3>>}
    BY <2>1, NextIs
  <2>b. Writes[kind[c]] \in {0, 1, 2}
    BY <2>1 DEF Writes
  <2>2. NextWrite(c) \in {<<c, 1>>, <<c, 2>>}
    BY <1>8, <2>a, <2>b DEF Execute
  <2>3. table' \subseteq Write /\ pending' \in [Connection -> SUBSET Write]
    BY <1>8, <2>1, <2>2 DEF Execute, IInv, Typed, TypeOK, Write, Held
  <2> QED
    BY <1>8, <2>3 DEF Execute, PoolFrame, IInv, Typed, TypeOK, Write
<1>9. ASSUME NEW c \in Coroutine, Commit(c) PROVE Typed'
  <2>1. Held(c)
    BY <1>9 DEF Commit, IInv, Intact
  <2>2. table' \subseteq Write /\ pending' \in [Connection -> SUBSET Write]
    BY <1>9, <2>1, NextIs DEF Commit, IInv, Typed, Held
  <2>3. begun' \subseteq Connection /\ reply' \in [Coroutine ->
                                              {"none", "ok", "error", "cancelled"}]
    BY <1>9 DEF Commit, IInv, Typed, TypeOK
  <2>4. pc' \in [Coroutine -> Step]
    BY <1>9 DEF Commit, Goto, IInv, Typed, Step
  <2> QED
    BY <1>9, <2>2, <2>3, <2>4 DEF Commit, PoolFrame, IInv, Typed, TypeOK, Write
<1>10. ASSUME NEW c \in Coroutine, Fails(c) PROVE Typed'
  <2>1. pools' \in [Pool -> PoolState] /\ default' \in Pool \cup {0}
    BY <1>10 DEF Fails, Goto, PoolFrame, IInv, Typed, TypeOK, PoolState
  <2>2. kind' \in [Coroutine -> DOMAIN Writes]
    BY <1>10 DEF Fails, Goto, PoolFrame, IInv, Typed, TypeOK
  <2>3. reply' \in [Coroutine -> {"none", "ok", "error", "cancelled"}]
    BY <1>10 DEF Fails, Goto, PoolFrame, IInv, Typed, TypeOK
  <2>4. pc' \in [Coroutine -> Step]
    BY <1>10 DEF Fails, Goto, PoolFrame, IInv, Typed, Step
  <2>5. conn' \in [Coroutine -> Connection \cup ((Pool \cup {0}) \X {0})]
    BY <1>10, <2>1 DEF Fails, Goto, PoolFrame, IInv, Typed, TypeOK, NoConnection
  <2>6. begun' \subseteq Connection /\ broken' \subseteq Connection
    BY <1>10 DEF Fails, Goto, PoolFrame, IInv, Typed, TypeOK, Intact, Held, Step
  <2>7. pending' \in [Connection -> SUBSET Write] /\ table' \subseteq Write
    BY <1>10 DEF Fails, Goto, PoolFrame, IInv, Typed, TypeOK, Write
  <2> QED
    BY <2>1, <2>2, <2>3, <2>4, <2>5, <2>6, <2>7 DEF Typed, TypeOK, Write
<1>11. ASSUME NEW c \in Coroutine, Rollback(c) PROVE Typed'
  <2>1. pools' \in [Pool -> PoolState] /\ default' \in Pool \cup {0}
    BY <1>11 DEF Rollback, Goto, PoolFrame, IInv, Typed, TypeOK, PoolState
  <2>2. kind' \in [Coroutine -> DOMAIN Writes]
    BY <1>11 DEF Rollback, Goto, PoolFrame, IInv, Typed, TypeOK
  <2>3. reply' \in [Coroutine -> {"none", "ok", "error", "cancelled"}]
    BY <1>11 DEF Rollback, Goto, PoolFrame, IInv, Typed, TypeOK
  <2>4. pc' \in [Coroutine -> Step]
    BY <1>11 DEF Rollback, Goto, PoolFrame, IInv, Typed, Step
  <2>5. conn' \in [Coroutine -> Connection \cup ((Pool \cup {0}) \X {0})]
    BY <1>11, <2>1 DEF Rollback, Goto, PoolFrame, IInv, Typed, TypeOK, NoConnection
  <2>6. begun' \subseteq Connection /\ broken' \subseteq Connection
    BY <1>11 DEF Rollback, Goto, PoolFrame, IInv, Typed, TypeOK, Intact, Held, Step
  <2>7. pending' \in [Connection -> SUBSET Write] /\ table' \subseteq Write
    BY <1>11 DEF Rollback, Goto, PoolFrame, IInv, Typed, TypeOK, Write
  <2> QED
    BY <2>1, <2>2, <2>3, <2>4, <2>5, <2>6, <2>7 DEF Typed, TypeOK, Write
<1>12. ASSUME NEW c \in Coroutine, Cancelled(c) PROVE Typed'
  <2>1. pools' \in [Pool -> PoolState] /\ default' \in Pool \cup {0}
    BY <1>12 DEF Cancelled, Goto, PoolFrame, IInv, Typed, TypeOK, PoolState
  <2>2. kind' \in [Coroutine -> DOMAIN Writes]
    BY <1>12 DEF Cancelled, Goto, PoolFrame, IInv, Typed, TypeOK
  <2>3. reply' \in [Coroutine -> {"none", "ok", "error", "cancelled"}]
    BY <1>12 DEF Cancelled, Goto, PoolFrame, IInv, Typed, TypeOK
  <2>4. pc' \in [Coroutine -> Step]
    BY <1>12 DEF Cancelled, Goto, PoolFrame, IInv, Typed, Step
  <2>5. conn' \in [Coroutine -> Connection \cup ((Pool \cup {0}) \X {0})]
    BY <1>12, <2>1 DEF Cancelled, Goto, PoolFrame, IInv, Typed, TypeOK, NoConnection
  <2>a. conn[c][2] # 0 => conn[c] \in Connection
    BY DEF IInv, Typed
  <2>6. begun' \subseteq Connection /\ broken' \subseteq Connection
    BY <1>12, <2>a DEF Cancelled, Goto, PoolFrame, IInv, Typed, TypeOK, Intact, Held, Step
  <2>7. pending' \in [Connection -> SUBSET Write] /\ table' \subseteq Write
    BY <1>12 DEF Cancelled, Goto, PoolFrame, IInv, Typed, TypeOK, Write
  <2> QED
    BY <2>1, <2>2, <2>3, <2>4, <2>5, <2>6, <2>7 DEF Typed, TypeOK, Write
<1>13. ASSUME NEW c \in Coroutine, Release(c) PROVE Typed'
  <2>1. pools' \in [Pool -> PoolState] /\ default' \in Pool \cup {0}
    BY <1>13 DEF Release, Goto, PoolFrame, IInv, Typed, TypeOK, PoolState
  <2>2. kind' \in [Coroutine -> DOMAIN Writes]
    BY <1>13 DEF Release, Goto, PoolFrame, IInv, Typed, TypeOK
  <2>3. reply' \in [Coroutine -> {"none", "ok", "error", "cancelled"}]
    BY <1>13 DEF Release, Goto, PoolFrame, IInv, Typed, TypeOK
  <2>4. pc' \in [Coroutine -> Step]
    BY <1>13 DEF Release, Goto, PoolFrame, IInv, Typed, Step
  <2>5. conn' \in [Coroutine -> Connection \cup ((Pool \cup {0}) \X {0})]
    BY <1>13, <2>1 DEF Release, Goto, PoolFrame, IInv, Typed, TypeOK, NoConnection
  <2>6. begun' \subseteq Connection /\ broken' \subseteq Connection
    BY <1>13 DEF Release, Goto, PoolFrame, IInv, Typed, TypeOK, Intact, Held, Step
  <2>7. pending' \in [Connection -> SUBSET Write] /\ table' \subseteq Write
    BY <1>13 DEF Release, Goto, PoolFrame, IInv, Typed, TypeOK, Write
  <2> QED
    BY <2>1, <2>2, <2>3, <2>4, <2>5, <2>6, <2>7 DEF Typed, TypeOK, Write
<1>14. CASE UNCHANGED vars
  BY <1>14 DEF vars, IInv, Typed, TypeOK
<1> QED
  BY <1>1, <1>2, <1>3, <1>4, <1>5, <1>6, <1>7, <1>8, <1>9, <1>10, <1>11, <1>12, <1>13,
     <1>14
  DEF Next

\* No step gives a connection to two callers, or leaves writes on one that is given back.
LEMMA ExclusiveKept ==
  ASSUME MaxSize \in Nat, MaxPools \in Nat, IInv, [Next]_vars
  PROVE  Exclusive'
<1>1. ASSUME StartUp PROVE Exclusive'
  BY <1>1 DEF StartUp, IInv, Exclusive, Held
<1>2. ASSUME ClosePools PROVE Exclusive'
  BY <1>2 DEF ClosePools, IInv, Exclusive, Held
<1>3. ASSUME WaitClosed PROVE Exclusive'
  BY <1>3 DEF WaitClosed, IInv, Exclusive, Held
<1>4. ASSUME NEW c \in Coroutine, NEW k \in DOMAIN Writes \ {"none"}, Call(c, k) PROVE Exclusive'
  <2>1. begun' = begun /\ pending' = pending /\ ~Held(c)
    BY <1>4 DEF Call, IInv, Intact
  <2>2. \E p : conn' = [conn EXCEPT ![c] = <<p, 0>>]
    BY <1>4 DEF Call, Goto, PoolFrame, NoConnection
  <2> QED
    BY <2>1, <2>2, NotHeld DEF IInv, Exclusive, Held, Typed
<1>5. ASSUME NEW c \in Coroutine, InitOnDemand(c) PROVE Exclusive'
  <2>1. begun' = begun /\ pending' = pending /\ ~Held(c)
    BY <1>5 DEF InitOnDemand, IInv, Intact
  <2>2. \E p : conn' = [conn EXCEPT ![c] = <<p, 0>>]
    BY <1>5 DEF InitOnDemand, InitPools, Goto, PoolFrame, NoConnection
  <2> QED
    BY <2>1, <2>2, NotHeld DEF IInv, Exclusive, Held, Typed
<1>6. ASSUME NEW c \in Coroutine, Acquire(c) PROVE Exclusive'
  <2>1. begun' = begun /\ pending' = pending /\ ~Held(c)
    BY <1>6 DEF Acquire, IInv, Intact
  <2>2. PICK k : (k \notin Used \/ k = NoConnection) /\ conn' = [conn EXCEPT ![c] = k]
    BY <1>6, NotHeld DEF Acquire, NoConnection
  <2>3. CASE k = NoConnection
    BY <2>1, <2>2, <2>3, NotHeld DEF IInv, Exclusive, Held, Typed, NoConnection
  <2>4. CASE k # NoConnection
    BY <2>1, <2>2, <2>4 DEF IInv, Exclusive, Held, Typed, Used
  <2> QED
    BY <2>3, <2>4
<1>7. ASSUME NEW c \in Coroutine, BeginTransaction(c) PROVE Exclusive'
  <2>1. Held(c)
    BY <1>7 DEF BeginTransaction, IInv, Intact
  <2>2. \A k \in Connection \ {conn[c]} : (k \in begun' <=> k \in begun)
        /\ pending'[k] = pending[k]
    BY <1>7 DEF BeginTransaction, Begin, Goto, PoolFrame, IInv, Typed
  <2>3. conn' = conn
    BY <1>7 DEF BeginTransaction
  <2> QED
    BY <2>1, <2>2, <2>3 DEF IInv, Exclusive, Held
<1>8. ASSUME NEW c \in Coroutine, Execute(c) PROVE Exclusive'
  <2>1. Held(c)
    BY <1>8 DEF Execute, IInv, Intact
  <2>2. \A k \in Connection \ {conn[c]} : (k \in begun' <=> k \in begun)
        /\ pending'[k] = pending[k]
    BY <1>8 DEF Execute, PoolFrame, IInv, Typed
  <2>3. conn' = conn
    BY <1>8 DEF Execute
  <2> QED
    BY <2>1, <2>2, <2>3 DEF IInv, Exclusive, Held
<1>9. ASSUME NEW c \in Coroutine, Commit(c) PROVE Exclusive'
  <2>1. Held(c)
    BY <1>9 DEF Commit, IInv, Intact
  <2>2. \A k \in Connection \ {conn[c]} : (k \in begun' <=> k \in begun)
        /\ pending'[k] = pending[k]
    BY <1>9 DEF Commit, Goto, PoolFrame, IInv, Typed
  <2>3. conn' = conn
    BY <1>9 DEF Commit
  <2> QED
    BY <2>1, <2>2, <2>3 DEF IInv, Exclusive, Held
<1>10. ASSUME NEW c \in Coroutine, Fails(c) PROVE Exclusive'
  <2>1. Held(c)
    BY <1>10 DEF Fails, IInv, Intact
  <2>2. \A k \in Connection \ {conn[c]} : (k \in begun' <=> k \in begun)
        /\ pending'[k] = pending[k]
    BY <1>10 DEF Fails, Goto, PoolFrame, IInv, Typed
  <2>3. conn' = conn
    BY <1>10 DEF Fails
  <2> QED
    BY <2>1, <2>2, <2>3 DEF IInv, Exclusive, Held
<1>11. ASSUME NEW c \in Coroutine, Rollback(c) PROVE Exclusive'
  <2>1. Held(c)
    BY <1>11 DEF Rollback, IInv, Intact
  <2>2. \A k \in Connection \ {conn[c]} : (k \in begun' <=> k \in begun)
        /\ pending'[k] = pending[k]
    BY <1>11 DEF Rollback, Goto, PoolFrame, IInv, Typed
  <2>3. conn' = conn
    BY <1>11 DEF Rollback
  <2> QED
    BY <2>1, <2>2, <2>3 DEF IInv, Exclusive, Held
<1>12. ASSUME NEW c \in Coroutine, Cancelled(c) PROVE Exclusive'
  <2>1. CASE conn[c][2] = 0
    <3>1. begun' = begun /\ pending' = pending /\ conn' = [conn EXCEPT ![c] = NoConnection]
      BY <1>12, <2>1 DEF Cancelled
    <3>2. conn[c] \notin Connection /\ NoConnection \notin Connection
      BY <2>1, NotHeld DEF Connection, NoConnection
    <3> QED
      BY <3>1, <3>2 DEF IInv, Exclusive, Held, Typed
  <2>2. CASE conn[c][2] # 0
    <3>1. conn' = conn /\ Held(c)
      BY <1>12, <2>2 DEF Cancelled, IInv, Typed, Held
    <3>2. \A k \in Connection \ {conn[c]} : (k \in begun' <=> k \in begun)
          /\ pending'[k] = pending[k]
      BY <1>12, <2>2 DEF Cancelled, IInv, Typed
    <3> QED
      BY <3>1, <3>2 DEF IInv, Exclusive, Held
  <2> QED
    BY <2>1, <2>2
<1>13. ASSUME NEW c \in Coroutine, Release(c) PROVE Exclusive'
  <2>1. Held(c)
    BY <1>13 DEF Release, IInv, Intact
  <2>2. \A k \in Connection \ {conn[c]} : (k \in begun' <=> k \in begun)
        /\ pending'[k] = pending[k]
    BY <1>13 DEF Release, IInv, Typed
  <2>3. conn' = [conn EXCEPT ![c] = NoConnection] /\ NoConnection \notin Connection
    BY <1>13, NotHeld DEF Release, NoConnection
  <2>4. conn[c] \notin begun' /\ pending'[conn[c]] = {}
    BY <1>13, <2>1 DEF Release, IInv, Typed, Held
  <2> QED
    BY <2>1, <2>2, <2>3, <2>4 DEF IInv, Exclusive, Held, Typed
<1>14. CASE UNCHANGED vars
  BY <1>14 DEF vars, IInv, Exclusive, Held
<1> QED
  BY <1>1, <1>2, <1>3, <1>4, <1>5, <1>6, <1>7, <1>8, <1>9, <1>10, <1>11, <1>12, <1>13,
     <1>14
  DEF Next

\* A call leaves all others as they are.
LEMMA OthersUntouched ==
  ASSUME IInv, NEW c \in Coroutine, CallStep(c)
  PROVE  \A d \in Coroutine \ {c} : Untouched(d)
<1>1. ASSUME NEW k \in DOMAIN Writes \ {"none"}, Call(c, k)
      PROVE \A d \in Coroutine \ {c} : Untouched(d)
  <2> SUFFICES ASSUME NEW d \in Coroutine \ {c} PROVE Untouched(d)
    OBVIOUS
  <2> QED
    BY <1>1 DEF Call, Goto, PoolFrame, IInv, Typed, TypeOK, Untouched
<1>2. ASSUME InitOnDemand(c) PROVE \A d \in Coroutine \ {c} : Untouched(d)
  <2> SUFFICES ASSUME NEW d \in Coroutine \ {c} PROVE Untouched(d)
    OBVIOUS
  <2> QED
    BY <1>2 DEF InitOnDemand, InitPools, Goto, PoolFrame, IInv, Typed, TypeOK, Untouched
<1>3. ASSUME Acquire(c) PROVE \A d \in Coroutine \ {c} : Untouched(d)
  <2> SUFFICES ASSUME NEW d \in Coroutine \ {c} PROVE Untouched(d)
    OBVIOUS
  <2>1. kind'[d] = kind[d] /\ pc'[d] = pc[d] /\ conn'[d] = conn[d] /\ reply'[d] = reply[d]
    BY <1>3 DEF Acquire, Goto, PoolFrame, IInv, Typed, TypeOK
  <2>2. Held(d) => conn[d] \in Used
    BY NotHeld DEF Used, Held, NoConnection
  <2>3. Held(d) => (conn[d] \in broken' <=> conn[d] \in broken)
    BY <1>3, <2>2 DEF Acquire
  <2> QED
    BY <1>3, <2>1, <2>3 DEF Acquire, Untouched
<1>4. ASSUME BeginTransaction(c) PROVE \A d \in Coroutine \ {c} : Untouched(d)
  <2>1. Held(c)
    BY <1>4 DEF BeginTransaction, IInv, Intact
  <2> SUFFICES ASSUME NEW d \in Coroutine \ {c} PROVE Untouched(d)
    OBVIOUS
  <2>b. kind'[d] = kind[d] /\ pc'[d] = pc[d] /\ conn'[d] = conn[d] /\ reply'[d] = reply[d]
    BY <1>4 DEF BeginTransaction, Begin, Goto, PoolFrame, IInv, Typed, TypeOK
  <2>2. \A i \in 1..2 : <<d, i>> \in table' <=> <<d, i>> \in table
    BY <1>4 DEF BeginTransaction, Begin, Goto, PoolFrame
  <2>3. Held(d) => conn[d] # conn[c]
    BY DEF IInv, Exclusive
  <2>4. Held(d) => /\ pending'[conn[d]] = pending[conn[d]]
                   /\ conn[d] \in begun' <=> conn[d] \in begun
                   /\ conn[d] \in broken' <=> conn[d] \in broken
    BY <1>4, <2>3 DEF BeginTransaction, Begin, Goto, PoolFrame, Held, IInv, Typed
  <2> QED
    BY <2>b, <2>2, <2>4 DEF Untouched
<1>5. ASSUME Execute(c) PROVE \A d \in Coroutine \ {c} : Untouched(d)
  <2>1. Held(c)
    BY <1>5 DEF Execute, IInv, Intact
  <2> SUFFICES ASSUME NEW d \in Coroutine \ {c} PROVE Untouched(d)
    OBVIOUS
  <2>b. kind'[d] = kind[d] /\ pc'[d] = pc[d] /\ conn'[d] = conn[d] /\ reply'[d] = reply[d]
    BY <1>5 DEF Execute, PoolFrame, IInv, Typed, TypeOK
  <2>a. \A w \in pending[conn[c]] : w[1] = c
    BY <2>1 DEF IInv, Intact, HeldClean
  <2>c. NextWrite(c)[1] = c
    BY DEF NextWrite
  <2>2. \A i \in 1..2 : <<d, i>> \in table' <=> <<d, i>> \in table
    BY <1>5, <2>c, <2>a DEF Execute, PoolFrame
  <2>3. Held(d) => conn[d] # conn[c]
    BY DEF IInv, Exclusive
  <2>4. Held(d) => /\ pending'[conn[d]] = pending[conn[d]]
                   /\ conn[d] \in begun' <=> conn[d] \in begun
                   /\ conn[d] \in broken' <=> conn[d] \in broken
    BY <1>5, <2>3 DEF Execute, PoolFrame, Held, IInv, Typed
  <2> QED
    BY <2>b, <2>2, <2>4 DEF Untouched
<1>6. ASSUME Commit(c) PROVE \A d \in Coroutine \ {c} : Untouched(d)
  <2>1. Held(c)
    BY <1>6 DEF Commit, IInv, Intact
  <2> SUFFICES ASSUME NEW d \in Coroutine \ {c} PROVE Untouched(d)
    OBVIOUS
  <2>b. kind'[d] = kind[d] /\ pc'[d] = pc[d] /\ conn'[d] = conn[d] /\ reply'[d] = reply[d]
    BY <1>6 DEF Commit, Goto, PoolFrame, IInv, Typed, TypeOK
  <2>a. \A w \in pending[conn[c]] : w[1] = c
    BY <2>1 DEF IInv, Intact, HeldClean
  <2>c. NextWrite(c)[1] = c
    BY DEF NextWrite
  <2>2. \A i \in 1..2 : <<d, i>> \in table' <=> <<d, i>> \in table
    BY <1>6, <2>c, <2>a DEF Commit, Written
  <2>3. Held(d) => conn[d] # conn[c]
    BY DEF IInv, Exclusive
  <2>4. Held(d) => /\ pending'[conn[d]] = pending[conn[d]]
                   /\ conn[d] \in begun' <=> conn[d] \in begun
                   /\ conn[d] \in broken' <=> conn[d] \in broken
    BY <1>6, <2>3 DEF Commit, Goto, PoolFrame, Held, IInv, Typed
  <2> QED
    BY <2>b, <2>2, <2>4 DEF Untouched
<1>7. ASSUME Fails(c) PROVE \A d \in Coroutine \ {c} : Untouched(d)
  <2>1. Held(c)
    BY <1>7 DEF Fails, IInv, Intact
  <2> SUFFICES ASSUME NEW d \in Coroutine \ {c} PROVE Untouched(d)
    OBVIOUS
  <2>b. kind'[d] = kind[d] /\ pc'[d] = pc[d] /\ conn'[d] = conn[d] /\ reply'[d] = reply[d]
    BY <1>7 DEF Fails, Goto, PoolFrame, IInv, Typed, TypeOK
  <2>2. \A i \in 1..2 : <<d, i>> \in table' <=> <<d, i>> \in table
    BY <1>7 DEF Fails, Goto, PoolFrame
  <2>3. Held(d) => conn[d] # conn[c]
    BY DEF IInv, Exclusive
  <2>4. Held(d) => /\ pending'[conn[d]] = pending[conn[d]]
                   /\ conn[d] \in begun' <=> conn[d] \in begun
                   /\ conn[d] \in broken' <=> conn[d] \in broken
    BY <1>7, <2>3 DEF Fails, Goto, PoolFrame, Held, IInv, Typed
  <2> QED
    BY <2>b, <2>2, <2>4 DEF Untouched
<1>8. ASSUME Rollback(c) PROVE \A d \in Coroutine \ {c} : Untouched(d)
  <2>1. Held(c)
    BY <1>8 DEF Rollback, IInv, Intact
  <2> SUFFICES ASSUME NEW d \in Coroutine \ {c} PROVE Untouched(d)
    OBVIOUS
  <2>b. kind'[d] = kind[d] /\ pc'[d] = pc[d] /\ conn'[d] = conn[d] /\ reply'[d] = reply[d]
    BY <1>8 DEF Rollback, Goto, PoolFrame, IInv, Typed, TypeOK
  <2>2. \A i \in 1..2 : <<d, i>> \in table' <=> <<d, i>> \in table
    BY <1>8 DEF Rollback, Goto, PoolFrame
  <2>3. Held(d) => conn[d] # conn[c]
    BY DEF IInv, Exclusive
  <2>4. Held(d) => /\ pending'[conn[d]] = pending[conn[d]]
                   /\ conn[d] \in begun' <=> conn[d] \in begun
                   /\ conn[d] \in broken' <=> conn[d] \in broken
    BY <1>8, <2>3 DEF Rollback, Goto, PoolFrame, Held, IInv, Typed
  <2> QED
    BY <2>b, <2>2, <2>4 DEF Untouched
<1>9. ASSUME Cancelled(c) PROVE \A d \in Coroutine \ {c} : Untouched(d)
  <2> SUFFICES ASSUME NEW d \in Coroutine \ {c} PROVE Untouched(d)
    OBVIOUS
  <2>1. kind'[d] = kind[d] /\ pc'[d] = pc[d] /\ conn'[d] = conn[d] /\ reply'[d] = reply[d]
    BY <1>9 DEF Cancelled, Goto, PoolFrame, IInv, Typed, TypeOK
  <2>2. Held(d) => conn[d] # conn[c]
    BY DEF IInv, Exclusive
  <2>3. Held(d) => /\ pending'[conn[d]] = pending[conn[d]]
                   /\ conn[d] \in begun' <=> conn[d] \in begun
                   /\ conn[d] \in broken' <=> conn[d] \in broken
    BY <1>9, <2>2 DEF Cancelled, Held, IInv, Typed
  <2> QED
    BY <1>9, <2>1, <2>3 DEF Cancelled, Untouched
<1>10. ASSUME Release(c) PROVE \A d \in Coroutine \ {c} : Untouched(d)
  <2>1. Held(c)
    BY <1>10 DEF Release, IInv, Intact
  <2> SUFFICES ASSUME NEW d \in Coroutine \ {c} PROVE Untouched(d)
    OBVIOUS
  <2>b. kind'[d] = kind[d] /\ pc'[d] = pc[d] /\ conn'[d] = conn[d] /\ reply'[d] = reply[d]
    BY <1>10 DEF Release, Goto, PoolFrame, IInv, Typed, TypeOK
  <2>2. \A i \in 1..2 : <<d, i>> \in table' <=> <<d, i>> \in table
    BY <1>10 DEF Release, Goto, PoolFrame
  <2>3. Held(d) => conn[d] # conn[c]
    BY DEF IInv, Exclusive
  <2>4. Held(d) => /\ pending'[conn[d]] = pending[conn[d]]
                   /\ conn[d] \in begun' <=> conn[d] \in begun
                   /\ conn[d] \in broken' <=> conn[d] \in broken
    BY <1>10, <2>3 DEF Release, Goto, PoolFrame, Held, IInv, Typed
  <2> QED
    BY <2>b, <2>2, <2>4 DEF Untouched
<1> QED
  BY <1>1, <1>2, <1>3, <1>4, <1>5, <1>6, <1>7, <1>8, <1>9, <1>10 DEF CallStep

\* A call's own step leaves it intact.
LEMMA OwnIntact ==
  ASSUME IInv, NEW c \in Coroutine, CallStep(c)
  PROVE  Intact(c)'
<1>a. Intact(c)
  BY DEF IInv
<1>b. kind[c] \in DOMAIN Writes /\ (conn[c][2] # 0 => Held(c))
  BY DEF IInv, Typed, TypeOK, Held
<1>c. kind \in [Coroutine -> DOMAIN Writes] /\ pc \in [Coroutine -> Step]
      /\ DOMAIN reply = Coroutine
      /\ DOMAIN conn = Coroutine /\ DOMAIN pending = Connection
  BY DEF IInv, Typed, TypeOK
<1>d. \A k \in Connection : k \notin Used => k \notin begun /\ pending[k] = {}
  BY NotHeld DEF NoConnection, IInv, Exclusive, Used
<1>1. ASSUME NEW k \in DOMAIN Writes \ {"none"}, Call(c, k) PROVE Intact(c)'
  <2>1. HeldClean(c)' \/ ~Held(c)'
    BY <1>1, <1>a, <1>b, <1>c, <1>d, NotHeld DEF Call, Goto, PoolFrame, HeldClean, Intact,
       Held, NoConnection
  <2> QED
    BY <1>1, <2>1, <1>a, <1>b, <1>c, <1>d, NotHeld DEF Call, Goto, PoolFrame, Intact, Held,
       Writes, NoConnection
<1>2. ASSUME InitOnDemand(c) PROVE Intact(c)'
  <2>1. HeldClean(c)' \/ ~Held(c)'
    BY <1>2, <1>a, <1>b, <1>c, <1>d, NotHeld DEF InitOnDemand, InitPools, Goto, PoolFrame,
       HeldClean, Intact, Held, NoConnection
  <2> QED
    BY <1>2, <2>1, <1>a, <1>b, <1>c, <1>d, NotHeld DEF InitOnDemand, InitPools, Goto,
       PoolFrame, Intact, Held, Writes, NoConnection
<1>3. ASSUME Acquire(c) PROVE Intact(c)'
  <2>1. HeldClean(c)' \/ ~Held(c)'
    BY <1>3, <1>a, <1>b, <1>c, <1>d, NotHeld DEF Acquire, Goto, PoolFrame, Used, HeldClean,
       Intact, Held, NoConnection
  <2> QED
    BY <1>3, <2>1, <1>a, <1>b, <1>c, <1>d, NotHeld DEF Acquire, Goto, PoolFrame, Used, Intact,
       Held, Writes, NoConnection
<1>4. ASSUME BeginTransaction(c) PROVE Intact(c)'
  <2>1. HeldClean(c)' \/ ~Held(c)'
    BY <1>4, <1>a, <1>b, <1>c, <1>d, NotHeld DEF BeginTransaction, Begin, Goto, PoolFrame,
       HeldClean, Intact, Held, NoConnection
  <2> QED
    BY <1>4, <2>1, <1>a, <1>b, <1>c, <1>d, NotHeld DEF BeginTransaction, Begin, Goto,
       PoolFrame, Intact, Held, Writes, NoConnection
<1>5. ASSUME Execute(c) PROVE Intact(c)'
  <2>1. Held(c)
    BY <1>5 DEF Execute, IInv, Intact
  <2>2. Written(c) \subseteq Write /\ (<<c, 2>> \in Written(c) => <<c, 1>> \in Written(c))
    BY <2>1, NextIs
  <2>3. /\ <<c, 2>> \in Written(c) => NextWrite(c) = <<c, 3>>
        /\ <<c, 1>> \in Written(c) /\ <<c, 2>> \notin Written(c) => NextWrite(c) = <<c, 2>>
        /\ <<c, 1>> \notin Written(c) => NextWrite(c) = <<c, 1>>
    BY <2>1, NextIs
  <2>4. kind[c] \in {"save", "batch", "transaction"}
    BY <1>5, <2>3, <1>b DEF Execute, Writes
  <2>5. \/ <<c, 1>> \notin Written(c)
        \/ kind[c] \in {"batch", "transaction"} /\ <<c, 2>> \notin Written(c)
    BY <1>5, <2>3, <2>4 DEF Execute, Writes
  <2>6. CASE conn[c] \in begun
    <3>1. kind[c] = "transaction" /\ <<c, 1>> \notin table
      BY <1>5, <2>1, <2>6, <1>a DEF Execute, Intact, HeldClean
    <3>2. NextWrite(c) \in {<<c, 1>>, <<c, 2>>} /\ (NextWrite(c) = <<c, 2>>
            => <<c, 1>> \in pending[conn[c]])
      BY <3>1, <2>3, <2>5, <1>a DEF Written, Intact
    <3>3. pending'[conn[c]] = pending[conn[c]] \cup {NextWrite(c)}
      BY <1>5, <2>6, <2>1 DEF Execute, IInv, Typed, Held
    <3>4. HeldClean(c)'
      BY <1>5, <3>1, <3>2, <3>3, <1>a, <2>1, <2>6 DEF Execute, HeldClean, Intact
    <3> QED
      BY <1>5, <3>1, <3>4, <1>a, <2>1, <2>6 DEF Execute, Intact, Held
  <2>7. CASE conn[c] \notin begun
    <3>1. kind[c] \in {"save", "batch"} /\ pending[conn[c]] = {}
      BY <1>5, <2>1, <2>4, <2>7, <1>a DEF Execute, Intact, HeldClean
    <3>2. \/ NextWrite(c) = <<c, 1>>
          \/ NextWrite(c) = <<c, 2>> /\ <<c, 1>> \in table /\ kind[c] = "batch"
      BY <3>1, <2>3, <2>5 DEF Written
    <3>3. table' = table \cup {NextWrite(c)} /\ pending' = pending
      BY <1>5, <2>7 DEF Execute
    <3>4. HeldClean(c)'
      BY <1>5, <3>1, <3>3, <1>a, <2>1, <2>7 DEF Execute, HeldClean, Intact
    <3> QED
      BY <1>5, <3>1, <3>2, <3>3, <3>4, <1>a, <2>1 DEF Execute, Intact, Held
  <2> QED
    BY <2>6, <2>7
<1>6. ASSUME Commit(c) PROVE Intact(c)'
  <2>1. Held(c)
    BY <1>6 DEF Commit, IInv, Intact
  <2>2. Written(c) \subseteq Write /\ (<<c, 2>> \in Written(c) => <<c, 1>> \in Written(c))
    BY <2>1, NextIs
  <2>3. /\ <<c, 2>> \in Written(c) => NextWrite(c) = <<c, 3>>
        /\ <<c, 1>> \in Written(c) /\ <<c, 2>> \notin Written(c) => NextWrite(c) = <<c, 2>>
        /\ <<c, 1>> \notin Written(c) => NextWrite(c) = <<c, 1>>
    BY <2>1, NextIs
  <2>4. pending'[conn[c]] = {} /\ conn[c] \notin begun'
    BY <1>6, <2>1 DEF Commit, IInv, Typed, Held
  <2>5. HeldClean(c)'
    BY <1>6, <2>4 DEF Commit, HeldClean
  <2>6. /\ kind[c] \in {"batch", "transaction"} => <<c, 2>> \in Written(c)
        /\ kind[c] = "save" => <<c, 1>> \in Written(c)
    <3>1. /\ NextWrite(c)[2] \in {1, 2, 3}
          /\ NextWrite(c)[2] = 3 => <<c, 2>> \in Written(c)
          /\ NextWrite(c)[2] = 2 => <<c, 1>> \in Written(c)
      BY <2>2, <2>3
    <3> QED
      BY <1>6, <3>1, <2>2 DEF Commit, Writes
  <2>7. <<c, 1>> \in Written(c) => kind[c] \in {"save", "batch", "transaction"}
    BY <1>6, <2>1, <1>a, <1>b DEF Written, Intact, HeldClean, Writes, Commit
  <2>8. <<c, 2>> \in Written(c) => kind[c] \in {"batch", "transaction"}
    BY <1>6, <2>1, <1>a DEF Written, Intact, HeldClean
  <2>9. kind' = kind /\ conn' = conn /\ table' = Written(c)
    BY <1>6 DEF Commit
  <2>10. pc'[c] = "release" \/ (pc'[c] = "rollback" /\ reply'[c] = reply[c])
    <3>1. (pc' = [pc EXCEPT ![c] = "release"]) \/ (pc' = [pc EXCEPT ![c] = "rollback"]
          /\ reply' = reply)
      BY <1>6 DEF Commit, Goto
    <3> QED
      BY <3>1, <1>c
  <2> QED
    BY <1>6, <2>1, <2>2, <2>5, <2>6, <2>7, <2>8, <2>9, <2>10, <1>a, <1>b DEF Commit, Intact,
       Held, Writes
<1>7. ASSUME Fails(c) PROVE Intact(c)'
  <2>1. HeldClean(c)' \/ ~Held(c)'
    BY <1>7, <1>a, <1>b, <1>c, <1>d, NotHeld DEF Fails, Goto, PoolFrame, HeldClean, Intact,
       Held, NoConnection
  <2> QED
    BY <1>7, <2>1, <1>a, <1>b, <1>c, <1>d, NotHeld DEF Fails, Goto, PoolFrame, Intact, Held,
       Writes, NoConnection
<1>8. ASSUME Rollback(c) PROVE Intact(c)'
  <2>1. HeldClean(c)' \/ ~Held(c)'
    BY <1>8, <1>a, <1>b, <1>c, <1>d, NotHeld DEF Rollback, Goto, PoolFrame, HeldClean, Intact,
       Held, NoConnection
  <2> QED
    BY <1>8, <2>1, <1>a, <1>b, <1>c, <1>d, NotHeld DEF Rollback, Goto, PoolFrame, Intact, Held,
       Writes, NoConnection
<1>9. ASSUME Cancelled(c) PROVE Intact(c)'
  <2>1. HeldClean(c)' \/ ~Held(c)'
    BY <1>9, <1>a, <1>b, <1>c, <1>d, NotHeld DEF Cancelled, Goto, PoolFrame, HeldClean, Intact,
       Held, NoConnection
  <2> QED
    BY <1>9, <2>1, <1>a, <1>b, <1>c, <1>d, NotHeld DEF Cancelled, Goto, PoolFrame, Intact,
       Held, Writes, NoConnection
<1>10. ASSUME Release(c) PROVE Intact(c)'
  <2>1. HeldClean(c)' \/ ~Held(c)'
    BY <1>10, <1>a, <1>b, <1>c, <1>d, NotHeld DEF Release, Goto, PoolFrame, HeldClean, Intact,
       Held, NoConnection
  <2> QED
    BY <1>10, <2>1, <1>a, <1>b, <1>c, <1>d, NotHeld DEF Release, Goto, PoolFrame, Intact, Held,
       Writes, NoConnection
<1> QED
  BY <1>1, <1>2, <1>3, <1>4, <1>5, <1>6, <1>7, <1>8, <1>9, <1>10 DEF CallStep

\* Every caller stays intact.
LEMMA IntactKept ==
  ASSUME IInv, [Next]_vars PROVE \A c \in Coroutine : Intact(c)'
<1>1. ASSUME StartUp \/ ClosePools \/ WaitClosed \/ UNCHANGED vars,
NEW c \in Coroutine PROVE Intact(c)'
  <2>1. Untouched(c)
    BY <1>1 DEF StartUp, ClosePools, WaitClosed, vars, Untouched
  <2> QED
    BY <2>1, UntouchedIntact DEF IInv
<1>2. ASSUME NEW c \in Coroutine, CallStep(c), NEW d \in Coroutine PROVE Intact(d)'
  <2>1. CASE d = c
    BY <2>1, <1>2, OwnIntact
  <2>2. CASE d # c
    <3>1. Untouched(d)
      BY <2>2, <1>2, OthersUntouched
    <3> QED
      BY <3>1, UntouchedIntact DEF IInv
  <2> QED
    BY <2>1, <2>2
<1>3. CASE \E c \in Coroutine : CallStep(c)
  BY <1>3, <1>2
<1> QED
  BY <1>1, <1>3 DEF Next, CallStep

-----------------------------------------------------------------------------
(* The theorems.                                                           *)

\* The invariant, for any number of callers, connections and pools.
LEMMA Invariant == ASSUME MaxSize \in Nat, MaxPools \in Nat PROVE Spec => []IInv
<1>1. IInv /\ [Next]_vars => IInv'
  BY TypedKept, ExclusiveKept, IntactKept DEF IInv
<1> QED
  BY InitInv, <1>1, PTL DEF Spec

\* The pool's state keeps its types.
THEOREM PoolTypeCorrect == ASSUME MaxSize \in Nat, MaxPools \in Nat PROVE Spec => []TypeOK
<1>1. IInv => TypeOK
  BY DEF IInv, Typed
<1> QED
  BY Invariant, <1>1, PTL

\* Whatever fails or is cancelled, and whoever uses a connection next: of the
\* writes of a transaction all are committed or none, and so is the one write of a
\* save; a batch that failed may be there in part, one that was reported is there.
THEOREM CallsCommitWhole ==
  ASSUME MaxSize \in Nat, MaxPools \in Nat PROVE Spec => []CommittedWhole
<1>1. IInv => CommittedWhole
  BY IntactImplies
<1> QED
  BY Invariant, <1>1, PTL
=============================================================================
