-------------------------- MODULE TraceStreamProofs --------------------------
(***************************************************************************)
(* Proofs about TraceStream, for any bounds and any number of clients.     *)
(*                                                                         *)
(* The theorems suppose ~Strangers: once a task can be cancelled in a      *)
(* process that has no stream of it, numbering begins again at 1, and      *)
(* none of NothingVanishes, InOrder and FlushedIsStored holds.             *)
(***************************************************************************)
EXTENDS TraceStream, WellFoundedInduction, TLAPS

-----------------------------------------------------------------------------
(* The inductive invariant.                                                *)

\* The events that are queued for the table or on their way to it.
InHand == Range(waiting) \cup Range(batch)

\* Publications still to come, of the run that is accepted and those resumed
\* and of the cancellations, but for its own events.
Owed ==
  closing + cancelled + (IF row \in Working THEN 1 ELSE 0)
    + (IF row = "new" THEN 2 ELSE 0) + (IF request # "idle" THEN 2 ELSE 0)

\* Events are counted by the requests and runs they belong to, and so are the
\* wrappers and refusals that have yet to close the trace.
Counted ==
  /\ Owed <= 2 + 2 * resumes + cancels
  /\ Len(log) + Owed <= MaxEvents + 2 + 2 * resumes + cancels
  /\ closing + (IF row \in Working THEN 1 ELSE 0) + (IF row = "new" THEN 1 ELSE 0)
       + (IF request # "idle" THEN 1 ELSE 0) <= 1 + resumes
  /\ refusals + (IF request # "idle" THEN 1 ELSE 0) <= resumes
  /\ cancelled <= cancels

\* Whatever holds an event holds one that was published, and no number is
\* higher than there are events.
Published ==
  /\ \A e \in InHand \cup overflowed \cup Range(stream.replay) : e \in Events
  /\ \A c \in Client : (last[c] # 0 => last[c] \in Events) /\ Range(inbox[c]) \subseteq Events
  /\ \A e \in Events : log[e].number <= e
  /\ \A n \in Id : table[n] # 0 => table[n] \in Events /\ log[table[n]].number = n
  /\ stream.sequence <= Len(log) /\ highest <= Len(log)
  /\ Len(log) > 0 => Len(log) \notin overflowed

\* Where a process has no stream there is nobody to publish into it, and what
\* its predecessor left of the events is in the table.
Lives ==
  /\ ~stream.exists =>
       /\ stream = NoStream /\ row \notin Working /\ closing = 0 /\ cancelled = 0
       /\ request # "deal" /\ waiting = <<>> /\ batch = <<>>
  /\ row = "new" => log = <<>> /\ closing = 0 /\ cancelled = 0
  /\ mode = "up" => worker = "on"
  /\ mode # "up" => request = "idle" /\ cancelled = 0 /\ \A c \in Client : conn[c] = "away"
  /\ mode = "down" => ~stream.exists /\ worker = "off"
  /\ worker = "off" => batch = <<>>
  /\ ~stream.exists /\ restarts = 0 /\ mode # "down" => log = <<>>
  /\ \A c \in Client : conn[c] = "away" => inbox[c] = <<>>
  /\ \A c \in Client : conn[c] # "away" => stream.exists

Increasing(q) == \A i, j \in DOMAIN q : i < j => q[i] < q[j]

\* Events are written in the order in which they were published.
InTurn ==
  /\ Increasing(batch) /\ Increasing(waiting)
  /\ \A i \in DOMAIN batch, j \in DOMAIN waiting : batch[i] < waiting[j]

\* The stream is past every number that is in the table or on its way there,
\* each is in one place, and what a request to resume has read is enough.
Fresh ==
  /\ \A e \in InHand : table[log[e].number] = 0
  /\ \A e, f \in InHand : log[e].number = log[f].number => e = f
  /\ stream.exists => /\ \A e \in InHand : log[e].number <= stream.sequence
                      /\ \A n \in Id : table[n] # 0 => n <= stream.sequence
                      /\ highest <= stream.sequence
  /\ request = "fetched" /\ ~stream.exists => \A n \in Id : table[n] # 0 => n <= highest

\* Without a failure the tasks have ended when the persister is stopped, and
\* its queue is empty when it has drained.
Orderly ==
  faults = 0 /\ mode = "stopping" =>
    /\ worker # "on" => TasksEnded
    /\ worker \in {"drained", "off"} => waiting = <<>>

\* As long as no number was given twice they count the events.
Straight ==
  Unbroken =>
    /\ \A e \in Events : log[e].number = e
    /\ stream.exists => stream.sequence = Len(log)
    /\ request = "fetched" /\ ~stream.exists => highest = Len(log)

\* The stream and the queues of clients hold events in order, and what a client
\* follows ends with the stream's last event.
Sorted ==
  /\ Increasing(stream.replay) /\ \A c \in Client : Increasing(inbox[c])
  /\ \A i, j \in DOMAIN stream.replay :
       i < j => log[stream.replay[i]].number < log[stream.replay[j]].number
  /\ \A i \in DOMAIN stream.replay : log[stream.replay[i]].number <= stream.sequence
  /\ Unbroken => \A c \in Client : \A i \in DOMAIN inbox[c] : last[c] < inbox[c][i]

Followed ==
  \A c \in Client : conn[c] = "open" /\ stream.replay # <<>> =>
    LET newest == stream.replay[Len(stream.replay)]
    IN  IF inbox[c] = <<>> THEN last[c] # 0 /\ log[last[c]].number >= log[newest].number
        ELSE inbox[c][Len(inbox[c])] = newest

Core == TypeOK /\ Counted /\ Published /\ Lives
IInv ==
  Core /\ InTurn /\ Fresh /\ Orderly /\ NothingVanishes /\ Straight /\ Sorted /\ Followed

-----------------------------------------------------------------------------
(* Sequences and the operators on them.                                    *)

\* What a sequence holds are its entries.
LEMMA RangeOf ==
  ASSUME NEW S, NEW q \in Seq(S), NEW x
  PROVE  /\ x \in Range(q) <=> \E i \in 1..Len(q) : q[i] = x
         /\ x \in Range(q) => x \in S
BY DEF Range

\* Appending adds one.
LEMMA RangeAppend ==
  ASSUME NEW S, NEW q \in Seq(S), NEW e \in S, NEW x
  PROVE  x \in Range(Append(q, e)) <=> x \in Range(q) \/ x = e
<1> DEFINE p == Append(q, e)
<1>1. p \in Seq(S) /\ Len(p) = Len(q) + 1 /\ Len(q) \in Nat
  OBVIOUS
<1>2. \A i \in 1..Len(q) : p[i] = q[i]
  OBVIOUS
<1>3. p[Len(q) + 1] = e
  OBVIOUS
<1>a. x \in Range(q) <=> \E i \in 1..Len(q) : q[i] = x
  BY RangeOf
<1> HIDE DEF p
<1>b. x \in Range(p) <=> \E i \in 1..Len(p) : p[i] = x
  BY <1>1, RangeOf
<1>4. /\ x \in Range(p) <=> \E i \in 1..Len(p) : p[i] = x
      /\ x \in Range(q) <=> \E i \in 1..Len(q) : q[i] = x
  BY <1>a, <1>b
<1>5. \A i \in 1..Len(p) : i \in 1..Len(q) \/ i = Len(q) + 1
  BY <1>1
<1>6. x \in Range(p) => x \in Range(q) \/ x = e
  BY <1>2, <1>3, <1>4, <1>5
<1>7. \A i \in 1..Len(q) : i \in 1..Len(p)
  BY <1>1
<1>8. Len(q) + 1 \in 1..Len(p)
  BY <1>1
<1>9. x \in Range(q) \/ x = e => x \in Range(p)
  BY <1>2, <1>3, <1>4, <1>7, <1>8
<1> QED
  BY <1>6, <1>9 DEF p

\* The head and the rest make up a sequence.
LEMMA RangeTail ==
  ASSUME NEW S, NEW q \in Seq(S), q # <<>>, NEW x
  PROVE  x \in Range(q) <=> x = Head(q) \/ x \in Range(Tail(q))
<1>1. /\ Tail(q) \in Seq(S) /\ Len(Tail(q)) = Len(q) - 1 /\ Len(q) \in Nat \ {0}
      /\ Head(q) = q[1]
  OBVIOUS
<1>2. \A i \in 1..Len(Tail(q)) : Tail(q)[i] = q[i + 1]
  OBVIOUS
<1> DEFINE p == Tail(q)
<1>a. p \in Seq(S)
  BY <1>1
<1> HIDE DEF p
<1>b. x \in Range(p) <=> \E i \in 1..Len(p) : p[i] = x
  BY <1>a, RangeOf
<1>c. x \in Range(q) <=> \E i \in 1..Len(q) : q[i] = x
  BY RangeOf
<1>3. /\ x \in Range(Tail(q)) <=> \E i \in 1..Len(Tail(q)) : Tail(q)[i] = x
      /\ x \in Range(q) <=> \E i \in 1..Len(q) : q[i] = x
  BY <1>b, <1>c DEF p
<1>4. \A i \in 1..Len(q) : i = 1 \/ (i - 1 \in 1..Len(p) /\ (i - 1) + 1 = i)
  BY <1>1 DEF p
<1>5. \A i \in 1..Len(p) : i + 1 \in 1..Len(q)
  BY <1>1 DEF p
<1>6. 1 \in 1..Len(q)
  BY <1>1
<1> QED
  BY <1>1, <1>2, <1>3, <1>4, <1>5, <1>6 DEF p

\* The newest entries of a sequence are its end, up to n of them.
LEMMA NewestOK ==
  ASSUME NEW S, NEW q \in Seq(S), NEW n \in Nat \ {0}
  PROVE  /\ Newest(q, n) \in Seq(S)
         /\ Len(Newest(q, n)) <= n
         /\ Len(Newest(q, n)) <= Len(q)
         /\ Len(q) > 0 => Len(Newest(q, n)) > 0
         /\ \A i \in 1..Len(Newest(q, n)) :
              /\ i + (Len(q) - Len(Newest(q, n))) \in 1..Len(q)
              /\ Newest(q, n)[i] = q[i + (Len(q) - Len(Newest(q, n)))]
<1>1. CASE Len(q) <= n
  <2>1. Newest(q, n) = q
    BY <1>1 DEF Newest
  <2> QED
    BY <1>1, <2>1
<1>2. CASE Len(q) > n
  <2> DEFINE m == Len(q) - n + 1
             p == SubSeq(q, m, Len(q))
  <2>1. Newest(q, n) = p
    BY <1>2 DEF Newest
  <2>2. m \in 1..Len(q) /\ Len(q) \in Nat
    BY <1>2
  <2>3. p \in Seq(S) /\ Len(p) = n
    BY <1>2, <2>2
  <2>4. \A i \in 1..n : p[i] = q[i + (Len(q) - n)]
    BY <1>2, <2>2
  <2>5. \A i \in 1..n : i + (Len(q) - n) \in 1..Len(q)
    BY <1>2, <2>2
  <2> HIDE DEF p
  <2> QED
    BY <1>2, <2>1, <2>2, <2>3, <2>4, <2>5
<1> QED
  BY <1>1, <1>2

\* The newest entries are entries.
LEMMA NewestRange ==
  ASSUME NEW S, NEW q \in Seq(S), NEW n \in Nat \ {0}, NEW x \in Range(Newest(q, n))
  PROVE  x \in Range(q)
<1> DEFINE p == Newest(q, n)
<1>1. /\ p \in Seq(S)
      /\ \A i \in 1..Len(p) : i + (Len(q) - Len(p)) \in 1..Len(q) /\ p[i] = q[i + (Len(q) - Len(p))]
  BY NewestOK
<1> HIDE DEF p
<1>2. PICK i \in 1..Len(p) : p[i] = x
  BY <1>1, RangeOf DEF p
<1> QED
  BY <1>1, <1>2, RangeOf

\* The newest entry is kept, and so is the order.
LEMMA NewestLast ==
  ASSUME NEW S, NEW q \in Seq(S), NEW n \in Nat \ {0}, Len(q) > 0
  PROVE  /\ Newest(q, n) # <<>>
         /\ Newest(q, n)[Len(Newest(q, n))] = q[Len(q)]
         /\ q[Len(q)] \in Range(Newest(q, n))
<1> DEFINE p == Newest(q, n)
<1>1. /\ p \in Seq(S) /\ Len(p) > 0 /\ Len(p) \in Nat /\ Len(q) \in Nat
      /\ \A i \in 1..Len(p) : p[i] = q[i + (Len(q) - Len(p))]
  BY NewestOK
<1> HIDE DEF p
<1>2. Len(p) \in 1..Len(p) /\ Len(p) + (Len(q) - Len(p)) = Len(q)
  BY <1>1
<1>3. p[Len(p)] = q[Len(q)]
  BY <1>1, <1>2
<1>4. p # <<>>
  BY <1>1
<1>5. q[Len(q)] \in Range(p)
  BY <1>1, <1>2, <1>3, RangeOf
<1> QED
  BY <1>3, <1>4, <1>5 DEF p

\* A non-empty set of natural numbers has a least element.
LEMMA LeastElement ==
  ASSUME NEW S \in SUBSET Nat, S # {}
  PROVE  \E i \in S : \A j \in S : i <= j
<1> DEFINE less == OpToRel(<, Nat)
<1>1. \A i, j \in Nat : i < j => <<i, j>> \in less
  BY DEF OpToRel
<1>2. IsWellFoundedOn(less, Nat)
  BY NatLessThanWellFounded
<1> HIDE DEF less
<1>3. PICK i \in S : \A j \in S : <<j, i>> \notin less
  BY <1>2, WFMin
<1>4. \A j \in S : ~ (j < i)
  BY <1>1, <1>3
<1> QED
  BY <1>4

\* Max is the greatest of some numbers that are bounded.
LEMMA MaxOK ==
  ASSUME NEW k \in Nat, NEW S, S # {}, \A x \in S : x \in 0..k
  PROVE  Max(S) \in S /\ \A x \in S : x <= Max(S)
<1> DEFINE D == {k - x : x \in S}
<1>1. D \in SUBSET Nat /\ D # {}
  OBVIOUS
<1>2. PICK d \in D : \A e \in D : d <= e
  BY <1>1, LeastElement
<1>3. PICK x \in S : d = k - x
  BY <1>2
<1>4. \A y \in S : k - x <= k - y
  BY <1>2, <1>3
<1>5. \A y \in S : x >= y
  BY <1>3, <1>4
<1>6. Max(S) \in S /\ \A y \in S : Max(S) >= y
  BY <1>5 DEF Max
<1> QED
  BY <1>6

\* Which events a client that reconnects has missed is worked out one after
\* the other.
LEMMA LaterStepwise ==
  ASSUME NEW q \in Seq(Id), NEW n
  PROVE  \E f : /\ Later(q, n) = f[Len(q)]
                /\ f[0] = <<>>
                /\ \A i \in 1..Len(q) :
                     f[i] = IF Missed(q[i], n) THEN Append(f[i - 1], q[i]) ELSE f[i - 1]
<1> DEFINE Next1(f, i) == IF i = 0 THEN <<>>
                          ELSE IF Missed(q[i], n) THEN Append(f[i - 1], q[i]) ELSE f[i - 1]
           Is(m, f)    == f = [i \in 0..m |-> Next1(f, i)]
           None        == {m \in 0..Len(q) : \A f : ~Is(m, f)}
<1>1. None = {}
  <2> SUFFICES ASSUME None # {} PROVE FALSE
    OBVIOUS
  <2>1. None \in SUBSET Nat
    OBVIOUS
  <2>2. PICK m \in None : \A k \in None : m <= k
    <3> HIDE DEF None
    <3> QED
      BY <2>1, LeastElement
  <2>3. m \in 0..Len(q) /\ \A f : ~Is(m, f)
    BY <2>2
  <2>4. m # 0
    <3> DEFINE f0 == [i \in 0..0 |-> <<>>]
    <3>1. f0 = [i \in 0..0 |-> Next1(f0, i)]
      <4>1. \A i \in 0..0 : i = 0
        OBVIOUS
      <4> QED
        BY <4>1
    <3>2. Is(0, f0)
      BY <3>1
    <3> HIDE DEF Is
    <3> QED
      BY <2>3, <3>2
  <2>a. m \in Nat /\ m - 1 \in 0..Len(q)
    BY <2>3, <2>4
  <2>5. m - 1 \notin None
    <3> HIDE DEF None
    <3> QED
      BY <2>2, <2>a
  <2>6. PICK f : Is(m - 1, f)
    <3> HIDE DEF Is
    <3> QED
      BY <2>5, <2>a
  <2>7. \A i \in 0..(m - 1) : f[i] = Next1(f, i)
    BY <2>6
  <2> DEFINE h == [i \in 0..m |-> IF i < m THEN f[i]
                                  ELSE IF Missed(q[m], n) THEN Append(f[m - 1], q[m]) ELSE f[m - 1]]
  <2>8. ASSUME NEW i \in 0..m PROVE h[i] = Next1(h, i)
    <3>1. CASE i < m
      <4>1. h[i] = f[i] /\ f[i] = Next1(f, i)
        BY <2>3, <2>7, <3>1
      <4>2. i # 0 => h[i - 1] = f[i - 1]
        BY <2>3, <3>1
      <4> HIDE DEF h
      <4> QED
        BY <4>1, <4>2
    <3>2. CASE i = m
      <4>1. h[m - 1] = f[m - 1]
        BY <2>3, <2>4
      <4>2. h[m] = IF Missed(q[m], n) THEN Append(f[m - 1], q[m]) ELSE f[m - 1]
        BY <2>3
      <4> HIDE DEF h
      <4> QED
        BY <2>4, <3>2, <4>1, <4>2
    <3> QED
      BY <2>3, <3>1, <3>2
  <2>9. h = [i \in 0..m |-> Next1(h, i)]
    <3>1. h = [i \in 0..m |-> h[i]]
      OBVIOUS
    <3> HIDE DEF h, Next1
    <3> QED
      BY <2>8, <3>1
  <2>10. Is(m, h)
    <3> HIDE DEF h, Next1
    <3> QED
      BY <2>9
  <2> HIDE DEF Is, h
  <2> QED
    BY <2>3, <2>10
<1>2. Len(q) \in 0..Len(q) /\ Len(q) \in Nat
  OBVIOUS
<1>3. \E f : Is(Len(q), f)
  <2> HIDE DEF Is
  <2> QED
    BY <1>1, <1>2
<1> DEFINE g == CHOOSE f : Is(Len(q), f)
<1>4. Is(Len(q), g)
  <2> HIDE DEF Is
  <2> QED
    BY <1>3
<1>5. Later(q, n) = g[Len(q)]
  BY DEF Later
<1>6. \A i \in 0..Len(q) : g[i] = Next1(g, i)
  <2> HIDE DEF g, Next1
  <2> QED
    BY <1>4
<1> HIDE DEF g
<1>7. g[0] = <<>>
  BY <1>2, <1>6
<1>8. \A i \in 1..Len(q) :
        g[i] = IF Missed(q[i], n) THEN Append(g[i - 1], q[i]) ELSE g[i - 1]
  BY <1>2, <1>6
<1> QED
  BY <1>5, <1>7, <1>8

\* What a client has missed are events of the stream, in the stream's order,
\* and the stream's last event is the last of them if it is one of them.
LEMMA LaterOK ==
  ASSUME NEW q \in Seq(Id), NEW n
  PROVE  /\ Later(q, n) \in Seq(Id)
         /\ Len(Later(q, n)) <= Len(q)
         /\ \A j \in 1..Len(Later(q, n)) :
              \E k \in 1..Len(q) : Later(q, n)[j] = q[k] /\ Missed(q[k], n)
         /\ Increasing(q) => Increasing(Later(q, n))
         /\ q # <<>> /\ Missed(q[Len(q)], n) =>
              /\ Later(q, n) # <<>>
              /\ Later(q, n)[Len(Later(q, n))] = q[Len(q)]
         /\ (\A k \in 1..Len(q) : ~Missed(q[k], n)) => Later(q, n) = <<>>
<1>1. PICK f : /\ Later(q, n) = f[Len(q)]
               /\ f[0] = <<>>
               /\ \A i \in 1..Len(q) :
                    f[i] = IF Missed(q[i], n) THEN Append(f[i - 1], q[i]) ELSE f[i - 1]
  BY LaterStepwise
<1>2. Len(q) \in Nat /\ \A k \in 1..Len(q) : q[k] \in Id
  OBVIOUS
<1> DEFINE Good(i) == /\ f[i] \in Seq(Id)
                      /\ Len(f[i]) <= i
                      /\ \A j \in 1..Len(f[i]) :
                           \E k \in 1..i : f[i][j] = q[k] /\ Missed(q[k], n)
                      /\ Increasing(q) => Increasing(f[i])
                      /\ (\A k \in 1..Len(q) : ~Missed(q[k], n)) => f[i] = <<>>
           Bad     == {i \in 0..Len(q) : ~Good(i)}
<1>3. Good(0)
  BY <1>1 DEF Increasing
<1>4. ASSUME NEW m \in 1..Len(q), Good(m - 1) PROVE Good(m)
  <2>1. m \in Nat /\ m - 1 \in Nat /\ q[m] \in Id
    BY <1>2
  <2>2. /\ f[m - 1] \in Seq(Id)
        /\ Len(f[m - 1]) <= m - 1
        /\ \A j \in 1..Len(f[m - 1]) :
             \E k \in 1..(m - 1) : f[m - 1][j] = q[k] /\ Missed(q[k], n)
    BY <1>4
  <2>3. Increasing(q) => Increasing(f[m - 1])
    BY <1>4
  <2>4. (\A k \in 1..Len(q) : ~Missed(q[k], n)) => f[m - 1] = <<>>
    BY <1>4
  <2> HIDE DEF Good
  <2>5. \A k \in 1..(m - 1) : k \in 1..m /\ k < m /\ k \in 1..Len(q)
    BY <1>2, <2>1
  <2>6. CASE Missed(q[m], n)
    <3>1. f[m] = Append(f[m - 1], q[m])
      BY <1>1, <2>6
    <3>2. /\ f[m] \in Seq(Id) /\ Len(f[m]) = Len(f[m - 1]) + 1 /\ Len(f[m - 1]) \in Nat
          /\ f[m][Len(f[m - 1]) + 1] = q[m]
      BY <2>1, <2>2, <3>1
    <3>3. \A j \in 1..Len(f[m - 1]) : f[m][j] = f[m - 1][j]
      BY <2>1, <2>2, <3>1
    <3>4. \A j \in 1..Len(f[m]) : j \in 1..Len(f[m - 1]) \/ j = Len(f[m - 1]) + 1
      BY <3>2
    <3>5. m \in 1..m
      BY <2>1
    <3>6. ASSUME NEW j \in 1..Len(f[m])
          PROVE  \E k \in 1..m : f[m][j] = q[k] /\ Missed(q[k], n)
      <4>1. CASE j \in 1..Len(f[m - 1])
        <5>1. PICK k \in 1..(m - 1) : f[m - 1][j] = q[k] /\ Missed(q[k], n)
          BY <2>2, <4>1
        <5>2. f[m][j] = q[k] /\ k \in 1..m
          BY <2>5, <3>3, <4>1, <5>1
        <5> QED
          BY <5>1, <5>2
      <4>2. CASE j = Len(f[m - 1]) + 1
        <5>1. f[m][j] = q[m]
          BY <3>2, <4>2
        <5> QED
          BY <2>6, <3>5, <5>1
      <4> QED
        BY <3>4, <4>1, <4>2
    <3>7. ASSUME Increasing(q) PROVE Increasing(f[m])
      <4>1. \A i, j \in 1..Len(f[m - 1]) : i < j => f[m - 1][i] < f[m - 1][j]
        BY <2>2, <2>3, <3>7 DEF Increasing
      <4>2. \A j \in 1..Len(f[m - 1]) : f[m - 1][j] < q[m]
        <5> SUFFICES ASSUME NEW j \in 1..Len(f[m - 1]) PROVE f[m - 1][j] < q[m]
          OBVIOUS
        <5>1. PICK k \in 1..(m - 1) : f[m - 1][j] = q[k]
          BY <2>2
        <5>2. k \in DOMAIN q /\ m \in DOMAIN q /\ k < m
          BY <2>5
        <5> QED
          BY <3>7, <5>1, <5>2 DEF Increasing
      <4>3. ASSUME NEW i \in 1..Len(f[m]), NEW j \in 1..Len(f[m]), i < j
            PROVE  f[m][i] < f[m][j]
        <5>1. i \in 1..Len(f[m - 1])
          BY <3>2, <4>3
        <5>2. CASE j \in 1..Len(f[m - 1])
          BY <3>3, <4>1, <4>3, <5>1, <5>2
        <5>3. CASE j = Len(f[m - 1]) + 1
          BY <3>2, <3>3, <4>2, <5>1, <5>3
        <5> QED
          BY <3>4, <5>2, <5>3
      <4>4. DOMAIN f[m] = 1..Len(f[m])
        BY <3>2
      <4> QED
        BY <4>3, <4>4 DEF Increasing
    <3>8. Len(f[m]) <= m
      BY <2>1, <2>2, <3>2
    <3>9. ~ \A k \in 1..Len(q) : ~Missed(q[k], n)
      BY <2>6
    <3> QED
      BY <3>2, <3>6, <3>7, <3>8, <3>9 DEF Good
  <2>7. CASE ~Missed(q[m], n)
    <3>1. f[m] = f[m - 1]
      BY <1>1, <2>7
    <3>2. Len(f[m]) <= m
      BY <2>1, <2>2, <3>1
    <3>3. \A j \in 1..Len(f[m]) : \E k \in 1..m : f[m][j] = q[k] /\ Missed(q[k], n)
      BY <2>2, <2>5, <3>1
    <3> QED
      BY <2>2, <2>3, <2>4, <3>1, <3>2, <3>3 DEF Good
  <2> QED
    BY <2>6, <2>7
<1>5. Bad = {}
  <2> SUFFICES ASSUME Bad # {} PROVE FALSE
    OBVIOUS
  <2>1. Bad \in SUBSET Nat
    OBVIOUS
  <2>2. PICK m \in Bad : \A k \in Bad : m <= k
    <3> HIDE DEF Bad
    <3> QED
      BY <2>1, LeastElement
  <2>3. m \in 0..Len(q) /\ ~Good(m)
    <3> HIDE DEF Good
    <3> QED
      BY <2>2
  <2>4. m # 0
    <3> HIDE DEF Good
    <3> QED
      BY <1>3, <2>3
  <2>5. m \in 1..Len(q) /\ m - 1 \in 0..Len(q) /\ m - 1 < m
    BY <1>2, <2>3, <2>4
  <2>6. m - 1 \notin Bad
    <3> HIDE DEF Bad
    <3> QED
      BY <2>2, <2>5
  <2>7. Good(m - 1)
    <3> HIDE DEF Good
    <3> QED
      BY <2>5, <2>6
  <2> HIDE DEF Good
  <2> QED
    BY <1>4, <2>3, <2>5, <2>7
<1>6. Len(q) \in 0..Len(q)
  BY <1>2
<1>7. Good(Len(q))
  <2> HIDE DEF Good
  <2> QED
    BY <1>5, <1>6
<1> DEFINE r == Later(q, n)
<1>8. r = f[Len(q)]
  BY <1>1
<1>9. /\ r \in Seq(Id)
      /\ Len(r) <= Len(q)
      /\ \A j \in 1..Len(r) : \E k \in 1..Len(q) : r[j] = q[k] /\ Missed(q[k], n)
      /\ Increasing(q) => Increasing(r)
      /\ (\A k \in 1..Len(q) : ~Missed(q[k], n)) => r = <<>>
  <2> HIDE DEF r
  <2> QED
    BY <1>7, <1>8
<1>10. ASSUME q # <<>>, Missed(q[Len(q)], n) PROVE r # <<>> /\ r[Len(r)] = q[Len(q)]
  <2>1. Len(q) \in 1..Len(q) /\ Len(q) - 1 \in 0..Len(q)
    BY <1>2, <1>10
  <2>2. r = Append(f[Len(q) - 1], q[Len(q)])
    BY <1>1, <1>8, <1>10, <2>1
  <2>3. Good(Len(q) - 1)
    <3> HIDE DEF Good
    <3> QED
      BY <1>5, <2>1
  <2>4. f[Len(q) - 1] \in Seq(Id) /\ q[Len(q)] \in Id
    BY <1>2, <2>1, <2>3
  <2> HIDE DEF r
  <2> QED
    BY <2>2, <2>4
<1> QED
  BY <1>9, <1>10 DEF r

\* An event has a number, and is to be kept or not.
LEMMA LogEntry ==
  ASSUME TypeOK, NEW e \in Events
  PROVE  log[e].number \in Id /\ log[e].kept \in BOOLEAN /\ e \in 1..Len(log)
<1> DEFINE R == [number : Id, kept : BOOLEAN]
<1>1. log \in Seq(R)
  BY DEF TypeOK
<1> HIDE DEF R
<1>2. e \in 1..Len(log) /\ log[e] \in R
  BY <1>1 DEF Events
<1> QED
  BY <1>2 DEF R

\* What is written of a batch is stored, each event under its own number, if no
\* number is taken; what is in the table stays.
LEMMA RowsStored ==
  ASSUME TypeOK, Published, Fresh, NEW es \in Seq(Id), Range(es) \subseteq Range(batch)
  PROVE  /\ Stored(table, es) \in [Id -> Id \cup {0}]
         /\ \A e \in Range(es) : Stored(table, es)[log[e].number] = e
         /\ \A n \in Id : table[n] # 0 => Stored(table, es)[n] = table[n]
         /\ \A n \in Id : table[n] = 0 /\ Stored(table, es)[n] # 0 =>
              /\ Stored(table, es)[n] \in Range(es)
              /\ log[Stored(table, es)[n]].number = n
<1> DEFINE same(n) == {e \in Range(es) : log[e].number = n}
           t       == Stored(table, es)
<1>1. \A n \in Id : t[n] = IF table[n] # 0 \/ same(n) = {} THEN table[n] ELSE Min(same(n))
  BY DEF Stored
<1>2. ASSUME NEW e \in Range(es)
      PROVE  /\ e \in Id /\ log[e].number \in Id /\ table[log[e].number] = 0
             /\ same(log[e].number) = {e}
  <2>1. e \in InHand
    BY DEF InHand
  <2>2. e \in Events
    BY <2>1 DEF Published
  <2>3. log[e].number \in Id
    BY <2>2, LogEntry
  <2>4. e \in Id
    BY RangeOf DEF TypeOK
  <2>5. table[log[e].number] = 0
    BY <2>1 DEF Fresh
  <2>6. \A d \in Range(es) : log[d].number = log[e].number => d = e
    BY <2>1 DEF Fresh, InHand
  <2> QED
    BY <2>3, <2>4, <2>5, <2>6
<1>3. \A e \in Id : Min({e}) = e
  <2>1. \A e \in Id : e <= e
    BY DEF Id
  <2> QED
    BY <2>1 DEF Min
<1>4. \A e \in Range(es) : t[log[e].number] = e
  <2> SUFFICES ASSUME NEW e \in Range(es) PROVE t[log[e].number] = e
    OBVIOUS
  <2> HIDE DEF t, same
  <2> QED
    BY <1>1, <1>2, <1>3
<1>5. \A n \in Id : table[n] # 0 => t[n] = table[n]
  <2> HIDE DEF t, same
  <2> QED
    BY <1>1
<1>6. ASSUME NEW n \in Id, table[n] = 0, t[n] # 0
      PROVE  t[n] \in Range(es) /\ log[t[n]].number = n /\ t[n] \in Id
  <2>1. PICK e \in Range(es) : log[e].number = n
    <3>1. same(n) # {}
      <4> HIDE DEF t, same
      <4> QED
        BY <1>1, <1>6
    <3> QED
      BY <3>1
  <2>2. t[n] = e
    <3> HIDE DEF t, same
    <3> QED
      BY <1>4, <2>1
  <2> QED
    BY <1>2, <2>1, <2>2
<1>7. t \in [Id -> Id \cup {0}]
  <2>1. t = [n \in Id |-> t[n]]
    BY DEF Stored
  <2>2. \A n \in Id : t[n] \in Id \cup {0}
    <3>1. \A n \in Id : table[n] \in Id \cup {0}
      BY DEF TypeOK
    <3> HIDE DEF t, same
    <3> QED
      BY <1>5, <1>6, <3>1
  <2> HIDE DEF t
  <2> QED
    BY <2>1, <2>2
<1> QED
  <2> HIDE DEF same
  <2> QED
    BY <1>4, <1>5, <1>6, <1>7

----------------------------------------------------

\* The statements before the one that fails are a part of the batch.
LEMMA PartOfBatch ==
  ASSUME TypeOK, NEW k \in 0..Len(batch)
  PROVE  /\ SubSeq(batch, 1, k) \in Seq(Id)
         /\ Range(SubSeq(batch, 1, k)) \subseteq Range(batch)
<1>1. batch \in Seq(Id) /\ Len(batch) \in Nat
  BY DEF TypeOK
<1> DEFINE p == SubSeq(batch, 1, k)
<1>2. p \in Seq(Id) /\ Len(p) = k /\ \A i \in 1..k : p[i] = batch[i]
  BY <1>1
<1> HIDE DEF p
<1>3. ASSUME NEW x \in Range(p) PROVE x \in Range(batch)
  <2>1. PICK i \in 1..Len(p) : p[i] = x
    BY <1>2, RangeOf
  <2>2. i \in 1..Len(batch) /\ batch[i] = x
    BY <1>1, <1>2, <2>1
  <2> QED
    BY <1>1, <2>2, RangeOf
<1>4. Range(p) \subseteq Range(batch)
  BY <1>3
<1> QED
  BY <1>2, <1>4 DEF p

\* The batch that is written whole.
LEMMA StoredOK ==
  ASSUME TypeOK, Published, Fresh
  PROVE  /\ Stored(table, batch) \in [Id -> Id \cup {0}]
         /\ \A e \in Range(batch) : Stored(table, batch)[log[e].number] = e
         /\ \A n \in Id : table[n] # 0 => Stored(table, batch)[n] = table[n]
         /\ \A n \in Id : table[n] = 0 /\ Stored(table, batch)[n] # 0 =>
              /\ Stored(table, batch)[n] \in Range(batch)
              /\ log[Stored(table, batch)[n]].number = n
<1>1. batch \in Seq(Id)
  BY DEF TypeOK
<1>2. Range(batch) \subseteq Range(batch)
  OBVIOUS
<1> QED
  BY <1>1, <1>2, RowsStored

\* The batch whose write fails.
LEMMA PartStored ==
  ASSUME TypeOK, Published, Fresh, NEW t,
         \E k \in 0..Len(batch) : t = Stored(table, SubSeq(batch, 1, k))
  PROVE  /\ t \in [Id -> Id \cup {0}]
         /\ \A n \in Id : table[n] # 0 => t[n] = table[n]
         /\ \A n \in Id : table[n] = 0 /\ t[n] # 0 =>
              t[n] \in Range(batch) /\ log[t[n]].number = n
<1>1. PICK k \in 0..Len(batch) : t = Stored(table, SubSeq(batch, 1, k))
  OBVIOUS
<1>2. PICK es : es = SubSeq(batch, 1, k)
  OBVIOUS
<1>3. es \in Seq(Id) /\ Range(es) \subseteq Range(batch) /\ t = Stored(table, es)
  BY <1>1, <1>2, PartOfBatch
<1>4. /\ Stored(table, es) \in [Id -> Id \cup {0}]
      /\ \A n \in Id : table[n] # 0 => Stored(table, es)[n] = table[n]
      /\ \A n \in Id : table[n] = 0 /\ Stored(table, es)[n] # 0 =>
           /\ Stored(table, es)[n] \in Range(es)
           /\ log[Stored(table, es)[n]].number = n
  BY <1>3, RowsStored
<1> QED
  BY <1>3, <1>4

-------------------------
(* Publishing.                                                             *)

\* Types of the events and whatever holds them, and of the rest.
BusTypes ==
  /\ log \in Seq([number : Id, kept : BOOLEAN]) /\ Len(log) <= MaxLog
  /\ stream \in [sequence : 0..MaxLog, replay : Seq(Id), closed : BOOLEAN, exists : BOOLEAN]
  /\ Len(stream.replay) <= ReplayLimit
  /\ waiting \in Seq(Id) /\ Len(waiting) <= PersistQueue /\ batch \in Seq(Id)
  /\ worker \in {"on", "stopping", "drained", "off"}
  /\ table \in [Id -> Id \cup {0}] /\ overflowed \subseteq Id
  /\ conn \in [Client -> {"away", "open", "dropped"}]
  /\ inbox \in [Client -> Seq(Id)] /\ \A c \in Client : Len(inbox[c]) <= ClientQueue
  /\ last \in [Client -> Id \cup {0}]

TaskTypes ==
  /\ row \in {"new", "running", "cancelling", "paused", "claimed", "over", "refused",
              "stranded"}
  /\ closing \in 0..(MaxResumes + 1) /\ refusals \in 0..MaxResumes
  /\ cancelled \in 0..MaxCancels /\ cancels \in 0..MaxCancels
  /\ request \in {"idle", "claimed", "fetched", "deal"} /\ highest \in 0..MaxLog
  /\ mode \in {"up", "stopping", "down"}
  /\ resumes \in 0..MaxResumes /\ restarts \in 0..MaxRestarts /\ faults \in 0..MaxFaults

\* The types fall into those of the bus and those of the task.
LEMMA TypeParts ==
  /\ TypeOK <=> BusTypes /\ TaskTypes
  /\ TypeOK' <=> BusTypes' /\ TaskTypes'
BY DEF TypeOK, BusTypes, TaskTypes

\* The bound on events is a number.
LEMMA MaxLogNat ==
  MaxLog \in Nat
BY LimitsAssumption DEF MaxLog

\* There is room for one more event as long as one is owed.
LEMMA Room ==
  ASSUME TypeOK, Counted,
         row \in Working \cup {"new"} \/ closing > 0 \/ cancelled > 0 \/ request = "deal"
  PROVE  Len(log) < MaxLog
<1>1. /\ closing \in Nat /\ cancelled \in Nat /\ resumes \in Nat /\ cancels \in Nat
      /\ resumes <= MaxResumes /\ cancels <= MaxCancels /\ Len(log) \in Nat
      /\ MaxResumes \in Nat /\ MaxCancels \in Nat /\ MaxEvents \in Nat
  BY LimitsAssumption DEF TypeOK
<1>2. Owed \in Nat /\ Owed >= 1
  BY <1>1 DEF Owed
<1>3. Len(log) + Owed <= MaxEvents + 2 + 2 * resumes + cancels
  BY DEF Counted
<1>4. 2 * resumes <= 2 * MaxResumes
  BY <1>1
<1>5. MaxLog = MaxEvents + 2 * MaxResumes + 2 + MaxCancels
  BY <1>1 DEF MaxLog
<1> QED
  BY <1>1, <1>2, <1>3, <1>4, <1>5

\* What publish does to the log, the stream, the queue of the persister and the
\* queues of clients.
LEMMA PublishOK ==
  ASSUME TypeOK, Published, Len(log) < MaxLog, stream.exists,
         NEW kept \in BOOLEAN, NEW closed \in BOOLEAN, Publish(stream, kept, closed)
  PROVE  /\ log' \in Seq([number : Id, kept : BOOLEAN])
         /\ Len(log') = Len(log) + 1
         /\ Len(log) + 1 \in Id
         /\ \A i \in Events : log'[i] = log[i]
         /\ log'[Len(log) + 1] = [number |-> stream.sequence + 1, kept |-> kept]
         /\ \A i : i \in Events' <=> i \in Events \/ i = Len(log) + 1
         /\ stream'.sequence = stream.sequence + 1 /\ stream'.exists
         /\ stream'.replay = Newest(Append(stream.replay, Len(log) + 1), ReplayLimit)
         /\ stream' \in [sequence : 0..MaxLog, replay : Seq(Id), closed : BOOLEAN,
                         exists : BOOLEAN]
         /\ Len(stream'.replay) <= ReplayLimit
<1> DEFINE e == Len(log) + 1
           R == [number : Id, kept : BOOLEAN]
<1>1. /\ Len(log) \in Nat /\ e \in Id /\ stream.sequence \in 0..MaxLog
      /\ stream.sequence + 1 \in Id /\ MaxLog \in Nat
  <2>1. Len(log) \in Nat /\ stream.sequence \in 0..MaxLog
    BY DEF TypeOK
  <2>2. MaxLog \in Nat
    BY LimitsAssumption DEF MaxLog
  <2>3. stream.sequence <= Len(log)
    BY DEF Published
  <2> QED
    BY <2>1, <2>2, <2>3 DEF Id
<1>2. log \in Seq(R) /\ [number |-> stream.sequence + 1, kept |-> kept] \in R
  BY <1>1 DEF TypeOK
<1>3. log' = Append(log, [number |-> stream.sequence + 1, kept |-> kept])
  BY DEF Publish
<1>4. /\ log' \in Seq(R) /\ Len(log') = Len(log) + 1
      /\ \A i \in 1..Len(log) : log'[i] = log[i]
      /\ log'[e] = [number |-> stream.sequence + 1, kept |-> kept]
  <2> DEFINE r == [number |-> stream.sequence + 1, kept |-> kept]
  <2> HIDE DEF R, r
  <2> QED
    BY <1>2, <1>3 DEF r
<1>5. Events = 1..Len(log) /\ Events' = 1..Len(log')
  <2> HIDE DEF R
  <2> QED
    BY <1>2, <1>4 DEF Events
<1>6. stream.replay \in Seq(Id) /\ Append(stream.replay, e) \in Seq(Id)
  BY <1>1 DEF TypeOK
<1>7. /\ Newest(Append(stream.replay, e), ReplayLimit) \in Seq(Id)
      /\ Len(Newest(Append(stream.replay, e), ReplayLimit)) <= ReplayLimit
  BY <1>6, NewestOK, LimitsAssumption
<1>8. stream' = [stream EXCEPT !.exists = TRUE, !.sequence = @ + 1, !.closed = closed,
                               !.replay = Newest(Append(@, e), ReplayLimit)]
  BY DEF Publish
<1>9. stream \in [sequence : 0..MaxLog, replay : Seq(Id), closed : BOOLEAN, exists : BOOLEAN]
  BY DEF TypeOK
<1> DEFINE p == Newest(Append(stream.replay, e), ReplayLimit)
<1>10. /\ stream'.sequence = stream.sequence + 1 /\ stream'.exists /\ stream'.replay = p
       /\ stream' \in [sequence : 0..MaxLog, replay : Seq(Id), closed : BOOLEAN, exists : BOOLEAN]
  <2>1. stream' = [sequence |-> stream.sequence + 1, replay |-> p, closed |-> closed,
                   exists |-> TRUE]
    <3> HIDE DEF p
    <3>1. stream' = [stream EXCEPT !.exists = TRUE, !.sequence = stream.sequence + 1,
                                   !.closed = closed, !.replay = p]
      BY <1>8 DEF p
    <3> QED
      BY <1>9, <3>1
  <2>2. stream.sequence + 1 \in 0..MaxLog
    BY <1>1 DEF Id
  <2> HIDE DEF p
  <2> QED
    BY <1>7, <2>1, <2>2 DEF p
<1>11. \A i : i \in Events' <=> i \in Events \/ i = e
  BY <1>1, <1>4, <1>5
<1> QED
  BY <1>1, <1>4, <1>5, <1>7, <1>10, <1>11

\* What publish queues: an event that is kept waits for the persister, and every
\* client in good standing has it at the end of its queue.
LEMMA PublishQueues ==
  ASSUME TypeOK, Published, Len(log) < MaxLog,
         NEW kept \in BOOLEAN, NEW closed \in BOOLEAN, Publish(stream, kept, closed)
  PROVE  /\ waiting' \in Seq(Id) /\ Len(waiting') <= PersistQueue
         /\ \A x \in Range(waiting') : x \in Range(waiting) \/ (kept /\ x = Len(log) + 1)
         /\ kept => Len(log) + 1 \in Range(waiting')
         /\ overflowed' = overflowed \cup (Range(waiting) \ Range(waiting'))
         /\ \A c \in Client : conn'[c] = IF Slow(c) THEN "dropped" ELSE conn[c]
         /\ \A c \in Client : inbox'[c] = IF conn[c] = "open" /\ ~Slow(c)
                                          THEN Append(inbox[c], Len(log) + 1) ELSE inbox[c]
         /\ conn' \in [Client -> {"away", "open", "dropped"}]
         /\ inbox' \in [Client -> Seq(Id)] /\ \A c \in Client : Len(inbox'[c]) <= ClientQueue
         /\ UNCHANGED <<last, batch, worker, table>>
<1> DEFINE e == Len(log) + 1
<1>1. e \in Id /\ waiting \in Seq(Id) /\ Append(waiting, e) \in Seq(Id)
  BY LimitsAssumption DEF TypeOK, Id, MaxLog
<1>2. /\ Queued(e) \in Seq(Id) /\ Len(Queued(e)) <= PersistQueue
      /\ \A x \in Range(Queued(e)) : x \in Range(waiting) \/ x = e
      /\ e \in Range(Queued(e))
  <2> DEFINE q == Append(waiting, e)
  <2>1. Len(q) > 0 /\ q[Len(q)] = e /\ q \in Seq(Id)
    BY <1>1
  <2>2. Newest(q, PersistQueue) \in Seq(Id) /\ Len(Newest(q, PersistQueue)) <= PersistQueue
    BY <2>1, NewestOK, LimitsAssumption
  <2>3. e \in Range(Newest(q, PersistQueue))
    <3> HIDE DEF q
    <3> QED
      BY <2>1, NewestLast, LimitsAssumption
  <2>4. \A x \in Range(Newest(q, PersistQueue)) : x \in Range(q)
    <3> HIDE DEF q
    <3> QED
      BY <2>1, NewestRange, LimitsAssumption
  <2>5. \A x : x \in Range(q) <=> x \in Range(waiting) \/ x = e
    BY <1>1, RangeAppend
  <2> QED
    BY <2>2, <2>3, <2>4, <2>5 DEF Queued
<1>3. /\ waiting' = IF kept THEN Queued(e) ELSE waiting
      /\ overflowed' = IF kept THEN overflowed \cup (Range(waiting) \ Range(Queued(e)))
                       ELSE overflowed
  BY DEF Publish
<1>4. Len(waiting) <= PersistQueue
  BY DEF TypeOK
<1>5. /\ waiting' \in Seq(Id) /\ Len(waiting') <= PersistQueue
      /\ \A x \in Range(waiting') : x \in Range(waiting) \/ (kept /\ x = e)
      /\ kept => e \in Range(waiting')
      /\ overflowed' = overflowed \cup (Range(waiting) \ Range(waiting'))
  <2>1. CASE kept
    BY <1>2, <1>3, <2>1
  <2>2. CASE ~kept
    BY <1>1, <1>3, <1>4, <2>2
  <2> QED
    BY <2>1, <2>2
<1>6. /\ conn'  = [c \in Client |-> IF Slow(c) THEN "dropped" ELSE conn[c]]
      /\ inbox' = [c \in Client |-> IF conn[c] = "open" /\ ~Slow(c) THEN Append(inbox[c], e)
                                   ELSE inbox[c]]
      /\ UNCHANGED <<last, batch, worker, table>>
  BY DEF Publish
<1>7. /\ conn' \in [Client -> {"away", "open", "dropped"}]
      /\ \A c \in Client : inbox[c] \in Seq(Id) /\ Len(inbox[c]) <= ClientQueue
  BY <1>6 DEF TypeOK
<1>8. ASSUME NEW c \in Client
      PROVE  inbox'[c] \in Seq(Id) /\ Len(inbox'[c]) <= ClientQueue
  <2>1. CASE conn[c] = "open" /\ ~Slow(c)
    <3>1. inbox'[c] = Append(inbox[c], e) /\ Len(inbox[c]) < ClientQueue
      BY <1>6, <1>7, <2>1, LimitsAssumption DEF Slow
    <3>2. inbox[c] \in Seq(Id) /\ Len(inbox[c]) \in Nat
      BY <1>7
    <3> QED
      BY <1>1, <3>1, <3>2, LimitsAssumption
  <2>2. CASE ~(conn[c] = "open" /\ ~Slow(c))
    BY <1>6, <1>7, <2>2
  <2> QED
    BY <2>1, <2>2
<1>9. inbox' \in [Client -> Seq(Id)]
  BY <1>6, <1>8
<1> QED
  BY <1>5, <1>6, <1>7, <1>8, <1>9

\* A step that publishes into the stream of the process.
Publishes(kept, closed) ==
  /\ Publish(stream, kept, closed) /\ stream.exists /\ Len(log) < MaxLog
  /\ highest' = highest /\ restarts' = restarts /\ faults' \in {faults, faults + 1}

\* Publishing keeps the types.
LEMMA PublishTypes ==
  ASSUME TypeOK, Published, NEW kept \in BOOLEAN, NEW closed \in BOOLEAN,
         Publishes(kept, closed)
  PROVE  BusTypes'
<1> USE DEF Publishes
<1>1. /\ log' \in Seq([number : Id, kept : BOOLEAN])
      /\ Len(log') <= MaxLog
      /\ stream' \in [sequence : 0..MaxLog, replay : Seq(Id), closed : BOOLEAN, exists : BOOLEAN]
      /\ Len(stream'.replay) <= ReplayLimit
  <2>1. Len(log') = Len(log) + 1 /\ Len(log) + 1 \in Id
    BY PublishOK
  <2>2. Len(log') <= MaxLog
    BY <2>1 DEF Id
  <2> QED
    BY <2>2, PublishOK
<1>2. /\ waiting' \in Seq(Id) /\ Len(waiting') <= PersistQueue
      /\ overflowed' \subseteq overflowed \cup Range(waiting)
      /\ conn' \in [Client -> {"away", "open", "dropped"}]
      /\ inbox' \in [Client -> Seq(Id)] /\ \A c \in Client : Len(inbox'[c]) <= ClientQueue
      /\ UNCHANGED <<last, batch, worker, table>>
  BY PublishQueues
<1>3. Range(waiting) \subseteq Id
  BY RangeOf DEF TypeOK
<1>4. /\ batch \in Seq(Id) /\ worker \in {"on", "stopping", "drained", "off"}
      /\ table \in [Id -> Id \cup {0}] /\ overflowed \subseteq Id
      /\ last \in [Client -> Id \cup {0}]
  BY DEF TypeOK
<1>5. overflowed' \subseteq Id
  BY <1>2, <1>3, <1>4
<1> QED
  BY <1>1, <1>2, <1>4, <1>5 DEF BusTypes

\* An event that is published is in the log.
LEMMA PublishPublished ==
  ASSUME TypeOK, Published, NEW kept \in BOOLEAN, NEW closed \in BOOLEAN,
         Publishes(kept, closed)
  PROVE  Published'
<1> DEFINE e == Len(log) + 1
<1> USE DEF Publishes
<1>0. Len(log) \in Nat /\ Events = 1..Len(log)
  BY DEF TypeOK, Events
<1>1. /\ Len(log') = e /\ e \in Id
      /\ \A i \in Events : log'[i] = log[i]
      /\ log'[e] = [number |-> stream.sequence + 1, kept |-> kept]
      /\ \A i : i \in Events' <=> i \in Events \/ i = e
      /\ stream'.sequence = stream.sequence + 1
      /\ stream'.replay = Newest(Append(stream.replay, e), ReplayLimit)
  BY PublishOK
<1>2. /\ \A x \in Range(waiting') : x \in Range(waiting) \/ (kept /\ x = e)
      /\ overflowed' = overflowed \cup (Range(waiting) \ Range(waiting'))
      /\ \A c \in Client : inbox'[c] = IF conn[c] = "open" /\ ~Slow(c)
                                       THEN Append(inbox[c], e) ELSE inbox[c]
      /\ UNCHANGED <<last, batch, worker, table>>
  BY PublishQueues
<1>3. \A x \in InHand \cup overflowed \cup Range(stream.replay) : x \in Events
  BY DEF Published
<1>4. e \notin Events
  BY <1>0
<1>5. \A x \in Range(stream'.replay) : x \in Range(stream.replay) \/ x = e
  <2> DEFINE q == Append(stream.replay, e)
  <2>1. stream.replay \in Seq(Id)
    BY DEF TypeOK
  <2>2. q \in Seq(Id)
    BY <1>1, <2>1
  <2>3. \A x \in Range(Newest(q, ReplayLimit)) : x \in Range(q)
    <3> HIDE DEF q
    <3> QED
      BY <2>2, NewestRange, LimitsAssumption
  <2>4. \A x : x \in Range(q) <=> x \in Range(stream.replay) \/ x = e
    BY <1>1, <2>1, RangeAppend
  <2> QED
    BY <1>1, <2>3, <2>4
<1>6. \A x \in (InHand \cup overflowed \cup Range(stream.replay))' : x \in Events'
  BY <1>1, <1>2, <1>3, <1>5 DEF InHand
<1>7. \A c \in Client : (last'[c] # 0 => last'[c] \in Events') /\ Range(inbox'[c]) \subseteq Events'
  <2> SUFFICES ASSUME NEW c \in Client
               PROVE  (last'[c] # 0 => last'[c] \in Events') /\ Range(inbox'[c]) \subseteq Events'
    OBVIOUS
  <2>1. (last[c] # 0 => last[c] \in Events) /\ Range(inbox[c]) \subseteq Events
    BY DEF Published
  <2>2. inbox[c] \in Seq(Id)
    BY DEF TypeOK
  <2>3. \A x : x \in Range(Append(inbox[c], e)) <=> x \in Range(inbox[c]) \/ x = e
    BY <1>1, <2>2, RangeAppend
  <2>4. Range(inbox'[c]) \subseteq Events'
    BY <1>1, <1>2, <2>1, <2>3
  <2> QED
    BY <1>1, <1>2, <2>1, <2>4
<1>8. /\ stream.sequence \in Nat /\ stream.sequence <= Len(log)
      /\ highest <= Len(log) /\ highest \in Nat
  BY DEF TypeOK, Published
<1>9. \A i \in Events' : log'[i].number <= i
  <2>1. \A i \in Events : log[i].number <= i
    BY DEF Published
  <2>2. log'[e].number <= e
    BY <1>0, <1>1, <1>8
  <2> QED
    BY <1>1, <2>1, <2>2
<1>10. \A n \in Id : table'[n] # 0 => table'[n] \in Events' /\ log'[table'[n]].number = n
  <2>1. \A n \in Id : table[n] # 0 => table[n] \in Events /\ log[table[n]].number = n
    BY DEF Published
  <2> QED
    BY <1>1, <1>2, <2>1
<1>11. stream'.sequence <= Len(log') /\ highest' <= Len(log')
  BY <1>0, <1>1, <1>8
<1>12. Len(log') \notin overflowed'
  BY <1>1, <1>2, <1>3, <1>4 DEF InHand
<1> QED
  BY <1>6, <1>7, <1>9, <1>10, <1>11, <1>12 DEF Published

\* Its number is new.
LEMMA PublishFresh ==
  ASSUME TypeOK, Published, Fresh, NEW kept \in BOOLEAN, NEW closed \in BOOLEAN,
         Publishes(kept, closed)
  PROVE  Fresh'
<1> DEFINE e == Len(log) + 1
           s == stream.sequence
<1> USE DEF Publishes
<1>1. /\ Len(log') = e /\ e \in Id
      /\ \A i \in Events : log'[i] = log[i]
      /\ log'[e] = [number |-> s + 1, kept |-> kept]
      /\ stream'.sequence = s + 1 /\ stream'.exists
  BY PublishOK
<1>2. /\ \A x \in Range(waiting') : x \in Range(waiting) \/ (kept /\ x = e)
      /\ UNCHANGED <<last, batch, worker, table>>
  BY PublishQueues
<1>3. s \in Nat /\ s <= Len(log) /\ Len(log) \in Nat /\ s + 1 \in Id
  <2>1. s \in Nat /\ s <= Len(log) /\ Len(log) \in Nat
    BY DEF TypeOK, Published
  <2> QED
    BY <1>1, <2>1, MaxLogNat DEF Id
<1>4. \A x \in InHand : x \in Events /\ log'[x] = log[x]
  BY <1>1 DEF Published
<1>5. \A x \in InHand' : x \in InHand \/ x = e
  BY <1>2 DEF InHand
<1>6. \A x \in InHand : log[x].number <= s /\ table[log[x].number] = 0 /\ log[x].number \in Nat
  <2>1. \A x \in InHand : log[x].number <= s /\ table[log[x].number] = 0
    BY DEF Fresh
  <2>2. \A x \in InHand : log[x].number \in Id
    BY <1>4, LogEntry
  <2> QED
    BY <2>1, <2>2 DEF Id
<1>7. \A n \in Id : table[n] # 0 => n <= s
  BY DEF Fresh
<1>8. table[s + 1] = 0
  BY <1>3, <1>7
<1>9. log'[e].number = s + 1
  BY <1>1
<1>10. \A x \in InHand' : table'[log'[x].number] = 0
  BY <1>2, <1>4, <1>5, <1>6, <1>8, <1>9
<1>11. ASSUME NEW x \in InHand', NEW y \in InHand', log'[x].number = log'[y].number
       PROVE  x = y
  <2>1. \A u, v \in InHand : log[u].number = log[v].number => u = v
    BY DEF Fresh
  <2>2. CASE x \in InHand /\ y \in InHand
    BY <1>4, <1>11, <2>1, <2>2
  <2>3. CASE x \in InHand /\ y = e
    BY <1>3, <1>4, <1>6, <1>9, <1>11, <2>3
  <2>4. CASE x = e /\ y \in InHand
    BY <1>3, <1>4, <1>6, <1>9, <1>11, <2>4
  <2> QED
    BY <1>5, <2>2, <2>3, <2>4
<1>12. \A x \in InHand' : log'[x].number <= s + 1
  BY <1>3, <1>4, <1>5, <1>6, <1>9
<1>13. \A n \in Id : table'[n] # 0 => n <= s + 1
  <2>1. \A n \in Id : n <= s => n <= s + 1
    BY <1>3 DEF Id
  <2> QED
    BY <1>2, <1>7, <2>1
<1>14. highest' <= s + 1
  <2>1. highest <= s /\ highest \in Nat
    BY DEF Fresh, TypeOK
  <2> QED
    BY <1>3, <2>1
<1> QED
  BY <1>1, <1>10, <1>11, <1>12, <1>13, <1>14 DEF Fresh

\* It is queued for the table, if it is to be kept.
LEMMA PublishAccounted ==
  ASSUME TypeOK, Published, NothingVanishes, NEW kept \in BOOLEAN, NEW closed \in BOOLEAN,
         Publishes(kept, closed)
  PROVE  NothingVanishes'
<1> SUFFICES ASSUME NEW e, e = Len(log) + 1 PROVE NothingVanishes'
  OBVIOUS
<1> USE DEF Publishes
<1>1. /\ \A i \in Events : log'[i] = log[i]
      /\ log'[e] = [number |-> stream.sequence + 1, kept |-> kept]
      /\ \A i : i \in Events' <=> i \in Events \/ i = e
  BY PublishOK
<1>2. /\ kept => e \in Range(waiting')
      /\ overflowed' = overflowed \cup (Range(waiting) \ Range(waiting'))
      /\ UNCHANGED <<last, batch, worker, table>>
  BY PublishQueues
<1>3. faults' = 0 => faults = 0
  BY DEF TypeOK
<1>4. \A i \in Events : Accounted(i) => Accounted(i)'
  BY <1>1, <1>2 DEF Accounted
<1>5. kept => Accounted(e)'
  BY <1>2 DEF Accounted
<1>6. log'[e].kept = kept
  BY <1>1
<1> QED
  BY <1>1, <1>3, <1>4, <1>5, <1>6 DEF NothingVanishes

\* It counts on, if no number was given twice.
LEMMA PublishStraight ==
  ASSUME TypeOK, Published, Straight, NEW kept \in BOOLEAN, NEW closed \in BOOLEAN,
         Publishes(kept, closed)
  PROVE  Straight' /\ (Unbroken' => Unbroken)
<1> DEFINE e == Len(log) + 1
<1> USE DEF Publishes
<1>1. /\ Len(log') = e
      /\ \A i \in Events : log'[i] = log[i]
      /\ log'[e] = [number |-> stream.sequence + 1, kept |-> kept]
      /\ \A i : i \in Events' <=> i \in Events \/ i = e
      /\ stream'.sequence = stream.sequence + 1 /\ stream'.exists
  BY PublishOK
<1>3. faults' = 0 => faults = 0
  BY DEF TypeOK
<1>4. Unbroken' => Unbroken
  BY <1>1, <1>3 DEF Unbroken
<1>5. ASSUME Unbroken'
      PROVE  (\A i \in Events' : log'[i].number = i) /\ stream'.sequence = Len(log')
  <2>1. (\A i \in Events : log[i].number = i) /\ stream.sequence = Len(log)
    BY <1>4, <1>5 DEF Straight
  <2> QED
    BY <1>1, <2>1
<1> QED
  BY <1>1, <1>4, <1>5 DEF Straight

\* A longer queue is in order if the new event is the last.
LEMMA IncreasingAppend ==
  ASSUME NEW q \in Seq(Id), Increasing(q), NEW e \in Id, \A x \in Range(q) : x < e
  PROVE  Increasing(Append(q, e))
<1> DEFINE p == Append(q, e)
<1>1. Len(q) \in Nat /\ Len(p) = Len(q) + 1 /\ p \in Seq(Id) /\ p[Len(q) + 1] = e
  OBVIOUS
<1>2. \A i \in 1..Len(q) : p[i] = q[i]
  OBVIOUS
<1>3. \A i \in 1..Len(q) : q[i] < e
  BY RangeOf
<1> HIDE DEF p
<1>4. ASSUME NEW i \in 1..Len(p), NEW j \in 1..Len(p), i < j PROVE p[i] < p[j]
  <2>1. i \in 1..Len(q)
    BY <1>1, <1>4
  <2>2. CASE j \in 1..Len(q)
    BY <1>2, <1>4, <2>1, <2>2 DEF Increasing
  <2>3. CASE j = Len(q) + 1
    BY <1>1, <1>2, <1>3, <2>1, <2>3
  <2> QED
    BY <1>1, <2>2, <2>3
<1>5. DOMAIN p = 1..Len(p)
  BY <1>1
<1> QED
  BY <1>4, <1>5 DEF Increasing, p

\* It comes last on the stream and in the queues of clients.
LEMMA PublishSorted ==
  ASSUME TypeOK, Published, Sorted, Straight, NEW kept \in BOOLEAN, NEW closed \in BOOLEAN,
         Publishes(kept, closed)
  PROVE  Sorted'
<1> DEFINE e == Len(log) + 1
           s == stream.sequence
           q == Append(stream.replay, e)
           p == Newest(q, ReplayLimit)
           d == Len(q) - Len(p)
<1> USE DEF Publishes
<1>0. Len(log) \in Nat /\ Events = 1..Len(log) /\ s \in Nat
  BY DEF TypeOK, Events
<1>1. /\ Len(log') = e /\ e \in Id
      /\ \A i \in Events : log'[i] = log[i]
      /\ log'[e] = [number |-> s + 1, kept |-> kept]
      /\ stream'.sequence = s + 1
      /\ stream'.replay = p
  BY PublishOK
<1>2. /\ \A c \in Client : inbox'[c] = IF conn[c] = "open" /\ ~Slow(c)
                                       THEN Append(inbox[c], e) ELSE inbox[c]
      /\ UNCHANGED <<last, batch, worker, table>>
  BY PublishQueues
<1>3. stream.replay \in Seq(Id) /\ Len(stream.replay) \in Nat
  BY DEF TypeOK
<1>4. q \in Seq(Id) /\ Len(q) = Len(stream.replay) + 1 /\ q[Len(q)] = e
      /\ \A i \in 1..Len(stream.replay) : q[i] = stream.replay[i]
  BY <1>1, <1>3
<1>5. \A i \in 1..Len(stream.replay) : stream.replay[i] \in Events
  <2>1. \A x \in Range(stream.replay) : x \in Events
    BY DEF Published
  <2> QED
    BY <1>3, <2>1, RangeOf
<1>6. Increasing(q)
  <2>1. \A x \in Range(stream.replay) : x < e
    <3>1. \A x \in Range(stream.replay) : x \in Events
      BY DEF Published
    <3> QED
      BY <1>0, <3>1
  <2> QED
    BY <1>1, <1>3, <2>1, IncreasingAppend DEF Sorted
<1>7. \A i \in 1..Len(stream.replay) :
        /\ log'[q[i]].number = log[stream.replay[i]].number
        /\ log[stream.replay[i]].number <= s
        /\ log[stream.replay[i]].number \in Nat
  <2>1. \A i \in 1..Len(stream.replay) : log[stream.replay[i]].number <= s
    BY <1>3 DEF Sorted
  <2>2. \A i \in 1..Len(stream.replay) : log[stream.replay[i]].number \in Id
    BY <1>5, LogEntry
  <2> QED
    BY <1>1, <1>4, <1>5, <2>1, <2>2 DEF Id
<1>8. log'[q[Len(q)]].number = s + 1
  BY <1>1, <1>4
<1>9. ASSUME NEW i \in 1..Len(q)
      PROVE  log'[q[i]].number <= s + 1
  <2>1. i \in 1..Len(stream.replay) \/ i = Len(q)
    BY <1>3, <1>4
  <2> HIDE DEF q
  <2> QED
    BY <1>0, <1>7, <1>8, <2>1
<1>10. ASSUME NEW i \in 1..Len(q), NEW j \in 1..Len(q), i < j
       PROVE  log'[q[i]].number < log'[q[j]].number
  <2>1. i \in 1..Len(stream.replay)
    BY <1>3, <1>4, <1>10
  <2>2. CASE j \in 1..Len(stream.replay)
    <3>1. log[stream.replay[i]].number < log[stream.replay[j]].number
      BY <1>3, <1>10, <2>1, <2>2 DEF Sorted
    <3> HIDE DEF q
    <3> QED
      BY <1>7, <2>1, <2>2, <3>1
  <2>3. CASE j = Len(q)
    <3> HIDE DEF q
    <3> QED
      BY <1>0, <1>7, <1>8, <2>1, <2>3
  <2> QED
    BY <1>3, <1>4, <2>2, <2>3
<1> HIDE DEF q
<1>11. /\ p \in Seq(Id) /\ Len(p) <= Len(q)
       /\ \A i \in 1..Len(p) : i + d \in 1..Len(q) /\ p[i] = q[i + d]
  BY <1>4, NewestOK, LimitsAssumption
<1>12. DOMAIN p = 1..Len(p) /\ DOMAIN q = 1..Len(q) /\ d \in Nat
  BY <1>4, <1>11
<1> HIDE DEF p
<1>13. \A i, j \in 1..Len(p) : i < j => i + d < j + d
  BY <1>12
<1> HIDE DEF d
<1>14. Increasing(p)
  BY <1>6, <1>11, <1>12, <1>13 DEF Increasing
<1>15. \A i, j \in 1..Len(p) : i < j => log'[p[i]].number < log'[p[j]].number
  BY <1>10, <1>11, <1>13
<1>16. \A i \in 1..Len(p) : log'[p[i]].number <= s + 1
  BY <1>9, <1>11
<1>17. ASSUME NEW c \in Client
       PROVE  Increasing(inbox'[c])
  <2>1. Increasing(inbox[c]) /\ inbox[c] \in Seq(Id)
    BY DEF Sorted, TypeOK
  <2>2. \A x \in Range(inbox[c]) : x < e
    <3>1. Range(inbox[c]) \subseteq Events
      BY DEF Published
    <3> QED
      BY <1>0, <3>1
  <2>3. Increasing(Append(inbox[c], e))
    BY <1>1, <2>1, <2>2, IncreasingAppend
  <2> QED
    BY <1>2, <2>1, <2>3
<1>18. ASSUME Unbroken', NEW c \in Client, NEW i \in DOMAIN inbox'[c]
       PROVE  last'[c] < inbox'[c][i]
  <2>1. Unbroken
    BY <1>18, PublishStraight
  <2>2. \A k \in DOMAIN inbox[c] : last[c] < inbox[c][k]
    BY <2>1 DEF Sorted
  <2>3. last[c] < e /\ inbox[c] \in Seq(Id)
    <3>1. last[c] # 0 => last[c] \in Events
      BY DEF Published
    <3>2. inbox[c] \in Seq(Id) /\ last[c] \in Id \cup {0}
      BY DEF TypeOK
    <3> QED
      BY <1>0, <3>1, <3>2 DEF Id
  <2>4. CASE inbox'[c] = inbox[c]
    BY <1>2, <1>18, <2>2, <2>4
  <2>5. CASE inbox'[c] = Append(inbox[c], e)
    <3>1. /\ Len(inbox'[c]) = Len(inbox[c]) + 1 /\ Len(inbox[c]) \in Nat
          /\ DOMAIN inbox'[c] = 1..Len(inbox'[c]) /\ DOMAIN inbox[c] = 1..Len(inbox[c])
          /\ inbox'[c][Len(inbox[c]) + 1] = e
      BY <1>1, <2>3, <2>5
    <3>2. \A k \in 1..Len(inbox[c]) : inbox'[c][k] = inbox[c][k]
      BY <1>1, <2>3, <2>5
    <3>3. i \in 1..Len(inbox[c]) \/ i = Len(inbox[c]) + 1
      BY <1>18, <3>1
    <3> QED
      BY <1>2, <2>2, <2>3, <3>1, <3>2, <3>3
  <2> QED
    BY <1>2, <2>4, <2>5
<1> QED
  BY <1>1, <1>12, <1>14, <1>15, <1>16, <1>17, <1>18 DEF Sorted

\* Everyone in good standing has it to come.
LEMMA PublishFollowed ==
  ASSUME TypeOK, Published, Followed, NEW kept \in BOOLEAN, NEW closed \in BOOLEAN,
         Publishes(kept, closed)
  PROVE  Followed'
<1> DEFINE e == Len(log) + 1
           q == Append(stream.replay, e)
<1> USE DEF Publishes
<1>1. e \in Id /\ stream'.replay = Newest(q, ReplayLimit)
  BY PublishOK
<1>2. /\ \A c \in Client : conn'[c] = IF Slow(c) THEN "dropped" ELSE conn[c]
      /\ \A c \in Client : inbox'[c] = IF conn[c] = "open" /\ ~Slow(c)
                                       THEN Append(inbox[c], e) ELSE inbox[c]
  BY PublishQueues
<1>3. stream.replay \in Seq(Id)
  BY DEF TypeOK
<1>4. q \in Seq(Id) /\ Len(q) > 0 /\ q[Len(q)] = e
  BY <1>1, <1>3
<1>5. stream'.replay[Len(stream'.replay)] = e
  <2> HIDE DEF q
  <2> QED
    BY <1>1, <1>4, NewestLast, LimitsAssumption
<1>6. ASSUME NEW c \in Client, conn'[c] = "open"
      PROVE  inbox'[c] # <<>> /\ inbox'[c][Len(inbox'[c])] = e
  <2>1. inbox'[c] = Append(inbox[c], e)
    BY <1>2, <1>6
  <2>2. inbox[c] \in Seq(Id)
    BY DEF TypeOK
  <2> QED
    BY <1>1, <2>1, <2>2
<1> QED
  BY <1>5, <1>6 DEF Followed

-----------------------------------------------------------------------------
(* The bookkeeping of the run, its requests and its wrappers.              *)

\* All of these publish, into the stream there is.
LEMMA Publication ==
  ASSUME TypeOK, Counted, Lives,
         Accept \/ Emit \/ Finish \/ CancelPublished \/ Resume
  PROVE  \E kept, closed \in BOOLEAN : Publishes(kept, closed)
<1> USE DEF task, persist, clients, process
<1>0. stream.closed \in BOOLEAN /\ stream.sequence \in Nat /\ Deltas \in BOOLEAN
      /\ stream \in [sequence : 0..MaxLog, replay : Seq(Id), closed : BOOLEAN, exists : BOOLEAN]
  BY LimitsAssumption DEF TypeOK
<1>a. row \in Working \cup {"new"} \/ closing > 0 \/ cancelled > 0 \/ request = "deal"
  BY DEF Accept, Emit, Finish, CancelPublished, Resume
<1>b. Len(log) < MaxLog
  BY <1>a, Room
<1>c. stream.exists
  <2>1. CASE Accept
    BY <2>1 DEF Accept
  <2>2. CASE ~Accept
    <3>1. row \in Working \/ closing > 0 \/ cancelled > 0 \/ request = "deal"
      BY <2>2 DEF Emit, Finish, CancelPublished, Resume
    <3> QED
      BY <3>1 DEF Lives
  <2> QED
    BY <2>1, <2>2
<1>1. CASE Accept
  <2>1. Publish(stream, TRUE, stream.closed) /\ highest' = highest /\ restarts' = restarts
        /\ faults' = faults
    BY <1>1 DEF Accept
  <2> QED
    BY <1>0, <1>b, <1>c, <2>1 DEF Publishes
<1>2. CASE Emit
  <2>1. PICK kept \in IF Deltas THEN BOOLEAN ELSE {TRUE} :
          Publish(stream, kept, stream.closed)
    BY <1>2 DEF Emit
  <2>2. highest' = highest /\ restarts' = restarts /\ faults' = faults /\ kept \in BOOLEAN
    BY <1>0, <1>2, <2>1 DEF Emit
  <2> QED
    BY <1>0, <1>b, <1>c, <2>1, <2>2 DEF Publishes
<1>3. CASE Finish
  <2>1. Publish(stream, TRUE, TRUE) /\ highest' = highest /\ restarts' = restarts
        /\ faults' = faults
    BY <1>3 DEF Finish
  <2> QED
    BY <1>b, <1>c, <2>1 DEF Publishes
<1>4. CASE CancelPublished
  <2>1. Raised(stream, 0) = stream.sequence
    BY <1>0 DEF Raised
  <2>2. Ensured(stream, 0) = stream
    BY <1>0, <1>c, <2>1 DEF Ensured
  <2>3. Publish(Ensured(stream, 0), TRUE, stream.closed) /\ highest' = highest
        /\ restarts' = restarts /\ faults' = faults
    BY <1>4 DEF CancelPublished
  <2> QED
    BY <1>0, <1>b, <1>c, <2>2, <2>3 DEF Publishes
<1>5. CASE Resume
  <2>1. Publish(stream, TRUE, stream.closed) /\ highest' = highest /\ restarts' = restarts
        /\ faults' \in {faults, faults + 1}
    BY <1>5 DEF Resume, Fault
  <2> QED
    BY <1>0, <1>b, <1>c, <2>1 DEF Publishes
<1> QED
  BY <1>1, <1>2, <1>3, <1>4, <1>5

\* The highest number that is in the table.
LEMMA HighestOK ==
  ASSUME TypeOK, Published
  PROVE  LET h == Max({n \in Id : table[n] # 0} \cup {0})
         IN  /\ h \in 0..MaxLog /\ h <= Len(log)
             /\ \A n \in Id : table[n] # 0 => n <= h
             /\ h # 0 => table[h] # 0
<1> DEFINE S == {n \in Id : table[n] # 0} \cup {0}
<1>1. \A n \in Id : n \in 0..MaxLog
  BY DEF Id
<1>2. \A x \in S : x \in 0..MaxLog
  BY <1>1, MaxLogNat
<1>3. S # {}
  OBVIOUS
<1>4. Max(S) \in S /\ \A x \in S : x <= Max(S)
  <2> HIDE DEF S
  <2> QED
    BY <1>2, <1>3, MaxLogNat, MaxOK
<1>5. Len(log) \in Nat /\ Events = 1..Len(log)
  BY DEF TypeOK, Events
<1>6. \A x \in S : x <= Len(log)
  <2> SUFFICES ASSUME NEW x \in Id, table[x] # 0 PROVE x <= Len(log)
    BY <1>5
  <2>1. table[x] \in Events /\ log[table[x]].number = x
    BY DEF Published
  <2>2. log[table[x]].number <= table[x]
    BY <2>1 DEF Published
  <2> QED
    BY <1>1, <1>5, <2>1, <2>2
<1> QED
  BY <1>2, <1>4, <1>6

\* The task's variables keep their types.
LEMMA TaskTypesStep ==
  ASSUME TypeOK, Counted, Published, [Next]_vars
  PROVE  TaskTypes'
<1> USE DEF task, persist, clients, process
<1>a. /\ row \in {"new", "running", "cancelling", "paused", "claimed", "over", "refused",
                  "stranded"}
      /\ closing \in Nat /\ refusals \in Nat /\ cancelled \in Nat /\ cancels \in Nat
      /\ request \in {"idle", "claimed", "fetched", "deal"} /\ highest \in 0..MaxLog
      /\ mode \in {"up", "stopping", "down"}
      /\ resumes \in Nat /\ restarts \in Nat /\ faults \in Nat
      /\ cancels <= MaxCancels /\ resumes <= MaxResumes /\ restarts <= MaxRestarts
      /\ faults <= MaxFaults
  BY LimitsAssumption DEF TypeOK
<1>b. /\ MaxCancels \in Nat /\ MaxResumes \in Nat /\ MaxRestarts \in Nat /\ MaxFaults \in Nat
      /\ MaxLog \in Nat
  BY LimitsAssumption, MaxLogNat
<1>c. closing + (IF row \in Working THEN 1 ELSE 0) <= 1 + resumes
  BY <1>a DEF Counted, Working
<1>d. refusals + (IF request # "idle" THEN 1 ELSE 0) <= resumes /\ cancelled <= cancels
  BY DEF Counted
<1> USE DEF TaskTypes
<1>1. ASSUME Accept PROVE TaskTypes'
  BY <1>1, <1>a, <1>b, <1>c, <1>d DEF Accept
<1>2. ASSUME Emit PROVE TaskTypes'
  BY <1>2, <1>a, <1>b, <1>c, <1>d DEF Emit
<1>3. ASSUME Finish PROVE TaskTypes'
  BY <1>3, <1>a, <1>b, <1>c, <1>d DEF Finish
<1>4. ASSUME CancelPublished PROVE TaskTypes'
  BY <1>4, <1>a, <1>b, <1>c, <1>d DEF CancelPublished
<1>5. ASSUME Resume PROVE TaskTypes'
  BY <1>5, <1>a, <1>b, <1>c, <1>d DEF Resume, Fault
<1>6. ASSUME Announce PROVE TaskTypes'
  BY <1>6, <1>a, <1>b, <1>c, <1>d DEF Announce
<1>7. ASSUME Reject PROVE TaskTypes'
  BY <1>7, <1>a, <1>b, <1>c, <1>d DEF Reject
<1>8. ASSUME Release PROVE TaskTypes'
  BY <1>8, <1>a, <1>b, <1>c, <1>d DEF Release, Working
<1>9. ASSUME Cancel PROVE TaskTypes'
  BY <1>9, <1>a, <1>b, <1>c, <1>d DEF Cancel
<1>10. ASSUME Claim PROVE TaskTypes'
  BY <1>10, <1>a, <1>b, <1>c, <1>d DEF Claim
<1>11. ASSUME Fetch PROVE TaskTypes'
  <2>1. highest' \in 0..MaxLog
    BY <1>11, HighestOK DEF Fetch
  <2> QED
    BY <1>11, <1>a, <1>b, <1>c, <1>d, <2>1 DEF Fetch
<1>12. ASSUME Reopen PROVE TaskTypes'
  BY <1>12, <1>a, <1>b, <1>c, <1>d DEF Reopen
<1>13. ASSUME Restore PROVE TaskTypes'
  BY <1>13, <1>a, <1>b, <1>c, <1>d DEF Restore
<1>14. ASSUME CloseRefused PROVE TaskTypes'
  BY <1>14, <1>a, <1>b, <1>c, <1>d DEF CloseRefused
<1>15. ASSUME Take PROVE TaskTypes'
  BY <1>15, <1>a, <1>b, <1>c, <1>d DEF Take
<1>16. ASSUME Flush PROVE TaskTypes'
  BY <1>16, <1>a, <1>b, <1>c, <1>d DEF Flush
<1>17. ASSUME FlushFails PROVE TaskTypes'
  BY <1>17, <1>a, <1>b, <1>c, <1>d DEF FlushFails, Fault
<1>18. ASSUME Drain PROVE TaskTypes'
  BY <1>18, <1>a, <1>b, <1>c, <1>d DEF Drain, Queue
<1>19. ASSUME Drained PROVE TaskTypes'
  BY <1>19, <1>a, <1>b, <1>c, <1>d DEF Drained
<1>20. ASSUME DrainTimesOut PROVE TaskTypes'
  BY <1>20, <1>a, <1>b, <1>c, <1>d DEF DrainTimesOut, Fault
<1>21. ASSUME NEW c \in Client, Connect(c) PROVE TaskTypes'
  BY <1>21, <1>a, <1>b, <1>c, <1>d DEF Connect
<1>22. ASSUME NEW c \in Client, Receive(c) PROVE TaskTypes'
  BY <1>22, <1>a, <1>b, <1>c, <1>d DEF Receive
<1>23. ASSUME NEW c \in Client, Leave(c) PROVE TaskTypes'
  BY <1>23, <1>a, <1>b, <1>c, <1>d DEF Leave, Away
<1>24. ASSUME NEW c \in Client, Disconnect(c) PROVE TaskTypes'
  BY <1>24, <1>a, <1>b, <1>c, <1>d DEF Disconnect, Away
<1>25. ASSUME Shutdown PROVE TaskTypes'
  BY <1>25, <1>a, <1>b, <1>c, <1>d DEF Shutdown, Away
<1>26. ASSUME StopPersister PROVE TaskTypes'
  BY <1>26, <1>a, <1>b, <1>c, <1>d DEF StopPersister, Fault
<1>27. ASSUME Exit PROVE TaskTypes'
  BY <1>27, <1>a, <1>b, <1>c, <1>d DEF Exit, Gone, Away
<1>28. ASSUME Crash PROVE TaskTypes'
  BY <1>28, <1>a, <1>b, <1>c, <1>d DEF Crash, Gone, Away, Fault
<1>29. ASSUME Restart PROVE TaskTypes'
  BY <1>29, <1>a, <1>b, <1>c, <1>d DEF Restart
<1>30. CASE UNCHANGED vars
  BY <1>a, <1>b, <1>c, <1>d, <1>30 DEF vars
<1> QED
  BY <1>1, <1>2, <1>3, <1>4, <1>5, <1>6, <1>7, <1>8, <1>9, <1>10, <1>11, <1>12, <1>13,
     <1>14, <1>15, <1>16, <1>17, <1>18, <1>19, <1>20, <1>21, <1>22, <1>23, <1>24,
     <1>25, <1>26, <1>27, <1>28, <1>29, <1>30
  DEF Next, ClientStep

\* Whatever is published was owed.
LEMMA CountedStep ==
  ASSUME TypeOK, Counted, Published, Lives, [Next]_vars
  PROVE  Counted'
<1> USE DEF task, persist, clients, process
<1>a. /\ row \in {"new", "running", "cancelling", "paused", "claimed", "over", "refused",
                  "stranded"}
      /\ closing \in Nat /\ refusals \in Nat /\ cancelled \in Nat /\ cancels \in Nat
      /\ request \in {"idle", "claimed", "fetched", "deal"}
      /\ resumes \in Nat /\ MaxEvents \in Nat /\ Len(log) \in Nat
  BY LimitsAssumption DEF TypeOK
<1>b. \A kept, closed \in BOOLEAN : Publishes(kept, closed) => Len(log') = Len(log) + 1
  BY PublishOK DEF Publishes
<1>c. Accept \/ Emit \/ Finish \/ CancelPublished \/ Resume => Len(log') = Len(log) + 1
  BY <1>b, Publication
<1> USE DEF Counted, Owed, Working
<1>1. ASSUME Accept PROVE Counted'
  <2>1. Len(log') = Len(log) + 1
    BY <1>1, <1>c
  <2>2. row = "new" /\ row' = "running" /\ mode = "up"
        /\ UNCHANGED <<closing, request, refusals, cancelled, cancels, resumes>>
    BY <1>1 DEF Accept
  <2> QED
    BY <1>a, <2>1, <2>2
<1>2. ASSUME Emit PROVE Counted'
  <2>1. Len(log') = Len(log) + 1
    BY <1>2, <1>c
  <2>2. row \in Working /\ Len(log) < MaxEvents /\ UNCHANGED task
    BY <1>2 DEF Emit
  <2> QED
    BY <1>a, <2>1, <2>2
<1>3. ASSUME Finish PROVE Counted'
  <2>1. Len(log') = Len(log) + 1
    BY <1>3, <1>c
  <2>2. closing > 0 /\ closing' = closing - 1
        /\ UNCHANGED <<row, request, refusals, cancelled, cancels, resumes>>
    BY <1>3 DEF Finish
  <2> QED
    BY <1>a, <2>1, <2>2
<1>4. ASSUME CancelPublished PROVE Counted'
  <2>1. Len(log') = Len(log) + 1
    BY <1>4, <1>c
  <2>2. cancelled > 0 /\ cancelled' = cancelled - 1
        /\ UNCHANGED <<row, closing, request, refusals, cancels, resumes>>
    BY <1>4 DEF CancelPublished
  <2> QED
    BY <1>a, <2>1, <2>2
<1>5. ASSUME Resume PROVE Counted'
  <2>1. Len(log') = Len(log) + 1
    BY <1>5, <1>c
  <2>2. request = "deal" /\ row = "claimed" /\ request' = "idle" /\ row' = "running"
        /\ UNCHANGED <<closing, refusals, cancelled, cancels, resumes>>
    BY <1>5 DEF Resume
  <2> QED
    BY <1>a, <2>1, <2>2
<1>6. ASSUME Announce PROVE Counted'
  BY <1>6, <1>a DEF Announce
<1>7. ASSUME Reject PROVE Counted'
  BY <1>7, <1>a DEF Reject
<1>8. ASSUME Release PROVE Counted'
  BY <1>8, <1>a DEF Release
<1>9. ASSUME Cancel PROVE Counted'
  BY <1>9, <1>a DEF Cancel
<1>10. ASSUME Claim PROVE Counted'
  BY <1>10, <1>a DEF Claim
<1>11. ASSUME Fetch PROVE Counted'
  BY <1>11, <1>a DEF Fetch
<1>12. ASSUME Reopen PROVE Counted'
  BY <1>12, <1>a DEF Reopen
<1>13. ASSUME Restore PROVE Counted'
  BY <1>13, <1>a DEF Restore
<1>14. ASSUME CloseRefused PROVE Counted'
  BY <1>14, <1>a DEF CloseRefused
<1>15. ASSUME Take PROVE Counted'
  BY <1>15, <1>a DEF Take
<1>16. ASSUME Flush PROVE Counted'
  BY <1>16, <1>a DEF Flush
<1>17. ASSUME FlushFails PROVE Counted'
  BY <1>17, <1>a DEF FlushFails, Fault
<1>18. ASSUME Drain PROVE Counted'
  BY <1>18, <1>a DEF Drain, Queue
<1>19. ASSUME Drained PROVE Counted'
  BY <1>19, <1>a DEF Drained
<1>20. ASSUME DrainTimesOut PROVE Counted'
  BY <1>20, <1>a DEF DrainTimesOut, Fault
<1>21. ASSUME NEW c \in Client, Connect(c) PROVE Counted'
  BY <1>21, <1>a DEF Connect
<1>22. ASSUME NEW c \in Client, Receive(c) PROVE Counted'
  BY <1>22, <1>a DEF Receive
<1>23. ASSUME NEW c \in Client, Leave(c) PROVE Counted'
  BY <1>23, <1>a DEF Leave, Away
<1>24. ASSUME NEW c \in Client, Disconnect(c) PROVE Counted'
  BY <1>24, <1>a DEF Disconnect, Away
<1>25. ASSUME Shutdown PROVE Counted'
  BY <1>25, <1>a DEF Shutdown, Away
<1>26. ASSUME StopPersister PROVE Counted'
  BY <1>26, <1>a DEF StopPersister, Fault
<1>27. ASSUME Exit PROVE Counted'
  <2>1. /\ closing' = 0 /\ request' = "idle" /\ refusals' = 0 /\ cancelled' = 0
        /\ UNCHANGED <<log, cancels, resumes>>
        /\ row' = CASE row = "running" -> "stranded" [] row = "cancelling" -> "over"
                  [] OTHER -> row
    BY <1>27 DEF Exit, Gone
  <2>2. row' # "running" /\ row' # "cancelling" /\ (row' = "new" => row = "new")
    BY <1>a, <2>1
  <2>3. /\ Owed \in Nat /\ (row = "new" => Owed >= 2)
        /\ Owed <= 2 + 2 * resumes + cancels
        /\ Len(log) + Owed <= MaxEvents + 2 + 2 * resumes + cancels
    BY <1>a
  <2>4. Owed' = IF row' = "new" THEN 2 ELSE 0
    BY <2>1, <2>2
  <2>5. Len(log') = Len(log) /\ resumes' = resumes /\ cancels' = cancels
    BY <2>1
  <2>6. Owed' \in Nat /\ Owed' <= Owed
    <3> HIDE DEF Owed
    <3> QED
      BY <2>2, <2>3, <2>4
  <2>7. /\ Owed' <= 2 + 2 * resumes' + cancels'
        /\ Len(log') + Owed' <= MaxEvents + 2 + 2 * resumes' + cancels'
    <3> HIDE DEF Owed
    <3> QED
      BY <1>a, <2>3, <2>5, <2>6
  <2>8. /\ closing' + (IF row' \in Working THEN 1 ELSE 0) + (IF row' = "new" THEN 1 ELSE 0)
             + (IF request' # "idle" THEN 1 ELSE 0) <= 1 + resumes'
        /\ refusals' + (IF request' # "idle" THEN 1 ELSE 0) <= resumes'
        /\ cancelled' <= cancels'
    BY <1>a, <2>1, <2>2
  <2> HIDE DEF Owed, Working
  <2> QED
    BY <2>7, <2>8
<1>28. ASSUME Crash PROVE Counted'
  <2>1. /\ closing' = 0 /\ request' = "idle" /\ refusals' = 0 /\ cancelled' = 0
        /\ UNCHANGED <<log, cancels, resumes>>
        /\ row' = CASE row = "running" -> "stranded" [] row = "cancelling" -> "over"
                  [] OTHER -> row
    BY <1>28 DEF Crash, Gone
  <2>2. row' # "running" /\ row' # "cancelling" /\ (row' = "new" => row = "new")
    BY <1>a, <2>1
  <2>3. /\ Owed \in Nat /\ (row = "new" => Owed >= 2)
        /\ Owed <= 2 + 2 * resumes + cancels
        /\ Len(log) + Owed <= MaxEvents + 2 + 2 * resumes + cancels
    BY <1>a
  <2>4. Owed' = IF row' = "new" THEN 2 ELSE 0
    BY <2>1, <2>2
  <2>5. Len(log') = Len(log) /\ resumes' = resumes /\ cancels' = cancels
    BY <2>1
  <2>6. Owed' \in Nat /\ Owed' <= Owed
    <3> HIDE DEF Owed
    <3> QED
      BY <2>2, <2>3, <2>4
  <2>7. /\ Owed' <= 2 + 2 * resumes' + cancels'
        /\ Len(log') + Owed' <= MaxEvents + 2 + 2 * resumes' + cancels'
    <3> HIDE DEF Owed
    <3> QED
      BY <1>a, <2>3, <2>5, <2>6
  <2>8. /\ closing' + (IF row' \in Working THEN 1 ELSE 0) + (IF row' = "new" THEN 1 ELSE 0)
             + (IF request' # "idle" THEN 1 ELSE 0) <= 1 + resumes'
        /\ refusals' + (IF request' # "idle" THEN 1 ELSE 0) <= resumes'
        /\ cancelled' <= cancels'
    BY <1>a, <2>1, <2>2
  <2> HIDE DEF Owed, Working
  <2> QED
    BY <2>7, <2>8
<1>29. ASSUME Restart PROVE Counted'
  BY <1>29, <1>a DEF Restart
<1>30. CASE UNCHANGED vars
  BY <1>a, <1>30 DEF vars
<1> QED
  BY <1>1, <1>2, <1>3, <1>4, <1>5, <1>6, <1>7, <1>8, <1>9, <1>10, <1>11, <1>12, <1>13,
     <1>14, <1>15, <1>16, <1>17, <1>18, <1>19, <1>20, <1>21, <1>22, <1>23, <1>24,
     <1>25, <1>26, <1>27, <1>28, <1>29, <1>30
  DEF Next, ClientStep

-----------------------------------------------------------------------------
(* The types.                                                              *)

\* The stream keeps what it has when it is ensured or closed.
LEMMA StreamOK ==
  ASSUME TypeOK, NEW n \in 0..MaxLog
  PROVE  LET s == Ensured(stream, n)
         IN  /\ {s, [s EXCEPT !.closed = FALSE], Closed(stream), NoStream} \subseteq
                  [sequence : 0..MaxLog, replay : Seq(Id), closed : BOOLEAN, exists : BOOLEAN]
             /\ \A t \in {s, [s EXCEPT !.closed = FALSE]} :
                  /\ t.exists /\ t.replay = stream.replay
                  /\ t.sequence >= n /\ t.sequence >= stream.sequence
                  /\ t.sequence \in {n, stream.sequence}
             /\ Closed(stream).replay = stream.replay
             /\ Closed(stream).sequence = stream.sequence
             /\ Closed(stream).exists = stream.exists
<1>1. stream \in [sequence : 0..MaxLog, replay : Seq(Id), closed : BOOLEAN, exists : BOOLEAN]
  BY DEF TypeOK
<1>2. MaxLog \in Nat
  BY MaxLogNat
<1>3. Raised(stream, n) \in {n, stream.sequence} /\ Raised(stream, n) >= n
      /\ Raised(stream, n) >= stream.sequence /\ Raised(stream, n) \in 0..MaxLog
  BY <1>1, <1>2 DEF Raised
<1>4. <<>> \in Seq(Id) /\ 0 \in 0..MaxLog
  BY <1>2
<1> DEFINE r == Raised(stream, n)
           s == Ensured(stream, n)
<1>5. s = [stream EXCEPT !.exists = TRUE, !.sequence = r]
  BY DEF Ensured
<1>6. /\ s \in [sequence : 0..MaxLog, replay : Seq(Id), closed : BOOLEAN, exists : BOOLEAN]
      /\ s.exists /\ s.replay = stream.replay /\ s.sequence = r
  <2> HIDE DEF r, s
  <2> QED
    BY <1>1, <1>3, <1>5 DEF r
<1> HIDE DEF s
<1> DEFINE u == [s EXCEPT !.closed = FALSE]
<1>7. /\ u \in [sequence : 0..MaxLog, replay : Seq(Id), closed : BOOLEAN, exists : BOOLEAN]
      /\ u.exists /\ u.replay = stream.replay /\ u.sequence = r
  BY <1>6
<1>8. /\ Closed(stream) \in
           [sequence : 0..MaxLog, replay : Seq(Id), closed : BOOLEAN, exists : BOOLEAN]
      /\ Closed(stream).replay = stream.replay
      /\ Closed(stream).sequence = stream.sequence
      /\ Closed(stream).exists = stream.exists
  BY <1>1 DEF Closed
<1>9. NoStream \in [sequence : 0..MaxLog, replay : Seq(Id), closed : BOOLEAN, exists : BOOLEAN]
  BY <1>4 DEF NoStream
<1> HIDE DEF u
<1>10. \A t \in {s, u} : /\ t.exists /\ t.replay = stream.replay
                        /\ t.sequence >= n /\ t.sequence >= stream.sequence
                        /\ t.sequence \in {n, stream.sequence}
  BY <1>3, <1>6, <1>7
<1> QED
  BY <1>6, <1>7, <1>8, <1>9, <1>10 DEF s, u

\* What is in hand, when a row is taken off the queue and when all are.
LEMMA TakenOK ==
  ASSUME TypeOK
  PROVE  /\ waiting # <<>> =>
              /\ Append(batch, Head(waiting)) \in Seq(Id) /\ Tail(waiting) \in Seq(Id)
              /\ Len(Tail(waiting)) <= PersistQueue
              /\ \A e : e \in Range(Tail(waiting)) \cup Range(Append(batch, Head(waiting)))
                          <=> e \in InHand
         /\ \A e : e \notin Range(<<>>)
<1>1. waiting \in Seq(Id) /\ batch \in Seq(Id) /\ Len(waiting) <= PersistQueue
      /\ PersistQueue \in Nat
  BY LimitsAssumption DEF TypeOK
<1>2. ASSUME waiting # <<>>
      PROVE  /\ Append(batch, Head(waiting)) \in Seq(Id) /\ Tail(waiting) \in Seq(Id)
             /\ Len(Tail(waiting)) <= PersistQueue
             /\ \A e : e \in Range(Tail(waiting)) \cup Range(Append(batch, Head(waiting)))
                         <=> e \in InHand
  <2>1. Head(waiting) \in Id /\ Tail(waiting) \in Seq(Id) /\ Len(Tail(waiting)) = Len(waiting) - 1
        /\ Len(waiting) \in Nat
    BY <1>1, <1>2
  <2>2. \A e : e \in Range(waiting) <=> e = Head(waiting) \/ e \in Range(Tail(waiting))
    BY <1>1, <1>2, RangeTail
  <2>3. \A e : e \in Range(Append(batch, Head(waiting)))
                 <=> e \in Range(batch) \/ e = Head(waiting)
    BY <1>1, <2>1, RangeAppend
  <2>4. Append(batch, Head(waiting)) \in Seq(Id)
    BY <1>1, <2>1
  <2> QED
    BY <1>1, <2>1, <2>2, <2>3, <2>4 DEF InHand
<1>3. \A e : e \notin Range(<<>>)
  BY DEF Range
<1> QED
  BY <1>2, <1>3

\* What is left to a client that has received an event.
LEMMA ReceivedOK ==
  ASSUME TypeOK, NEW c \in Client, inbox[c] # <<>>
  PROVE  /\ Head(inbox[c]) \in Id /\ Tail(inbox[c]) \in Seq(Id)
         /\ Len(Tail(inbox[c])) <= ClientQueue
         /\ Len(Tail(inbox[c])) = Len(inbox[c]) - 1 /\ Len(inbox[c]) \in Nat
         /\ Head(inbox[c]) = inbox[c][1] /\ 1 \in 1..Len(inbox[c])
         /\ \A i \in 1..Len(Tail(inbox[c])) :
              i + 1 \in 1..Len(inbox[c]) /\ Tail(inbox[c])[i] = inbox[c][i + 1]
         /\ \A e : e \in Range(inbox[c]) <=> e = Head(inbox[c]) \/ e \in Range(Tail(inbox[c]))
<1>1. inbox[c] \in Seq(Id) /\ Len(inbox[c]) <= ClientQueue /\ ClientQueue \in Nat
  BY LimitsAssumption DEF TypeOK
<1>2. /\ Head(inbox[c]) \in Id /\ Tail(inbox[c]) \in Seq(Id)
      /\ Len(Tail(inbox[c])) = Len(inbox[c]) - 1 /\ Len(inbox[c]) \in Nat \ {0}
      /\ Head(inbox[c]) = inbox[c][1]
      /\ \A i \in 1..Len(Tail(inbox[c])) : Tail(inbox[c])[i] = inbox[c][i + 1]
  BY <1>1
<1>3. \A e : e \in Range(inbox[c]) <=> e = Head(inbox[c]) \/ e \in Range(Tail(inbox[c]))
  BY <1>1, RangeTail
<1>4. \A i \in 1..Len(Tail(inbox[c])) : i + 1 \in 1..Len(inbox[c])
  BY <1>2
<1> QED
  BY <1>1, <1>2, <1>3, <1>4

\* The variables of the bus keep their types.
LEMMA BusTypesStep ==
  ASSUME TypeOK, Counted, Published, Fresh, Lives, [Next]_vars
  PROVE  BusTypes'
<1> USE DEF task, persist, clients, process
<1>a. BusTypes
  BY TypeParts
<1>b. <<>> \in Seq(Id) /\ Len(<<>>) = 0 /\ ClientQueue \in Nat /\ PersistQueue \in Nat
      /\ ReplayLimit \in Nat
  BY LimitsAssumption
<1>c. [c \in Client |-> "away"] \in [Client -> {"away", "open", "dropped"}]
  OBVIOUS
<1>d. \A cs : Away(cs) => /\ conn' \in [Client -> {"away", "open", "dropped"}]
                          /\ inbox' \in [Client -> Seq(Id)]
                          /\ \A c \in Client : Len(inbox'[c]) <= ClientQueue
                          /\ last' = last
  BY <1>a, <1>b DEF Away, BusTypes
<1>e. 0 \in 0..MaxLog /\ highest \in 0..MaxLog
  BY MaxLogNat DEF TypeOK
<1>0. ASSUME Accept \/ Emit \/ Finish \/ CancelPublished \/ Resume PROVE BusTypes'
  BY <1>0, Publication, PublishTypes
<1>1. ASSUME Accept PROVE BusTypes'
  BY <1>1, <1>0
<1>2. ASSUME Emit PROVE BusTypes'
  BY <1>2, <1>0
<1>3. ASSUME Finish PROVE BusTypes'
  BY <1>3, <1>0
<1>4. ASSUME CancelPublished PROVE BusTypes'
  BY <1>4, <1>0
<1>5. ASSUME Resume PROVE BusTypes'
  BY <1>5, <1>0
<1>6. ASSUME Announce PROVE BusTypes'
  <2>1. stream' = Ensured(stream, 0) /\ UNCHANGED <<log, persist, clients>>
    BY <1>6 DEF Announce
  <2>2. /\ stream' \in [sequence : 0..MaxLog, replay : Seq(Id), closed : BOOLEAN,
                        exists : BOOLEAN]
        /\ stream'.replay = stream.replay
    BY <1>e, <2>1, StreamOK
  <2> QED
    BY <1>a, <2>1, <2>2 DEF BusTypes
<1>7. ASSUME Reject PROVE BusTypes'
  BY <1>7, <1>a DEF Reject, BusTypes
<1>8. ASSUME Release PROVE BusTypes'
  BY <1>8, <1>a DEF Release, BusTypes
<1>9. ASSUME Cancel PROVE BusTypes'
  BY <1>9, <1>a DEF Cancel, BusTypes
<1>10. ASSUME Claim PROVE BusTypes'
  BY <1>10, <1>a DEF Claim, BusTypes
<1>11. ASSUME Fetch PROVE BusTypes'
  BY <1>11, <1>a DEF Fetch, BusTypes
<1>12. ASSUME Reopen PROVE BusTypes'
  <2>1. stream' = [Ensured(stream, highest) EXCEPT !.closed = FALSE]
        /\ UNCHANGED <<log, persist, clients>>
    BY <1>12 DEF Reopen
  <2>2. /\ stream' \in [sequence : 0..MaxLog, replay : Seq(Id), closed : BOOLEAN,
                        exists : BOOLEAN]
        /\ stream'.replay = stream.replay
    BY <1>e, <2>1, StreamOK
  <2> QED
    BY <1>a, <2>1, <2>2 DEF BusTypes
<1>13. ASSUME Restore PROVE BusTypes'
  BY <1>13, <1>a DEF Restore, BusTypes
<1>14. ASSUME CloseRefused PROVE BusTypes'
  <2>1. stream' = Closed(stream) /\ UNCHANGED <<log, persist, clients>>
    BY <1>14 DEF CloseRefused
  <2>2. /\ stream' \in [sequence : 0..MaxLog, replay : Seq(Id), closed : BOOLEAN,
                        exists : BOOLEAN]
        /\ stream'.replay = stream.replay
    BY <1>e, <2>1, StreamOK
  <2> QED
    BY <1>a, <2>1, <2>2 DEF BusTypes
<1>15. ASSUME Take PROVE BusTypes'
  BY <1>15, <1>a, TakenOK DEF Take, BusTypes
<1>16. ASSUME Flush PROVE BusTypes'
  BY <1>16, <1>a, <1>b, StoredOK DEF Flush, BusTypes
<1>17. ASSUME FlushFails PROVE BusTypes'
  <2>1. \E k \in 0..Len(batch) : table' = Stored(table, SubSeq(batch, 1, k))
    BY <1>17 DEF FlushFails
  <2>2. table' \in [Id -> Id \cup {0}]
    BY <2>1, PartStored
  <2> QED
    BY <1>17, <1>a, <1>b, <2>2 DEF FlushFails, BusTypes
<1>18. ASSUME Drain PROVE BusTypes'
  BY <1>18, <1>a, <1>b DEF Drain, Queue, BusTypes
<1>19. ASSUME Drained PROVE BusTypes'
  BY <1>19, <1>a DEF Drained, BusTypes
<1>20. ASSUME DrainTimesOut PROVE BusTypes'
  BY <1>20, <1>a, <1>b DEF DrainTimesOut, BusTypes
<1>21. ASSUME NEW c \in Client, Connect(c) PROVE BusTypes'
  <2>1. PICK known : inbox' = [inbox EXCEPT ![c] = Later(stream.replay, known)]
    BY <1>21 DEF Connect
  <2>2. last' \in {last, [last EXCEPT ![c] = 0]} /\ conn' = [conn EXCEPT ![c] = "open"]
        /\ UNCHANGED <<log, stream, persist>>
    BY <1>21 DEF Connect
  <2>3. /\ Later(stream.replay, known) \in Seq(Id)
        /\ Len(Later(stream.replay, known)) <= Len(stream.replay)
        /\ Len(stream.replay) \in Nat /\ Len(stream.replay) <= ReplayLimit
        /\ ReplayLimit <= ClientQueue
    BY <1>a, LaterOK, LimitsAssumption DEF BusTypes
  <2>4. Len(Later(stream.replay, known)) <= ClientQueue
    <3>1. Len(Later(stream.replay, known)) \in Nat
      BY <2>3
    <3> QED
      BY <1>b, <2>3, <3>1
  <2>5. inbox' \in [Client -> Seq(Id)] /\ \A d \in Client : Len(inbox'[d]) <= ClientQueue
    BY <1>a, <2>1, <2>3, <2>4 DEF BusTypes
  <2>6. last' \in [Client -> Id \cup {0}] /\ conn' \in [Client -> {"away", "open", "dropped"}]
    BY <1>a, <2>2 DEF BusTypes
  <2> QED
    BY <1>a, <2>2, <2>5, <2>6 DEF BusTypes
<1>22. ASSUME NEW c \in Client, Receive(c) PROVE BusTypes'
  BY <1>22, <1>a, ReceivedOK DEF Receive, BusTypes
<1>23. ASSUME NEW c \in Client, Leave(c) PROVE BusTypes'
  BY <1>23, <1>a, <1>d DEF Leave, BusTypes
<1>24. ASSUME NEW c \in Client, Disconnect(c) PROVE BusTypes'
  BY <1>24, <1>a, <1>d DEF Disconnect, BusTypes
<1>25. ASSUME Shutdown PROVE BusTypes'
  BY <1>25, <1>a, <1>d DEF Shutdown, BusTypes
<1>26. ASSUME StopPersister PROVE BusTypes'
  BY <1>26, <1>a DEF StopPersister, Fault, BusTypes
<1>27. ASSUME Exit PROVE BusTypes'
  <2>1. stream' = NoStream /\ waiting' = <<>> /\ batch' = <<>> /\ worker' = "off"
        /\ Away(Client) /\ UNCHANGED <<log, table, overflowed>>
    BY <1>27 DEF Exit, Gone
  <2>2. stream' \in [sequence : 0..MaxLog, replay : Seq(Id), closed : BOOLEAN, exists : BOOLEAN]
        /\ stream'.replay = <<>>
    BY <1>e, <2>1, StreamOK DEF NoStream
  <2> QED
    BY <1>a, <1>b, <1>d, <2>1, <2>2 DEF BusTypes
<1>28. ASSUME Crash PROVE BusTypes'
  <2>1. stream' = NoStream /\ waiting' = <<>> /\ batch' = <<>> /\ worker' = "off"
        /\ Away(Client) /\ UNCHANGED <<log, table, overflowed>>
    BY <1>28 DEF Crash, Gone
  <2>2. stream' \in [sequence : 0..MaxLog, replay : Seq(Id), closed : BOOLEAN, exists : BOOLEAN]
        /\ stream'.replay = <<>>
    BY <1>e, <2>1, StreamOK DEF NoStream
  <2> QED
    BY <1>a, <1>b, <1>d, <2>1, <2>2 DEF BusTypes
<1>29. ASSUME Restart PROVE BusTypes'
  BY <1>29, <1>a DEF Restart, BusTypes
<1>30. CASE UNCHANGED vars
  BY <1>a, <1>30 DEF vars, BusTypes
<1> QED
  BY <1>1, <1>2, <1>3, <1>4, <1>5, <1>6, <1>7, <1>8, <1>9, <1>10, <1>11, <1>12, <1>13,
     <1>14, <1>15, <1>16, <1>17, <1>18, <1>19, <1>20, <1>21, <1>22, <1>23, <1>24,
     <1>25, <1>26, <1>27, <1>28, <1>29, <1>30
  DEF Next, ClientStep

\* All variables keep their types.
LEMMA TypesStep ==
  ASSUME TypeOK, Counted, Published, Fresh, Lives, [Next]_vars
  PROVE  TypeOK'
BY BusTypesStep, TaskTypesStep, TypeParts

-----------------------------------------------------------------------------
(* What holds the events.                                                  *)

\* What a client has missed comes from the stream.
LEMMA MissedOnes ==
  ASSUME TypeOK, NEW n
  PROVE  Range(Later(stream.replay, n)) \subseteq Range(stream.replay)
<1> DEFINE q == stream.replay
           p == Later(q, n)
<1>1. q \in Seq(Id)
  BY DEF TypeOK
<1> HIDE DEF q
<1>2. p \in Seq(Id) /\ \A j \in 1..Len(p) : \E k \in 1..Len(q) : p[j] = q[k]
  BY <1>1, LaterOK
<1> HIDE DEF p
<1>3. \A x \in Range(p) : x \in Range(q)
  BY <1>1, <1>2, RangeOf
<1> QED
  BY <1>3 DEF p, q

\* Whatever holds an event after a step holds one that was published.
LEMMA PublishedStep ==
  ASSUME TypeOK, Counted, Published, Fresh, Lives, [Next]_vars
  PROVE  Published'
<1> USE DEF task, persist, clients, process
<1>a. /\ \A e \in InHand \cup overflowed \cup Range(stream.replay) : e \in Events
      /\ \A c \in Client : (last[c] # 0 => last[c] \in Events) /\ Range(inbox[c]) \subseteq Events
      /\ \A e \in Events : log[e].number <= e
      /\ \A n \in Id : table[n] # 0 => table[n] \in Events /\ log[table[n]].number = n
      /\ stream.sequence <= Len(log) /\ highest <= Len(log)
      /\ Len(log) > 0 => Len(log) \notin overflowed
  BY DEF Published
<1>b. Len(log) \in Nat /\ 0 \in 0..MaxLog /\ highest \in 0..MaxLog
  BY MaxLogNat DEF TypeOK
<1>c. \A e : e \notin Range(<<>>)
  BY TakenOK
<1>d. \A cs : Away(cs) => /\ last' = last
                          /\ \A c \in Client : Range(inbox'[c]) \subseteq Range(inbox[c])
  BY <1>c DEF Away
<1>0. ASSUME Accept \/ Emit \/ Finish \/ CancelPublished \/ Resume PROVE Published'
  BY <1>0, Publication, PublishPublished
<1> USE DEF Events, InHand
<1>1. ASSUME Accept PROVE Published'
  BY <1>1, <1>0
<1>2. ASSUME Emit PROVE Published'
  BY <1>2, <1>0
<1>3. ASSUME Finish PROVE Published'
  BY <1>3, <1>0
<1>4. ASSUME CancelPublished PROVE Published'
  BY <1>4, <1>0
<1>5. ASSUME Resume PROVE Published'
  BY <1>5, <1>0
<1>6. ASSUME Announce PROVE Published'
  <2>1. stream' = Ensured(stream, 0) /\ highest' \in {highest, 0}
        /\ UNCHANGED <<log, persist, clients>>
    BY <1>6 DEF Announce
  <2>2. stream'.replay = stream.replay /\ stream'.sequence \in {0, highest, stream.sequence}
    BY <1>b, <2>1, StreamOK
  <2>3. stream'.sequence <= Len(log)
    BY <1>a, <1>b, <2>2
  <2> QED
    BY <1>a, <1>b, <2>1, <2>2, <2>3 DEF Published
<1>7. ASSUME Reject PROVE Published'
  BY <1>7, <1>a, <1>b, <1>c, <1>d DEF Reject, Published
<1>8. ASSUME Release PROVE Published'
  BY <1>8, <1>a, <1>b, <1>c, <1>d DEF Release, Published
<1>9. ASSUME Cancel PROVE Published'
  BY <1>9, <1>a, <1>b, <1>c, <1>d DEF Cancel, Published
<1>10. ASSUME Claim PROVE Published'
  BY <1>10, <1>a, <1>b, <1>c, <1>d DEF Claim, Published
<1>11. ASSUME Fetch PROVE Published'
  <2>1. highest' <= Len(log)
    BY <1>11, HighestOK DEF Fetch
  <2> QED
    BY <1>11, <1>a, <2>1 DEF Fetch, Published
<1>12. ASSUME Reopen PROVE Published'
  <2>1. stream' = [Ensured(stream, highest) EXCEPT !.closed = FALSE] /\ highest' \in {highest, 0}
        /\ UNCHANGED <<log, persist, clients>>
    BY <1>12 DEF Reopen
  <2>2. stream'.replay = stream.replay /\ stream'.sequence \in {0, highest, stream.sequence}
    BY <1>b, <2>1, StreamOK
  <2>3. stream'.sequence <= Len(log)
    BY <1>a, <1>b, <2>2
  <2> QED
    BY <1>a, <1>b, <2>1, <2>2, <2>3 DEF Published
<1>13. ASSUME Restore PROVE Published'
  BY <1>13, <1>a, <1>b, <1>c, <1>d DEF Restore, Published
<1>14. ASSUME CloseRefused PROVE Published'
  <2>1. stream' = Closed(stream) /\ highest' \in {highest, 0}
        /\ UNCHANGED <<log, persist, clients>>
    BY <1>14 DEF CloseRefused
  <2>2. stream'.replay = stream.replay /\ stream'.sequence \in {0, highest, stream.sequence}
    BY <1>b, <2>1, StreamOK
  <2>3. stream'.sequence <= Len(log)
    BY <1>a, <1>b, <2>2
  <2> QED
    BY <1>a, <1>b, <2>1, <2>2, <2>3 DEF Published
<1>15. ASSUME Take PROVE Published'
  <2>1. InHand' \subseteq InHand
    BY <1>15, TakenOK DEF Take
  <2> QED
    BY <1>15, <1>a, <2>1 DEF Take, Published
<1>16. ASSUME Flush PROVE Published'
  <2>1. /\ table' = Stored(table, batch) /\ batch' = <<>>
        /\ UNCHANGED <<waiting, overflowed, log, stream, highest, clients>>
    BY <1>16 DEF Flush
  <2>2. ASSUME NEW n \in Id, table'[n] # 0
        PROVE  table'[n] \in Events /\ log[table'[n]].number = n
    <3>1. CASE table[n] # 0
      BY <1>a, <2>1, <3>1, StoredOK
    <3>2. CASE table[n] = 0
      <4>1. table'[n] \in Range(batch) /\ log[table'[n]].number = n
        BY <2>1, <2>2, <3>2, StoredOK
      <4> QED
        BY <1>a, <4>1
    <3> QED
      BY <3>1, <3>2
  <2>3. InHand' \subseteq InHand
    BY <1>c, <2>1
  <2> QED
    BY <1>a, <2>1, <2>2, <2>3 DEF Published
<1>17. ASSUME FlushFails PROVE Published'
  <2>1. /\ batch' = <<>>
        /\ UNCHANGED <<waiting, overflowed, log, stream, highest, clients>>
    BY <1>17, <1>d DEF FlushFails, Fault
  <2>2. \E k \in 0..Len(batch) : table' = Stored(table, SubSeq(batch, 1, k))
    BY <1>17 DEF FlushFails
  <2>3. ASSUME NEW n \in Id, table'[n] # 0
        PROVE  table'[n] \in Events /\ log[table'[n]].number = n
    <3>1. CASE table[n] # 0
      BY <1>a, <2>2, <3>1, PartStored
    <3>2. CASE table[n] = 0
      <4>1. table'[n] \in Range(batch) /\ log[table'[n]].number = n
        BY <2>2, <2>3, <3>2, PartStored
      <4> QED
        BY <1>a, <4>1
    <3> QED
      BY <3>1, <3>2
  <2>4. InHand' \subseteq InHand
    BY <1>c, <2>1
  <2> QED
    BY <1>a, <2>1, <2>3, <2>4 DEF Published
<1>18. ASSUME Drain PROVE Published'
  BY <1>18, <1>a, <1>b, <1>c, <1>d DEF Drain, Queue, Published
<1>19. ASSUME Drained PROVE Published'
  BY <1>19, <1>a, <1>b, <1>c, <1>d DEF Drained, Published
<1>20. ASSUME DrainTimesOut PROVE Published'
  BY <1>20, <1>a, <1>b, <1>c, <1>d DEF DrainTimesOut, Fault, Published
<1>21. ASSUME NEW c \in Client, Connect(c) PROVE Published'
  <2>1. PICK known : inbox' = [inbox EXCEPT ![c] = Later(stream.replay, known)]
    BY <1>21 DEF Connect
  <2>2. last' \in {last, [last EXCEPT ![c] = 0]} /\ UNCHANGED <<log, stream, persist, highest>>
    BY <1>21 DEF Connect
  <2>3. Range(Later(stream.replay, known)) \subseteq Range(stream.replay)
    BY MissedOnes
  <2>4. \A d \in Client : Range(inbox'[d]) \subseteq Events
    BY <1>a, <2>1, <2>3 DEF TypeOK
  <2>5. \A d \in Client : last'[d] # 0 => last'[d] \in Events
    BY <1>a, <2>2 DEF TypeOK
  <2> QED
    BY <1>a, <2>2, <2>4, <2>5 DEF Published
<1>22. ASSUME NEW c \in Client, Receive(c) PROVE Published'
  <2>1. /\ last' = [last EXCEPT ![c] = Head(inbox[c])]
        /\ inbox' = [inbox EXCEPT ![c] = Tail(inbox[c])]
        /\ inbox[c] # <<>> /\ UNCHANGED <<log, stream, persist, highest>>
    BY <1>22 DEF Receive
  <2>2. Head(inbox[c]) \in Events /\ \A e \in Range(Tail(inbox[c])) : e \in Events
    <3>1. \A e : e \in Range(inbox[c]) <=> e = Head(inbox[c]) \/ e \in Range(Tail(inbox[c]))
      BY <2>1, ReceivedOK
    <3>2. \A e \in Range(inbox[c]) : e \in Events
      BY <1>a
    <3> HIDE DEF Events
    <3>3. Head(inbox[c]) \in Events
      BY <3>1, <3>2
    <3>4. \A e \in Range(Tail(inbox[c])) : e \in Events
      BY <3>1, <3>2
    <3> QED
      BY <3>3, <3>4
  <2>3. ASSUME NEW d \in Client
        PROVE  (last'[d] # 0 => last'[d] \in Events) /\ Range(inbox'[d]) \subseteq Events
    <3>1. CASE d = c
      <4>1. last'[d] = Head(inbox[c]) /\ inbox'[d] = Tail(inbox[c])
        BY <2>1, <3>1 DEF TypeOK
      <4>2. last'[d] \in Events /\ \A e \in Range(inbox'[d]) : e \in Events
        BY <2>2, <4>1
      <4> HIDE DEF Events
      <4> QED
        BY <4>2
    <3>2. CASE d # c
      BY <1>a, <2>1, <3>2 DEF TypeOK
    <3> QED
      BY <3>1, <3>2
  <2> QED
    BY <1>a, <2>1, <2>3 DEF Published
<1>23. ASSUME NEW c \in Client, Leave(c) PROVE Published'
  BY <1>23, <1>a, <1>b, <1>c, <1>d DEF Leave, Published
<1>24. ASSUME NEW c \in Client, Disconnect(c) PROVE Published'
  BY <1>24, <1>a, <1>b, <1>c, <1>d DEF Disconnect, Published
<1>25. ASSUME Shutdown PROVE Published'
  BY <1>25, <1>a, <1>b, <1>c, <1>d DEF Shutdown, Published
<1>26. ASSUME StopPersister PROVE Published'
  BY <1>26, <1>a, <1>b, <1>c, <1>d DEF StopPersister, Fault, Published
<1>27. ASSUME Exit PROVE Published'
  <2>1. /\ stream'.sequence = 0 /\ stream'.replay = <<>> /\ waiting' = <<>> /\ batch' = <<>>
        /\ highest' = 0 /\ Away(Client) /\ UNCHANGED <<log, table, overflowed>>
    BY <1>27 DEF Exit, Gone, NoStream
  <2> QED
    BY <1>a, <1>b, <1>c, <1>d, <2>1 DEF Published
<1>28. ASSUME Crash PROVE Published'
  <2>1. /\ stream'.sequence = 0 /\ stream'.replay = <<>> /\ waiting' = <<>> /\ batch' = <<>>
        /\ highest' = 0 /\ Away(Client) /\ UNCHANGED <<log, table, overflowed>>
    BY <1>28 DEF Crash, Gone, NoStream
  <2> QED
    BY <1>a, <1>b, <1>c, <1>d, <2>1 DEF Published
<1>29. ASSUME Restart PROVE Published'
  BY <1>29, <1>a, <1>b, <1>c, <1>d DEF Restart, Published
<1>30. CASE UNCHANGED vars
  BY <1>a, <1>30 DEF vars, Published
<1> QED
  BY <1>1, <1>2, <1>3, <1>4, <1>5, <1>6, <1>7, <1>8, <1>9, <1>10, <1>11, <1>12, <1>13,
     <1>14, <1>15, <1>16, <1>17, <1>18, <1>19, <1>20, <1>21, <1>22, <1>23, <1>24,
     <1>25, <1>26, <1>27, <1>28, <1>29, <1>30
  DEF Next, ClientStep

-----------------------------------------------------------------------------
(* Streams, the table and the end of a process.                            *)

\* Publishing leaves a stream, and nothing to clients that are away.
LEMMA PublishLives ==
  ASSUME TypeOK, Counted, Published, Lives,
         Accept \/ Emit \/ Finish \/ CancelPublished \/ Resume
  PROVE  /\ stream'.exists /\ worker' = worker /\ batch' = batch
         /\ \A c \in Client : /\ conn'[c] = "away" <=> conn[c] = "away"
                              /\ conn[c] = "away" => inbox'[c] = inbox[c]
<1>1. PICK kept, closed \in BOOLEAN : Publishes(kept, closed)
  BY Publication
<1> USE DEF Publishes
<1>2. stream'.exists
  BY <1>1, PublishOK
<1>3. /\ \A c \in Client : conn'[c] = IF Slow(c) THEN "dropped" ELSE conn[c]
      /\ \A c \in Client : inbox'[c] = IF conn[c] = "open" /\ ~Slow(c)
                                       THEN Append(inbox[c], Len(log) + 1) ELSE inbox[c]
      /\ UNCHANGED <<last, batch, worker, table>>
  BY <1>1, PublishQueues
<1> QED
  BY <1>2, <1>3 DEF Slow

\* What a process that is gone left behind stays as it was; unless a task can be
\* cancelled in a process that has no stream of it, nothing is published there.
LEMMA LivesStep ==
  ASSUME TypeOK, Counted, Published, Lives, ~Strangers, [Next]_vars
  PROVE  Lives'
<1> USE DEF task, persist, clients, process
<1>a. /\ row \in {"new", "running", "cancelling", "paused", "claimed", "over", "refused",
                  "stranded"}
      /\ request \in {"idle", "claimed", "fetched", "deal"}
      /\ mode \in {"up", "stopping", "down"} /\ worker \in {"on", "stopping", "drained", "off"}
      /\ closing \in Nat /\ cancelled \in Nat /\ restarts \in Nat /\ stream.exists \in BOOLEAN
  BY LimitsAssumption DEF TypeOK
<1>b. /\ conn \in [Client -> {"away", "open", "dropped"}] /\ inbox \in [Client -> Seq(Id)]
      /\ 0 \in 0..MaxLog /\ highest \in 0..MaxLog
  BY MaxLogNat DEF TypeOK
<1>0. ASSUME Accept \/ Emit \/ Finish \/ CancelPublished \/ Resume
      PROVE  /\ stream'.exists /\ worker' = worker /\ batch' = batch
             /\ \A c \in Client : /\ conn'[c] = "away" <=> conn[c] = "away"
                                  /\ conn[c] = "away" => inbox'[c] = inbox[c]
  BY <1>0, PublishLives
<1>c. NoStream.exists = FALSE
  BY DEF NoStream
<1>d. /\ Ensured(stream, 0).exists
      /\ [Ensured(stream, highest) EXCEPT !.closed = FALSE].exists
      /\ Closed(stream).exists = stream.exists
  BY <1>b, StreamOK
<1>e. ~stream.exists => stream.closed = FALSE /\ Closed(stream) = stream
  BY <1>a DEF Lives, NoStream, Closed
<1> USE DEF Lives, Working
<1>1. ASSUME Accept PROVE Lives'
  <2>1. row' = "running" /\ mode = "up" /\ UNCHANGED <<closing, request, cancelled, process>>
    BY <1>1 DEF Accept
  <2>2. /\ stream'.exists /\ worker' = worker /\ batch' = batch
        /\ \A c \in Client : /\ conn'[c] = "away" <=> conn[c] = "away"
                             /\ conn[c] = "away" => inbox'[c] = inbox[c]
    BY <1>1, <1>0
  <2> QED
    BY <1>a, <2>1, <2>2
<1>2. ASSUME Emit PROVE Lives'
  <2>1. row \in Working /\ mode # "down" /\ UNCHANGED <<task, process>>
    BY <1>2 DEF Emit
  <2>2. /\ stream'.exists /\ worker' = worker /\ batch' = batch
        /\ \A c \in Client : /\ conn'[c] = "away" <=> conn[c] = "away"
                             /\ conn[c] = "away" => inbox'[c] = inbox[c]
    BY <1>2, <1>0
  <2> QED
    BY <1>a, <2>1, <2>2
<1>3. ASSUME Finish PROVE Lives'
  <2>1. closing > 0 /\ mode # "down" /\ UNCHANGED <<row, request, cancelled, process>>
    BY <1>3 DEF Finish
  <2>2. /\ stream'.exists /\ worker' = worker /\ batch' = batch
        /\ \A c \in Client : /\ conn'[c] = "away" <=> conn[c] = "away"
                             /\ conn[c] = "away" => inbox'[c] = inbox[c]
    BY <1>3, <1>0
  <2> QED
    BY <1>a, <2>1, <2>2
<1>4. ASSUME CancelPublished PROVE Lives'
  <2>1. cancelled > 0 /\ mode = "up" /\ UNCHANGED <<row, request, closing, process>>
    BY <1>4 DEF CancelPublished
  <2>2. /\ stream'.exists /\ worker' = worker /\ batch' = batch
        /\ \A c \in Client : /\ conn'[c] = "away" <=> conn[c] = "away"
                             /\ conn[c] = "away" => inbox'[c] = inbox[c]
    BY <1>4, <1>0
  <2> QED
    BY <1>a, <2>1, <2>2
<1>5. ASSUME Resume PROVE Lives'
  <2>1. row' = "running" /\ mode = "up" /\ request' = "idle"
        /\ UNCHANGED <<closing, cancelled, mode, restarts>>
    BY <1>5 DEF Resume
  <2>2. /\ stream'.exists /\ worker' = worker /\ batch' = batch
        /\ \A c \in Client : /\ conn'[c] = "away" <=> conn[c] = "away"
                             /\ conn[c] = "away" => inbox'[c] = inbox[c]
    BY <1>5, <1>0
  <2> QED
    BY <1>a, <2>1, <2>2
<1>6. ASSUME Announce PROVE Lives'
  BY <1>6, <1>a, <1>b, <1>d DEF Announce
<1>7. ASSUME Reject PROVE Lives'
  BY <1>7, <1>a, <1>b DEF Reject
<1>8. ASSUME Release PROVE Lives'
  BY <1>8, <1>a, <1>b DEF Release
<1>9. ASSUME Cancel PROVE Lives'
  BY <1>9, <1>a, <1>b DEF Cancel
<1>10. ASSUME Claim PROVE Lives'
  BY <1>10, <1>a, <1>b DEF Claim
<1>11. ASSUME Fetch PROVE Lives'
  BY <1>11, <1>a, <1>b DEF Fetch
<1>12. ASSUME Reopen PROVE Lives'
  BY <1>12, <1>a, <1>b, <1>d DEF Reopen
<1>13. ASSUME Restore PROVE Lives'
  BY <1>13, <1>a, <1>b DEF Restore
<1>14. ASSUME CloseRefused PROVE Lives'
  BY <1>14, <1>a, <1>b, <1>d, <1>e DEF CloseRefused
<1>15. ASSUME Take PROVE Lives'
  BY <1>15, <1>a, <1>b DEF Take
<1>16. ASSUME Flush PROVE Lives'
  BY <1>16, <1>a, <1>b DEF Flush
<1>17. ASSUME FlushFails PROVE Lives'
  BY <1>17, <1>a, <1>b DEF FlushFails, Fault
<1>18. ASSUME Drain PROVE Lives'
  BY <1>18, <1>a, <1>b DEF Drain, Queue
<1>19. ASSUME Drained PROVE Lives'
  BY <1>19, <1>a, <1>b DEF Drained
<1>20. ASSUME DrainTimesOut PROVE Lives'
  BY <1>20, <1>a, <1>b DEF DrainTimesOut, Fault
<1>21. ASSUME NEW c \in Client, Connect(c) PROVE Lives'
  BY <1>21, <1>a, <1>b DEF Connect
<1>22. ASSUME NEW c \in Client, Receive(c) PROVE Lives'
  BY <1>22, <1>a, <1>b DEF Receive
<1>23. ASSUME NEW c \in Client, Leave(c) PROVE Lives'
  BY <1>23, <1>a, <1>b DEF Leave, Away
<1>24. ASSUME NEW c \in Client, Disconnect(c) PROVE Lives'
  BY <1>24, <1>a, <1>b DEF Disconnect, Away
<1>25. ASSUME Shutdown PROVE Lives'
  BY <1>25, <1>a, <1>b DEF Shutdown, Away
<1>26. ASSUME StopPersister PROVE Lives'
  BY <1>26, <1>a, <1>b DEF StopPersister, Fault
<1>27. ASSUME Exit PROVE Lives'
  BY <1>27, <1>a, <1>b, <1>c DEF Exit, Gone, Away
<1>28. ASSUME Crash PROVE Lives'
  BY <1>28, <1>a, <1>b, <1>c DEF Crash, Gone, Away
<1>29. ASSUME Restart PROVE Lives'
  BY <1>29, <1>a, <1>b DEF Restart
<1>30. CASE UNCHANGED vars
  BY <1>a, <1>30 DEF vars
<1> QED
  BY <1>1, <1>2, <1>3, <1>4, <1>5, <1>6, <1>7, <1>8, <1>9, <1>10, <1>11, <1>12, <1>13,
     <1>14, <1>15, <1>16, <1>17, <1>18, <1>19, <1>20, <1>21, <1>22, <1>23, <1>24,
     <1>25, <1>26, <1>27, <1>28, <1>29, <1>30
  DEF Next, ClientStep

-----------------------------------------------------------------------------
(* The order in which events are written.                                  *)

\* The newest entries of a sequence that is in order are in order.
LEMMA NewestIncreasing ==
  ASSUME NEW q \in Seq(Id), Increasing(q), NEW n \in Nat \ {0}
  PROVE  Increasing(Newest(q, n))
<1> DEFINE p == Newest(q, n)
           d == Len(q) - Len(p)
<1>1. /\ p \in Seq(Id) /\ Len(p) <= Len(q)
      /\ \A i \in 1..Len(p) : i + d \in 1..Len(q) /\ p[i] = q[i + d]
  BY NewestOK
<1>2. DOMAIN p = 1..Len(p) /\ DOMAIN q = 1..Len(q) /\ d \in Nat
  BY <1>1
<1> HIDE DEF p
<1>3. \A i, j \in 1..Len(p) : i < j => i + d < j + d
  BY <1>2
<1> HIDE DEF d
<1>4. Increasing(p)
  BY <1>1, <1>2, <1>3 DEF Increasing
<1> QED
  BY <1>4 DEF p

\* What is published is queued behind what was published before.
LEMMA PublishInTurn ==
  ASSUME TypeOK, Published, InTurn, NEW kept \in BOOLEAN, NEW closed \in BOOLEAN,
         Publishes(kept, closed)
  PROVE  InTurn'
<1> SUFFICES ASSUME NEW e, e = Len(log) + 1 PROVE InTurn'
  OBVIOUS
<1>0. e \in Id /\ Len(log) \in Nat /\ Events = 1..Len(log)
  <2>1. Len(log) + 1 \in Id
    BY PublishOK DEF Publishes
  <2>2. Len(log) \in Nat /\ Events = 1..Len(log)
    BY DEF TypeOK, Events
  <2> QED
    BY <2>1, <2>2
<1>1. /\ waiting' = IF kept THEN Newest(Append(waiting, e), PersistQueue) ELSE waiting
      /\ batch' = batch
  BY DEF Publishes, Publish, Queued
<1>2. /\ \A x \in Range(waiting') : x \in Range(waiting) \/ x = e
      /\ waiting' \in Seq(Id)
  BY PublishQueues DEF Publishes
<1>3. waiting \in Seq(Id) /\ batch \in Seq(Id) /\ Increasing(waiting) /\ Increasing(batch)
  BY DEF TypeOK, InTurn
<1>4. \A x \in Range(waiting) \cup Range(batch) : x < e
  <2>1. \A x \in Range(waiting) \cup Range(batch) : x \in Events
    BY DEF Published, InHand
  <2> QED
    BY <1>0, <2>1
<1>5. Increasing(waiting')
  <2> DEFINE q == Append(waiting, e)
  <2>1. Increasing(q) /\ q \in Seq(Id)
    BY <1>0, <1>3, <1>4, IncreasingAppend
  <2>2. Increasing(Newest(q, PersistQueue))
    <3> HIDE DEF q
    <3> QED
      BY <2>1, NewestIncreasing, LimitsAssumption
  <2> QED
    BY <1>1, <1>3, <2>2
<1>6. ASSUME NEW i \in DOMAIN batch, NEW j \in DOMAIN waiting'
      PROVE  batch[i] < waiting'[j]
  <2>1. i \in 1..Len(batch) /\ j \in 1..Len(waiting')
    BY <1>2, <1>3, <1>6
  <2>2. waiting'[j] \in Range(waiting) \/ waiting'[j] = e
    BY <1>2, <2>1, RangeOf
  <2>3. batch[i] \in Range(batch)
    BY <1>3, <2>1, RangeOf
  <2>4. CASE waiting'[j] = e
    BY <1>4, <2>3, <2>4
  <2>5. CASE waiting'[j] \in Range(waiting)
    <3>1. PICK k \in 1..Len(waiting) : waiting[k] = waiting'[j]
      BY <1>3, <2>5, RangeOf
    <3>2. batch[i] < waiting[k]
      BY <1>3, <2>1, <3>1 DEF InTurn
    <3> QED
      BY <3>1, <3>2
  <2> QED
    BY <2>2, <2>4, <2>5
<1> QED
  BY <1>1, <1>3, <1>5, <1>6 DEF InTurn

\* Rows are written in turn.
LEMMA InTurnStep ==
  ASSUME TypeOK, Counted, Published, Lives, InTurn, [Next]_vars
  PROVE  InTurn'
<1> USE DEF task, persist, clients, process
<1>a. waiting \in Seq(Id) /\ batch \in Seq(Id) /\ Increasing(waiting) /\ Increasing(batch)
      /\ \A i \in DOMAIN batch, j \in DOMAIN waiting : batch[i] < waiting[j]
  BY DEF TypeOK, InTurn
<1>b. Increasing(<<>>) /\ \A i : i \notin DOMAIN <<>>
  BY DEF Increasing
<1>0. ASSUME Accept \/ Emit \/ Finish \/ CancelPublished \/ Resume PROVE InTurn'
  BY <1>0, Publication, PublishInTurn
<1>c. ASSUME batch' = <<>>, waiting' = waiting \/ waiting' = <<>> PROVE InTurn'
  BY <1>a, <1>b, <1>c DEF InTurn
<1>d. ASSUME UNCHANGED <<waiting, batch>> PROVE InTurn'
  BY <1>d DEF InTurn
<1>1. ASSUME Accept PROVE InTurn'
  BY <1>1, <1>0
<1>2. ASSUME Emit PROVE InTurn'
  BY <1>2, <1>0
<1>3. ASSUME Finish PROVE InTurn'
  BY <1>3, <1>0
<1>4. ASSUME CancelPublished PROVE InTurn'
  BY <1>4, <1>0
<1>5. ASSUME Resume PROVE InTurn'
  BY <1>5, <1>0
<1>6. ASSUME Announce PROVE InTurn'
  BY <1>6, <1>d DEF Announce
<1>7. ASSUME Reject PROVE InTurn'
  BY <1>7, <1>d DEF Reject
<1>8. ASSUME Release PROVE InTurn'
  BY <1>8, <1>d DEF Release
<1>9. ASSUME Cancel PROVE InTurn'
  BY <1>9, <1>d DEF Cancel
<1>10. ASSUME Claim PROVE InTurn'
  BY <1>10, <1>d DEF Claim
<1>11. ASSUME Fetch PROVE InTurn'
  BY <1>11, <1>d DEF Fetch
<1>12. ASSUME Reopen PROVE InTurn'
  BY <1>12, <1>d DEF Reopen
<1>13. ASSUME Restore PROVE InTurn'
  BY <1>13, <1>d DEF Restore
<1>14. ASSUME CloseRefused PROVE InTurn'
  BY <1>14, <1>d DEF CloseRefused
<1>15. ASSUME Take PROVE InTurn'
  <2>1. batch' = Append(batch, Head(waiting)) /\ waiting' = Tail(waiting) /\ waiting # <<>>
    BY <1>15 DEF Take
  <2>2. /\ Len(waiting) \in Nat \ {0} /\ Head(waiting) = waiting[1] /\ Head(waiting) \in Id
        /\ waiting' \in Seq(Id) /\ Len(waiting') = Len(waiting) - 1
        /\ \A j \in 1..Len(waiting') : waiting'[j] = waiting[j + 1]
    BY <1>a, <2>1
  <2>3. \A j \in 1..Len(waiting') : j + 1 \in 1..Len(waiting) /\ 1 < j + 1
    BY <2>2
  <2>4. 1 \in 1..Len(waiting) /\ DOMAIN waiting = 1..Len(waiting)
        /\ DOMAIN waiting' = 1..Len(waiting')
    BY <1>a, <2>2
  <2>5. \A i, j \in 1..Len(waiting') : i < j => i + 1 < j + 1
    BY <2>2
  <2>6. Increasing(waiting')
    BY <1>a, <2>2, <2>3, <2>4, <2>5 DEF Increasing
  <2>7. \A j \in 1..Len(waiting') : Head(waiting) < waiting'[j]
    BY <1>a, <2>2, <2>3, <2>4 DEF Increasing
  <2>8. \A x \in Range(batch) : x < Head(waiting)
    <3> SUFFICES ASSUME NEW x \in Range(batch) PROVE x < Head(waiting)
      OBVIOUS
    <3>1. PICK i \in 1..Len(batch) : batch[i] = x
      BY <1>a, RangeOf
    <3>2. i \in DOMAIN batch
      BY <1>a, <3>1
    <3> QED
      BY <1>a, <2>2, <2>4, <3>1, <3>2
  <2>9. Increasing(batch')
    BY <1>a, <2>1, <2>2, <2>8, IncreasingAppend
  <2>10. ASSUME NEW i \in DOMAIN batch', NEW j \in DOMAIN waiting' PROVE batch'[i] < waiting'[j]
    <3>1. /\ Len(batch') = Len(batch) + 1 /\ Len(batch) \in Nat
          /\ DOMAIN batch' = 1..Len(batch') /\ DOMAIN batch = 1..Len(batch)
          /\ batch'[Len(batch) + 1] = Head(waiting)
      BY <1>a, <2>1, <2>2
    <3>2. \A k \in 1..Len(batch) : batch'[k] = batch[k]
      BY <1>a, <2>1, <2>2
    <3>3. CASE i \in 1..Len(batch)
      <4>1. batch[i] < waiting[j + 1]
        BY <1>a, <2>3, <2>4, <2>10, <3>1, <3>3
      <4> QED
        BY <2>2, <2>4, <2>10, <3>2, <3>3, <4>1
    <3>4. CASE i = Len(batch) + 1
      BY <2>4, <2>7, <2>10, <3>1, <3>4
    <3> QED
      BY <2>10, <3>1, <3>3, <3>4
  <2> QED
    BY <2>6, <2>9, <2>10 DEF InTurn
<1>16. ASSUME Flush PROVE InTurn'
  BY <1>16, <1>c DEF Flush
<1>17. ASSUME FlushFails PROVE InTurn'
  BY <1>17, <1>c DEF FlushFails
<1>18. ASSUME Drain PROVE InTurn'
  <2>1. batch' = waiting /\ waiting' = <<>>
    BY <1>18 DEF Drain, Queue
  <2> QED
    BY <1>a, <1>b, <2>1 DEF InTurn
<1>19. ASSUME Drained PROVE InTurn'
  BY <1>19, <1>d DEF Drained
<1>20. ASSUME DrainTimesOut PROVE InTurn'
  BY <1>20, <1>c DEF DrainTimesOut
<1>21. ASSUME NEW c \in Client, Connect(c) PROVE InTurn'
  BY <1>21, <1>d DEF Connect
<1>22. ASSUME NEW c \in Client, Receive(c) PROVE InTurn'
  BY <1>22, <1>d DEF Receive
<1>23. ASSUME NEW c \in Client, Leave(c) PROVE InTurn'
  BY <1>23, <1>d DEF Leave
<1>24. ASSUME NEW c \in Client, Disconnect(c) PROVE InTurn'
  BY <1>24, <1>d DEF Disconnect
<1>25. ASSUME Shutdown PROVE InTurn'
  BY <1>25, <1>d DEF Shutdown
<1>26. ASSUME StopPersister PROVE InTurn'
  BY <1>26, <1>d DEF StopPersister
<1>27. ASSUME Exit PROVE InTurn'
  BY <1>27, <1>c DEF Exit, Gone
<1>28. ASSUME Crash PROVE InTurn'
  BY <1>28, <1>c DEF Crash, Gone
<1>29. ASSUME Restart PROVE InTurn'
  BY <1>29, <1>d DEF Restart
<1>30. CASE UNCHANGED vars
  BY <1>d, <1>30 DEF vars
<1> QED
  BY <1>1, <1>2, <1>3, <1>4, <1>5, <1>6, <1>7, <1>8, <1>9, <1>10, <1>11, <1>12, <1>13,
     <1>14, <1>15, <1>16, <1>17, <1>18, <1>19, <1>20, <1>21, <1>22, <1>23, <1>24,
     <1>25, <1>26, <1>27, <1>28, <1>29, <1>30
  DEF Next, ClientStep

\* The numbers in the table and in hand stay apart, and under the stream's.
LEMMA FreshStep ==
  ASSUME TypeOK, Counted, Published, Lives, InTurn, Fresh, [Next]_vars
  PROVE  Fresh'
<1> USE DEF task, persist, clients, process
<1>a. /\ \A e \in InHand : table[log[e].number] = 0
      /\ \A e, f \in InHand : log[e].number = log[f].number => e = f
      /\ stream.exists => /\ \A e \in InHand : log[e].number <= stream.sequence
                          /\ \A n \in Id : table[n] # 0 => n <= stream.sequence
                          /\ highest <= stream.sequence
      /\ request = "fetched" /\ ~stream.exists => \A n \in Id : table[n] # 0 => n <= highest
  BY DEF Fresh
<1>b. /\ highest \in 0..MaxLog /\ stream.sequence \in 0..MaxLog /\ Len(log) \in Nat
      /\ 0 \in 0..MaxLog /\ MaxLog \in Nat /\ \A n \in Id : n \in Nat
  BY MaxLogNat DEF TypeOK, Id
<1>c. \A e : e \notin Range(<<>>)
  BY TakenOK
<1>d. \A e \in InHand : e \in Events /\ log[e].number \in Id
  <2>1. \A e \in InHand : e \in Events
    BY DEF Published
  <2> QED
    BY <2>1, LogEntry
<1>0. ASSUME Accept \/ Emit \/ Finish \/ CancelPublished \/ Resume PROVE Fresh'
  BY <1>0, Publication, PublishFresh
<1>e. ASSUME UNCHANGED <<log, table>>, stream' = stream \/ ~stream'.exists,
             InHand' \subseteq InHand, highest' = highest \/ highest' = 0,
             request' = request \/ request' \in {"idle", "claimed", "deal"},
             request' = request => highest' = highest \/ stream'.exists \/ request # "fetched",
             ~stream'.exists => ~stream.exists \/ request' # "fetched"
      PROVE  Fresh'
  <2>1. /\ \A e \in InHand' : table'[log'[e].number] = 0
        /\ \A e, f \in InHand' : log'[e].number = log'[f].number => e = f
    BY <1>a, <1>e
  <2>2. stream'.exists => /\ \A e \in InHand' : log'[e].number <= stream'.sequence
                          /\ \A n \in Id : table'[n] # 0 => n <= stream'.sequence
                          /\ highest' <= stream'.sequence
    BY <1>a, <1>b, <1>e
  <2>3. request' = "fetched" /\ ~stream'.exists => \A n \in Id : table'[n] # 0 => n <= highest'
    BY <1>a, <1>e
  <2> QED
    BY <2>1, <2>2, <2>3 DEF Fresh
<1>f. ASSUME UNCHANGED <<log, persist, clients>>, NEW n \in 0..MaxLog,
             stream'.exists, stream'.sequence \in Nat,
             stream'.sequence >= n, stream'.sequence >= stream.sequence,
             stream.exists \/ (InHand = {} /\ \A m \in Id : table[m] # 0 => m <= n),
             highest' = 0 \/ highest' = n
      PROVE  Fresh'
  <2>1. InHand' = InHand
    BY <1>f DEF InHand
  <2>2. \A e \in InHand : log[e].number <= stream'.sequence
    BY <1>a, <1>b, <1>d, <1>f
  <2>3. \A m \in Id : table[m] # 0 => m <= stream'.sequence
    BY <1>a, <1>b, <1>f
  <2>4. highest' <= stream'.sequence
    BY <1>b, <1>f
  <2> QED
    BY <1>a, <1>f, <2>1, <2>2, <2>3, <2>4 DEF Fresh
<1>1. ASSUME Accept PROVE Fresh'
  BY <1>1, <1>0
<1>2. ASSUME Emit PROVE Fresh'
  BY <1>2, <1>0
<1>3. ASSUME Finish PROVE Fresh'
  BY <1>3, <1>0
<1>4. ASSUME CancelPublished PROVE Fresh'
  BY <1>4, <1>0
<1>5. ASSUME Resume PROVE Fresh'
  BY <1>5, <1>0
<1>6. ASSUME Announce PROVE Fresh'
  <2>1. stream' = Ensured(stream, 0) /\ UNCHANGED <<log, task, persist, clients>>
        /\ row = "new" /\ ~stream.exists
    BY <1>6 DEF Announce
  <2>2. stream'.exists /\ stream'.sequence \in {0, stream.sequence}
        /\ stream'.sequence >= stream.sequence
    BY <1>b, <2>1, StreamOK
  <2>3. log = <<>> /\ Events = {} /\ waiting = <<>> /\ batch = <<>>
    <3>1. log = <<>> /\ waiting = <<>> /\ batch = <<>>
      BY <2>1 DEF Lives
    <3> QED
      BY <3>1 DEF Events
  <2>4. \A m \in Id : table[m] = 0
    BY <2>3 DEF Published
  <2>5. InHand = {}
    BY <1>c, <2>3 DEF InHand
  <2>6. highest = 0
    <3>1. highest <= Len(log) /\ Len(log) = 0
      BY <2>3 DEF Published
    <3> QED
      BY <1>b, <3>1
  <2> QED
    BY <1>b, <1>f, <2>1, <2>2, <2>4, <2>5, <2>6
<1>7. ASSUME Reject PROVE Fresh'
  BY <1>7, <1>e DEF Reject, InHand
<1>8. ASSUME Release PROVE Fresh'
  BY <1>8, <1>e DEF Release, InHand
<1>9. ASSUME Cancel PROVE Fresh'
  BY <1>9, <1>e DEF Cancel, InHand
<1>10. ASSUME Claim PROVE Fresh'
  BY <1>10, <1>e DEF Claim, InHand
<1>11. ASSUME Fetch PROVE Fresh'
  <2>1. /\ highest' = Max({n \in Id : table[n] # 0} \cup {0})
        /\ UNCHANGED <<log, stream, persist, clients>>
    BY <1>11 DEF Fetch
  <2>2. /\ highest' \in 0..MaxLog
        /\ \A n \in Id : table[n] # 0 => n <= highest'
        /\ highest' # 0 => table[highest'] # 0
    BY <2>1, HighestOK
  <2>3. InHand' = InHand
    BY <2>1 DEF InHand
  <2>4. stream.exists => highest' <= stream.sequence
    <3>1. highest' # 0 => highest' \in Id
      BY <1>b, <2>2 DEF Id
    <3> QED
      BY <1>a, <1>b, <2>2, <3>1
  <2> QED
    BY <1>a, <2>1, <2>2, <2>3, <2>4 DEF Fresh
<1>12. ASSUME Reopen PROVE Fresh'
  <2>1. stream' = [Ensured(stream, highest) EXCEPT !.closed = FALSE]
        /\ UNCHANGED <<log, persist, clients>> /\ highest' = 0 /\ request = "fetched"
    BY <1>12 DEF Reopen
  <2>2. stream'.exists /\ stream'.sequence \in {highest, stream.sequence}
        /\ stream'.sequence >= stream.sequence /\ stream'.sequence >= highest
    BY <1>b, <2>1, StreamOK
  <2>3. ~stream.exists => InHand = {} /\ \A m \in Id : table[m] # 0 => m <= highest
    BY <1>a, <1>c, <2>1 DEF Lives, InHand
  <2> QED
    BY <1>b, <1>f, <2>1, <2>2, <2>3
<1>13. ASSUME Restore PROVE Fresh'
  BY <1>13, <1>e DEF Restore, InHand
<1>14. ASSUME CloseRefused PROVE Fresh'
  <2>1. stream' = Closed(stream) /\ UNCHANGED <<log, persist, clients, request, highest>>
    BY <1>14 DEF CloseRefused
  <2>2. stream'.exists = stream.exists /\ stream'.sequence = stream.sequence
    BY <1>b, <2>1, StreamOK
  <2>3. InHand' = InHand
    BY <2>1 DEF InHand
  <2> QED
    BY <1>a, <2>1, <2>2, <2>3 DEF Fresh
<1>15. ASSUME Take PROVE Fresh'
  <2>1. InHand' \subseteq InHand
    BY <1>15, TakenOK DEF Take, InHand
  <2> QED
    BY <1>15, <1>e, <2>1 DEF Take
<1>16. ASSUME Flush PROVE Fresh'
  <2>1. /\ table' = Stored(table, batch) /\ batch' = <<>> /\ batch # <<>>
        /\ UNCHANGED <<waiting, log, stream, highest, request>>
    BY <1>16 DEF Flush
  <2>2. \A e : e \in InHand' <=> e \in Range(waiting)
    BY <1>c, <2>1 DEF InHand
  <2>3. ASSUME NEW e \in Range(waiting) PROVE e \notin Range(batch)
    <3> SUFFICES ASSUME e \in Range(batch) PROVE FALSE
      OBVIOUS
    <3>0. waiting \in Seq(Id) /\ batch \in Seq(Id)
      BY DEF TypeOK
    <3>1. PICK i \in 1..Len(batch) : batch[i] = e
      BY <3>0, RangeOf
    <3>2. PICK j \in 1..Len(waiting) : waiting[j] = e
      BY <2>3, <3>0, RangeOf
    <3>3. batch[i] < waiting[j] /\ e \in Id
      BY <3>0, <3>1, <3>2 DEF InTurn
    <3> QED
      BY <1>b, <3>1, <3>2, <3>3
  <2>4. ASSUME NEW n \in Id, table'[n] # 0
        PROVE  table[n] # 0 \/ \E e \in Range(batch) : log[e].number = n
    BY <2>1, <2>4, StoredOK
  <2>5. \A e \in Range(waiting) : e \in InHand
    BY DEF InHand
  <2>6. \A e \in Range(batch) : e \in InHand
    BY DEF InHand
  <2>7. \A e \in Range(waiting) : table'[log[e].number] = 0
    BY <1>a, <1>d, <2>3, <2>4, <2>5, <2>6
  <2>8. stream.exists => \A n \in Id : table'[n] # 0 => n <= stream.sequence
    BY <1>a, <2>4, <2>6
  <2>9. stream.exists
    BY <2>1 DEF Lives
  <2>10. /\ \A e \in InHand' : table'[log[e].number] = 0
         /\ \A e, f \in InHand' : log[e].number = log[f].number => e = f
         /\ \A e \in InHand' : log[e].number <= stream.sequence
    BY <1>a, <2>2, <2>5, <2>7, <2>9
  <2> QED
    BY <1>a, <2>1, <2>8, <2>9, <2>10 DEF Fresh
<1>17. ASSUME FlushFails PROVE Fresh'
  <2>1. /\ batch' = <<>> /\ batch # <<>>
        /\ UNCHANGED <<waiting, log, stream, highest, request>>
    BY <1>17 DEF FlushFails
  <2>0. \E k \in 0..Len(batch) : table' = Stored(table, SubSeq(batch, 1, k))
    BY <1>17 DEF FlushFails
  <2>2. \A e : e \in InHand' <=> e \in Range(waiting)
    BY <1>c, <2>1 DEF InHand
  <2>3. ASSUME NEW e \in Range(waiting) PROVE e \notin Range(batch)
    <3> SUFFICES ASSUME e \in Range(batch) PROVE FALSE
      OBVIOUS
    <3>0. waiting \in Seq(Id) /\ batch \in Seq(Id)
      BY DEF TypeOK
    <3>1. PICK i \in 1..Len(batch) : batch[i] = e
      BY <3>0, RangeOf
    <3>2. PICK j \in 1..Len(waiting) : waiting[j] = e
      BY <2>3, <3>0, RangeOf
    <3>3. batch[i] < waiting[j] /\ e \in Id
      BY <3>0, <3>1, <3>2 DEF InTurn
    <3> QED
      BY <1>b, <3>1, <3>2, <3>3
  <2>4. ASSUME NEW n \in Id, table'[n] # 0
        PROVE  table[n] # 0 \/ \E e \in Range(batch) : log[e].number = n
    BY <2>0, <2>4, PartStored
  <2>5. \A e \in Range(waiting) : e \in InHand
    BY DEF InHand
  <2>6. \A e \in Range(batch) : e \in InHand
    BY DEF InHand
  <2>7. \A e \in Range(waiting) : table'[log[e].number] = 0
    BY <1>a, <1>d, <2>3, <2>4, <2>5, <2>6
  <2>8. stream.exists => \A n \in Id : table'[n] # 0 => n <= stream.sequence
    BY <1>a, <2>4, <2>6
  <2>9. stream.exists
    BY <2>1 DEF Lives
  <2>10. /\ \A e \in InHand' : table'[log[e].number] = 0
         /\ \A e, f \in InHand' : log[e].number = log[f].number => e = f
         /\ \A e \in InHand' : log[e].number <= stream.sequence
    BY <1>a, <2>2, <2>5, <2>7, <2>9
  <2> QED
    BY <1>a, <2>1, <2>8, <2>9, <2>10 DEF Fresh
<1>18. ASSUME Drain PROVE Fresh'
  <2>1. InHand' \subseteq InHand
    BY <1>18, <1>c DEF Drain, InHand, Queue
  <2> QED
    BY <1>18, <1>e, <2>1 DEF Drain
<1>19. ASSUME Drained PROVE Fresh'
  BY <1>19, <1>e DEF Drained, InHand
<1>20. ASSUME DrainTimesOut PROVE Fresh'
  <2>1. InHand' \subseteq InHand
    BY <1>20, <1>c DEF DrainTimesOut, InHand
  <2> QED
    BY <1>20, <1>e, <2>1 DEF DrainTimesOut
<1>21. ASSUME NEW c \in Client, Connect(c) PROVE Fresh'
  BY <1>21, <1>e DEF Connect, InHand
<1>22. ASSUME NEW c \in Client, Receive(c) PROVE Fresh'
  BY <1>22, <1>e DEF Receive, InHand
<1>23. ASSUME NEW c \in Client, Leave(c) PROVE Fresh'
  BY <1>23, <1>e DEF Leave, InHand
<1>24. ASSUME NEW c \in Client, Disconnect(c) PROVE Fresh'
  BY <1>24, <1>e DEF Disconnect, InHand
<1>25. ASSUME Shutdown PROVE Fresh'
  BY <1>25, <1>e DEF Shutdown, InHand
<1>26. ASSUME StopPersister PROVE Fresh'
  BY <1>26, <1>e DEF StopPersister, InHand
<1>27. ASSUME Exit PROVE Fresh'
  <2>1. /\ ~stream'.exists /\ waiting' = <<>> /\ batch' = <<>>
        /\ highest' = 0 /\ request' = "idle" /\ UNCHANGED <<log, table>>
    BY <1>27 DEF Exit, Gone, NoStream
  <2>2. InHand' \subseteq InHand
    BY <1>c, <2>1 DEF InHand
  <2> QED
    BY <1>e, <2>1, <2>2
<1>28. ASSUME Crash PROVE Fresh'
  <2>1. /\ ~stream'.exists /\ waiting' = <<>> /\ batch' = <<>>
        /\ highest' = 0 /\ request' = "idle" /\ UNCHANGED <<log, table>>
    BY <1>28 DEF Crash, Gone, NoStream
  <2>2. InHand' \subseteq InHand
    BY <1>c, <2>1 DEF InHand
  <2> QED
    BY <1>e, <2>1, <2>2
<1>29. ASSUME Restart PROVE Fresh'
  BY <1>29, <1>e DEF Restart, InHand
<1>30. CASE UNCHANGED vars
  BY <1>e, <1>30 DEF vars, InHand
<1> QED
  BY <1>1, <1>2, <1>3, <1>4, <1>5, <1>6, <1>7, <1>8, <1>9, <1>10, <1>11, <1>12, <1>13,
     <1>14, <1>15, <1>16, <1>17, <1>18, <1>19, <1>20, <1>21, <1>22, <1>23, <1>24,
     <1>25, <1>26, <1>27, <1>28, <1>29, <1>30
  DEF Next, ClientStep

-----------------------------------------------------------------------------
(* Nothing vanishes.                                                       *)

\* Without a failure the persister outlives the tasks, and drains its queue.
LEMMA OrderlyStep ==
  ASSUME TypeOK, Counted, Published, Lives, Orderly, [Next]_vars
  PROVE  Orderly'
<1> USE DEF task, persist, clients, process
<1>a. /\ row \in {"new", "running", "cancelling", "paused", "claimed", "over", "refused",
                  "stranded"}
      /\ closing \in Nat /\ faults \in Nat /\ worker \in {"on", "stopping", "drained", "off"}
      /\ mode \in {"up", "stopping", "down"}
  BY LimitsAssumption DEF TypeOK
<1>b. mode = "up" => worker = "on"
  BY DEF Lives
<1>0. ASSUME Accept \/ Emit \/ Finish \/ CancelPublished \/ Resume PROVE worker' = worker
  BY <1>0, PublishLives
<1> USE DEF Orderly, TasksEnded
<1>1. ASSUME Accept PROVE Orderly'
  <2>1. worker' = worker
    BY <1>1, <1>0
  <2> QED
    BY <1>1, <1>a, <1>b, <2>1 DEF Accept
<1>2. ASSUME Emit PROVE Orderly'
  <2>1. worker' = worker
    BY <1>2, <1>0
  <2> QED
    BY <1>2, <1>a, <1>b, <2>1 DEF Emit
<1>3. ASSUME Finish PROVE Orderly'
  <2>1. worker' = worker
    BY <1>3, <1>0
  <2> QED
    BY <1>3, <1>a, <1>b, <2>1 DEF Finish
<1>4. ASSUME CancelPublished PROVE Orderly'
  <2>1. worker' = worker
    BY <1>4, <1>0
  <2> QED
    BY <1>4, <1>a, <1>b, <2>1 DEF CancelPublished
<1>5. ASSUME Resume PROVE Orderly'
  <2>1. worker' = worker
    BY <1>5, <1>0
  <2> QED
    BY <1>5, <1>a, <1>b, <2>1 DEF Resume, Fault
<1>6. ASSUME Announce PROVE Orderly'
  BY <1>6, <1>a, <1>b DEF Announce
<1>7. ASSUME Reject PROVE Orderly'
  BY <1>7, <1>a, <1>b DEF Reject
<1>8. ASSUME Release PROVE Orderly'
  BY <1>8, <1>a, <1>b DEF Release
<1>9. ASSUME Cancel PROVE Orderly'
  BY <1>9, <1>a, <1>b DEF Cancel
<1>10. ASSUME Claim PROVE Orderly'
  BY <1>10, <1>a, <1>b DEF Claim
<1>11. ASSUME Fetch PROVE Orderly'
  BY <1>11, <1>a, <1>b DEF Fetch
<1>12. ASSUME Reopen PROVE Orderly'
  BY <1>12, <1>a, <1>b DEF Reopen
<1>13. ASSUME Restore PROVE Orderly'
  BY <1>13, <1>a, <1>b DEF Restore
<1>14. ASSUME CloseRefused PROVE Orderly'
  BY <1>14, <1>a, <1>b DEF CloseRefused
<1>15. ASSUME Take PROVE Orderly'
  BY <1>15, <1>a, <1>b DEF Take
<1>16. ASSUME Flush PROVE Orderly'
  BY <1>16, <1>a, <1>b DEF Flush
<1>17. ASSUME FlushFails PROVE Orderly'
  BY <1>17, <1>a, <1>b DEF FlushFails, Fault
<1>18. ASSUME Drain PROVE Orderly'
  BY <1>18, <1>a, <1>b DEF Drain, Queue
<1>19. ASSUME Drained PROVE Orderly'
  BY <1>19, <1>a, <1>b DEF Drained
<1>20. ASSUME DrainTimesOut PROVE Orderly'
  BY <1>20, <1>a, <1>b DEF DrainTimesOut, Fault
<1>21. ASSUME NEW c \in Client, Connect(c) PROVE Orderly'
  BY <1>21, <1>a, <1>b DEF Connect
<1>22. ASSUME NEW c \in Client, Receive(c) PROVE Orderly'
  BY <1>22, <1>a, <1>b DEF Receive
<1>23. ASSUME NEW c \in Client, Leave(c) PROVE Orderly'
  BY <1>23, <1>a, <1>b DEF Leave
<1>24. ASSUME NEW c \in Client, Disconnect(c) PROVE Orderly'
  BY <1>24, <1>a, <1>b DEF Disconnect
<1>25. ASSUME Shutdown PROVE Orderly'
  BY <1>25, <1>a, <1>b DEF Shutdown
<1>26. ASSUME StopPersister PROVE Orderly'
  BY <1>26, <1>a, <1>b DEF StopPersister, Fault
<1>27. ASSUME Exit PROVE Orderly'
  BY <1>27, <1>a, <1>b DEF Exit, Gone
<1>28. ASSUME Crash PROVE Orderly'
  BY <1>28, <1>a, <1>b DEF Crash, Gone, Fault
<1>29. ASSUME Restart PROVE Orderly'
  BY <1>29, <1>a, <1>b DEF Restart
<1>30. CASE UNCHANGED vars
  BY <1>a, <1>30 DEF vars
<1> QED
  BY <1>1, <1>2, <1>3, <1>4, <1>5, <1>6, <1>7, <1>8, <1>9, <1>10, <1>11, <1>12, <1>13,
     <1>14, <1>15, <1>16, <1>17, <1>18, <1>19, <1>20, <1>21, <1>22, <1>23, <1>24,
     <1>25, <1>26, <1>27, <1>28, <1>29, <1>30
  DEF Next, ClientStep

\* An event that is to be kept stays in hand until it is in the table.
LEMMA VanishesStep ==
  ASSUME TypeOK, Counted, Published, Lives, Fresh, Orderly, NothingVanishes, [Next]_vars
  PROVE  NothingVanishes'
<1> USE DEF task, persist, clients, process
<1>a. faults = 0 => \A e \in Events : log[e].kept => Accounted(e)
  BY DEF NothingVanishes
<1>b. faults \in Nat /\ faults + 1 # 0
  BY LimitsAssumption DEF TypeOK
<1>c. \A e : e \notin Range(<<>>)
  BY TakenOK
<1>0. ASSUME Accept \/ Emit \/ Finish \/ CancelPublished \/ Resume PROVE NothingVanishes'
  BY <1>0, Publication, PublishAccounted
<1>d. ASSUME UNCHANGED <<log, overflowed, table>>, faults' = 0 => faults = 0,
             \A e \in InHand : faults' = 0 => e \in InHand'
      PROVE  NothingVanishes'
  BY <1>a, <1>d DEF NothingVanishes, Accounted, InHand, Events
<1>e. ASSUME faults' # 0 PROVE NothingVanishes'
  BY <1>e DEF NothingVanishes
<1>1. ASSUME Accept PROVE NothingVanishes'
  BY <1>1, <1>0
<1>2. ASSUME Emit PROVE NothingVanishes'
  BY <1>2, <1>0
<1>3. ASSUME Finish PROVE NothingVanishes'
  BY <1>3, <1>0
<1>4. ASSUME CancelPublished PROVE NothingVanishes'
  BY <1>4, <1>0
<1>5. ASSUME Resume PROVE NothingVanishes'
  BY <1>5, <1>0
<1>6. ASSUME Announce PROVE NothingVanishes'
  BY <1>6, <1>d DEF Announce, InHand
<1>7. ASSUME Reject PROVE NothingVanishes'
  BY <1>7, <1>d DEF Reject, InHand
<1>8. ASSUME Release PROVE NothingVanishes'
  BY <1>8, <1>d DEF Release, InHand
<1>9. ASSUME Cancel PROVE NothingVanishes'
  BY <1>9, <1>d DEF Cancel, InHand
<1>10. ASSUME Claim PROVE NothingVanishes'
  BY <1>10, <1>d DEF Claim, InHand
<1>11. ASSUME Fetch PROVE NothingVanishes'
  BY <1>11, <1>d DEF Fetch, InHand
<1>12. ASSUME Reopen PROVE NothingVanishes'
  BY <1>12, <1>d DEF Reopen, InHand
<1>13. ASSUME Restore PROVE NothingVanishes'
  BY <1>13, <1>d DEF Restore, InHand
<1>14. ASSUME CloseRefused PROVE NothingVanishes'
  BY <1>14, <1>d DEF CloseRefused, InHand
<1>15. ASSUME Take PROVE NothingVanishes'
  <2>1. \A e \in InHand : e \in InHand'
    BY <1>15, TakenOK DEF Take, InHand
  <2> QED
    BY <1>15, <1>d, <2>1 DEF Take
<1>16. ASSUME Flush PROVE NothingVanishes'
  <2>1. /\ table' = Stored(table, batch)
        /\ UNCHANGED <<waiting, overflowed, log, stream, faults>>
    BY <1>16 DEF Flush
  <2>2. ASSUME NEW e \in Events, Accounted(e) PROVE Accounted(e)'
    <3>0. log[e].number \in Id
      BY <2>2, LogEntry
    <3>1. CASE e \in Range(batch)
      <4>1. table'[log[e].number] = e
        BY <2>1, <3>1, StoredOK
      <4> QED
        BY <2>1, <4>1 DEF Accounted
    <3>2. CASE table[log[e].number] = e
      <4>1. e # 0
        BY <2>2, LogEntry
      <4>2. table'[log[e].number] = e
        BY <2>1, <3>0, <3>2, <4>1, StoredOK
      <4> QED
        BY <2>1, <4>2 DEF Accounted
    <3>3. CASE e \in Range(waiting) \cup overflowed
      BY <2>1, <3>3 DEF Accounted
    <3> QED
      BY <2>2, <3>1, <3>2, <3>3 DEF Accounted
  <2> QED
    BY <1>a, <2>1, <2>2 DEF NothingVanishes, Events
<1>17. ASSUME FlushFails PROVE NothingVanishes'
  BY <1>17, <1>b, <1>e DEF FlushFails, Fault
<1>18. ASSUME Drain PROVE NothingVanishes'
  <2>1. \A e \in InHand : e \in InHand'
    BY <1>18, <1>c DEF Drain, Queue, InHand
  <2> QED
    BY <1>18, <1>d, <2>1 DEF Drain
<1>19. ASSUME Drained PROVE NothingVanishes'
  BY <1>19, <1>d DEF Drained, InHand
<1>20. ASSUME DrainTimesOut PROVE NothingVanishes'
  BY <1>20, <1>b, <1>e DEF DrainTimesOut, Fault
<1>21. ASSUME NEW c \in Client, Connect(c) PROVE NothingVanishes'
  BY <1>21, <1>d DEF Connect, InHand
<1>22. ASSUME NEW c \in Client, Receive(c) PROVE NothingVanishes'
  BY <1>22, <1>d DEF Receive, InHand
<1>23. ASSUME NEW c \in Client, Leave(c) PROVE NothingVanishes'
  BY <1>23, <1>d DEF Leave, InHand
<1>24. ASSUME NEW c \in Client, Disconnect(c) PROVE NothingVanishes'
  BY <1>24, <1>d DEF Disconnect, InHand
<1>25. ASSUME Shutdown PROVE NothingVanishes'
  BY <1>25, <1>d DEF Shutdown, InHand
<1>26. ASSUME StopPersister PROVE NothingVanishes'
  BY <1>26, <1>b, <1>d DEF StopPersister, Fault, InHand
<1>27. ASSUME Exit PROVE NothingVanishes'
  <2>1. mode = "stopping" /\ worker = "off" /\ UNCHANGED <<log, overflowed, table, faults>>
    BY <1>27 DEF Exit, Gone
  <2>2. faults = 0 => waiting = <<>> /\ batch = <<>>
    BY <2>1 DEF Orderly, Lives
  <2>3. \A e \in InHand : faults' # 0
    BY <1>c, <2>1, <2>2 DEF InHand
  <2> QED
    BY <1>d, <2>1, <2>3
<1>28. ASSUME Crash PROVE NothingVanishes'
  BY <1>28, <1>b, <1>e DEF Crash, Fault
<1>29. ASSUME Restart PROVE NothingVanishes'
  BY <1>29, <1>d DEF Restart, InHand
<1>30. CASE UNCHANGED vars
  BY <1>d, <1>30 DEF vars, InHand
<1> QED
  BY <1>1, <1>2, <1>3, <1>4, <1>5, <1>6, <1>7, <1>8, <1>9, <1>10, <1>11, <1>12, <1>13,
     <1>14, <1>15, <1>16, <1>17, <1>18, <1>19, <1>20, <1>21, <1>22, <1>23, <1>24,
     <1>25, <1>26, <1>27, <1>28, <1>29, <1>30
  DEF Next, ClientStep

-----------------------------------------------------------------------------
(* The numbers and the order of events.                                    *)

\* Once a number may have been given twice it stays so.
LEMMA UnbrokenStep ==
  ASSUME TypeOK, Counted, Published, Lives, Straight, [Next]_vars
  PROVE  Unbroken' => Unbroken
<1> DEFINE Goal == Unbroken' => Unbroken
<1> USE DEF task, persist, clients, process
<1>a. faults \in Nat /\ restarts \in Nat
  BY LimitsAssumption DEF TypeOK
<1>0. ASSUME Accept \/ Emit \/ Finish \/ CancelPublished \/ Resume PROVE Goal
  BY <1>0, Publication, PublishStraight
<1>b. ASSUME UNCHANGED log, restarts' = 0 => restarts = 0, faults' = 0 => faults = 0
      PROVE  Goal
  <2> USE DEF Events
  <2> QED
    BY <1>a, <1>b DEF Unbroken
<1> HIDE DEF Goal
<1>1. ASSUME Accept PROVE Goal
  BY <1>1, <1>0
<1>2. ASSUME Emit PROVE Goal
  BY <1>2, <1>0
<1>3. ASSUME Finish PROVE Goal
  BY <1>3, <1>0
<1>4. ASSUME CancelPublished PROVE Goal
  BY <1>4, <1>0
<1>5. ASSUME Resume PROVE Goal
  BY <1>5, <1>0
<1>6. ASSUME Announce PROVE Goal
  BY <1>6, <1>a, <1>b DEF Announce
<1>7. ASSUME Reject PROVE Goal
  BY <1>7, <1>a, <1>b DEF Reject
<1>8. ASSUME Release PROVE Goal
  BY <1>8, <1>a, <1>b DEF Release
<1>9. ASSUME Cancel PROVE Goal
  BY <1>9, <1>a, <1>b DEF Cancel
<1>10. ASSUME Claim PROVE Goal
  BY <1>10, <1>a, <1>b DEF Claim
<1>11. ASSUME Fetch PROVE Goal
  BY <1>11, <1>a, <1>b DEF Fetch
<1>12. ASSUME Reopen PROVE Goal
  BY <1>12, <1>a, <1>b DEF Reopen
<1>13. ASSUME Restore PROVE Goal
  BY <1>13, <1>a, <1>b DEF Restore
<1>14. ASSUME CloseRefused PROVE Goal
  BY <1>14, <1>a, <1>b DEF CloseRefused
<1>15. ASSUME Take PROVE Goal
  BY <1>15, <1>a, <1>b DEF Take
<1>16. ASSUME Flush PROVE Goal
  BY <1>16, <1>a, <1>b DEF Flush
<1>17. ASSUME FlushFails PROVE Goal
  BY <1>17, <1>a, <1>b DEF FlushFails, Fault
<1>18. ASSUME Drain PROVE Goal
  BY <1>18, <1>a, <1>b DEF Drain
<1>19. ASSUME Drained PROVE Goal
  BY <1>19, <1>a, <1>b DEF Drained
<1>20. ASSUME DrainTimesOut PROVE Goal
  BY <1>20, <1>a, <1>b DEF DrainTimesOut, Fault
<1>21. ASSUME NEW c \in Client, Connect(c) PROVE Goal
  BY <1>21, <1>a, <1>b DEF Connect
<1>22. ASSUME NEW c \in Client, Receive(c) PROVE Goal
  BY <1>22, <1>a, <1>b DEF Receive
<1>23. ASSUME NEW c \in Client, Leave(c) PROVE Goal
  BY <1>23, <1>a, <1>b DEF Leave
<1>24. ASSUME NEW c \in Client, Disconnect(c) PROVE Goal
  BY <1>24, <1>a, <1>b DEF Disconnect
<1>25. ASSUME Shutdown PROVE Goal
  BY <1>25, <1>a, <1>b DEF Shutdown
<1>26. ASSUME StopPersister PROVE Goal
  BY <1>26, <1>a, <1>b DEF StopPersister, Fault
<1>27. ASSUME Exit PROVE Goal
  BY <1>27, <1>a, <1>b DEF Exit, Gone
<1>28. ASSUME Crash PROVE Goal
  BY <1>28, <1>a, <1>b DEF Crash, Gone, Fault
<1>29. ASSUME Restart PROVE Goal
  <2>1. restarts' # 0 /\ UNCHANGED <<log, faults>>
    BY <1>29, <1>a DEF Restart
  <2> QED
    BY <1>b, <2>1
<1>30. CASE UNCHANGED vars
  BY <1>b, <1>30 DEF vars, Goal
<1> QED
  BY <1>1, <1>2, <1>3, <1>4, <1>5, <1>6, <1>7, <1>8, <1>9, <1>10, <1>11, <1>12, <1>13,
     <1>14, <1>15, <1>16, <1>17, <1>18, <1>19, <1>20, <1>21, <1>22, <1>23, <1>24,
     <1>25, <1>26, <1>27, <1>28, <1>29, <1>30
  DEF Next, ClientStep, Goal

\* In a process that has no stream, the table has every number there is.
LEMMA TableReachesEnd ==
  ASSUME TypeOK, Published, Lives, NothingVanishes, Straight, Unbroken,
         ~stream.exists, mode = "up"
  PROVE  Len(log) = Max({n \in Id : table[n] # 0} \cup {0})
<1> DEFINE h == Max({n \in Id : table[n] # 0} \cup {0})
<1>1. h \in 0..MaxLog /\ h <= Len(log) /\ \A n \in Id : table[n] # 0 => n <= h
  BY HighestOK
<1> HIDE DEF h
<1>2. Len(log) \in Nat /\ Events = 1..Len(log) /\ MaxLog \in Nat /\ Len(log) <= MaxLog
  BY MaxLogNat DEF TypeOK, Events
<1>3. Len(log) <= h
  <2>1. CASE Len(log) = 0
    BY <1>1, <1>2, <2>1
  <2>2. CASE Len(log) # 0
    <3> SUFFICES ASSUME NEW e, e = Len(log) PROVE e <= h
      OBVIOUS
    <3>1. log # <<>>
      BY <2>2
    <3>2. faults = 0 /\ log[e].kept
      <4>1. restarts # 0
        BY <3>1 DEF Lives
      <4>2. e \in Events
        BY <1>2, <2>2
      <4> QED
        BY <4>1, <4>2 DEF Unbroken
    <3>3. e \in Events /\ e \in Id /\ e # 0
      BY <1>2, <2>2 DEF Id
    <3>4. Accounted(e)
      BY <3>2, <3>3 DEF NothingVanishes
    <3>5. e \notin Range(waiting) \cup Range(batch) \cup overflowed
      <4>1. waiting = <<>> /\ batch = <<>>
        BY DEF Lives
      <4>2. e \notin Range(<<>>)
        BY TakenOK
      <4>3. e \notin overflowed
        BY <1>2, <2>2 DEF Published
      <4> QED
        BY <4>1, <4>2, <4>3
    <3>6. log[e].number = e
      BY <3>3 DEF Straight
    <3>7. table[e] = e
      BY <3>4, <3>5, <3>6 DEF Accounted
    <3> QED
      BY <1>1, <3>3, <3>7
  <2> QED
    BY <2>1, <2>2
<1> QED
  BY <1>1, <1>2, <1>3 DEF h

\* The numbers go on counting the events.
LEMMA StraightStep ==
  ASSUME TypeOK, Counted, Published, Lives, Fresh, NothingVanishes, Straight, [Next]_vars
  PROVE  Straight'
<1> USE DEF task, persist, clients, process
<1>e. Unbroken' => Unbroken
  BY UnbrokenStep
<1>a. ASSUME Unbroken'
      PROVE  /\ \A e \in Events : log[e].number = e
             /\ stream.exists => stream.sequence = Len(log)
             /\ request = "fetched" /\ ~stream.exists => highest = Len(log)
  BY <1>e, <1>a DEF Straight
<1>b. /\ highest \in 0..MaxLog /\ 0 \in 0..MaxLog /\ stream.sequence \in Nat /\ Len(log) \in Nat
      /\ highest \in Nat
  BY MaxLogNat DEF TypeOK
<1>0. ASSUME Accept \/ Emit \/ Finish \/ CancelPublished \/ Resume PROVE Straight'
  BY <1>0, Publication, PublishStraight
<1>c. ASSUME UNCHANGED log, stream'.sequence = stream.sequence, stream'.exists => stream.exists,
             request' = "fetched" /\ ~stream'.exists => request = "fetched" /\ ~stream.exists,
             request' = "fetched" => highest' = highest
      PROVE  Straight'
  BY <1>a, <1>c DEF Straight, Events
<1>d. ASSUME UNCHANGED log, stream'.exists, Unbroken' => stream'.sequence = Len(log)
      PROVE  Straight'
  BY <1>a, <1>d DEF Straight, Events
<1>1. ASSUME Accept PROVE Straight'
  BY <1>1, <1>0
<1>2. ASSUME Emit PROVE Straight'
  BY <1>2, <1>0
<1>3. ASSUME Finish PROVE Straight'
  BY <1>3, <1>0
<1>4. ASSUME CancelPublished PROVE Straight'
  BY <1>4, <1>0
<1>5. ASSUME Resume PROVE Straight'
  BY <1>5, <1>0
<1>6. ASSUME Announce PROVE Straight'
  <2>1. stream' = Ensured(stream, 0) /\ UNCHANGED log /\ row = "new" /\ ~stream.exists
    BY <1>6 DEF Announce
  <2>2. stream'.exists /\ stream'.sequence \in {0, stream.sequence}
    BY <1>b, <2>1, StreamOK
  <2>3. log = <<>> /\ stream.sequence = 0
    BY <2>1 DEF Lives, NoStream
  <2>4. stream'.sequence = Len(log)
    BY <2>2, <2>3
  <2> QED
    BY <1>d, <2>1, <2>2, <2>4
<1>7. ASSUME Reject PROVE Straight'
  BY <1>7, <1>c DEF Reject
<1>8. ASSUME Release PROVE Straight'
  BY <1>8, <1>c DEF Release
<1>9. ASSUME Cancel PROVE Straight'
  BY <1>9, <1>c DEF Cancel
<1>10. ASSUME Claim PROVE Straight'
  BY <1>10, <1>c DEF Claim
<1>11. ASSUME Fetch PROVE Straight'
  <2>1. /\ highest' = Max({n \in Id : table[n] # 0} \cup {0})
        /\ mode = "up" /\ UNCHANGED <<log, stream>>
    BY <1>11 DEF Fetch
  <2>2. ASSUME Unbroken', ~stream.exists PROVE highest' = Len(log)
    <3>1. Unbroken
      BY <1>e, <2>2
    <3>2. mode = "up"
      BY <2>1
    <3>3. Len(log) = Max({n \in Id : table[n] # 0} \cup {0})
      BY <2>2, <3>1, <3>2, TableReachesEnd
    <3> QED
      BY <2>1, <3>3
  <2> QED
    BY <1>a, <2>1, <2>2 DEF Straight, Events
<1>12. ASSUME Reopen PROVE Straight'
  <2>1. stream' = [Ensured(stream, highest) EXCEPT !.closed = FALSE]
        /\ UNCHANGED log /\ request = "fetched"
    BY <1>12 DEF Reopen
  <2>2. stream'.exists /\ stream'.sequence \in {highest, stream.sequence}
        /\ stream'.sequence >= stream.sequence /\ stream'.sequence >= highest
    BY <1>b, <2>1, StreamOK
  <2>3. CASE stream.exists
    <3>1. highest <= stream.sequence
      BY <2>3 DEF Fresh
    <3>2. stream'.sequence = stream.sequence
      BY <1>b, <2>2, <3>1
    <3> QED
      BY <1>a, <1>d, <2>1, <2>2, <2>3, <3>2
  <2>4. CASE ~stream.exists
    <3>1. stream.sequence = 0
      BY <2>4 DEF Lives, NoStream
    <3>2. stream'.sequence = highest
      BY <1>b, <2>2, <3>1
    <3> QED
      BY <1>a, <1>d, <2>1, <2>2, <2>4, <3>2
  <2> QED
    BY <2>3, <2>4
<1>13. ASSUME Restore PROVE Straight'
  BY <1>13, <1>c DEF Restore
<1>14. ASSUME CloseRefused PROVE Straight'
  <2>1. stream' = Closed(stream) /\ UNCHANGED <<log, request, highest>>
    BY <1>14 DEF CloseRefused
  <2>2. stream'.exists = stream.exists /\ stream'.sequence = stream.sequence
    BY <1>b, <2>1, StreamOK
  <2> QED
    BY <1>c, <2>1, <2>2
<1>15. ASSUME Take PROVE Straight'
  BY <1>15, <1>c DEF Take
<1>16. ASSUME Flush PROVE Straight'
  BY <1>16, <1>c DEF Flush
<1>17. ASSUME FlushFails PROVE Straight'
  BY <1>17, <1>c DEF FlushFails
<1>18. ASSUME Drain PROVE Straight'
  BY <1>18, <1>c DEF Drain
<1>19. ASSUME Drained PROVE Straight'
  BY <1>19, <1>c DEF Drained
<1>20. ASSUME DrainTimesOut PROVE Straight'
  BY <1>20, <1>c DEF DrainTimesOut
<1>21. ASSUME NEW c \in Client, Connect(c) PROVE Straight'
  BY <1>21, <1>c DEF Connect
<1>22. ASSUME NEW c \in Client, Receive(c) PROVE Straight'
  BY <1>22, <1>c DEF Receive
<1>23. ASSUME NEW c \in Client, Leave(c) PROVE Straight'
  BY <1>23, <1>c DEF Leave
<1>24. ASSUME NEW c \in Client, Disconnect(c) PROVE Straight'
  BY <1>24, <1>c DEF Disconnect
<1>25. ASSUME Shutdown PROVE Straight'
  BY <1>25, <1>c DEF Shutdown
<1>26. ASSUME StopPersister PROVE Straight'
  BY <1>26, <1>c DEF StopPersister
<1>27. ASSUME Exit PROVE Straight'
  <2>1. ~stream'.exists /\ request' = "idle" /\ UNCHANGED log
    BY <1>27 DEF Exit, Gone, NoStream
  <2> QED
    BY <1>a, <2>1 DEF Straight, Events
<1>28. ASSUME Crash PROVE Straight'
  <2>1. ~stream'.exists /\ request' = "idle" /\ UNCHANGED log
    BY <1>28 DEF Crash, Gone, NoStream
  <2> QED
    BY <1>a, <2>1 DEF Straight, Events
<1>29. ASSUME Restart PROVE Straight'
  BY <1>29, <1>c DEF Restart
<1>30. CASE UNCHANGED vars
  BY <1>c, <1>30 DEF vars
<1> QED
  BY <1>1, <1>2, <1>3, <1>4, <1>5, <1>6, <1>7, <1>8, <1>9, <1>10, <1>11, <1>12, <1>13,
     <1>14, <1>15, <1>16, <1>17, <1>18, <1>19, <1>20, <1>21, <1>22, <1>23, <1>24,
     <1>25, <1>26, <1>27, <1>28, <1>29, <1>30
  DEF Next, ClientStep

\* The events of the stream are published events, with numbers to compare.
LEMMA ReplayOK ==
  ASSUME TypeOK, Published
  PROVE  /\ stream.replay \in Seq(Id)
         /\ \A i \in DOMAIN stream.replay : /\ stream.replay[i] \in Events
                                            /\ log[stream.replay[i]].number \in Id
         /\ \A n \in Id : n \in Nat /\ n # 0
<1>1. stream.replay \in Seq(Id)
  BY DEF TypeOK
<1>2. ASSUME NEW i \in DOMAIN stream.replay
      PROVE  stream.replay[i] \in Events /\ log[stream.replay[i]].number \in Id
  <2>1. stream.replay[i] \in Range(stream.replay)
    BY <1>1, <1>2, RangeOf
  <2>2. stream.replay[i] \in Events
    BY <2>1 DEF Published
  <2> QED
    BY <2>2, LogEntry
<1>3. \A n \in Id : n \in Nat /\ n # 0
  BY DEF Id
<1> QED
  BY <1>1, <1>2, <1>3

\* What is left of a queue in order is in order, and behind what was received.
LEMMA ReceivedInOrder ==
  ASSUME TypeOK, NEW c \in Client, inbox[c] # <<>>, Increasing(inbox[c])
  PROVE  /\ Increasing(Tail(inbox[c]))
         /\ \A i \in DOMAIN Tail(inbox[c]) : Head(inbox[c]) < Tail(inbox[c])[i]
<1> DEFINE q == inbox[c]
           p == Tail(inbox[c])
           h == Head(inbox[c])
<1>1. /\ p \in Seq(Id) /\ q \in Seq(Id) /\ h = q[1] /\ 1 \in 1..Len(q)
      /\ \A i \in 1..Len(p) : i + 1 \in 1..Len(q) /\ p[i] = q[i + 1]
  BY ReceivedOK DEF TypeOK
<1>2. DOMAIN p = 1..Len(p) /\ DOMAIN q = 1..Len(q)
  BY <1>1
<1>3. Increasing(q)
  OBVIOUS
<1> HIDE DEF p, q, h
<1>4. \A i, j \in 1..Len(p) : i < j => i + 1 < j + 1
  BY <1>1
<1>5. \A i \in 1..Len(p) : 1 < i + 1
  BY <1>1
<1>6. Increasing(p)
  BY <1>1, <1>2, <1>3, <1>4 DEF Increasing
<1>7. \A i \in DOMAIN p : h < p[i]
  BY <1>1, <1>2, <1>3, <1>5 DEF Increasing
<1> QED
  BY <1>6, <1>7 DEF p, h

\* What a client is to be sent is in order.
LEMMA SortedStep ==
  ASSUME TypeOK, Counted, Published, Lives, Straight, Sorted, [Next]_vars
  PROVE  Sorted'
<1> USE DEF task, persist, clients, process
<1>a. Unbroken' => Unbroken
  BY UnbrokenStep
<1>b. /\ Increasing(stream.replay) /\ \A c \in Client : Increasing(inbox[c])
      /\ \A i, j \in DOMAIN stream.replay :
           i < j => log[stream.replay[i]].number < log[stream.replay[j]].number
      /\ \A i \in DOMAIN stream.replay : log[stream.replay[i]].number <= stream.sequence
      /\ Unbroken => \A c \in Client : \A i \in DOMAIN inbox[c] : last[c] < inbox[c][i]
  BY DEF Sorted
<1>c. /\ highest \in 0..MaxLog /\ 0 \in 0..MaxLog /\ stream.sequence \in Nat /\ MaxLog \in Nat
      /\ inbox \in [Client -> Seq(Id)] /\ last \in [Client -> Id \cup {0}]
  BY MaxLogNat DEF TypeOK
<1>d. Increasing(<<>>) /\ \A i : i \notin DOMAIN <<>>
  BY DEF Increasing
<1>0. ASSUME Accept \/ Emit \/ Finish \/ CancelPublished \/ Resume PROVE Sorted'
  BY <1>0, Publication, PublishSorted
<1>e. ASSUME UNCHANGED <<log, stream>>, last' = last,
             \A c \in Client : inbox'[c] = inbox[c] \/ inbox'[c] = <<>>
      PROVE  Sorted'
  BY <1>a, <1>b, <1>d, <1>e DEF Sorted
<1>f. ASSUME UNCHANGED <<log, clients>>, stream'.replay = stream.replay,
             stream'.sequence >= stream.sequence, stream'.sequence \in Nat
      PROVE  Sorted'
  <2>1. \A i \in DOMAIN stream.replay : log[stream.replay[i]].number <= stream'.sequence
    BY <1>b, <1>c, <1>f, ReplayOK
  <2> QED
    BY <1>a, <1>b, <1>f, <2>1 DEF Sorted
<1>1. ASSUME Accept PROVE Sorted'
  BY <1>1, <1>0
<1>2. ASSUME Emit PROVE Sorted'
  BY <1>2, <1>0
<1>3. ASSUME Finish PROVE Sorted'
  BY <1>3, <1>0
<1>4. ASSUME CancelPublished PROVE Sorted'
  BY <1>4, <1>0
<1>5. ASSUME Resume PROVE Sorted'
  BY <1>5, <1>0
<1>6. ASSUME Announce PROVE Sorted'
  <2>1. stream' = Ensured(stream, 0) /\ UNCHANGED <<log, clients>>
    BY <1>6 DEF Announce
  <2>2. /\ stream'.replay = stream.replay /\ stream'.sequence >= stream.sequence
        /\ stream'.sequence \in {0, highest, stream.sequence}
    BY <1>c, <2>1, StreamOK
  <2>3. stream'.sequence \in Nat
    BY <1>c, <2>2
  <2> QED
    BY <1>f, <2>1, <2>2, <2>3
<1>7. ASSUME Reject PROVE Sorted'
  BY <1>7, <1>e DEF Reject
<1>8. ASSUME Release PROVE Sorted'
  BY <1>8, <1>e DEF Release
<1>9. ASSUME Cancel PROVE Sorted'
  BY <1>9, <1>e DEF Cancel
<1>10. ASSUME Claim PROVE Sorted'
  BY <1>10, <1>e DEF Claim
<1>11. ASSUME Fetch PROVE Sorted'
  BY <1>11, <1>e DEF Fetch
<1>12. ASSUME Reopen PROVE Sorted'
  <2>1. stream' = [Ensured(stream, highest) EXCEPT !.closed = FALSE] /\ UNCHANGED <<log, clients>>
    BY <1>12 DEF Reopen
  <2>2. /\ stream'.replay = stream.replay /\ stream'.sequence >= stream.sequence
        /\ stream'.sequence \in {0, highest, stream.sequence}
    BY <1>c, <2>1, StreamOK
  <2>3. stream'.sequence \in Nat
    BY <1>c, <2>2
  <2> QED
    BY <1>f, <2>1, <2>2, <2>3
<1>13. ASSUME Restore PROVE Sorted'
  BY <1>13, <1>e DEF Restore
<1>14. ASSUME CloseRefused PROVE Sorted'
  <2>1. stream' = Closed(stream) /\ UNCHANGED <<log, clients>>
    BY <1>14 DEF CloseRefused
  <2>2. stream'.replay = stream.replay /\ stream'.sequence = stream.sequence
    BY <1>c, <2>1, StreamOK
  <2>3. stream'.sequence \in Nat /\ stream'.sequence >= stream.sequence
    BY <1>c, <2>2
  <2> QED
    BY <1>f, <2>1, <2>2, <2>3
<1>15. ASSUME Take PROVE Sorted'
  BY <1>15, <1>e DEF Take
<1>16. ASSUME Flush PROVE Sorted'
  BY <1>16, <1>e DEF Flush
<1>17. ASSUME FlushFails PROVE Sorted'
  BY <1>17, <1>e DEF FlushFails
<1>18. ASSUME Drain PROVE Sorted'
  BY <1>18, <1>e DEF Drain
<1>19. ASSUME Drained PROVE Sorted'
  BY <1>19, <1>e DEF Drained
<1>20. ASSUME DrainTimesOut PROVE Sorted'
  BY <1>20, <1>e DEF DrainTimesOut
<1>21. ASSUME NEW c \in Client, Connect(c) PROVE Sorted'
  <2>1. PICK reload \in BOOLEAN :
          LET known == IF reload \/ last[c] = 0 THEN 0 ELSE log[last[c]].number
          IN  /\ inbox' = [inbox EXCEPT ![c] = Later(stream.replay, known)]
              /\ last' = IF reload THEN [last EXCEPT ![c] = 0] ELSE last
    BY <1>21 DEF Connect
  <2>2. UNCHANGED <<log, stream>>
    BY <1>21 DEF Connect
  <2> DEFINE known == IF reload \/ last[c] = 0 THEN 0 ELSE log[last[c]].number
             q     == Later(stream.replay, known)
  <2>3. /\ q \in Seq(Id)
        /\ \A j \in 1..Len(q) :
             \E k \in 1..Len(stream.replay) :
               q[j] = stream.replay[k] /\ Missed(stream.replay[k], known)
        /\ Increasing(q)
    <3> HIDE DEF known
    <3>1. stream.replay \in Seq(Id)
      BY ReplayOK
    <3> QED
      BY <1>b, <3>1, LaterOK
  <2>4. /\ inbox'[c] = q /\ \A d \in Client : d # c => inbox'[d] = inbox[d] /\ last'[d] = last[d]
        /\ last'[c] = IF reload THEN 0 ELSE last[c]
    BY <1>c, <2>1
  <2>5. ASSUME Unbroken, NEW i \in DOMAIN q PROVE last'[c] < q[i]
    <3>1. PICK k \in 1..Len(stream.replay) :
            q[i] = stream.replay[k] /\ Missed(stream.replay[k], known)
      <4>1. i \in 1..Len(q)
        BY <2>3, <2>5
      <4> HIDE DEF q
      <4> QED
        BY <2>3, <4>1
    <3>2. q[i] \in Events /\ q[i] \in Id /\ q[i] \in Nat /\ q[i] # 0
      <4>1. k \in DOMAIN stream.replay
        BY ReplayOK
      <4>2. stream.replay[k] \in Events /\ stream.replay[k] \in Id
        BY <4>1, ReplayOK
      <4> QED
        BY <3>1, <4>2, ReplayOK
    <3> HIDE DEF q
    <3>3. CASE reload \/ last[c] = 0
      <4>1. last'[c] = 0
        BY <2>4, <3>3
      <4> QED
        BY <3>2, <4>1
    <3>4. CASE ~reload /\ last[c] # 0
      <4>1. log[q[i]].number > log[last[c]].number
        BY <3>1, <3>4 DEF Missed
      <4>2. last[c] \in Events
        BY <3>4 DEF Published
      <4>3. log[q[i]].number = q[i] /\ log[last[c]].number = last[c]
        BY <2>5, <3>2, <4>2 DEF Straight
      <4>4. last[c] \in Id /\ last'[c] = last[c]
        BY <1>c, <2>4, <3>4
      <4> QED
        BY <3>2, <4>1, <4>3, <4>4, ReplayOK
    <3> QED
      BY <3>3, <3>4
  <2> HIDE DEF q
  <2>6. \A d \in Client : Increasing(inbox'[d])
    BY <1>b, <2>3, <2>4
  <2>7. Unbroken' => \A d \in Client : \A i \in DOMAIN inbox'[d] : last'[d] < inbox'[d][i]
    BY <1>a, <1>b, <2>4, <2>5
  <2> QED
    BY <1>b, <2>2, <2>6, <2>7 DEF Sorted
<1>22. ASSUME NEW c \in Client, Receive(c) PROVE Sorted'
  <2>1. /\ last' = [last EXCEPT ![c] = Head(inbox[c])]
        /\ inbox' = [inbox EXCEPT ![c] = Tail(inbox[c])]
        /\ inbox[c] # <<>> /\ UNCHANGED <<log, stream>>
    BY <1>22 DEF Receive
  <2> DEFINE h == Head(inbox[c])
             p == Tail(inbox[c])
  <2>2. Increasing(p) /\ \A i \in DOMAIN p : h < p[i]
    BY <1>b, <2>1, ReceivedInOrder
  <2>3. /\ inbox'[c] = p /\ last'[c] = h
        /\ \A d \in Client : d # c => inbox'[d] = inbox[d] /\ last'[d] = last[d]
    BY <1>c, <2>1
  <2> HIDE DEF h, p
  <2>4. \A d \in Client : Increasing(inbox'[d])
    BY <1>b, <2>2, <2>3
  <2>5. Unbroken' => \A d \in Client : \A i \in DOMAIN inbox'[d] : last'[d] < inbox'[d][i]
    BY <1>a, <1>b, <2>2, <2>3
  <2> QED
    BY <1>b, <2>1, <2>4, <2>5 DEF Sorted
<1>23. ASSUME NEW c \in Client, Leave(c) PROVE Sorted'
  BY <1>23, <1>e DEF Leave, Away
<1>24. ASSUME NEW c \in Client, Disconnect(c) PROVE Sorted'
  BY <1>24, <1>e DEF Disconnect, Away
<1>25. ASSUME Shutdown PROVE Sorted'
  BY <1>25, <1>e DEF Shutdown, Away
<1>26. ASSUME StopPersister PROVE Sorted'
  BY <1>26, <1>e DEF StopPersister
<1>27. ASSUME Exit PROVE Sorted'
  <2>1. stream'.replay = <<>> /\ Away(Client) /\ UNCHANGED log
    BY <1>27 DEF Exit, Gone, NoStream
  <2>2. \A c \in Client : inbox'[c] = <<>>
    BY <2>1 DEF Away
  <2> QED
    BY <1>d, <2>1, <2>2 DEF Sorted
<1>28. ASSUME Crash PROVE Sorted'
  <2>1. stream'.replay = <<>> /\ Away(Client) /\ UNCHANGED log
    BY <1>28 DEF Crash, Gone, NoStream
  <2>2. \A c \in Client : inbox'[c] = <<>>
    BY <2>1 DEF Away
  <2> QED
    BY <1>d, <2>1, <2>2 DEF Sorted
<1>29. ASSUME Restart PROVE Sorted'
  BY <1>29, <1>e DEF Restart
<1>30. CASE UNCHANGED vars
  BY <1>e, <1>30 DEF vars
<1> QED
  BY <1>1, <1>2, <1>3, <1>4, <1>5, <1>6, <1>7, <1>8, <1>9, <1>10, <1>11, <1>12, <1>13,
     <1>14, <1>15, <1>16, <1>17, <1>18, <1>19, <1>20, <1>21, <1>22, <1>23, <1>24,
     <1>25, <1>26, <1>27, <1>28, <1>29, <1>30
  DEF Next, ClientStep

\* A client ends where the stream ends.
LEMMA FollowedStep ==
  ASSUME TypeOK, Counted, Published, Lives, Sorted, Followed, [Next]_vars
  PROVE  Followed'
<1> USE DEF task, persist, clients, process
<1> DEFINE newest == stream.replay[Len(stream.replay)]
<1>a. ASSUME NEW c \in Client, conn[c] = "open", stream.replay # <<>>
      PROVE  IF inbox[c] = <<>> THEN last[c] # 0 /\ log[last[c]].number >= log[newest].number
             ELSE inbox[c][Len(inbox[c])] = newest
  BY <1>a DEF Followed
<1>b. /\ highest \in 0..MaxLog /\ 0 \in 0..MaxLog
      /\ inbox \in [Client -> Seq(Id)] /\ last \in [Client -> Id \cup {0}]
      /\ conn \in [Client -> {"away", "open", "dropped"}]
  BY MaxLogNat DEF TypeOK
<1>c. ASSUME stream.replay # <<>>
      PROVE  /\ Len(stream.replay) \in DOMAIN stream.replay
             /\ newest \in Events /\ log[newest].number \in Id /\ log[newest].number \in Nat
             /\ log[newest].number # 0
             /\ \A i \in DOMAIN stream.replay :
                  log[stream.replay[i]].number <= log[newest].number
  <2>1. /\ stream.replay \in Seq(Id) /\ Len(stream.replay) \in DOMAIN stream.replay
        /\ \A i \in DOMAIN stream.replay : i < Len(stream.replay) \/ i = Len(stream.replay)
    <3>1. stream.replay \in Seq(Id)
      BY ReplayOK
    <3> QED
      BY <1>c, <3>1
  <2>2. \A i \in DOMAIN stream.replay : log[stream.replay[i]].number \in Nat
    BY ReplayOK
  <2>3. \A i \in DOMAIN stream.replay :
          log[stream.replay[i]].number <= log[newest].number
    BY <2>1, <2>2 DEF Sorted
  <2> QED
    BY <2>1, <2>3, ReplayOK
<1> HIDE DEF newest
<1>0. ASSUME Accept \/ Emit \/ Finish \/ CancelPublished \/ Resume PROVE Followed'
  BY <1>0, Publication, PublishFollowed
<1>d. ASSUME UNCHANGED <<log, last>>, stream'.replay = stream.replay,
             \A c \in Client : conn'[c] = "open" => conn[c] = "open" /\ inbox'[c] = inbox[c]
      PROVE  Followed'
  BY <1>a, <1>d DEF Followed, newest
<1>e. ASSUME UNCHANGED <<log, clients>>, stream'.replay = stream.replay PROVE Followed'
  BY <1>d, <1>e
<1>1. ASSUME Accept PROVE Followed'
  BY <1>1, <1>0
<1>2. ASSUME Emit PROVE Followed'
  BY <1>2, <1>0
<1>3. ASSUME Finish PROVE Followed'
  BY <1>3, <1>0
<1>4. ASSUME CancelPublished PROVE Followed'
  BY <1>4, <1>0
<1>5. ASSUME Resume PROVE Followed'
  BY <1>5, <1>0
<1>6. ASSUME Announce PROVE Followed'
  <2>1. stream' = Ensured(stream, 0) /\ UNCHANGED <<log, clients>>
    BY <1>6 DEF Announce
  <2>2. stream'.replay = stream.replay
    BY <1>b, <2>1, StreamOK
  <2> QED
    BY <1>e, <2>1, <2>2
<1>7. ASSUME Reject PROVE Followed'
  BY <1>7, <1>e DEF Reject
<1>8. ASSUME Release PROVE Followed'
  BY <1>8, <1>e DEF Release
<1>9. ASSUME Cancel PROVE Followed'
  BY <1>9, <1>e DEF Cancel
<1>10. ASSUME Claim PROVE Followed'
  BY <1>10, <1>e DEF Claim
<1>11. ASSUME Fetch PROVE Followed'
  BY <1>11, <1>e DEF Fetch
<1>12. ASSUME Reopen PROVE Followed'
  <2>1. stream' = [Ensured(stream, highest) EXCEPT !.closed = FALSE] /\ UNCHANGED <<log, clients>>
    BY <1>12 DEF Reopen
  <2>2. stream'.replay = stream.replay
    BY <1>b, <2>1, StreamOK
  <2> QED
    BY <1>e, <2>1, <2>2
<1>13. ASSUME Restore PROVE Followed'
  BY <1>13, <1>e DEF Restore
<1>14. ASSUME CloseRefused PROVE Followed'
  <2>1. stream' = Closed(stream) /\ UNCHANGED <<log, clients>>
    BY <1>14 DEF CloseRefused
  <2>2. stream'.replay = stream.replay
    BY <1>b, <2>1, StreamOK
  <2> QED
    BY <1>e, <2>1, <2>2
<1>15. ASSUME Take PROVE Followed'
  BY <1>15, <1>e DEF Take
<1>16. ASSUME Flush PROVE Followed'
  BY <1>16, <1>e DEF Flush
<1>17. ASSUME FlushFails PROVE Followed'
  BY <1>17, <1>e DEF FlushFails
<1>18. ASSUME Drain PROVE Followed'
  BY <1>18, <1>e DEF Drain
<1>19. ASSUME Drained PROVE Followed'
  BY <1>19, <1>e DEF Drained
<1>20. ASSUME DrainTimesOut PROVE Followed'
  BY <1>20, <1>e DEF DrainTimesOut
<1>21. ASSUME NEW c \in Client, Connect(c) PROVE Followed'
  <2>1. PICK reload \in BOOLEAN :
          LET known == IF reload \/ last[c] = 0 THEN 0 ELSE log[last[c]].number
          IN  /\ inbox' = [inbox EXCEPT ![c] = Later(stream.replay, known)]
              /\ last' = IF reload THEN [last EXCEPT ![c] = 0] ELSE last
    BY <1>21 DEF Connect
  <2>2. UNCHANGED <<log, stream>> /\ conn' = [conn EXCEPT ![c] = "open"]
    BY <1>21 DEF Connect
  <2> DEFINE known == IF reload \/ last[c] = 0 THEN 0 ELSE log[last[c]].number
             q     == Later(stream.replay, known)
  <2>3. /\ inbox'[c] = q
        /\ \A d \in Client : d # c => /\ inbox'[d] = inbox[d] /\ last'[d] = last[d]
                                      /\ conn'[d] = conn[d]
        /\ last'[c] = IF reload THEN 0 ELSE last[c]
    BY <1>b, <2>1, <2>2
  <2>4. known \in Nat
    <3>1. CASE reload \/ last[c] = 0
      BY <3>1
    <3>2. CASE ~(reload \/ last[c] = 0)
      <4>1. last[c] \in Events
        BY <3>2 DEF Published
      <4>2. log[last[c]].number \in Id
        BY <4>1, LogEntry
      <4> QED
        BY <3>2, <4>2 DEF Id
    <3> QED
      BY <3>1, <3>2
  <2>5. ASSUME stream.replay # <<>>
        PROVE  IF inbox'[c] = <<>> THEN last'[c] # 0 /\ log[last'[c]].number >= log[newest].number
               ELSE inbox'[c][Len(inbox'[c])] = newest
    <3>0. stream.replay \in Seq(Id)
      BY ReplayOK
    <3>1. CASE Missed(newest, known)
      <4>1. q # <<>> /\ q[Len(q)] = newest
        <5> HIDE DEF known
        <5> QED
          BY <2>5, <3>0, <3>1, LaterOK DEF newest
      <4> HIDE DEF q
      <4> QED
        BY <2>3, <4>1
    <3>2. CASE ~Missed(newest, known)
      <4>1. known >= log[newest].number /\ known # 0
        <5> HIDE DEF known
        <5> QED
          BY <1>c, <2>4, <2>5, <3>2 DEF Missed
      <4>2. ~reload /\ last[c] # 0 /\ known = log[last[c]].number
        BY <4>1
      <4>3. \A k \in 1..Len(stream.replay) : ~Missed(stream.replay[k], known)
        <5>1. \A k \in 1..Len(stream.replay) :
                /\ log[stream.replay[k]].number <= log[newest].number
                /\ log[stream.replay[k]].number \in Nat
          <6>1. DOMAIN stream.replay = 1..Len(stream.replay)
            BY <3>0
          <6> QED
            BY <1>c, <2>5, <6>1, ReplayOK
        <5> HIDE DEF known
        <5> QED
          BY <1>c, <2>4, <2>5, <4>1, <5>1 DEF Missed
      <4>4. q = <<>>
        <5> HIDE DEF known
        <5> QED
          BY <3>0, <4>3, LaterOK
      <4> HIDE DEF q, known
      <4> QED
        BY <2>3, <4>1, <4>2, <4>4
    <3> QED
      BY <3>1, <3>2
  <2> HIDE DEF q, known
  <2>6. ASSUME NEW d \in Client, conn'[d] = "open", stream.replay # <<>>
        PROVE  IF inbox'[d] = <<>> THEN last'[d] # 0 /\ log[last'[d]].number >= log[newest].number
               ELSE inbox'[d][Len(inbox'[d])] = newest
    <3>1. CASE d = c
      BY <2>5, <2>6, <3>1
    <3>2. CASE d # c
      <4>1. inbox'[d] = inbox[d] /\ last'[d] = last[d] /\ conn[d] = "open"
        BY <2>3, <2>6, <3>2
      <4> QED
        BY <1>a, <2>6, <4>1
    <3> QED
      BY <3>1, <3>2
  <2> QED
    BY <2>2, <2>6 DEF Followed, newest
<1>22. ASSUME NEW c \in Client, Receive(c) PROVE Followed'
  <2>1. /\ last' = [last EXCEPT ![c] = Head(inbox[c])]
        /\ inbox' = [inbox EXCEPT ![c] = Tail(inbox[c])]
        /\ inbox[c] # <<>> /\ UNCHANGED <<log, stream, conn>>
    BY <1>22 DEF Receive
  <2>2. /\ Head(inbox[c]) \in Id /\ Tail(inbox[c]) \in Seq(Id)
        /\ Len(Tail(inbox[c])) = Len(inbox[c]) - 1 /\ Len(inbox[c]) \in Nat
        /\ Head(inbox[c]) = inbox[c][1]
        /\ \A i \in 1..Len(Tail(inbox[c])) : Tail(inbox[c])[i] = inbox[c][i + 1]
    BY <2>1, ReceivedOK
  <2> DEFINE h == Head(inbox[c])
             p == Tail(inbox[c])
  <2>3. /\ inbox'[c] = p /\ last'[c] = h
        /\ \A d \in Client : d # c => inbox'[d] = inbox[d] /\ last'[d] = last[d]
    BY <1>b, <2>1
  <2>4. /\ h \in Id /\ p \in Seq(Id) /\ Len(p) = Len(inbox[c]) - 1 /\ h = inbox[c][1]
        /\ \A i \in 1..Len(p) : p[i] = inbox[c][i + 1]
    BY <2>2
  <2> HIDE DEF h, p
  <2>5. ASSUME conn[c] = "open", stream.replay # <<>>
        PROVE  IF p = <<>> THEN h # 0 /\ log[h].number >= log[newest].number
               ELSE p[Len(p)] = newest
    <3>1. inbox[c][Len(inbox[c])] = newest
      BY <1>a, <2>1, <2>5
    <3>2. CASE p = <<>>
      <4>1. Len(inbox[c]) = 1
        BY <2>2, <2>4, <3>2
      <4>2. h = newest /\ h # 0
        BY <2>4, <3>1, <4>1 DEF Id
      <4> QED
        BY <1>c, <2>5, <3>2, <4>2
    <3>3. CASE p # <<>>
      <4>1. Len(p) \in 1..Len(p) /\ Len(p) + 1 = Len(inbox[c])
        BY <2>2, <2>4, <3>3
      <4> QED
        BY <2>4, <3>1, <3>3, <4>1
    <3> QED
      BY <3>2, <3>3
  <2>6. ASSUME NEW d \in Client, conn'[d] = "open", stream.replay # <<>>
        PROVE  IF inbox'[d] = <<>> THEN last'[d] # 0 /\ log[last'[d]].number >= log[newest].number
               ELSE inbox'[d][Len(inbox'[d])] = newest
    <3>1. CASE d = c
      BY <2>1, <2>3, <2>5, <2>6, <3>1
    <3>2. CASE d # c
      <4>1. inbox'[d] = inbox[d] /\ last'[d] = last[d] /\ conn[d] = "open"
        BY <2>1, <2>3, <2>6, <3>2
      <4> QED
        BY <1>a, <2>6, <4>1
    <3> QED
      BY <3>1, <3>2
  <2> QED
    BY <2>1, <2>6 DEF Followed, newest
<1>23. ASSUME NEW c \in Client, Leave(c) PROVE Followed'
  BY <1>23, <1>d DEF Leave, Away
<1>24. ASSUME NEW c \in Client, Disconnect(c) PROVE Followed'
  BY <1>24, <1>d DEF Disconnect, Away
<1>25. ASSUME Shutdown PROVE Followed'
  BY <1>25, <1>d DEF Shutdown, Away
<1>26. ASSUME StopPersister PROVE Followed'
  BY <1>26, <1>e DEF StopPersister
<1>27. ASSUME Exit PROVE Followed'
  <2>1. \A c \in Client : conn'[c] # "open"
    BY <1>27 DEF Exit, Gone, Away
  <2> QED
    BY <2>1 DEF Followed
<1>28. ASSUME Crash PROVE Followed'
  <2>1. \A c \in Client : conn'[c] # "open"
    BY <1>28 DEF Crash, Gone, Away
  <2> QED
    BY <2>1 DEF Followed
<1>29. ASSUME Restart PROVE Followed'
  BY <1>29, <1>e DEF Restart
<1>30. CASE UNCHANGED vars
  BY <1>e, <1>30 DEF vars
<1> QED
  BY <1>1, <1>2, <1>3, <1>4, <1>5, <1>6, <1>7, <1>8, <1>9, <1>10, <1>11, <1>12, <1>13,
     <1>14, <1>15, <1>16, <1>17, <1>18, <1>19, <1>20, <1>21, <1>22, <1>23, <1>24,
     <1>25, <1>26, <1>27, <1>28, <1>29, <1>30
  DEF Next, ClientStep

-----------------------------------------------------------------------------
(* What follows.                                                           *)

\* The invariant holds at the start.
LEMMA InitHolds ==
  Init => IInv
<1> SUFFICES ASSUME Init PROVE IInv
  OBVIOUS
<1> USE DEF Init, NoStream
<1>1. <<>> \in Seq(Id) /\ <<>> \in Seq([number : Id, kept : BOOLEAN]) /\ Len(<<>>) = 0
      /\ DOMAIN <<>> = {} /\ Events = {}
  BY DEF Events
<1>2. \A x : x \notin Range(<<>>)
  BY DEF Range
<1>3. MaxLog \in Nat
  BY MaxLogNat
<1>4. TypeOK
  BY <1>1, <1>3, LimitsAssumption DEF TypeOK
<1>5. Counted
  BY <1>1, LimitsAssumption DEF Counted, Owed, Working
<1>6. Published
  BY <1>1, <1>2 DEF Published, InHand
<1>7. Lives
  BY DEF Lives, Working
<1>8. InHand = {}
  BY <1>2 DEF InHand
<1>9. Fresh /\ InTurn /\ Orderly
  BY <1>1, <1>8 DEF Fresh, InTurn, Increasing, Orderly
<1>10. NothingVanishes /\ Straight /\ Sorted /\ Followed
  BY <1>1 DEF NothingVanishes, Straight, Sorted, Increasing, Followed
<1> QED
  BY <1>4, <1>5, <1>6, <1>7, <1>9, <1>10 DEF IInv, Core

\* Every step keeps it, as long as no task is cancelled in a process that has no
\* stream of it.
LEMMA StepKeeps ==
  ASSUME ~Strangers, IInv, [Next]_vars
  PROVE  IInv'
<1> USE DEF IInv, Core
<1>1. TypeOK' /\ Counted' /\ Published' /\ Lives'
  BY TypesStep, CountedStep, PublishedStep, LivesStep
<1>2. InTurn' /\ Fresh' /\ Orderly' /\ NothingVanishes'
  BY InTurnStep, FreshStep, OrderlyStep, VanishesStep
<1>3. Straight' /\ Sorted' /\ Followed'
  BY StraightStep, SortedStep, FollowedStep
<1> QED
  BY <1>1, <1>2, <1>3

\* So the invariant always holds.
LEMMA Invariant ==
  ASSUME ~Strangers
  PROVE  Spec => []IInv
<1>1. Init => IInv
  BY InitHolds
<1>2. IInv /\ [Next]_vars => IInv'
  BY StepKeeps
<1> QED
  BY <1>1, <1>2, PTL DEF Spec

\* Queues, counters and the table stay within their bounds.
THEOREM TraceTypeCorrect ==
  ASSUME ~Strangers
  PROVE  Spec => []TypeOK
<1>1. IInv => TypeOK
  BY DEF IInv, Core
<1> QED
  BY <1>1, Invariant, PTL

\* As long as nothing fails, no event that is to be kept is lost: not when the
\* process stops while the run still publishes, nor when the run is resumed in the
\* next one.
THEOREM KeptAlways ==
  ASSUME ~Strangers
  PROVE  Spec => []NothingVanishes
<1>1. IInv => NothingVanishes
  BY DEF IInv
<1> QED
  BY <1>1, Invariant, PTL

\* A queue behind what a client was sent last.
LEMMA SentOK ==
  ASSUME NEW S, NEW x \in S, NEW q \in Seq(S)
  PROVE  LET sent == <<x>> \o q
         IN  /\ DOMAIN sent = 1..(Len(q) + 1) /\ sent[1] = x
             /\ \A i \in 1..(Len(q) + 1) : i = 1 \/ (i - 1 \in DOMAIN q /\ sent[i] = q[i - 1])
<1>1. <<x>> \in Seq(S) /\ Len(<<x>>) = 1 /\ Len(q) \in Nat
  OBVIOUS
<1> QED
  BY <1>1

\* Clients are sent the events of a run in order, and none twice, across
\* reconnections and orderly restarts.
THEOREM AlwaysInOrder ==
  ASSUME ~Strangers
  PROVE  Spec => []InOrder
<1>1. ASSUME IInv, Unbroken, NEW c \in Client
      PROVE  LET sent == (IF last[c] = 0 THEN <<>> ELSE <<last[c]>>) \o inbox[c]
             IN /\ \A i, j \in DOMAIN sent : i < j => log[sent[i]].number < log[sent[j]].number
                /\ last[c] # 0 =>
                     \A e \in Events : e > last[c] => log[e].number > log[last[c]].number
  <2>1. /\ \A e \in Events : log[e].number = e
        /\ Increasing(inbox[c]) /\ \A i \in DOMAIN inbox[c] : last[c] < inbox[c][i]
        /\ (last[c] # 0 => last[c] \in Events) /\ Range(inbox[c]) \subseteq Events
    BY <1>1 DEF IInv, Core, Straight, Sorted, Published
  <2>2. inbox[c] \in Seq(Id) /\ last[c] \in Id \cup {0} /\ DOMAIN inbox[c] = 1..Len(inbox[c])
        /\ Len(inbox[c]) \in Nat
    BY <1>1 DEF IInv, Core, TypeOK
  <2>3. \A i \in DOMAIN inbox[c] : inbox[c][i] \in Events
    BY <2>1, <2>2, RangeOf
  <2>4. last[c] # 0 => \A e \in Events : e > last[c] => log[e].number > log[last[c]].number
    BY <2>1
  <2> DEFINE sent == (IF last[c] = 0 THEN <<>> ELSE <<last[c]>>) \o inbox[c]
  <2>5. CASE last[c] = 0
    <3>1. sent = inbox[c]
      BY <2>2, <2>5
    <3> HIDE DEF sent
    <3>2. \A i, j \in DOMAIN sent : i < j => log[sent[i]].number < log[sent[j]].number
      BY <2>1, <2>3, <3>1 DEF Increasing
    <3> QED
      BY <2>4, <3>2 DEF sent
  <2>6. CASE last[c] # 0
    <3>1. sent = <<last[c]>> \o inbox[c] /\ last[c] \in Id
      BY <2>2, <2>6
    <3> HIDE DEF sent
    <3>2. /\ DOMAIN sent = 1..(Len(inbox[c]) + 1) /\ sent[1] = last[c]
          /\ \A i \in 1..(Len(inbox[c]) + 1) :
               i = 1 \/ (i - 1 \in DOMAIN inbox[c] /\ sent[i] = inbox[c][i - 1])
      BY <2>2, <3>1, SentOK
    <3>3. ASSUME NEW i \in DOMAIN sent, NEW j \in DOMAIN sent, i < j
          PROVE  log[sent[i]].number < log[sent[j]].number
      <4>1. i \in 1..(Len(inbox[c]) + 1) /\ j \in 1..(Len(inbox[c]) + 1) /\ j # 1
        BY <2>2, <3>2, <3>3
      <4>2. j - 1 \in DOMAIN inbox[c] /\ sent[j] = inbox[c][j - 1]
        BY <3>2, <4>1
      <4>3. CASE i = 1
        BY <2>1, <2>3, <2>6, <3>2, <4>2, <4>3
      <4>4. CASE i # 1
        <5>1. i - 1 \in DOMAIN inbox[c] /\ sent[i] = inbox[c][i - 1] /\ i - 1 < j - 1
          BY <3>2, <3>3, <4>1, <4>4
        <5> QED
          BY <2>1, <2>3, <4>2, <5>1 DEF Increasing
      <4> QED
        BY <4>3, <4>4
    <3> QED
      BY <2>4, <3>3 DEF sent
  <2> QED
    BY <2>5, <2>6
<1>2. IInv => InOrder
  BY <1>1 DEF InOrder
<1> QED
  BY <1>2, Invariant, PTL

\* INSERT IGNORE drops nothing: a batch that is written is stored, event by event,
\* also after a restart.
THEOREM FlushesStoreAll ==
  ASSUME ~Strangers
  PROVE  Spec => FlushedIsStored
<1> DEFINE A == Flush => \A e \in Range(batch) : table'[log[e].number] = e
<1>1. ASSUME IInv PROVE A
  BY <1>1, StoredOK DEF IInv, Core, Flush
<1>2. IInv /\ [Next]_vars => [A]_vars
  BY <1>1
<1> QED
  BY <1>2, Invariant, PTL DEF Spec, FlushedIsStored

\* Nobody in good standing is let go before the stream's last event.
THEOREM LeaveAfterTheLast ==
  ASSUME ~Strangers
  PROVE  Spec => LeavesInformed
<1> DEFINE A == \A c \in Client :
                  Leave(c) /\ conn[c] = "open" /\ stream.replay # <<>> =>
                    /\ last[c] # 0
                    /\ log[last[c]].number >= log[stream.replay[Len(stream.replay)]].number
<1>1. ASSUME IInv PROVE A
  BY <1>1 DEF IInv, Followed, Leave, Done
<1>2. IInv /\ [Next]_vars => [A]_vars
  BY <1>1
<1> QED
  BY <1>2, Invariant, PTL DEF Spec, LeavesInformed

=============================================================================
