------------------------ MODULE TaskSchedulerProofs ------------------------
(***************************************************************************)
(* Proofs about TaskScheduler, for every set of traces, workers and        *)
(* requests and every value of the other constants.                        *)
(***************************************************************************)
EXTENDS TaskScheduler, TLAPS

\* A request that restores a row has claimed it. TypeOK needs this: the
\* status Restore writes is the one the request claimed.
RestorerClaimed == \A r \in Req : pc[r] = "restore" => from[r] \in Paused

\* Every step keeps the types.
LEMMA TypeStep ==
  ASSUME TypeOK, RestorerClaimed, [Next]_vars
  PROVE  TypeOK'
<1> USE ConstantsAssumption
    DEF Status, Paused, Final, PC, RequestPC, TaskPC, TypeOK, RestorerClaimed, Goto,
        Update, Fault, row, request, run, rigid, poll, server
<1>1. ASSUME NEW r \in Req, Submit(r) PROVE TypeOK'
  BY <1>1 DEF Submit
<1>2. ASSUME NEW r \in Req, Look(r) PROVE TypeOK'
  BY <1>2 DEF Look
<1>3. ASSUME NEW r \in Req, Abort(r) PROVE TypeOK'
  BY <1>3 DEF Abort
<1>4. ASSUME NEW r \in Req, ReleaseFails(r) PROVE TypeOK'
  BY <1>4 DEF ReleaseFails
<1>5. ASSUME NEW r \in Req, Claim(r) PROVE TypeOK'
  <2>1. status' \in [Trace -> Status \cup {"ABSENT"}]
    BY <1>5 DEF Claim
  <2>2. expired' \in [Trace -> BOOLEAN]
    BY <1>5 DEF Claim
  <2>3. claimed' \in [Trace -> Paused \cup {"NONE"}]
    BY <1>5 DEF Claim
  <2>4. pc' \in [Req -> PC]
    BY <1>5 DEF Claim
  <2> QED
    BY <1>5, <2>1, <2>2, <2>3, <2>4 DEF Claim
<1>6. ASSUME NEW r \in Req, Check(r) PROVE TypeOK'
  BY <1>6 DEF Check, Refused, Late, Processing
<1>7. ASSUME NEW r \in Req, Insert(r) PROVE TypeOK'
  BY <1>7 DEF Insert
<1>8. ASSUME NEW r \in Req, Lock(r) PROVE TypeOK'
  BY <1>8 DEF Lock, Refused, Lockable
<1>9. ASSUME NEW r \in Req, Spawn(r) PROVE TypeOK'
  BY <1>9 DEF Spawn
<1>10. ASSUME NEW r \in Req, Restore(r) PROVE TypeOK'
  <2>1. status' \in [Trace -> Status \cup {"ABSENT"}]
    BY <1>10 DEF Restore
  <2>2. claimed' \in [Trace -> Paused \cup {"NONE"}]
    BY <1>10 DEF Restore
  <2>3. pc' \in [Req -> PC]
    BY <1>10 DEF Restore
  <2> QED
    BY <1>10, <2>1, <2>2, <2>3 DEF Restore
<1>11. ASSUME NEW r \in Req, Start(r) PROVE TypeOK'
  BY <1>11 DEF Start
<1>12. ASSUME NEW r \in Req, NeverStart(r) PROVE TypeOK'
  BY <1>12 DEF NeverStart
<1>13. ASSUME NEW r \in Req, Unwind(r) PROVE TypeOK'
  BY <1>13 DEF Unwind
<1>14. ASSUME NEW r \in Req, Log(r) PROVE TypeOK'
  BY <1>14 DEF Log
<1>15. ASSUME NEW r \in Req, UnwindLog(r) PROVE TypeOK'
  BY <1>15 DEF UnwindLog
<1>16. ASSUME NEW r \in Req, Release(r) PROVE TypeOK'
  BY <1>16 DEF Release, Releasable
<1>17. ASSUME NEW r \in Req, UnwindRelease(r) PROVE TypeOK'
  BY <1>17 DEF UnwindRelease
<1>18. ASSUME NEW r \in Req, Unregister(r) PROVE TypeOK'
  BY <1>18 DEF Unregister
<1>19. ASSUME NEW r \in Req, SeeCancel(r) PROVE TypeOK'
  BY <1>19 DEF SeeCancel
<1>20. ASSUME NEW r \in Req, NEW t \in Trace, Sweep(r, t) PROVE TypeOK'
  BY <1>20 DEF Sweep, Refused
<1>21. ASSUME NEW r \in Req, NEW s \in Paused \cup Final, HandlerReturn(r, s) PROVE TypeOK'
  BY <1>21 DEF HandlerReturn
<1>22. ASSUME NEW t \in Trace, CancelTask(t) PROVE TypeOK'
  BY <1>22 DEF CancelTask, Cancelled
<1>23. ASSUME NEW t \in Trace, CancelAnyTask(t) PROVE TypeOK'
  BY <1>23 DEF CancelAnyTask
<1>24. ASSUME NEW t \in Trace, Expire(t) PROVE TypeOK'
  BY <1>24 DEF Expire
<1>25. ASSUME NEW w \in Worker, PollFetch(w) PROVE TypeOK'
  BY <1>25 DEF PollFetch, Signalled
<1>26. ASSUME NEW w \in Worker, PollSnapshot(w) PROVE TypeOK'
  BY <1>26 DEF PollSnapshot, Registered
<1>27. ASSUME NEW w \in Worker, PollNext(w) PROVE TypeOK'
  BY <1>27 DEF PollNext
<1>28. ASSUME NEW w \in Worker, PollSleep(w) PROVE TypeOK'
  BY <1>28 DEF PollSleep
<1>29. ASSUME NEW w \in Worker, PollForce(w) PROVE TypeOK'
  BY <1>29 DEF PollForce
<1>30. ASSUME NEW w \in Worker, Shutdown(w) PROVE TypeOK'
  BY <1>30 DEF Shutdown, Local, Unfinished
<1>31. ASSUME NEW w \in Worker, ShutdownTimeout(w) PROVE TypeOK'
  BY <1>31 DEF ShutdownTimeout, Unfinished
<1>32. ASSUME NEW w \in Worker, Stop(w) PROVE TypeOK'
  BY <1>32 DEF Stop, Restart
<1>33. ASSUME NEW w \in Worker, Crash(w) PROVE TypeOK'
  BY <1>33 DEF Crash, Restart
<1>34. ASSUME NEW w \in Worker, NEW t \in Trace, PollCancel(w, t) PROVE TypeOK'
  BY <1>34 DEF PollCancel, Cancellable
<1>35. ASSUME NEW w \in Worker, NEW t \in Trace, PollSkip(w, t) PROVE TypeOK'
  BY <1>35 DEF PollSkip, Cancellable
<1>36. CASE UNCHANGED vars
  BY <1>36 DEF vars
<1> QED
  BY <1>1, <1>2, <1>3, <1>4, <1>5, <1>6, <1>7, <1>8, <1>9, <1>10, <1>11, <1>12, <1>13,
     <1>14, <1>15, <1>16, <1>17, <1>18, <1>19, <1>20, <1>21, <1>22, <1>23, <1>24,
     <1>25, <1>26, <1>27, <1>28, <1>29, <1>30, <1>31, <1>32, <1>33, <1>34, <1>35,
     <1>36
  DEF Next, RequestStep, TaskStep, HandlerStep, PollStep

\* A request reaches "restore" only through Refused, when it has a claim.
LEMMA RestorerStep ==
  ASSUME TypeOK, RestorerClaimed, [Next]_vars
  PROVE  RestorerClaimed'
<1> USE DEF Paused, Final, RequestPC, TaskPC, TypeOK, RestorerClaimed, Goto, Fault, row,
        request, run, rigid, poll, server
<1>1. ASSUME NEW r \in Req, Submit(r) PROVE RestorerClaimed'
  BY <1>1 DEF Submit
<1>2. ASSUME NEW r \in Req, Look(r) PROVE RestorerClaimed'
  BY <1>2 DEF Look
<1>3. ASSUME NEW r \in Req, Abort(r) PROVE RestorerClaimed'
  BY <1>3 DEF Abort
<1>4. ASSUME NEW r \in Req, ReleaseFails(r) PROVE RestorerClaimed'
  BY <1>4 DEF ReleaseFails
<1>5. ASSUME NEW r \in Req, Claim(r) PROVE RestorerClaimed'
  BY <1>5 DEF Claim
<1>6. ASSUME NEW r \in Req, Check(r) PROVE RestorerClaimed'
  BY <1>6 DEF Check, Refused, Late, Processing
<1>7. ASSUME NEW r \in Req, Insert(r) PROVE RestorerClaimed'
  BY <1>7 DEF Insert
<1>8. ASSUME NEW r \in Req, Lock(r) PROVE RestorerClaimed'
  BY <1>8 DEF Lock, Refused, Lockable
<1>9. ASSUME NEW r \in Req, Spawn(r) PROVE RestorerClaimed'
  BY <1>9 DEF Spawn
<1>10. ASSUME NEW r \in Req, Restore(r) PROVE RestorerClaimed'
  BY <1>10 DEF Restore
<1>11. ASSUME NEW r \in Req, Start(r) PROVE RestorerClaimed'
  BY <1>11 DEF Start
<1>12. ASSUME NEW r \in Req, NeverStart(r) PROVE RestorerClaimed'
  BY <1>12 DEF NeverStart
<1>13. ASSUME NEW r \in Req, Unwind(r) PROVE RestorerClaimed'
  BY <1>13 DEF Unwind
<1>14. ASSUME NEW r \in Req, Log(r) PROVE RestorerClaimed'
  BY <1>14 DEF Log
<1>15. ASSUME NEW r \in Req, UnwindLog(r) PROVE RestorerClaimed'
  BY <1>15 DEF UnwindLog
<1>16. ASSUME NEW r \in Req, Release(r) PROVE RestorerClaimed'
  BY <1>16 DEF Release, Releasable
<1>17. ASSUME NEW r \in Req, UnwindRelease(r) PROVE RestorerClaimed'
  BY <1>17 DEF UnwindRelease
<1>18. ASSUME NEW r \in Req, Unregister(r) PROVE RestorerClaimed'
  BY <1>18 DEF Unregister
<1>19. ASSUME NEW r \in Req, SeeCancel(r) PROVE RestorerClaimed'
  BY <1>19 DEF SeeCancel
<1>20. ASSUME NEW r \in Req, NEW t \in Trace, Sweep(r, t) PROVE RestorerClaimed'
  BY <1>20 DEF Sweep, Refused
<1>21. ASSUME NEW r \in Req, NEW s \in Paused \cup Final, HandlerReturn(r, s) PROVE RestorerClaimed'
  BY <1>21 DEF HandlerReturn
<1>22. ASSUME NEW t \in Trace, CancelTask(t) PROVE RestorerClaimed'
  BY <1>22 DEF CancelTask, Cancelled
<1>23. ASSUME NEW t \in Trace, CancelAnyTask(t) PROVE RestorerClaimed'
  BY <1>23 DEF CancelAnyTask
<1>24. ASSUME NEW t \in Trace, Expire(t) PROVE RestorerClaimed'
  BY <1>24 DEF Expire
<1>25. ASSUME NEW w \in Worker, PollFetch(w) PROVE RestorerClaimed'
  BY <1>25 DEF PollFetch, Signalled
<1>26. ASSUME NEW w \in Worker, PollSnapshot(w) PROVE RestorerClaimed'
  BY <1>26 DEF PollSnapshot, Registered
<1>27. ASSUME NEW w \in Worker, PollNext(w) PROVE RestorerClaimed'
  BY <1>27 DEF PollNext
<1>28. ASSUME NEW w \in Worker, PollSleep(w) PROVE RestorerClaimed'
  BY <1>28 DEF PollSleep
<1>29. ASSUME NEW w \in Worker, PollForce(w) PROVE RestorerClaimed'
  BY <1>29 DEF PollForce
<1>30. ASSUME NEW w \in Worker, Shutdown(w) PROVE RestorerClaimed'
  BY <1>30 DEF Shutdown, Local, Unfinished
<1>31. ASSUME NEW w \in Worker, ShutdownTimeout(w) PROVE RestorerClaimed'
  BY <1>31 DEF ShutdownTimeout, Unfinished
<1>32. ASSUME NEW w \in Worker, Stop(w) PROVE RestorerClaimed'
  BY <1>32 DEF Stop, Restart
<1>33. ASSUME NEW w \in Worker, Crash(w) PROVE RestorerClaimed'
  BY <1>33 DEF Crash, Restart
<1>34. ASSUME NEW w \in Worker, NEW t \in Trace, PollCancel(w, t) PROVE RestorerClaimed'
  BY <1>34 DEF PollCancel, Cancellable
<1>35. ASSUME NEW w \in Worker, NEW t \in Trace, PollSkip(w, t) PROVE RestorerClaimed'
  BY <1>35 DEF PollSkip, Cancellable
<1>36. CASE UNCHANGED vars
  BY <1>36 DEF vars
<1> QED
  BY <1>1, <1>2, <1>3, <1>4, <1>5, <1>6, <1>7, <1>8, <1>9, <1>10, <1>11, <1>12, <1>13,
     <1>14, <1>15, <1>16, <1>17, <1>18, <1>19, <1>20, <1>21, <1>22, <1>23, <1>24,
     <1>25, <1>26, <1>27, <1>28, <1>29, <1>30, <1>31, <1>32, <1>33, <1>34, <1>35,
     <1>36
  DEF Next, RequestStep, TaskStep, HandlerStep, PollStep

\* Every variable keeps its type, for all constants.
THEOREM TypeCorrect == Spec => [](TypeOK /\ RestorerClaimed)
<1>1. Init => TypeOK /\ RestorerClaimed
  BY ConstantsAssumption
  DEF Init, TypeOK, RestorerClaimed, Status, Paused, Final, PC
<1>2. TypeOK /\ RestorerClaimed /\ [Next]_vars => (TypeOK /\ RestorerClaimed)'
  BY TypeStep, RestorerStep
<1> QED
  BY <1>1, <1>2, PTL DEF Spec

\* SingleRun is not inductive by itself: that a request finds the row INIT must
\* exclude every other owner of it.
Ownership == SingleRun /\ OwnedRowIsActive

\* Lock is the only way to become an owner, and no step but the owner's own
\* release takes an owned row out of the active statuses.
LEMMA OwnershipStep ==
  ASSUME TypeOK, RestorerClaimed, Ownership, [Next]_vars
  PROVE  Ownership'
<1> USE DEF Ownership, SingleRun, OwnedRowIsActive, Owner, Paused, Final, RequestPC, TaskPC,
        TypeOK, RestorerClaimed, Goto, Update, Fault, row, request, run, rigid, poll, server
<1>1. ASSUME NEW r \in Req, Submit(r) PROVE Ownership'
  BY <1>1 DEF Submit
<1>2. ASSUME NEW r \in Req, Look(r) PROVE Ownership'
  BY <1>2 DEF Look
<1>3. ASSUME NEW r \in Req, Abort(r) PROVE Ownership'
  BY <1>3 DEF Abort
<1>4. ASSUME NEW r \in Req, ReleaseFails(r) PROVE Ownership'
  BY <1>4 DEF ReleaseFails
<1>5. ASSUME NEW r \in Req, Claim(r) PROVE Ownership'
  <2>1. \A q \in Req : Owner(q)' => Owner(q)
    BY <1>5 DEF Claim
  <2>2. \A q \in Req : Owner(q) => status'[trace[q]] = status[trace[q]]
    <3>1. CASE status[trace[r]] = from[r]
      <4>1. \A q \in Req : Owner(q) => trace[q] # trace[r]
        <5>1. from[r] \in {"WAITING_APPROVAL", "WAITING_RECONCILIATION", "NONE"}
          OBVIOUS
        <5>2. \A q \in Req : Owner(q) =>
                status[trace[q]] \in {"PROCESSING", "CANCEL_REQUESTED", "FAILED"}
          OBVIOUS
        <5> HIDE DEF Owner
        <5> QED
          BY <3>1, <5>1, <5>2
      <4> HIDE DEF Owner
      <4> QED
        BY <1>5, <4>1 DEF Claim
    <3>2. CASE status[trace[r]] # from[r]
      <4>1. status' = status
        BY <1>5, <3>2 DEF Claim
      <4> QED
        BY <4>1
    <3> QED
      BY <3>1, <3>2
  <2>3. trace' = trace
    BY <1>5 DEF Claim
  <2> HIDE DEF Owner
  <2> QED
    BY <2>1, <2>2, <2>3
<1>6. ASSUME NEW r \in Req, Check(r) PROVE Ownership'
  BY <1>6 DEF Check, Refused, Late, Processing
<1>7. ASSUME NEW r \in Req, Insert(r) PROVE Ownership'
  BY <1>7 DEF Insert
<1>8. ASSUME NEW r \in Req, Lock(r) PROVE Ownership'
  <2>1. CASE status[trace[r]] = "INIT"
    <3>1. \A q \in Req : Owner(q) => trace[q] # trace[r]
      BY <2>1
    <3>2. \A q \in Req : Owner(q)' => Owner(q) \/ q = r
      BY <1>8 DEF Lock
    <3>3. status' = [status EXCEPT ![trace[r]] = "PROCESSING"]
      BY <1>8, <2>1 DEF Lock, Lockable
    <3>4. trace' = trace
      BY <1>8 DEF Lock
    <3> HIDE DEF Owner
    <3> QED
      BY <3>1, <3>2, <3>3, <3>4
  <2>2. CASE status[trace[r]] # "INIT"
    <3>1. \A q \in Req : Owner(q)' => Owner(q)
      BY <1>8, <2>2 DEF Lock, Lockable, Refused
    <3>2. status' = status /\ trace' = trace
      BY <1>8, <2>2 DEF Lock, Lockable
    <3> HIDE DEF Owner
    <3> QED
      BY <3>1, <3>2
  <2> QED
    BY <2>1, <2>2
<1>9. ASSUME NEW r \in Req, Spawn(r) PROVE Ownership'
  BY <1>9 DEF Spawn
<1>10. ASSUME NEW r \in Req, Restore(r) PROVE Ownership'
  BY <1>10 DEF Restore
<1>11. ASSUME NEW r \in Req, Start(r) PROVE Ownership'
  BY <1>11 DEF Start
<1>12. ASSUME NEW r \in Req, NeverStart(r) PROVE Ownership'
  BY <1>12 DEF NeverStart
<1>13. ASSUME NEW r \in Req, Unwind(r) PROVE Ownership'
  BY <1>13 DEF Unwind
<1>14. ASSUME NEW r \in Req, Log(r) PROVE Ownership'
  BY <1>14 DEF Log
<1>15. ASSUME NEW r \in Req, UnwindLog(r) PROVE Ownership'
  BY <1>15 DEF UnwindLog
<1>16. ASSUME NEW r \in Req, Release(r) PROVE Ownership'
  BY <1>16 DEF Release, Releasable
<1>17. ASSUME NEW r \in Req, UnwindRelease(r) PROVE Ownership'
  BY <1>17 DEF UnwindRelease
<1>18. ASSUME NEW r \in Req, Unregister(r) PROVE Ownership'
  BY <1>18 DEF Unregister
<1>19. ASSUME NEW r \in Req, SeeCancel(r) PROVE Ownership'
  BY <1>19 DEF SeeCancel
<1>20. ASSUME NEW r \in Req, NEW t \in Trace, Sweep(r, t) PROVE Ownership'
  BY <1>20 DEF Sweep, Refused
<1>21. ASSUME NEW r \in Req, NEW s \in Paused \cup Final, HandlerReturn(r, s) PROVE Ownership'
  BY <1>21 DEF HandlerReturn
<1>22. ASSUME NEW t \in Trace, CancelTask(t) PROVE Ownership'
  BY <1>22 DEF CancelTask, Cancelled
<1>23. ASSUME NEW t \in Trace, CancelAnyTask(t) PROVE Ownership'
  BY <1>23 DEF CancelAnyTask
<1>24. ASSUME NEW t \in Trace, Expire(t) PROVE Ownership'
  BY <1>24 DEF Expire
<1>25. ASSUME NEW w \in Worker, PollFetch(w) PROVE Ownership'
  BY <1>25 DEF PollFetch, Signalled
<1>26. ASSUME NEW w \in Worker, PollSnapshot(w) PROVE Ownership'
  BY <1>26 DEF PollSnapshot, Registered
<1>27. ASSUME NEW w \in Worker, PollNext(w) PROVE Ownership'
  BY <1>27 DEF PollNext
<1>28. ASSUME NEW w \in Worker, PollSleep(w) PROVE Ownership'
  BY <1>28 DEF PollSleep
<1>29. ASSUME NEW w \in Worker, PollForce(w) PROVE Ownership'
  BY <1>29 DEF PollForce
<1>30. ASSUME NEW w \in Worker, Shutdown(w) PROVE Ownership'
  BY <1>30 DEF Shutdown, Local, Unfinished
<1>31. ASSUME NEW w \in Worker, ShutdownTimeout(w) PROVE Ownership'
  BY <1>31 DEF ShutdownTimeout, Unfinished
<1>32. ASSUME NEW w \in Worker, Stop(w) PROVE Ownership'
  BY <1>32 DEF Stop, Restart
<1>33. ASSUME NEW w \in Worker, Crash(w) PROVE Ownership'
  BY <1>33 DEF Crash, Restart
<1>34. ASSUME NEW w \in Worker, NEW t \in Trace, PollCancel(w, t) PROVE Ownership'
  BY <1>34 DEF PollCancel, Cancellable
<1>35. ASSUME NEW w \in Worker, NEW t \in Trace, PollSkip(w, t) PROVE Ownership'
  BY <1>35 DEF PollSkip, Cancellable
<1>36. CASE UNCHANGED vars
  BY <1>36 DEF vars
<1> QED
  BY <1>1, <1>2, <1>3, <1>4, <1>5, <1>6, <1>7, <1>8, <1>9, <1>10, <1>11, <1>12, <1>13,
     <1>14, <1>15, <1>16, <1>17, <1>18, <1>19, <1>20, <1>21, <1>22, <1>23, <1>24,
     <1>25, <1>26, <1>27, <1>28, <1>29, <1>30, <1>31, <1>32, <1>33, <1>34, <1>35,
     <1>36
  DEF Next, RequestStep, TaskStep, HandlerStep, PollStep

\* At most one task runs per trace id, and the row it holds says so.
THEOREM SingleRunAlways == Spec => [](SingleRun /\ OwnedRowIsActive)
<1>1. Init => Ownership
  BY DEF Init, Ownership, SingleRun, OwnedRowIsActive, Owner
<1>2. TypeOK /\ RestorerClaimed /\ Ownership /\ [Next]_vars => Ownership'
  BY OwnershipStep
<1> QED
  BY <1>1, <1>2, TypeCorrect, PTL DEF Spec, Ownership

\* While a task holds its row, the row says that it runs, or was failed by a sweep.
THEOREM OwnedRowAlwaysActive == Spec => []OwnedRowIsActive
<1>1. SingleRun /\ OwnedRowIsActive => OwnedRowIsActive
  OBVIOUS
<1> QED
  BY <1>1, SingleRunAlways, PTL

\* Only an unpaused, unfinished row is locked, claimed, released or cancelled,
\* and a sweep writes FAILED only: nothing else leaves a final status.
LEMMA NoResurrectionStep ==
  ASSUME TypeOK, RestorerClaimed, [Next]_vars, NEW u \in Trace, status[u] \in Final
  PROVE  status'[u] \in {status[u], "FAILED"}
<1> USE DEF Paused, Final, TypeOK, RestorerClaimed, Goto, Update, Fault, row, request, run,
        rigid, poll, server
<1>1. ASSUME NEW r \in Req, Submit(r) PROVE status'[u] \in {status[u], "FAILED"}
  BY <1>1 DEF Submit
<1>2. ASSUME NEW r \in Req, Look(r) PROVE status'[u] \in {status[u], "FAILED"}
  BY <1>2 DEF Look
<1>3. ASSUME NEW r \in Req, Abort(r) PROVE status'[u] \in {status[u], "FAILED"}
  BY <1>3 DEF Abort
<1>4. ASSUME NEW r \in Req, ReleaseFails(r) PROVE status'[u] \in {status[u], "FAILED"}
  BY <1>4 DEF ReleaseFails
<1>5. ASSUME NEW r \in Req, Claim(r) PROVE status'[u] \in {status[u], "FAILED"}
  BY <1>5 DEF Claim
<1>6. ASSUME NEW r \in Req, Check(r) PROVE status'[u] \in {status[u], "FAILED"}
  BY <1>6 DEF Check, Refused, Late, Processing
<1>7. ASSUME NEW r \in Req, Insert(r) PROVE status'[u] \in {status[u], "FAILED"}
  BY <1>7 DEF Insert
<1>8. ASSUME NEW r \in Req, Lock(r) PROVE status'[u] \in {status[u], "FAILED"}
  BY <1>8 DEF Lock, Refused, Lockable
<1>9. ASSUME NEW r \in Req, Spawn(r) PROVE status'[u] \in {status[u], "FAILED"}
  BY <1>9 DEF Spawn
<1>10. ASSUME NEW r \in Req, Restore(r) PROVE status'[u] \in {status[u], "FAILED"}
  BY <1>10 DEF Restore
<1>11. ASSUME NEW r \in Req, Start(r) PROVE status'[u] \in {status[u], "FAILED"}
  BY <1>11 DEF Start
<1>12. ASSUME NEW r \in Req, NeverStart(r) PROVE status'[u] \in {status[u], "FAILED"}
  BY <1>12 DEF NeverStart
<1>13. ASSUME NEW r \in Req, Unwind(r) PROVE status'[u] \in {status[u], "FAILED"}
  BY <1>13 DEF Unwind
<1>14. ASSUME NEW r \in Req, Log(r) PROVE status'[u] \in {status[u], "FAILED"}
  BY <1>14 DEF Log
<1>15. ASSUME NEW r \in Req, UnwindLog(r) PROVE status'[u] \in {status[u], "FAILED"}
  BY <1>15 DEF UnwindLog
<1>16. ASSUME NEW r \in Req, Release(r) PROVE status'[u] \in {status[u], "FAILED"}
  BY <1>16 DEF Release, Releasable
<1>17. ASSUME NEW r \in Req, UnwindRelease(r) PROVE status'[u] \in {status[u], "FAILED"}
  BY <1>17 DEF UnwindRelease
<1>18. ASSUME NEW r \in Req, Unregister(r) PROVE status'[u] \in {status[u], "FAILED"}
  BY <1>18 DEF Unregister
<1>19. ASSUME NEW r \in Req, SeeCancel(r) PROVE status'[u] \in {status[u], "FAILED"}
  BY <1>19 DEF SeeCancel
<1>20. ASSUME NEW r \in Req, NEW t \in Trace, Sweep(r, t) PROVE status'[u] \in {status[u], "FAILED"}
  BY <1>20 DEF Sweep, Refused
<1>21. ASSUME NEW r \in Req, NEW s \in Paused \cup Final, HandlerReturn(r, s) PROVE status'[u] \in {status[u], "FAILED"}
  BY <1>21 DEF HandlerReturn
<1>22. ASSUME NEW t \in Trace, CancelTask(t) PROVE status'[u] \in {status[u], "FAILED"}
  BY <1>22 DEF CancelTask, Cancelled
<1>23. ASSUME NEW t \in Trace, CancelAnyTask(t) PROVE status'[u] \in {status[u], "FAILED"}
  BY <1>23 DEF CancelAnyTask
<1>24. ASSUME NEW t \in Trace, Expire(t) PROVE status'[u] \in {status[u], "FAILED"}
  BY <1>24 DEF Expire
<1>25. ASSUME NEW w \in Worker, PollFetch(w) PROVE status'[u] \in {status[u], "FAILED"}
  BY <1>25 DEF PollFetch, Signalled
<1>26. ASSUME NEW w \in Worker, PollSnapshot(w) PROVE status'[u] \in {status[u], "FAILED"}
  BY <1>26 DEF PollSnapshot, Registered
<1>27. ASSUME NEW w \in Worker, PollNext(w) PROVE status'[u] \in {status[u], "FAILED"}
  BY <1>27 DEF PollNext
<1>28. ASSUME NEW w \in Worker, PollSleep(w) PROVE status'[u] \in {status[u], "FAILED"}
  BY <1>28 DEF PollSleep
<1>29. ASSUME NEW w \in Worker, PollForce(w) PROVE status'[u] \in {status[u], "FAILED"}
  BY <1>29 DEF PollForce
<1>30. ASSUME NEW w \in Worker, Shutdown(w) PROVE status'[u] \in {status[u], "FAILED"}
  BY <1>30 DEF Shutdown, Local, Unfinished
<1>31. ASSUME NEW w \in Worker, ShutdownTimeout(w) PROVE status'[u] \in {status[u], "FAILED"}
  BY <1>31 DEF ShutdownTimeout, Unfinished
<1>32. ASSUME NEW w \in Worker, Stop(w) PROVE status'[u] \in {status[u], "FAILED"}
  BY <1>32 DEF Stop, Restart
<1>33. ASSUME NEW w \in Worker, Crash(w) PROVE status'[u] \in {status[u], "FAILED"}
  BY <1>33 DEF Crash, Restart
<1>34. ASSUME NEW w \in Worker, NEW t \in Trace, PollCancel(w, t) PROVE status'[u] \in {status[u], "FAILED"}
  BY <1>34 DEF PollCancel, Cancellable
<1>35. ASSUME NEW w \in Worker, NEW t \in Trace, PollSkip(w, t) PROVE status'[u] \in {status[u], "FAILED"}
  BY <1>35 DEF PollSkip, Cancellable
<1>36. CASE UNCHANGED vars
  BY <1>36 DEF vars
<1> QED
  BY <1>1, <1>2, <1>3, <1>4, <1>5, <1>6, <1>7, <1>8, <1>9, <1>10, <1>11, <1>12, <1>13,
     <1>14, <1>15, <1>16, <1>17, <1>18, <1>19, <1>20, <1>21, <1>22, <1>23, <1>24,
     <1>25, <1>26, <1>27, <1>28, <1>29, <1>30, <1>31, <1>32, <1>33, <1>34, <1>35,
     <1>36
  DEF Next, RequestStep, TaskStep, HandlerStep, PollStep

\* A finished task is never resumed, whatever happens.
THEOREM NoResurrectionAlways == Spec => NoResurrection
<1>1. TypeOK /\ RestorerClaimed /\ [Next]_vars
      => [\A t \in Trace : status[t] \in Final => status'[t] \in {status[t], "FAILED"}]_vars
  BY NoResurrectionStep
<1> QED
  BY <1>1, TypeCorrect, PTL DEF Spec, NoResurrection

-----------------------------------------------------------------------------
(* A row INIT is attended.                                                 *)

\* Steps of the poll loops, which change nothing of a row or of a request.
Polling == \E w \in Worker : PollStep(w) \/ PollForce(w)

\* They leave rows, requests, the registry and the servers alone.
LEMMA PollQuiet ==
  ASSUME Polling
  PROVE  UNCHANGED <<row, pc, request, outcome, seen, rigid, registry, server, faults>>
<1> USE DEF run, row, request, rigid, server, poll
<1>1. ASSUME NEW w \in Worker, PollForce(w) \/ PollFetch(w) \/ PollSnapshot(w)
      PROVE  UNCHANGED <<row, pc, request, outcome, seen, rigid, registry, server, faults>>
  BY <1>1 DEF PollForce, PollFetch, PollSnapshot
<1>2. ASSUME NEW w \in Worker, PollNext(w) \/ PollSleep(w)
      PROVE  UNCHANGED <<row, pc, request, outcome, seen, rigid, registry, server, faults>>
  BY <1>2 DEF PollNext, PollSleep
<1>3. ASSUME NEW w \in Worker, NEW t \in Trace, PollCancel(w, t) \/ PollSkip(w, t)
      PROVE  UNCHANGED <<row, pc, request, outcome, seen, rigid, registry, server, faults>>
  BY <1>3 DEF PollCancel, PollSkip
<1> QED
  BY <1>1, <1>2, <1>3 DEF Polling, PollStep

\* InitIsAttended is not inductive by itself: a request that has not inserted its
\* row may be refused, and then attends to nothing. The request that will lock or
\* restore the row has inserted or claimed it.
Attends(r) == \/ pc[r] = "lock"
              \/ from[r] # "NONE" /\ pc[r] \in {"check", "sweep", "insert", "restore"}

Attended ==
  /\ \A r \in Req : pc[r] = "claim" => from[r] \in Paused
  /\ faults = 0 =>
       /\ \A w \in Worker : mode[w] = "up"
       /\ \A t \in Trace : status[t] = "INIT" => \E r \in Req : trace[r] = t /\ Attends(r)

\* A request that stops attending has moved the row out of INIT, and a row that
\* becomes INIT has a request that attends to it.
Handover ==
  /\ \A r \in Req : pc'[r] = "claim" => from'[r] \in Paused
  /\ UNCHANGED <<trace, mode, faults>>
  /\ \A r \in Req : Attends(r) => Attends(r)' \/ status'[trace[r]] # "INIT"
  /\ \A t \in Trace : status'[t] = "INIT" /\ status[t] # "INIT" =>
       \E r \in Req : trace[r] = t /\ Attends(r)'

\* Such a step keeps every row attended.
LEMMA HandoverKeeps ==
  ASSUME TypeOK, Attended, Handover
  PROVE  Attended'
<1>1. ASSUME faults = 0, NEW t \in Trace, status'[t] = "INIT"
      PROVE  \E r \in Req : trace[r] = t /\ Attends(r)'
  <2>1. CASE status[t] # "INIT"
    BY <1>1, <2>1 DEF Handover
  <2>2. CASE status[t] = "INIT"
    <3>1. PICK r \in Req : trace[r] = t /\ Attends(r)
      BY <1>1, <2>2 DEF Attended
    <3>2. Attends(r)'
      BY <1>1, <3>1 DEF Handover
    <3> QED
      BY <3>1, <3>2
  <2> QED
    BY <2>1, <2>2
<1>2. UNCHANGED <<trace, mode, faults>> /\ \A r \in Req : pc'[r] = "claim" => from'[r] \in Paused
  BY DEF Handover
<1> QED
  BY <1>1, <1>2 DEF Attended

\* A fault leaves the invariant nothing to say but of claims.
LEMMA FaultKeeps ==
  ASSUME TypeOK, Attended, Fault, \A r \in Req : pc'[r] = "claim" => from'[r] \in Paused
  PROVE  Attended'
<1>1. faults' # 0
  BY ConstantsAssumption DEF Fault, TypeOK, ConstantsAssumption
<1> QED
  BY <1>1 DEF Attended

\* Without faults no step of a request strands its row, and no restart ends one.
LEMMA AttendedStep ==
  ASSUME TypeOK, RestorerClaimed, Attended, [Next]_vars
  PROVE  Attended'
<1>a. \A r \in Req : pc[r] = "claim" => from[r] \in Paused
  BY DEF Attended
<1> USE <1>a, HandoverKeeps
    DEF Attends, TypeOK, RestorerClaimed, Paused, Final, RequestPC, Goto, Update,
        row, request, run, rigid, poll, server
<1>1. ASSUME NEW r \in Req, Submit(r) PROVE Attended'
  <2>1. Handover
    BY <1>1 DEF Handover, Submit
  <2> QED
    BY <2>1
<1>2. ASSUME NEW r \in Req, Look(r) PROVE Attended'
  <2>1. Handover
    BY <1>2 DEF Handover, Look
  <2> QED
    BY <2>1
<1>3. ASSUME NEW r \in Req, Abort(r) PROVE Attended'
  <2>1. Fault /\ \A q \in Req : pc'[q] = "claim" => from'[q] \in Paused
    BY <1>3 DEF Abort
  <2> QED
    BY <2>1, FaultKeeps
<1>4. ASSUME NEW r \in Req, ReleaseFails(r) PROVE Attended'
  <2>1. Fault /\ \A q \in Req : pc'[q] = "claim" => from'[q] \in Paused
    BY <1>4 DEF ReleaseFails
  <2> QED
    BY <2>1, FaultKeeps
<1>5. ASSUME NEW r \in Req, Claim(r) PROVE Attended'
  <2>1. from[r] \in Paused /\ UNCHANGED <<trace, mode, faults, from>> /\ pc[r] = "claim"
        /\ \A q \in Req \ {r} : pc'[q] = pc[q]
    BY <1>5 DEF Claim
  <2>2. CASE status[trace[r]] = from[r]
    <3>1. pc'[r] = "check" /\ \A t \in Trace \ {trace[r]} : status'[t] = status[t]
      BY <1>5, <2>2 DEF Claim
    <3> QED
      BY <2>1, <3>1 DEF Handover
  <2>3. CASE status[trace[r]] # from[r]
    <3>1. pc'[r] = "ended" /\ status' = status
      BY <1>5, <2>3 DEF Claim
    <3> QED
      BY <2>1, <3>1 DEF Handover
  <2> QED
    BY <2>2, <2>3
<1>6. ASSUME NEW r \in Req, Check(r) PROVE Attended'
  <2>1. Handover
    BY <1>6 DEF Handover, Check, Refused, Late, Processing
  <2> QED
    BY <2>1
<1>7. ASSUME NEW r \in Req, Insert(r) PROVE Attended'
  <2>1. /\ trace' = trace /\ UNCHANGED <<mode, faults>>
        /\ \A q \in Req : pc'[q] = "claim" => from'[q] \in Paused
        /\ \A q \in Req : Attends(q) => Attends(q)' \/ status'[trace[q]] # "INIT"
    BY <1>7 DEF Insert
  <2>2. /\ \A t \in Trace : status'[t] = "INIT" /\ status[t] # "INIT" => t = trace[r]
        /\ status'[trace[r]] = "INIT" /\ status[trace[r]] # "INIT" => Attends(r)'
    BY <1>7 DEF Insert
  <2> QED
    BY <2>1, <2>2 DEF Handover
<1>8. ASSUME NEW r \in Req, Lock(r) PROVE Attended'
  <2>1. Handover
    BY <1>8 DEF Handover, Lock, Refused, Lockable
  <2> QED
    BY <2>1
<1>9. ASSUME NEW r \in Req, Spawn(r) PROVE Attended'
  <2>1. Handover
    BY <1>9 DEF Handover, Spawn
  <2> QED
    BY <2>1
<1>10. ASSUME NEW r \in Req, Restore(r) PROVE Attended'
  <2>1. \A t \in Trace : status'[t] = "INIT" => status[t] = "INIT" /\ t # trace[r]
    BY <1>10 DEF Restore
  <2>2. \A q \in Req : Attends(q) => Attends(q)' \/ q = r
    BY <1>10 DEF Restore
  <2>3. UNCHANGED <<trace, mode, faults, from>> /\ \A q \in Req : pc'[q] = "claim" => pc[q] = "claim"
    BY <1>10 DEF Restore
  <2> HIDE DEF Attends
  <2> QED
    BY <2>1, <2>2, <2>3 DEF Handover
<1>11. ASSUME NEW r \in Req, Start(r) PROVE Attended'
  <2>1. Handover
    BY <1>11 DEF Handover, Start
  <2> QED
    BY <2>1
<1>12. ASSUME NEW r \in Req, NeverStart(r) PROVE Attended'
  <2>1. Handover
    BY <1>12 DEF Handover, NeverStart
  <2> QED
    BY <2>1
<1>13. ASSUME NEW r \in Req, Unwind(r) PROVE Attended'
  <2>1. Handover
    BY <1>13 DEF Handover, Unwind
  <2> QED
    BY <2>1
<1>14. ASSUME NEW r \in Req, Log(r) PROVE Attended'
  <2>1. Handover
    BY <1>14 DEF Handover, Log
  <2> QED
    BY <2>1
<1>15. ASSUME NEW r \in Req, UnwindLog(r) PROVE Attended'
  <2>1. Handover
    BY <1>15 DEF Handover, UnwindLog
  <2> QED
    BY <2>1
<1>16. ASSUME NEW r \in Req, Release(r) PROVE Attended'
  <2>1. \A t \in Trace : status'[t] = "INIT" => status[t] = "INIT"
    BY <1>16 DEF Release, Releasable
  <2>2. \A q \in Req : Attends(q) => Attends(q)'
    BY <1>16 DEF Release
  <2>3. UNCHANGED <<trace, mode, faults, from>> /\ \A q \in Req : pc'[q] = "claim" => pc[q] = "claim"
    BY <1>16 DEF Release
  <2> HIDE DEF Attends
  <2> QED
    BY <2>1, <2>2, <2>3 DEF Handover
<1>17. ASSUME NEW r \in Req, UnwindRelease(r) PROVE Attended'
  <2>1. Handover
    BY <1>17 DEF Handover, UnwindRelease
  <2> QED
    BY <2>1
<1>18. ASSUME NEW r \in Req, Unregister(r) PROVE Attended'
  <2>1. Handover
    BY <1>18 DEF Handover, Unregister
  <2> QED
    BY <2>1
<1>19. ASSUME NEW r \in Req, SeeCancel(r) PROVE Attended'
  <2>1. Handover
    BY <1>19 DEF Handover, SeeCancel
  <2> QED
    BY <2>1
<1>20. ASSUME NEW r \in Req, NEW t \in Trace, Sweep(r, t) PROVE Attended'
  <2>1. Handover
    BY <1>20 DEF Handover, Sweep, Refused
  <2> QED
    BY <2>1
<1>21. ASSUME NEW r \in Req, NEW s \in Paused \cup Final, HandlerReturn(r, s) PROVE Attended'
  <2>1. Handover
    BY <1>21 DEF Handover, HandlerReturn
  <2> QED
    BY <2>1
<1>22. ASSUME NEW t \in Trace, CancelTask(t) PROVE Attended'
  <2>1. Handover
    BY <1>22 DEF Handover, CancelTask, Cancelled
  <2> QED
    BY <2>1
<1>23. ASSUME NEW t \in Trace, CancelAnyTask(t) PROVE Attended'
  <2>1. Handover
    BY <1>23 DEF Handover, CancelAnyTask
  <2> QED
    BY <2>1
<1>24. ASSUME NEW t \in Trace, Expire(t) PROVE Attended'
  <2>1. Handover
    BY <1>24 DEF Handover, Expire
  <2> QED
    BY <2>1
<1>25. ASSUME Polling PROVE Attended'
  <2>1. Handover
    BY <1>25, PollQuiet DEF Handover
  <2> QED
    BY <2>1
<1>26. ASSUME NEW w \in Worker, Shutdown(w) PROVE Attended'
  <2>1. Fault /\ \A q \in Req : pc'[q] = "claim" => from'[q] \in Paused
    BY <1>26 DEF Shutdown
  <2> QED
    BY <2>1, FaultKeeps
<1>27. ASSUME NEW w \in Worker, ShutdownTimeout(w) PROVE Attended'
  <2>1. mode[w] = "waiting" /\ UNCHANGED <<status, trace, from, pc, faults>>
    BY <1>27 DEF ShutdownTimeout
  <2> QED
    BY <2>1 DEF Attended
<1>28. ASSUME NEW w \in Worker, Stop(w) PROVE Attended'
  <2>1. mode[w] # "up" /\ UNCHANGED <<status, trace, from, faults>>
        /\ \A q \in Req : pc'[q] = "claim" => pc[q] = "claim"
    BY <1>28 DEF Stop, Restart
  <2> QED
    BY <2>1 DEF Attended
<1>29. ASSUME NEW w \in Worker, Crash(w) PROVE Attended'
  <2>1. Fault /\ \A q \in Req : pc'[q] = "claim" => from'[q] \in Paused
    BY <1>29 DEF Crash, Restart
  <2> QED
    BY <2>1, FaultKeeps
<1>30. CASE UNCHANGED vars
  BY <1>30 DEF vars, Attended
<1> QED
  BY <1>1, <1>2, <1>3, <1>4, <1>5, <1>6, <1>7, <1>8, <1>9, <1>10, <1>11, <1>12, <1>13,
     <1>14, <1>15, <1>16, <1>17, <1>18, <1>19, <1>20, <1>21, <1>22, <1>23, <1>24,
     <1>25, <1>26, <1>27, <1>28, <1>29, <1>30
  DEF Next, RequestStep, TaskStep, HandlerStep, Polling

-----------------------------------------------------------------------------
(* The properties of servers whose handlers never pause.                   *)

\* No handler asks for an approval or a reconciliation: no policy of the agents
\* demands one.
NoPauses == Outcomes \cap Paused = {}

\* Then nothing is ever resumed.
NeverPaused ==
  /\ \A t \in Trace : status[t] \notin Paused /\ claimed[t] = "NONE"
  /\ \A r \in Req : /\ from[r] = "NONE" /\ pc[r] \notin {"claim", "restore"}
                    /\ outcome[r] \notin Paused

\* No step pauses, so none claims or restores.
LEMMA NeverPausedStep ==
  ASSUME NoPauses, TypeOK, NeverPaused, [Next]_vars
  PROVE  NeverPaused'
<1> USE DEF NeverPaused, TypeOK, Paused, Final, RequestPC, Goto, Update,
        row, request, run, rigid, poll, server
<1>1. ASSUME NEW r \in Req, Submit(r) PROVE NeverPaused'
  BY <1>1 DEF Submit
<1>2. ASSUME NEW r \in Req, Look(r) PROVE NeverPaused'
  BY <1>2 DEF Look
<1>3. ASSUME NEW r \in Req, Abort(r) PROVE NeverPaused'
  BY <1>3 DEF Abort
<1>4. ASSUME NEW r \in Req, ReleaseFails(r) PROVE NeverPaused'
  BY <1>4 DEF ReleaseFails
<1>5. ASSUME NEW r \in Req, Claim(r) PROVE NeverPaused'
  BY <1>5 DEF Claim
<1>6. ASSUME NEW r \in Req, Check(r) PROVE NeverPaused'
  BY <1>6 DEF Check, Refused, Late, Processing
<1>7. ASSUME NEW r \in Req, Insert(r) PROVE NeverPaused'
  BY <1>7 DEF Insert
<1>8. ASSUME NEW r \in Req, Lock(r) PROVE NeverPaused'
  BY <1>8 DEF Lock, Refused, Lockable
<1>9. ASSUME NEW r \in Req, Spawn(r) PROVE NeverPaused'
  BY <1>9 DEF Spawn
<1>10. ASSUME NEW r \in Req, Restore(r) PROVE NeverPaused'
  BY <1>10 DEF Restore
<1>11. ASSUME NEW r \in Req, Start(r) PROVE NeverPaused'
  BY <1>11 DEF Start
<1>12. ASSUME NEW r \in Req, NeverStart(r) PROVE NeverPaused'
  BY <1>12 DEF NeverStart
<1>13. ASSUME NEW r \in Req, Unwind(r) PROVE NeverPaused'
  BY <1>13 DEF Unwind
<1>14. ASSUME NEW r \in Req, Log(r) PROVE NeverPaused'
  BY <1>14 DEF Log
<1>15. ASSUME NEW r \in Req, UnwindLog(r) PROVE NeverPaused'
  BY <1>15 DEF UnwindLog
<1>16. ASSUME NEW r \in Req, Release(r) PROVE NeverPaused'
  BY <1>16 DEF Release, Releasable
<1>17. ASSUME NEW r \in Req, UnwindRelease(r) PROVE NeverPaused'
  BY <1>17 DEF UnwindRelease
<1>18. ASSUME NEW r \in Req, Unregister(r) PROVE NeverPaused'
  BY <1>18 DEF Unregister
<1>19. ASSUME NEW r \in Req, SeeCancel(r) PROVE NeverPaused'
  BY <1>19 DEF SeeCancel
<1>20. ASSUME NEW r \in Req, NEW t \in Trace, Sweep(r, t) PROVE NeverPaused'
  BY <1>20 DEF Sweep, Refused
<1>21. ASSUME NEW r \in Req, NEW s \in Paused \cup Final, HandlerReturn(r, s) PROVE NeverPaused'
  BY <1>21 DEF HandlerReturn, NoPauses
<1>22. ASSUME NEW t \in Trace, CancelTask(t) PROVE NeverPaused'
  BY <1>22 DEF CancelTask, Cancelled
<1>23. ASSUME NEW t \in Trace, CancelAnyTask(t) PROVE NeverPaused'
  BY <1>23 DEF CancelAnyTask
<1>24. ASSUME NEW t \in Trace, Expire(t) PROVE NeverPaused'
  BY <1>24 DEF Expire
<1>25. ASSUME Polling PROVE NeverPaused'
  BY <1>25, PollQuiet
<1>26. ASSUME NEW w \in Worker, Shutdown(w) PROVE NeverPaused'
  BY <1>26 DEF Shutdown
<1>27. ASSUME NEW w \in Worker, ShutdownTimeout(w) PROVE NeverPaused'
  BY <1>27 DEF ShutdownTimeout
<1>28. ASSUME NEW w \in Worker, Stop(w) PROVE NeverPaused'
  BY <1>28 DEF Stop, Restart
<1>29. ASSUME NEW w \in Worker, Crash(w) PROVE NeverPaused'
  BY <1>29 DEF Crash, Restart
<1>30. CASE UNCHANGED vars
  BY <1>30 DEF vars
<1> QED
  BY <1>1, <1>2, <1>3, <1>4, <1>5, <1>6, <1>7, <1>8, <1>9, <1>10, <1>11, <1>12, <1>13,
     <1>14, <1>15, <1>16, <1>17, <1>18, <1>19, <1>20, <1>21, <1>22, <1>23, <1>24,
     <1>25, <1>26, <1>27, <1>28, <1>29, <1>30
  DEF Next, RequestStep, TaskStep, HandlerStep, Polling

\* The rows somebody has moved on, and the requests that lock a row or have it.
Past     == {t \in Trace : status[t] \in {"CANCEL_REQUESTED"} \cup Final}
Holds(r) == pc[r] \in {"spawn"} \cup TaskPC

\* A row is locked once: what was PROCESSING is so still or is past.
OneHolder ==
  /\ \A r \in Req : Holds(r) => status[trace[r]] \in {"PROCESSING", "CANCEL_REQUESTED"} \cup Final
  /\ \A r, q \in Req : Holds(r) /\ Holds(q) /\ trace[r] = trace[q] => r = q

\* What leads from one such state to another: nobody but a request that finds the
\* row INIT begins to hold it, and no held row is moved back.
LEMMA HolderKept ==
  ASSUME OneHolder, trace' = trace,
         \A q \in Req : Holds(q)' => Holds(q),
         \A t \in Trace : status[t] \in {"PROCESSING", "CANCEL_REQUESTED"} \cup Final
           => status'[t] \in {"PROCESSING", "CANCEL_REQUESTED"} \cup Final,
         TypeOK
  PROVE  OneHolder'
BY DEF OneHolder, TypeOK

\* A row is locked from INIT only, which it never is again.
LEMMA HolderStep ==
  ASSUME TypeOK, NeverPaused, OneHolder, [Next]_vars
  PROVE  OneHolder'
<1> USE HolderKept
    DEF NeverPaused, TypeOK, Holds, Paused, Final, RequestPC, TaskPC, Goto, Update, Fault,
        row, request, run, rigid, poll, server
<1>1. ASSUME NEW r \in Req, Submit(r) PROVE OneHolder'
  <2>1. \A q \in Req : Holds(q)' => Holds(q)
    BY <1>1 DEF Submit
  <2>2. \A t \in Trace : status[t] \in {"PROCESSING", "CANCEL_REQUESTED"} \cup Final
           => status'[t] \in {"PROCESSING", "CANCEL_REQUESTED"} \cup Final
    BY <1>1 DEF Submit
  <2>3. trace' = trace
    BY <1>1 DEF Submit
  <2> QED
    BY <2>1, <2>2, <2>3
<1>2. ASSUME NEW r \in Req, Look(r) PROVE OneHolder'
  <2>1. \A q \in Req : Holds(q)' => Holds(q)
    BY <1>2 DEF Look
  <2>2. \A t \in Trace : status[t] \in {"PROCESSING", "CANCEL_REQUESTED"} \cup Final
           => status'[t] \in {"PROCESSING", "CANCEL_REQUESTED"} \cup Final
    BY <1>2 DEF Look
  <2>3. trace' = trace
    BY <1>2 DEF Look
  <2> QED
    BY <2>1, <2>2, <2>3
<1>3. ASSUME NEW r \in Req, Abort(r) PROVE OneHolder'
  <2>1. \A q \in Req : Holds(q)' => Holds(q)
    BY <1>3 DEF Abort
  <2>2. \A t \in Trace : status[t] \in {"PROCESSING", "CANCEL_REQUESTED"} \cup Final
           => status'[t] \in {"PROCESSING", "CANCEL_REQUESTED"} \cup Final
    BY <1>3 DEF Abort
  <2>3. trace' = trace
    BY <1>3 DEF Abort
  <2> QED
    BY <2>1, <2>2, <2>3
<1>4. ASSUME NEW r \in Req, ReleaseFails(r) PROVE OneHolder'
  <2>1. \A q \in Req : Holds(q)' => Holds(q)
    BY <1>4 DEF ReleaseFails
  <2>2. \A t \in Trace : status[t] \in {"PROCESSING", "CANCEL_REQUESTED"} \cup Final
           => status'[t] \in {"PROCESSING", "CANCEL_REQUESTED"} \cup Final
    BY <1>4 DEF ReleaseFails
  <2>3. trace' = trace
    BY <1>4 DEF ReleaseFails
  <2> QED
    BY <2>1, <2>2, <2>3
<1>5. ASSUME NEW r \in Req, Claim(r) PROVE OneHolder'
  <2>1. \A q \in Req : Holds(q)' => Holds(q)
    BY <1>5 DEF Claim
  <2>2. \A t \in Trace : status[t] \in {"PROCESSING", "CANCEL_REQUESTED"} \cup Final
           => status'[t] \in {"PROCESSING", "CANCEL_REQUESTED"} \cup Final
    BY <1>5 DEF Claim
  <2>3. trace' = trace
    BY <1>5 DEF Claim
  <2> QED
    BY <2>1, <2>2, <2>3
<1>6. ASSUME NEW r \in Req, Check(r) PROVE OneHolder'
  <2>1. \A q \in Req : Holds(q)' => Holds(q)
    BY <1>6 DEF Check, Refused, Late, Processing
  <2>2. \A t \in Trace : status[t] \in {"PROCESSING", "CANCEL_REQUESTED"} \cup Final
           => status'[t] \in {"PROCESSING", "CANCEL_REQUESTED"} \cup Final
    BY <1>6 DEF Check, Refused, Late, Processing
  <2>3. trace' = trace
    BY <1>6 DEF Check, Refused, Late, Processing
  <2> QED
    BY <2>1, <2>2, <2>3
<1>7. ASSUME NEW r \in Req, Insert(r) PROVE OneHolder'
  <2>1. \A q \in Req : Holds(q)' => Holds(q)
    BY <1>7 DEF Insert
  <2>2. \A t \in Trace : status[t] \in {"PROCESSING", "CANCEL_REQUESTED"} \cup Final
           => status'[t] \in {"PROCESSING", "CANCEL_REQUESTED"} \cup Final
    BY <1>7 DEF Insert
  <2>3. trace' = trace
    BY <1>7 DEF Insert
  <2> QED
    BY <2>1, <2>2, <2>3
<1>8. ASSUME NEW r \in Req, Lock(r) PROVE OneHolder'
  <2>1. CASE status[trace[r]] = "INIT"
    <3>1. \A q \in Req : Holds(q)' => Holds(q) \/ q = r
      BY <1>8 DEF Lock
    <3>2. \A q \in Req : Holds(q) => trace[q] # trace[r]
      BY <2>1 DEF OneHolder
    <3>3. status' = [status EXCEPT ![trace[r]] = "PROCESSING"] /\ trace' = trace
      BY <1>8, <2>1 DEF Lock, Lockable
    <3> HIDE DEF Holds
    <3> QED
      BY <3>1, <3>2, <3>3 DEF OneHolder
  <2>2. CASE status[trace[r]] # "INIT"
    <3>1. \A q \in Req : Holds(q)' => Holds(q)
      BY <1>8, <2>2 DEF Lock, Lockable, Refused
    <3>2. status' = status /\ trace' = trace
      BY <1>8, <2>2 DEF Lock, Lockable
    <3> QED
      BY <3>1, <3>2
  <2> QED
    BY <2>1, <2>2
<1>9. ASSUME NEW r \in Req, Spawn(r) PROVE OneHolder'
  <2>1. \A q \in Req : Holds(q)' => Holds(q)
    BY <1>9 DEF Spawn
  <2>2. \A t \in Trace : status[t] \in {"PROCESSING", "CANCEL_REQUESTED"} \cup Final
           => status'[t] \in {"PROCESSING", "CANCEL_REQUESTED"} \cup Final
    BY <1>9 DEF Spawn
  <2>3. trace' = trace
    BY <1>9 DEF Spawn
  <2> QED
    BY <2>1, <2>2, <2>3
<1>10. ASSUME NEW r \in Req, Restore(r) PROVE OneHolder'
  <2>1. \A q \in Req : Holds(q)' => Holds(q)
    BY <1>10 DEF Restore
  <2>2. \A t \in Trace : status[t] \in {"PROCESSING", "CANCEL_REQUESTED"} \cup Final
           => status'[t] \in {"PROCESSING", "CANCEL_REQUESTED"} \cup Final
    BY <1>10 DEF Restore
  <2>3. trace' = trace
    BY <1>10 DEF Restore
  <2> QED
    BY <2>1, <2>2, <2>3
<1>11. ASSUME NEW r \in Req, Start(r) PROVE OneHolder'
  <2>1. \A q \in Req : Holds(q)' => Holds(q)
    BY <1>11 DEF Start
  <2>2. \A t \in Trace : status[t] \in {"PROCESSING", "CANCEL_REQUESTED"} \cup Final
           => status'[t] \in {"PROCESSING", "CANCEL_REQUESTED"} \cup Final
    BY <1>11 DEF Start
  <2>3. trace' = trace
    BY <1>11 DEF Start
  <2> QED
    BY <2>1, <2>2, <2>3
<1>12. ASSUME NEW r \in Req, NeverStart(r) PROVE OneHolder'
  <2>1. \A q \in Req : Holds(q)' => Holds(q)
    BY <1>12 DEF NeverStart
  <2>2. \A t \in Trace : status[t] \in {"PROCESSING", "CANCEL_REQUESTED"} \cup Final
           => status'[t] \in {"PROCESSING", "CANCEL_REQUESTED"} \cup Final
    BY <1>12 DEF NeverStart
  <2>3. trace' = trace
    BY <1>12 DEF NeverStart
  <2> QED
    BY <2>1, <2>2, <2>3
<1>13. ASSUME NEW r \in Req, Unwind(r) PROVE OneHolder'
  <2>1. \A q \in Req : Holds(q)' => Holds(q)
    BY <1>13 DEF Unwind
  <2>2. \A t \in Trace : status[t] \in {"PROCESSING", "CANCEL_REQUESTED"} \cup Final
           => status'[t] \in {"PROCESSING", "CANCEL_REQUESTED"} \cup Final
    BY <1>13 DEF Unwind
  <2>3. trace' = trace
    BY <1>13 DEF Unwind
  <2> QED
    BY <2>1, <2>2, <2>3
<1>14. ASSUME NEW r \in Req, Log(r) PROVE OneHolder'
  <2>1. \A q \in Req : Holds(q)' => Holds(q)
    BY <1>14 DEF Log
  <2>2. \A t \in Trace : status[t] \in {"PROCESSING", "CANCEL_REQUESTED"} \cup Final
           => status'[t] \in {"PROCESSING", "CANCEL_REQUESTED"} \cup Final
    BY <1>14 DEF Log
  <2>3. trace' = trace
    BY <1>14 DEF Log
  <2> QED
    BY <2>1, <2>2, <2>3
<1>15. ASSUME NEW r \in Req, UnwindLog(r) PROVE OneHolder'
  <2>1. \A q \in Req : Holds(q)' => Holds(q)
    BY <1>15 DEF UnwindLog
  <2>2. \A t \in Trace : status[t] \in {"PROCESSING", "CANCEL_REQUESTED"} \cup Final
           => status'[t] \in {"PROCESSING", "CANCEL_REQUESTED"} \cup Final
    BY <1>15 DEF UnwindLog
  <2>3. trace' = trace
    BY <1>15 DEF UnwindLog
  <2> QED
    BY <2>1, <2>2, <2>3
<1>16. ASSUME NEW r \in Req, Release(r) PROVE OneHolder'
  <2>1. \A q \in Req : Holds(q)' => Holds(q)
    BY <1>16 DEF Release, Releasable
  <2>2. \A t \in Trace : status[t] \in {"PROCESSING", "CANCEL_REQUESTED"} \cup Final
           => status'[t] \in {"PROCESSING", "CANCEL_REQUESTED"} \cup Final
    BY <1>16 DEF Release, Releasable
  <2>3. trace' = trace
    BY <1>16 DEF Release, Releasable
  <2> QED
    BY <2>1, <2>2, <2>3
<1>17. ASSUME NEW r \in Req, UnwindRelease(r) PROVE OneHolder'
  <2>1. \A q \in Req : Holds(q)' => Holds(q)
    BY <1>17 DEF UnwindRelease
  <2>2. \A t \in Trace : status[t] \in {"PROCESSING", "CANCEL_REQUESTED"} \cup Final
           => status'[t] \in {"PROCESSING", "CANCEL_REQUESTED"} \cup Final
    BY <1>17 DEF UnwindRelease
  <2>3. trace' = trace
    BY <1>17 DEF UnwindRelease
  <2> QED
    BY <2>1, <2>2, <2>3
<1>18. ASSUME NEW r \in Req, Unregister(r) PROVE OneHolder'
  <2>1. \A q \in Req : Holds(q)' => Holds(q)
    BY <1>18 DEF Unregister
  <2>2. \A t \in Trace : status[t] \in {"PROCESSING", "CANCEL_REQUESTED"} \cup Final
           => status'[t] \in {"PROCESSING", "CANCEL_REQUESTED"} \cup Final
    BY <1>18 DEF Unregister
  <2>3. trace' = trace
    BY <1>18 DEF Unregister
  <2> QED
    BY <2>1, <2>2, <2>3
<1>19. ASSUME NEW r \in Req, SeeCancel(r) PROVE OneHolder'
  <2>1. \A q \in Req : Holds(q)' => Holds(q)
    BY <1>19 DEF SeeCancel
  <2>2. \A t \in Trace : status[t] \in {"PROCESSING", "CANCEL_REQUESTED"} \cup Final
           => status'[t] \in {"PROCESSING", "CANCEL_REQUESTED"} \cup Final
    BY <1>19 DEF SeeCancel
  <2>3. trace' = trace
    BY <1>19 DEF SeeCancel
  <2> QED
    BY <2>1, <2>2, <2>3
<1>20. ASSUME NEW r \in Req, NEW t \in Trace, Sweep(r, t) PROVE OneHolder'
  <2>1. \A q \in Req : Holds(q)' => Holds(q)
    BY <1>20 DEF Sweep, Refused
  <2>2. \A u \in Trace : status[u] \in {"PROCESSING", "CANCEL_REQUESTED"} \cup Final
           => status'[u] \in {"PROCESSING", "CANCEL_REQUESTED"} \cup Final
    BY <1>20 DEF Sweep, Refused
  <2>3. trace' = trace
    BY <1>20 DEF Sweep, Refused
  <2> QED
    BY <2>1, <2>2, <2>3
<1>21. ASSUME NEW r \in Req, NEW s \in Paused \cup Final, HandlerReturn(r, s) PROVE OneHolder'
  <2>1. \A q \in Req : Holds(q)' => Holds(q)
    BY <1>21 DEF HandlerReturn
  <2>2. \A u \in Trace : status[u] \in {"PROCESSING", "CANCEL_REQUESTED"} \cup Final
           => status'[u] \in {"PROCESSING", "CANCEL_REQUESTED"} \cup Final
    BY <1>21 DEF HandlerReturn
  <2>3. trace' = trace
    BY <1>21 DEF HandlerReturn
  <2> QED
    BY <2>1, <2>2, <2>3
<1>22. ASSUME NEW t \in Trace, CancelTask(t) PROVE OneHolder'
  <2>1. \A q \in Req : Holds(q)' => Holds(q)
    BY <1>22 DEF CancelTask, Cancelled
  <2>2. \A u \in Trace : status[u] \in {"PROCESSING", "CANCEL_REQUESTED"} \cup Final
           => status'[u] \in {"PROCESSING", "CANCEL_REQUESTED"} \cup Final
    BY <1>22 DEF CancelTask, Cancelled
  <2>3. trace' = trace
    BY <1>22 DEF CancelTask, Cancelled
  <2> QED
    BY <2>1, <2>2, <2>3
<1>23. ASSUME NEW t \in Trace, CancelAnyTask(t) PROVE OneHolder'
  <2>1. \A q \in Req : Holds(q)' => Holds(q)
    BY <1>23 DEF CancelAnyTask
  <2>2. \A u \in Trace : status[u] \in {"PROCESSING", "CANCEL_REQUESTED"} \cup Final
           => status'[u] \in {"PROCESSING", "CANCEL_REQUESTED"} \cup Final
    BY <1>23 DEF CancelAnyTask
  <2>3. trace' = trace
    BY <1>23 DEF CancelAnyTask
  <2> QED
    BY <2>1, <2>2, <2>3
<1>24. ASSUME NEW t \in Trace, Expire(t) PROVE OneHolder'
  <2>1. \A q \in Req : Holds(q)' => Holds(q)
    BY <1>24 DEF Expire
  <2>2. \A u \in Trace : status[u] \in {"PROCESSING", "CANCEL_REQUESTED"} \cup Final
           => status'[u] \in {"PROCESSING", "CANCEL_REQUESTED"} \cup Final
    BY <1>24 DEF Expire
  <2>3. trace' = trace
    BY <1>24 DEF Expire
  <2> QED
    BY <2>1, <2>2, <2>3
<1>25. ASSUME Polling PROVE OneHolder'
  BY <1>25, PollQuiet
<1>26. ASSUME NEW w \in Worker, Shutdown(w) PROVE OneHolder'
  <2>1. \A q \in Req : Holds(q)' => Holds(q)
    BY <1>26 DEF Shutdown
  <2>2. \A t \in Trace : status[t] \in {"PROCESSING", "CANCEL_REQUESTED"} \cup Final
           => status'[t] \in {"PROCESSING", "CANCEL_REQUESTED"} \cup Final
    BY <1>26 DEF Shutdown
  <2>3. trace' = trace
    BY <1>26 DEF Shutdown
  <2> QED
    BY <2>1, <2>2, <2>3
<1>27. ASSUME NEW w \in Worker, ShutdownTimeout(w) PROVE OneHolder'
  <2>1. \A q \in Req : Holds(q)' => Holds(q)
    BY <1>27 DEF ShutdownTimeout
  <2>2. \A t \in Trace : status[t] \in {"PROCESSING", "CANCEL_REQUESTED"} \cup Final
           => status'[t] \in {"PROCESSING", "CANCEL_REQUESTED"} \cup Final
    BY <1>27 DEF ShutdownTimeout
  <2>3. trace' = trace
    BY <1>27 DEF ShutdownTimeout
  <2> QED
    BY <2>1, <2>2, <2>3
<1>28. ASSUME NEW w \in Worker, Stop(w) PROVE OneHolder'
  <2>1. \A q \in Req : Holds(q)' => Holds(q)
    BY <1>28 DEF Stop, Restart
  <2>2. \A t \in Trace : status[t] \in {"PROCESSING", "CANCEL_REQUESTED"} \cup Final
           => status'[t] \in {"PROCESSING", "CANCEL_REQUESTED"} \cup Final
    BY <1>28 DEF Stop, Restart
  <2>3. trace' = trace
    BY <1>28 DEF Stop, Restart
  <2> QED
    BY <2>1, <2>2, <2>3
<1>29. ASSUME NEW w \in Worker, Crash(w) PROVE OneHolder'
  <2>1. \A q \in Req : Holds(q)' => Holds(q)
    BY <1>29 DEF Crash, Restart
  <2>2. \A t \in Trace : status[t] \in {"PROCESSING", "CANCEL_REQUESTED"} \cup Final
           => status'[t] \in {"PROCESSING", "CANCEL_REQUESTED"} \cup Final
    BY <1>29 DEF Crash, Restart
  <2>3. trace' = trace
    BY <1>29 DEF Crash, Restart
  <2> QED
    BY <2>1, <2>2, <2>3
<1>30. CASE UNCHANGED vars
  BY <1>30 DEF vars
<1> QED
  BY <1>1, <1>2, <1>3, <1>4, <1>5, <1>6, <1>7, <1>8, <1>9, <1>10, <1>11, <1>12, <1>13,
     <1>14, <1>15, <1>16, <1>17, <1>18, <1>19, <1>20, <1>21, <1>22, <1>23, <1>24,
     <1>25, <1>26, <1>27, <1>28, <1>29, <1>30
  DEF Next, RequestStep, TaskStep, HandlerStep, Polling

\* A task that is not over is in the registry of its worker, and what is registered
\* under a trace is of that trace.
Found ==
  /\ \A r \in Req : pc[r] \in TaskPC => registry[host[r]][trace[r]] = r
  /\ \A w \in Worker, t \in Trace : registry[w][t] # None => trace[registry[w][t]] = t

\* Only the holder of a row writes its place in the registry.
LEMMA FoundStep ==
  ASSUME TypeOK, OneHolder, Found, [Next]_vars
  PROVE  Found'
<1> USE ConstantsAssumption
    DEF ConstantsAssumption, Found, TypeOK, RequestPC, TaskPC, Goto, Fault,
        row, request, run, rigid, poll, server
<1>1. ASSUME NEW r \in Req, Submit(r) PROVE Found'
  BY <1>1 DEF Submit
<1>2. ASSUME NEW r \in Req, Look(r) PROVE Found'
  BY <1>2 DEF Look
<1>3. ASSUME NEW r \in Req, Abort(r) PROVE Found'
  BY <1>3 DEF Abort
<1>4. ASSUME NEW r \in Req, ReleaseFails(r) PROVE Found'
  BY <1>4 DEF ReleaseFails
<1>5. ASSUME NEW r \in Req, Claim(r) PROVE Found'
  BY <1>5 DEF Claim
<1>6. ASSUME NEW r \in Req, Check(r) PROVE Found'
  BY <1>6 DEF Check, Refused, Late, Processing
<1>7. ASSUME NEW r \in Req, Insert(r) PROVE Found'
  BY <1>7 DEF Insert
<1>8. ASSUME NEW r \in Req, Lock(r) PROVE Found'
  BY <1>8 DEF Lock, Refused, Lockable
<1>9. ASSUME NEW r \in Req, Spawn(r) PROVE Found'
  <2>1. Holds(r) /\ \A q \in Req : pc'[q] \in TaskPC => Holds(q) /\ TRUE
    BY <1>9 DEF Spawn, Holds
  <2>2. \A q \in Req \ {r} : Holds(q) => trace[q] # trace[r]
    BY <2>1 DEF OneHolder
  <2>3. /\ registry' = [registry EXCEPT ![host[r]][trace[r]] = r] /\ UNCHANGED <<trace, host>>
        /\ \A q \in Req \ {r} : pc'[q] = pc[q]
    BY <1>9 DEF Spawn
  <2>4. \A q \in Req \ {r} : pc'[q] \in TaskPC => registry'[host[q]][trace[q]] = q
    BY <2>1, <2>2, <2>3
  <2>5. \A w \in Worker, t \in Trace : registry'[w][t] # None => trace[registry'[w][t]] = t
    BY <2>3
  <2> QED
    BY <2>1, <2>3, <2>4, <2>5
<1>10. ASSUME NEW r \in Req, Restore(r) PROVE Found'
  BY <1>10 DEF Restore
<1>11. ASSUME NEW r \in Req, Start(r) PROVE Found'
  BY <1>11 DEF Start
<1>12. ASSUME NEW r \in Req, NeverStart(r) PROVE Found'
  BY <1>12 DEF NeverStart
<1>13. ASSUME NEW r \in Req, Unwind(r) PROVE Found'
  BY <1>13 DEF Unwind
<1>14. ASSUME NEW r \in Req, Log(r) PROVE Found'
  BY <1>14 DEF Log
<1>15. ASSUME NEW r \in Req, UnwindLog(r) PROVE Found'
  BY <1>15 DEF UnwindLog
<1>16. ASSUME NEW r \in Req, Release(r) PROVE Found'
  BY <1>16 DEF Release, Releasable
<1>17. ASSUME NEW r \in Req, UnwindRelease(r) PROVE Found'
  BY <1>17 DEF UnwindRelease
<1>18. ASSUME NEW r \in Req, Unregister(r) PROVE Found'
  <2>1. Holds(r) /\ \A q \in Req : pc'[q] \in TaskPC => Holds(q) /\ q # r
    BY <1>18 DEF Unregister, Holds
  <2>2. \A q \in Req \ {r} : Holds(q) => trace[q] # trace[r]
    BY <2>1 DEF OneHolder
  <2>3. /\ registry' = [registry EXCEPT ![host[r]][trace[r]] = None] /\ UNCHANGED <<trace, host>>
        /\ \A q \in Req \ {r} : pc'[q] = pc[q]
    BY <1>18 DEF Unregister
  <2>4. \A q \in Req \ {r} : pc'[q] \in TaskPC => registry'[host[q]][trace[q]] = q
    BY <2>1, <2>2, <2>3
  <2>5. \A w \in Worker, t \in Trace : registry'[w][t] # None => trace[registry'[w][t]] = t
    BY <2>3
  <2> QED
    BY <2>1, <2>3, <2>4, <2>5
<1>19. ASSUME NEW r \in Req, SeeCancel(r) PROVE Found'
  BY <1>19 DEF SeeCancel
<1>20. ASSUME NEW r \in Req, NEW t \in Trace, Sweep(r, t) PROVE Found'
  BY <1>20 DEF Sweep, Refused
<1>21. ASSUME NEW r \in Req, NEW s \in Paused \cup Final, HandlerReturn(r, s) PROVE Found'
  BY <1>21 DEF HandlerReturn
<1>22. ASSUME NEW t \in Trace, CancelTask(t) PROVE Found'
  BY <1>22 DEF CancelTask, Cancelled
<1>23. ASSUME NEW t \in Trace, CancelAnyTask(t) PROVE Found'
  BY <1>23 DEF CancelAnyTask
<1>24. ASSUME NEW t \in Trace, Expire(t) PROVE Found'
  BY <1>24 DEF Expire
<1>25. ASSUME Polling PROVE Found'
  BY <1>25, PollQuiet
<1>26. ASSUME NEW w \in Worker, Shutdown(w) PROVE Found'
  BY <1>26 DEF Shutdown
<1>27. ASSUME NEW w \in Worker, ShutdownTimeout(w) PROVE Found'
  BY <1>27 DEF ShutdownTimeout
<1>28. ASSUME NEW w \in Worker, Stop(w) PROVE Found'
  BY <1>28 DEF Stop, Restart
<1>29. ASSUME NEW w \in Worker, Crash(w) PROVE Found'
  BY <1>29 DEF Crash, Restart
<1>30. CASE UNCHANGED vars
  BY <1>30 DEF vars
<1> QED
  BY <1>1, <1>2, <1>3, <1>4, <1>5, <1>6, <1>7, <1>8, <1>9, <1>10, <1>11, <1>12, <1>13,
     <1>14, <1>15, <1>16, <1>17, <1>18, <1>19, <1>20, <1>21, <1>22, <1>23, <1>24,
     <1>25, <1>26, <1>27, <1>28, <1>29, <1>30
  DEF Next, RequestStep, TaskStep, HandlerStep, Polling

\* What a sweep will fail has used up its time, and so has a held row that is FAILED.
InTime ==
  /\ \A r \in Req : \A t \in stale[r] : expired[t]
  /\ \A r \in Req : Holds(r) /\ status[trace[r]] = "FAILED" =>
       expired[trace[r]] \/ pc[r] = "unregister"

\* Nothing takes the time back that a row has used, for nothing is claimed; only a
\* sweep fails a row that is held.
LEMMA InTimeStep ==
  ASSUME TypeOK, NeverPaused, OneHolder, InTime, [Next]_vars
  PROVE  InTime'
<1> USE DEF InTime, NeverPaused, TypeOK, Holds, Paused, Final, RequestPC, TaskPC, Goto, Update,
        Fault, row, request, run, rigid, poll, server
<1>1. ASSUME NEW r \in Req, Submit(r) PROVE InTime'
  BY <1>1 DEF Submit
<1>2. ASSUME NEW r \in Req, Look(r) PROVE InTime'
  BY <1>2 DEF Look
<1>3. ASSUME NEW r \in Req, Abort(r) PROVE InTime'
  BY <1>3 DEF Abort
<1>4. ASSUME NEW r \in Req, ReleaseFails(r) PROVE InTime'
  BY <1>4 DEF ReleaseFails
<1>5. ASSUME NEW r \in Req, Claim(r) PROVE InTime'
  BY <1>5 DEF Claim
<1>6. ASSUME NEW r \in Req, Check(r) PROVE InTime'
  BY <1>6 DEF Check, Refused, Late, Processing
<1>7. ASSUME NEW r \in Req, Insert(r) PROVE InTime'
  BY <1>7 DEF Insert
<1>8. ASSUME NEW r \in Req, Lock(r) PROVE InTime'
  <2>1. CASE status[trace[r]] = "INIT"
    BY <1>8, <2>1 DEF Lock, Lockable
  <2>2. CASE status[trace[r]] # "INIT"
    BY <1>8, <2>2 DEF Lock, Lockable, Refused
  <2> QED
    BY <2>1, <2>2
<1>9. ASSUME NEW r \in Req, Spawn(r) PROVE InTime'
  BY <1>9 DEF Spawn
<1>10. ASSUME NEW r \in Req, Restore(r) PROVE InTime'
  BY <1>10 DEF Restore
<1>11. ASSUME NEW r \in Req, Start(r) PROVE InTime'
  BY <1>11 DEF Start
<1>12. ASSUME NEW r \in Req, NeverStart(r) PROVE InTime'
  BY <1>12 DEF NeverStart
<1>13. ASSUME NEW r \in Req, Unwind(r) PROVE InTime'
  BY <1>13 DEF Unwind
<1>14. ASSUME NEW r \in Req, Log(r) PROVE InTime'
  BY <1>14 DEF Log
<1>15. ASSUME NEW r \in Req, UnwindLog(r) PROVE InTime'
  BY <1>15 DEF UnwindLog
<1>16. ASSUME NEW r \in Req, Release(r) PROVE InTime'
  <2>1. \A q \in Req \ {r} : Holds(q) => trace[q] # trace[r]
    BY <1>16 DEF OneHolder, Release
  <2>2. /\ \A t \in Trace \ {trace[r]} : status'[t] = status[t]
        /\ pc'[r] = "unregister" /\ \A q \in Req \ {r} : pc'[q] = pc[q]
        /\ UNCHANGED <<expired, stale, trace>>
    BY <1>16 DEF Release
  <2>3. ASSUME NEW q \in Req \ {r}, Holds(q)', status'[trace'[q]] = "FAILED"
        PROVE  expired'[trace'[q]] \/ pc'[q] = "unregister"
    <3>1. Holds(q) /\ trace'[q] = trace[q]
      BY <2>2, <2>3
    <3>2. status[trace[q]] = "FAILED"
      BY <2>1, <2>2, <2>3, <3>1
    <3> QED
      BY <2>2, <3>1, <3>2
  <2>4. /\ \A q \in Req : \A t \in stale'[q] : expired'[t]
        /\ UNCHANGED <<trace, expired>> /\ pc'[r] = "unregister"
        /\ \A q \in Req \ {r} : pc'[q] = pc[q]
    BY <2>2
  <2>5. \A q \in Req : Holds(q)' /\ status'[trace'[q]] = "FAILED"
          => expired'[trace'[q]] \/ pc'[q] = "unregister"
    <3> HIDE DEF Holds
    <3> QED
      BY <2>3, <2>4
  <2> HIDE DEF Holds
  <2> QED
    BY <2>4, <2>5
<1>17. ASSUME NEW r \in Req, UnwindRelease(r) PROVE InTime'
  BY <1>17 DEF UnwindRelease
<1>18. ASSUME NEW r \in Req, Unregister(r) PROVE InTime'
  BY <1>18 DEF Unregister
<1>19. ASSUME NEW r \in Req, SeeCancel(r) PROVE InTime'
  BY <1>19 DEF SeeCancel
<1>20. ASSUME NEW r \in Req, NEW t \in Trace, Sweep(r, t) PROVE InTime'
  BY <1>20 DEF Sweep, Refused
<1>21. ASSUME NEW r \in Req, NEW s \in Paused \cup Final, HandlerReturn(r, s) PROVE InTime'
  BY <1>21 DEF HandlerReturn
<1>22. ASSUME NEW t \in Trace, CancelTask(t) PROVE InTime'
  BY <1>22 DEF CancelTask, Cancelled
<1>23. ASSUME NEW t \in Trace, CancelAnyTask(t) PROVE InTime'
  BY <1>23 DEF CancelAnyTask
<1>24. ASSUME NEW t \in Trace, Expire(t) PROVE InTime'
  BY <1>24 DEF Expire
<1>25. ASSUME Polling PROVE InTime'
  BY <1>25, PollQuiet
<1>26. ASSUME NEW w \in Worker, Shutdown(w) PROVE InTime'
  BY <1>26 DEF Shutdown
<1>27. ASSUME NEW w \in Worker, ShutdownTimeout(w) PROVE InTime'
  BY <1>27 DEF ShutdownTimeout
<1>28. ASSUME NEW w \in Worker, Stop(w) PROVE InTime'
  BY <1>28 DEF Stop, Restart
<1>29. ASSUME NEW w \in Worker, Crash(w) PROVE InTime'
  BY <1>29 DEF Crash, Restart
<1>30. CASE UNCHANGED vars
  BY <1>30 DEF vars
<1> QED
  BY <1>1, <1>2, <1>3, <1>4, <1>5, <1>6, <1>7, <1>8, <1>9, <1>10, <1>11, <1>12, <1>13,
     <1>14, <1>15, <1>16, <1>17, <1>18, <1>19, <1>20, <1>21, <1>22, <1>23, <1>24,
     <1>25, <1>26, <1>27, <1>28, <1>29, <1>30
  DEF Next, RequestStep, TaskStep, HandlerStep, Polling

\* While nothing fails a task is cancelled only for a row that has been moved on:
\* by the poller, which has read that it was.
Moved ==
  faults = 0 =>
    /\ \A w \in Worker :
         /\ mode[w] = "up" /\ rows[w] \subseteq Past
         /\ phase[w] \in {"wait", "forced"} => target[w] \in Req /\ trace[target[w]] \in Past
    /\ \A r \in Req : cancelled[r] => trace[r] \in Past

\* A row that is past stays so.
LEMMA PastStays ==
  ASSUME TypeOK, NeverPaused, [Next]_vars
  PROVE  Past \subseteq Past'
<1> USE DEF Past, NeverPaused, TypeOK, Paused, Final, Update, row, request, run, rigid, poll, server
<1>1. ASSUME NEW r \in Req, Submit(r) PROVE Past \subseteq Past'
  BY <1>1 DEF Submit
<1>2. ASSUME NEW r \in Req, Look(r) PROVE Past \subseteq Past'
  BY <1>2 DEF Look
<1>3. ASSUME NEW r \in Req, Abort(r) PROVE Past \subseteq Past'
  BY <1>3 DEF Abort
<1>4. ASSUME NEW r \in Req, ReleaseFails(r) PROVE Past \subseteq Past'
  BY <1>4 DEF ReleaseFails
<1>5. ASSUME NEW r \in Req, Claim(r) PROVE Past \subseteq Past'
  BY <1>5 DEF Claim
<1>6. ASSUME NEW r \in Req, Check(r) PROVE Past \subseteq Past'
  BY <1>6 DEF Check, Refused, Late, Processing
<1>7. ASSUME NEW r \in Req, Insert(r) PROVE Past \subseteq Past'
  BY <1>7 DEF Insert
<1>8. ASSUME NEW r \in Req, Lock(r) PROVE Past \subseteq Past'
  BY <1>8 DEF Lock, Refused, Lockable
<1>9. ASSUME NEW r \in Req, Spawn(r) PROVE Past \subseteq Past'
  BY <1>9 DEF Spawn
<1>10. ASSUME NEW r \in Req, Restore(r) PROVE Past \subseteq Past'
  BY <1>10 DEF Restore
<1>11. ASSUME NEW r \in Req, Start(r) PROVE Past \subseteq Past'
  BY <1>11 DEF Start
<1>12. ASSUME NEW r \in Req, NeverStart(r) PROVE Past \subseteq Past'
  BY <1>12 DEF NeverStart
<1>13. ASSUME NEW r \in Req, Unwind(r) PROVE Past \subseteq Past'
  BY <1>13 DEF Unwind
<1>14. ASSUME NEW r \in Req, Log(r) PROVE Past \subseteq Past'
  BY <1>14 DEF Log
<1>15. ASSUME NEW r \in Req, UnwindLog(r) PROVE Past \subseteq Past'
  BY <1>15 DEF UnwindLog
<1>16. ASSUME NEW r \in Req, Release(r) PROVE Past \subseteq Past'
  BY <1>16 DEF Release, Releasable
<1>17. ASSUME NEW r \in Req, UnwindRelease(r) PROVE Past \subseteq Past'
  BY <1>17 DEF UnwindRelease
<1>18. ASSUME NEW r \in Req, Unregister(r) PROVE Past \subseteq Past'
  BY <1>18 DEF Unregister
<1>19. ASSUME NEW r \in Req, SeeCancel(r) PROVE Past \subseteq Past'
  BY <1>19 DEF SeeCancel
<1>20. ASSUME NEW r \in Req, NEW t \in Trace, Sweep(r, t) PROVE Past \subseteq Past'
  BY <1>20 DEF Sweep, Refused
<1>21. ASSUME NEW r \in Req, NEW s \in Paused \cup Final, HandlerReturn(r, s) PROVE Past \subseteq Past'
  BY <1>21 DEF HandlerReturn
<1>22. ASSUME NEW t \in Trace, CancelTask(t) PROVE Past \subseteq Past'
  BY <1>22 DEF CancelTask, Cancelled
<1>23. ASSUME NEW t \in Trace, CancelAnyTask(t) PROVE Past \subseteq Past'
  BY <1>23 DEF CancelAnyTask
<1>24. ASSUME NEW t \in Trace, Expire(t) PROVE Past \subseteq Past'
  BY <1>24 DEF Expire
<1>25. ASSUME Polling PROVE Past \subseteq Past'
  BY <1>25, PollQuiet
<1>26. ASSUME NEW w \in Worker, Shutdown(w) PROVE Past \subseteq Past'
  BY <1>26 DEF Shutdown
<1>27. ASSUME NEW w \in Worker, ShutdownTimeout(w) PROVE Past \subseteq Past'
  BY <1>27 DEF ShutdownTimeout
<1>28. ASSUME NEW w \in Worker, Stop(w) PROVE Past \subseteq Past'
  BY <1>28 DEF Stop, Restart
<1>29. ASSUME NEW w \in Worker, Crash(w) PROVE Past \subseteq Past'
  BY <1>29 DEF Crash, Restart
<1>30. CASE UNCHANGED vars
  BY <1>30 DEF vars
<1> QED
  BY <1>1, <1>2, <1>3, <1>4, <1>5, <1>6, <1>7, <1>8, <1>9, <1>10, <1>11, <1>12, <1>13,
     <1>14, <1>15, <1>16, <1>17, <1>18, <1>19, <1>20, <1>21, <1>22, <1>23, <1>24,
     <1>25, <1>26, <1>27, <1>28, <1>29, <1>30
  DEF Next, RequestStep, TaskStep, HandlerStep, Polling

\* The poller cancels what it read as CANCEL_REQUESTED and what it has found in the
\* registry; nothing else does while nothing fails.
LEMMA MovedStep ==
  ASSUME TypeOK, NeverPaused, Found, Moved, [Next]_vars
  PROVE  Moved'
<1>a. Past \subseteq Past'
  BY PastStays
<1>b. trace' = trace
  BY DEF Next, RequestStep, TaskStep, HandlerStep, PollStep, vars, rigid, Submit, Look, Abort,
         ReleaseFails, Claim, Check, Insert, Lock, Spawn, Restore, Start, NeverStart, Unwind,
         Log, UnwindLog, Release, UnwindRelease, Unregister, SeeCancel, Sweep, HandlerReturn,
         CancelTask, CancelAnyTask, Expire, PollFetch, PollSnapshot, PollNext, PollSleep,
         PollForce, PollCancel, PollSkip, Shutdown, ShutdownTimeout, Stop, Crash, Restart
\* A step that cancels nothing and leaves poll loops and servers alone.
<1>c. ASSUME UNCHANGED <<poll, server, faults>>, \A r \in Req : cancelled'[r] => cancelled[r]
      PROVE  Moved'
  BY <1>a, <1>b, <1>c DEF Moved, poll, server
\* A fault leaves nothing to say.
<1>d. ASSUME Fault PROVE Moved'
  BY <1>d, ConstantsAssumption DEF Moved, Fault, TypeOK, ConstantsAssumption
<1>e. ASSUME faults # 0, faults' = faults PROVE Moved'
  BY <1>e DEF Moved
<1> USE DEF TypeOK, Goto, row, request, run, rigid, poll, server
<1>1. ASSUME NEW r \in Req, Submit(r) PROVE Moved'
  BY <1>1, <1>c DEF Submit
<1>2. ASSUME NEW r \in Req, Look(r) PROVE Moved'
  BY <1>2, <1>c DEF Look
<1>3. ASSUME NEW r \in Req, Abort(r) PROVE Moved'
  BY <1>3, <1>d DEF Abort
<1>4. ASSUME NEW r \in Req, ReleaseFails(r) PROVE Moved'
  BY <1>4, <1>d DEF ReleaseFails
<1>5. ASSUME NEW r \in Req, Claim(r) PROVE Moved'
  BY <1>5, <1>c DEF Claim
<1>6. ASSUME NEW r \in Req, Check(r) PROVE Moved'
  BY <1>6, <1>c DEF Check, Refused, Late, Processing
<1>7. ASSUME NEW r \in Req, Insert(r) PROVE Moved'
  BY <1>7, <1>c DEF Insert
<1>8. ASSUME NEW r \in Req, Lock(r) PROVE Moved'
  BY <1>8, <1>c DEF Lock, Refused, Lockable
<1>9. ASSUME NEW r \in Req, Spawn(r) PROVE Moved'
  BY <1>9, <1>c DEF Spawn
<1>10. ASSUME NEW r \in Req, Restore(r) PROVE Moved'
  BY <1>10, <1>c DEF Restore
<1>11. ASSUME NEW r \in Req, Start(r) PROVE Moved'
  BY <1>11, <1>c DEF Start
<1>12. ASSUME NEW r \in Req, NeverStart(r) PROVE Moved'
  BY <1>12, <1>c DEF NeverStart
<1>13. ASSUME NEW r \in Req, Unwind(r) PROVE Moved'
  BY <1>13, <1>c DEF Unwind
<1>14. ASSUME NEW r \in Req, Log(r) PROVE Moved'
  BY <1>14, <1>c DEF Log
<1>15. ASSUME NEW r \in Req, UnwindLog(r) PROVE Moved'
  BY <1>15, <1>c DEF UnwindLog
<1>16. ASSUME NEW r \in Req, Release(r) PROVE Moved'
  BY <1>16, <1>c DEF Release, Releasable
<1>17. ASSUME NEW r \in Req, UnwindRelease(r) PROVE Moved'
  BY <1>17, <1>c DEF UnwindRelease
<1>18. ASSUME NEW r \in Req, Unregister(r) PROVE Moved'
  BY <1>18, <1>c DEF Unregister
<1>19. ASSUME NEW r \in Req, SeeCancel(r) PROVE Moved'
  BY <1>19, <1>c DEF SeeCancel
<1>20. ASSUME NEW r \in Req, NEW t \in Trace, Sweep(r, t) PROVE Moved'
  BY <1>20, <1>c DEF Sweep, Refused
<1>21. ASSUME NEW r \in Req, NEW s \in Paused \cup Final, HandlerReturn(r, s) PROVE Moved'
  BY <1>21, <1>c DEF HandlerReturn
<1>22. ASSUME NEW t \in Trace, CancelTask(t) PROVE Moved'
  BY <1>22, <1>c DEF CancelTask, Cancelled
<1>23. ASSUME NEW t \in Trace, CancelAnyTask(t) PROVE Moved'
  BY <1>23, <1>c DEF CancelAnyTask
<1>24. ASSUME NEW t \in Trace, Expire(t) PROVE Moved'
  BY <1>24, <1>c DEF Expire
<1>25. ASSUME NEW w \in Worker, PollFetch(w) PROVE Moved'
  <2>1. Signalled \subseteq Past
    BY DEF Signalled, Past
  <2>2. \A v \in Worker : /\ rows'[v] \in {rows[v], Signalled}
                          /\ phase'[v] \in {"wait", "forced"} => phase'[v] = phase[v]
    BY <1>25 DEF PollFetch
  <2>3. UNCHANGED <<target, mode, cancelled, faults>>
    BY <1>25 DEF PollFetch
  <2> QED
    BY <1>a, <1>b, <2>1, <2>2, <2>3 DEF Moved
<1>26. ASSUME NEW w \in Worker, PollSnapshot(w) PROVE Moved'
  BY <1>26, <1>a, <1>b DEF Moved, Found, Past, Cancellable, Signalled, PollSnapshot
<1>27. ASSUME NEW w \in Worker, PollNext(w) PROVE Moved'
  BY <1>27, <1>a, <1>b DEF Moved, Found, Past, Cancellable, Signalled, PollNext
<1>28. ASSUME NEW w \in Worker, PollSleep(w) PROVE Moved'
  BY <1>28, <1>a, <1>b DEF Moved, Found, Past, Cancellable, Signalled, PollSleep
<1>29. ASSUME NEW w \in Worker, PollForce(w) PROVE Moved'
  BY <1>29, <1>a, <1>b DEF Moved, Found, Past, Cancellable, Signalled, PollForce
<1>30. ASSUME NEW w \in Worker, NEW t \in Trace, PollCancel(w, t) PROVE Moved'
  <2> DEFINE r == registry[w][t]
  <2>1. r \in Req /\ trace[r] = t /\ t \in rows[w]
    BY <1>30 DEF PollCancel, Cancellable, Found
  <2>2. /\ \A v \in Worker : rows'[v] \subseteq rows[v]
        /\ \A v \in Worker \ {w} : target'[v] = target[v] /\ phase'[v] = phase[v]
        /\ target'[w] = r /\ UNCHANGED <<mode, faults>>
        /\ \A q \in Req : cancelled'[q] => cancelled[q] \/ q = r
    BY <1>30, <2>1 DEF PollCancel
  <2> HIDE DEF r
  <2> QED
    BY <1>a, <1>b, <2>1, <2>2 DEF Moved
<1>31. ASSUME NEW w \in Worker, NEW t \in Trace, PollSkip(w, t) PROVE Moved'
  BY <1>31, <1>a, <1>b DEF Moved, Found, Past, Cancellable, Signalled, PollSkip
<1>32. ASSUME NEW w \in Worker, Shutdown(w) PROVE Moved'
  BY <1>32, <1>d DEF Shutdown
<1>33. ASSUME NEW w \in Worker, ShutdownTimeout(w) PROVE Moved'
  <2>1. mode[w] # "up" /\ faults' = faults
    BY <1>33 DEF ShutdownTimeout
  <2> QED
    BY <1>e, <2>1 DEF Moved
<1>34. ASSUME NEW w \in Worker, Stop(w) PROVE Moved'
  <2>1. mode[w] # "up" /\ faults' = faults
    BY <1>34 DEF Stop
  <2> QED
    BY <1>e, <2>1 DEF Moved
<1>35. ASSUME NEW w \in Worker, Crash(w) PROVE Moved'
  BY <1>35, <1>d DEF Crash
<1>36. CASE UNCHANGED vars
  BY <1>36, <1>c DEF vars
<1> QED
  BY <1>1, <1>2, <1>3, <1>4, <1>5, <1>6, <1>7, <1>8, <1>9, <1>10, <1>11, <1>12, <1>13,
     <1>14, <1>15, <1>16, <1>17, <1>18, <1>19, <1>20, <1>21, <1>22, <1>23, <1>24,
     <1>25, <1>26, <1>27, <1>28, <1>29, <1>30, <1>31, <1>32, <1>33, <1>34, <1>35,
     <1>36
  DEF Next, RequestStep, TaskStep, HandlerStep, PollStep

\* An owner that goes has moved its row out of PROCESSING, and a row becomes
\* PROCESSING in the hands of an owner.
OwnerHandover ==
  /\ trace' = trace
  /\ \A r \in Req : Owner(r) => Owner(r)' \/ status'[trace[r]] # "PROCESSING"
  /\ \A t \in Trace : status'[t] = "PROCESSING" /\ status[t] # "PROCESSING" =>
       \E r \in Req : trace[r] = t /\ Owner(r)'

\* Such a step keeps every PROCESSING row owned.
LEMMA OwnerHandoverKeeps ==
  ASSUME TypeOK, ProcessingHasOwner, OwnerHandover, UNCHANGED faults
  PROVE  ProcessingHasOwner'
<1>1. ASSUME faults = 0, NEW t \in Trace, status'[t] = "PROCESSING"
      PROVE  \E r \in Req : trace[r] = t /\ Owner(r)'
  <2>1. CASE status[t] # "PROCESSING"
    BY <1>1, <2>1 DEF OwnerHandover
  <2>2. CASE status[t] = "PROCESSING"
    <3>1. PICK r \in Req : trace[r] = t /\ Owner(r)
      BY <1>1, <2>2 DEF ProcessingHasOwner
    <3>2. Owner(r)'
      BY <1>1, <3>1 DEF OwnerHandover
    <3> QED
      BY <3>1, <3>2
  <2> QED
    BY <2>1, <2>2
<1>2. trace' = trace
  BY DEF OwnerHandover
<1> QED
  BY <1>1, <1>2 DEF ProcessingHasOwner

\* Without faults and pauses a task skips its release only when it was cancelled,
\* and then its row is not PROCESSING any more.
LEMMA OwnerStep ==
  ASSUME TypeOK, NeverPaused, Moved, ProcessingHasOwner, [Next]_vars
  PROVE  ProcessingHasOwner'
<1>a. ASSUME faults' # 0 PROVE ProcessingHasOwner'
  BY <1>a DEF ProcessingHasOwner
<1>b. Fault => faults' # 0
  BY ConstantsAssumption DEF Fault, TypeOK, ConstantsAssumption
<1>c. faults = 0 => \A r \in Req : cancelled[r] => status[trace[r]] # "PROCESSING"
  BY DEF Moved, Past, Final
<1>d. faults = 0 => \A w \in Worker : mode[w] = "up"
  BY DEF Moved
<1> USE OwnerHandoverKeeps
    DEF NeverPaused, Owner, TypeOK, Paused, Final, RequestPC, Goto, Update,
        row, request, run, rigid, poll, server
<1>1. ASSUME NEW r \in Req, Submit(r) PROVE ProcessingHasOwner'
  <2>1. OwnerHandover /\ UNCHANGED faults
    BY <1>1 DEF OwnerHandover, Submit
  <2> QED
    BY <2>1
<1>2. ASSUME NEW r \in Req, Look(r) PROVE ProcessingHasOwner'
  <2>1. OwnerHandover /\ UNCHANGED faults
    BY <1>2 DEF OwnerHandover, Look
  <2> QED
    BY <2>1
<1>3. ASSUME NEW r \in Req, Abort(r) PROVE ProcessingHasOwner'
  BY <1>3, <1>a, <1>b DEF Abort
<1>4. ASSUME NEW r \in Req, ReleaseFails(r) PROVE ProcessingHasOwner'
  BY <1>4, <1>a, <1>b DEF ReleaseFails
<1>5. ASSUME NEW r \in Req, Claim(r) PROVE ProcessingHasOwner'
  <2>1. OwnerHandover /\ UNCHANGED faults
    BY <1>5 DEF OwnerHandover, Claim
  <2> QED
    BY <2>1
<1>6. ASSUME NEW r \in Req, Check(r) PROVE ProcessingHasOwner'
  <2>1. OwnerHandover /\ UNCHANGED faults
    BY <1>6 DEF OwnerHandover, Check, Refused, Late, Processing
  <2> QED
    BY <2>1
<1>7. ASSUME NEW r \in Req, Insert(r) PROVE ProcessingHasOwner'
  <2>1. OwnerHandover /\ UNCHANGED faults
    BY <1>7 DEF OwnerHandover, Insert
  <2> QED
    BY <2>1
<1>8. ASSUME NEW r \in Req, Lock(r) PROVE ProcessingHasOwner'
  <2>1. trace' = trace /\ faults' = faults /\ \A q \in Req \ {r} : pc'[q] = pc[q]
    BY <1>8 DEF Lock
  <2>2. CASE status[trace[r]] = "INIT"
    <3>1. pc'[r] = "spawn" /\ \A t \in Trace \ {trace[r]} : status'[t] = status[t]
      BY <1>8, <2>2 DEF Lock, Lockable
    <3>2. OwnerHandover
      BY <2>1, <3>1 DEF OwnerHandover
    <3> QED
      BY <2>1, <3>2
  <2>3. CASE status[trace[r]] # "INIT"
    <3>1. pc[r] = "lock" /\ status' = status
      BY <1>8, <2>3 DEF Lock, Lockable
    <3>2. OwnerHandover
      BY <2>1, <3>1 DEF OwnerHandover
    <3> QED
      BY <2>1, <3>2
  <2> QED
    BY <2>2, <2>3
<1>9. ASSUME NEW r \in Req, Spawn(r) PROVE ProcessingHasOwner'
  <2>1. OwnerHandover /\ UNCHANGED faults
    BY <1>9 DEF OwnerHandover, Spawn
  <2> QED
    BY <2>1
<1>10. ASSUME NEW r \in Req, Restore(r) PROVE ProcessingHasOwner'
  <2>1. OwnerHandover /\ UNCHANGED faults
    BY <1>10 DEF OwnerHandover, Restore
  <2> QED
    BY <2>1
<1>11. ASSUME NEW r \in Req, Start(r) PROVE ProcessingHasOwner'
  <2>1. OwnerHandover /\ UNCHANGED faults
    BY <1>11 DEF OwnerHandover, Start
  <2> QED
    BY <2>1
<1>12. ASSUME NEW r \in Req, NeverStart(r) PROVE ProcessingHasOwner'
  <2>1. CASE faults' # 0
    BY <1>a, <2>1
  <2>2. CASE faults' = 0
    <3>1. status'[trace[r]] # "PROCESSING"
      BY <1>12, <1>c, <2>2 DEF NeverStart
    <3>2. OwnerHandover /\ UNCHANGED faults
      BY <1>12, <3>1 DEF OwnerHandover, NeverStart
    <3> QED
      BY <3>2
  <2> QED
    BY <2>1, <2>2
<1>13. ASSUME NEW r \in Req, Unwind(r) PROVE ProcessingHasOwner'
  <2>1. OwnerHandover /\ UNCHANGED faults
    BY <1>13 DEF OwnerHandover, Unwind
  <2> QED
    BY <2>1
<1>14. ASSUME NEW r \in Req, Log(r) PROVE ProcessingHasOwner'
  <2>1. OwnerHandover /\ UNCHANGED faults
    BY <1>14 DEF OwnerHandover, Log
  <2> QED
    BY <2>1
<1>15. ASSUME NEW r \in Req, UnwindLog(r) PROVE ProcessingHasOwner'
  <2>1. OwnerHandover /\ UNCHANGED faults
    BY <1>15 DEF OwnerHandover, UnwindLog
  <2> QED
    BY <2>1
<1>16. ASSUME NEW r \in Req, Release(r) PROVE ProcessingHasOwner'
  <2>1. \A t \in Trace : status'[t] = "PROCESSING" => t # trace[r] /\ status[t] = "PROCESSING"
    BY <1>16 DEF Release, Releasable
  <2>2. trace' = trace /\ faults' = faults /\ \A q \in Req \ {r} : pc'[q] = pc[q]
    BY <1>16 DEF Release
  <2>3. OwnerHandover
    BY <2>1, <2>2 DEF OwnerHandover
  <2> QED
    BY <2>2, <2>3
<1>17. ASSUME NEW r \in Req, UnwindRelease(r) PROVE ProcessingHasOwner'
  <2>1. CASE faults' # 0
    BY <1>a, <2>1
  <2>2. CASE faults' = 0
    <3>1. status'[trace[r]] # "PROCESSING"
      BY <1>17, <1>c, <2>2 DEF UnwindRelease
    <3>2. OwnerHandover /\ UNCHANGED faults
      BY <1>17, <3>1 DEF OwnerHandover, UnwindRelease
    <3> QED
      BY <3>2
  <2> QED
    BY <2>1, <2>2
<1>18. ASSUME NEW r \in Req, Unregister(r) PROVE ProcessingHasOwner'
  <2>1. OwnerHandover /\ UNCHANGED faults
    BY <1>18 DEF OwnerHandover, Unregister
  <2> QED
    BY <2>1
<1>19. ASSUME NEW r \in Req, SeeCancel(r) PROVE ProcessingHasOwner'
  <2>1. OwnerHandover /\ UNCHANGED faults
    BY <1>19 DEF OwnerHandover, SeeCancel
  <2> QED
    BY <2>1
<1>20. ASSUME NEW r \in Req, NEW t \in Trace, Sweep(r, t) PROVE ProcessingHasOwner'
  <2>1. OwnerHandover /\ UNCHANGED faults
    BY <1>20 DEF OwnerHandover, Sweep, Refused
  <2> QED
    BY <2>1
<1>21. ASSUME NEW r \in Req, NEW s \in Paused \cup Final, HandlerReturn(r, s) PROVE ProcessingHasOwner'
  <2>1. OwnerHandover /\ UNCHANGED faults
    BY <1>21 DEF OwnerHandover, HandlerReturn
  <2> QED
    BY <2>1
<1>22. ASSUME NEW t \in Trace, CancelTask(t) PROVE ProcessingHasOwner'
  <2>1. OwnerHandover /\ UNCHANGED faults
    BY <1>22 DEF OwnerHandover, CancelTask, Cancelled
  <2> QED
    BY <2>1
<1>23. ASSUME NEW t \in Trace, CancelAnyTask(t) PROVE ProcessingHasOwner'
  <2>1. OwnerHandover /\ UNCHANGED faults
    BY <1>23 DEF OwnerHandover, CancelAnyTask
  <2> QED
    BY <2>1
<1>24. ASSUME NEW t \in Trace, Expire(t) PROVE ProcessingHasOwner'
  <2>1. OwnerHandover /\ UNCHANGED faults
    BY <1>24 DEF OwnerHandover, Expire
  <2> QED
    BY <2>1
<1>25. ASSUME Polling PROVE ProcessingHasOwner'
  <2>1. OwnerHandover /\ UNCHANGED faults
    BY <1>25, PollQuiet DEF OwnerHandover
  <2> QED
    BY <2>1
<1>26. ASSUME NEW w \in Worker, Shutdown(w) PROVE ProcessingHasOwner'
  BY <1>26, <1>a, <1>b DEF Shutdown
<1>27. ASSUME NEW w \in Worker, ShutdownTimeout(w) PROVE ProcessingHasOwner'
  <2>1. OwnerHandover /\ UNCHANGED faults
    BY <1>27 DEF OwnerHandover, ShutdownTimeout
  <2> QED
    BY <2>1
<1>28. ASSUME NEW w \in Worker, Stop(w) PROVE ProcessingHasOwner'
  BY <1>28, <1>a, <1>d DEF Stop
<1>29. ASSUME NEW w \in Worker, Crash(w) PROVE ProcessingHasOwner'
  BY <1>29, <1>a, <1>b DEF Crash
<1>30. CASE UNCHANGED vars
  BY <1>30 DEF vars, ProcessingHasOwner
<1> QED
  BY <1>1, <1>2, <1>3, <1>4, <1>5, <1>6, <1>7, <1>8, <1>9, <1>10, <1>11, <1>12, <1>13,
     <1>14, <1>15, <1>16, <1>17, <1>18, <1>19, <1>20, <1>21, <1>22, <1>23, <1>24,
     <1>25, <1>26, <1>27, <1>28, <1>29, <1>30
  DEF Next, RequestStep, TaskStep, HandlerStep, Polling

-----------------------------------------------------------------------------
(* The theorems.                                                           *)

\* A scheduled row is not stranded: whatever requests, resumptions, sweeps and
\* cancellations do, while nothing fails a row INIT has a request that will lock it
\* or put it back (deal, _restore_claimed_status).
THEOREM InitAlwaysAttended == Spec => []InitIsAttended
<1>1. Init => Attended
  BY DEF Init, Attended
<1>2. TypeOK /\ RestorerClaimed /\ Attended /\ [Next]_vars => Attended'
  BY AttendedStep
<1>3. Attended => InitIsAttended
  BY DEF Attended, Attends, InitIsAttended, RequestPC
<1> QED
  BY <1>1, <1>2, <1>3, TypeCorrect, PTL DEF Spec

\* What holds where no handler pauses.
Unpaused == NeverPaused /\ OneHolder /\ Found /\ InTime /\ Moved /\ ProcessingHasOwner

\* All of it is an invariant.
LEMMA UnpausedAlways ==
  ASSUME NoPauses
  PROVE  Spec => [](TypeOK /\ Unpaused)
<1>1. Init => Unpaused
  <2> SUFFICES ASSUME Init PROVE Unpaused
    OBVIOUS
  <2>1. NeverPaused /\ OneHolder /\ InTime
    BY DEF Init, NeverPaused, OneHolder, Holds, TaskPC, InTime, Paused
  <2>2. Found /\ Moved
    BY DEF Init, Found, TaskPC, Moved, Past
  <2>3. ProcessingHasOwner
    BY DEF Init, ProcessingHasOwner
  <2> QED
    BY <2>1, <2>2, <2>3 DEF Unpaused
<1>2. TypeOK /\ Unpaused /\ [Next]_vars => Unpaused'
  BY NeverPausedStep, HolderStep, FoundStep, InTimeStep, MovedStep, OwnerStep DEF Unpaused
<1> QED
  BY <1>1, <1>2, TypeCorrect, PTL DEF Spec

\* While nothing fails and no handler pauses, a row PROCESSING has the task that will
\* release it: no refusal, sweep, cancellation or late poll leaves it without.
THEOREM ProcessingAlwaysOwned ==
  ASSUME NoPauses
  PROVE  Spec => []ProcessingHasOwner
<1>1. Unpaused => ProcessingHasOwner
  BY DEF Unpaused
<1> QED
  BY <1>1, UnpausedAlways, PTL

\* The poller and shutdown() find every started task, through crashes and restarts
\* too, if no handler pauses: no other task has taken its place in the registry.
THEOREM StartedAlwaysRegistered ==
  ASSUME NoPauses
  PROVE  Spec => []StartedIsRegistered
<1>1. Unpaused => StartedIsRegistered
  BY DEF Unpaused, Found, Started, StartedIsRegistered, TaskPC
<1> QED
  BY <1>1, UnpausedAlways, PTL

\* No sweep fails a task that has time left, if no handler pauses: what a request
\* read as timed out stays so until it writes.
THEOREM SweptInTimeAlways ==
  ASSUME NoPauses
  PROVE  Spec => []SweptInTime
<1>1. Unpaused => SweptInTime
  BY DEF Unpaused, InTime, Holds, Owner, SweptInTime, TaskPC
<1> QED
  BY <1>1, UnpausedAlways, PTL

\* shutdown() cancels every task of its worker that has not been released
\* (task_lifecycle.py:8), if no handler pauses.
THEOREM ShutdownReachesAll ==
  ASSUME NoPauses
  PROVE  Spec => ShutdownCancelsAll
<1>1. TypeOK /\ Unpaused /\ [Next]_vars
      => [\A w \in Worker : mode[w] = "up" /\ mode'[w] = "waiting" =>
            \A r \in Req : host[r] = w /\ pc[r] \in {"starting", "handler"} => cancelled'[r]]_vars
  <2> SUFFICES ASSUME TypeOK, Unpaused, [Next]_vars, NEW w \in Worker,
                      mode[w] = "up", mode'[w] = "waiting",
                      NEW r \in Req, host[r] = w, pc[r] \in {"starting", "handler"}
               PROVE  cancelled'[r]
    OBVIOUS
  <2>1. Shutdown(w)
    <3>1. CASE mode' = mode
      BY <3>1
    <3>2. ASSUME NEW v \in Worker, Shutdown(v) \/ ShutdownTimeout(v) \/ Stop(v) \/ Crash(v)
          PROVE  Shutdown(w)
      <4>1. CASE Shutdown(v)
        BY <4>1 DEF Shutdown, TypeOK
      <4>2. CASE ShutdownTimeout(v) \/ Stop(v) \/ Crash(v)
        BY <4>2 DEF ShutdownTimeout, Stop, Crash, Restart, TypeOK
      <4> QED
        BY <3>2, <4>1, <4>2
    <3>3. \/ mode' = mode
          \/ \E v \in Worker : Shutdown(v) \/ ShutdownTimeout(v) \/ Stop(v) \/ Crash(v)
      BY PollQuiet
      DEF Next, RequestStep, TaskStep, HandlerStep, Polling, vars, server, Submit, Look, Abort,
          ReleaseFails, Claim, Check, Insert, Lock, Spawn, Restore, Start, NeverStart, Unwind,
          Log, UnwindLog, Release, UnwindRelease, Unregister, SeeCancel, Sweep, HandlerReturn,
          CancelTask, CancelAnyTask, Expire
    <3> QED
      BY <3>1, <3>2, <3>3
  <2>2. r \in Local(w)
    BY DEF Local, Unfinished, Unpaused, Found, TaskPC
  <2> QED
    BY <2>1, <2>2 DEF Shutdown
<1> QED
  BY <1>1, UnpausedAlways, PTL DEF ShutdownCancelsAll, Spec

=============================================================================
