-------------------------- MODULE MCTaskScheduler --------------------------
(* Instances of TaskScheduler for TLC.                                     *)
EXTENDS TaskScheduler, TLC

CONSTANTS r1, r2, r3, r4, t1, t2, w1, w2

Symmetry == Permutations(Req) \cup Permutations(Trace) \cup Permutations(Worker)

\* The locals of a coroutine are gone when it has ended; a request's are gone
\* when its task takes over.
Locals(r) ==
  CASE pc[r] \in RequestPC            -> <<from[r], prior[r], stale[r], full[r]>>
    [] pc[r] \in TaskPC               -> <<outcome[r], seen[r], cancelled[r]>>
    [] OTHER                          -> <<>>

View == <<row, pc, rigid, [r \in Req |-> Locals(r)], registry, poll, server, faults>>
=============================================================================
