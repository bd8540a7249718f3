-------------------------- MODULE DurableRunProofs --------------------------
(***************************************************************************)
(* Proofs about DurableRun, for every number of batches and calls, every   *)
(* set of gated batches and of reviewers, and any number of faults.        *)
(***************************************************************************)
EXTENDS DurableRun, TLAPS

Executing == {"call", "execute", "complete", "fail"}

\* A checkpoint that pauses does so in a batch, at one of its calls.
Placed(m) == m.pending # "NONE" => m.batch \in Batch /\ m.index \in 1..Calls

\* The run executes a call of a batch.
PlacedRun ==
  /\ pc \in Executing => mem.batch \in Batch /\ mem.index \in 1..Calls
  /\ Placed(mem) /\ Placed(data)
  /\ \A r \in Reviewer : Placed(seen[r])

\* A request in progress carries a decision that fits the pause it read.
Fits(r) ==
  /\ at[r] \in {"claim", "deal", "restore", "resolve"} => seen[r].pending # "NONE"
  /\ at[r] \in {"claim", "deal", "restore"} =>
       (seen[r].pending = "APPROVAL" <=> choice[r] \in Approval)
  /\ at[r] = "resolve" => seen[r].pending = "RECONCILIATION"
                          /\ choice[r] \in Reconciliation

\* A run that starts from a call in doubt carries a verdict on it.
Starts ==
  pc = "start" /\ mem.pending = "RECONCILIATION" => mem.decision \in Reconciliation

TypeInv == TypeOK /\ PlacedRun /\ Starts /\ \A r \in Reviewer : Fits(r)

-----------------------------------------------------------------------------
(* What the run's operators make of its checkpoint.                        *)

\* The memory of a new run is a checkpoint in which nothing has been told.
LEMMA FreshOK ==
  /\ Fresh \in Checkpoint /\ Fresh.pending = "NONE"
  /\ \A c \in Call : Fresh.results[c] = "NONE"
BY ConstantsAssumption DEF Fresh, Checkpoint, Result

\* Answering the rest of a batch leaves no pause, and tells nothing but that answer.
LEMMA AnswerOK ==
  ASSUME mem \in Checkpoint, NEW i, NEW s \in Result, Answer(i, s)
  PROVE  /\ mem' \in Checkpoint /\ pc' = "think"
         /\ mem'.pending = "NONE"
         /\ \A c \in Call : mem'.results[c] \in {s, mem.results[c]}
<1> DEFINE R == [c \in Call |-> IF c[1] = mem.batch /\ c[2] >= i THEN s ELSE mem.results[c]]
<1>1. R \in [Call -> Result] /\ \A c \in Call : R[c] \in {s, mem.results[c]}
  BY DEF Checkpoint
<1>2. mem' = [mem EXCEPT !.pending = "NONE", !.decision = "NONE", !.index = Calls + 1,
                !.results = R] /\ pc' = "think"
  BY DEF Answer
<1>3. Calls + 1 \in 1..(Calls + 1)
  BY ConstantsAssumption
<1> HIDE DEF R
<1> QED
  BY <1>1, <1>2, <1>3 DEF Checkpoint

\* Telling the current call its result leaves no pause, and changes no other result.
LEMMA TellOK ==
  ASSUME mem \in Checkpoint, mem.index \in 1..Calls, NEW s \in Result, Tell(s)
  PROVE  /\ mem' \in Checkpoint /\ pc' \in {"think", "call"}
         /\ mem'.pending = "NONE"
         /\ mem'.batch = mem.batch
         /\ pc' = "call" => mem'.index \in 1..Calls
         /\ mem'.results = [mem.results EXCEPT ![Current] = s]
<1> DEFINE R == [mem.results EXCEPT ![Current] = s]
<1>1. R \in [Call -> Result]
  BY DEF Checkpoint
<1>2. mem' = [mem EXCEPT !.pending = "NONE", !.decision = "NONE", !.results = R,
                !.index = mem.index + 1]
      /\ pc' = IF mem.index = Calls THEN "think" ELSE "call"
  BY DEF Tell, Checkpoint
<1>3. /\ mem.index + 1 \in 1..(Calls + 1)
      /\ mem.index # Calls => mem.index + 1 \in 1..Calls
  BY ConstantsAssumption
<1> HIDE DEF R
<1>4. /\ mem' \in Checkpoint /\ mem'.pending = "NONE" /\ mem'.batch = mem.batch
      /\ mem'.results = R /\ mem'.index = mem.index + 1
  BY <1>1, <1>2, <1>3 DEF Checkpoint
<1> QED
  BY <1>2, <1>3, <1>4 DEF R

\* A person's decision is told of the call in doubt and of no other: the rest of the
\* batch is left as it was, or told as skipped.
LEMMA ReconciledOK ==
  ASSUME mem \in Checkpoint, Current \in Call, mem.index \in 1..Calls,
         mem.decision \in Reconciliation, ResumeReconciled
  PROVE  /\ mem' \in Checkpoint /\ pc' \in {"think", "call"}
         /\ mem'.pending = "NONE"
         /\ mem'.batch = mem.batch
         /\ pc' = "call" => mem'.index \in 1..Calls
         /\ mem'.results[Current] = mem.decision
         /\ \A c \in Call \ {Current} : mem'.results[c] \in {"skipped", mem.results[c]}
<1>1. CASE mem.decision = "refuted"
  <2> DEFINE R == [c \in Call |-> IF c = Current THEN "refuted"
                                  ELSE IF Skipped(c) THEN "skipped" ELSE mem.results[c]]
  <2>1. /\ R \in [Call -> Result] /\ R[Current] = "refuted"
        /\ \A c \in Call \ {Current} : R[c] \in {"skipped", mem.results[c]}
    BY DEF Checkpoint, Result, Settled, Reconciliation
  <2>2. mem' = [mem EXCEPT !.pending = "NONE", !.decision = "NONE", !.index = Calls + 1,
                  !.results = R] /\ pc' = "think"
    BY <1>1 DEF ResumeReconciled
  <2>3. Calls + 1 \in 1..(Calls + 1)
    BY ConstantsAssumption
  <2> HIDE DEF R
  <2> QED
    BY <1>1, <2>1, <2>2, <2>3 DEF Checkpoint
<1>2. CASE mem.decision # "refuted"
  <2>1. Tell(mem.decision) /\ mem.decision \in Result
    BY <1>2 DEF ResumeReconciled, Result, Settled
  <2>2. /\ mem' \in Checkpoint /\ pc' \in {"think", "call"}
        /\ mem'.pending = "NONE" /\ mem'.batch = mem.batch
        /\ pc' = "call" => mem'.index \in 1..Calls
        /\ mem'.results = [mem.results EXCEPT ![Current] = mem.decision]
    BY <2>1, TellOK
  <2>3. mem.results \in [Call -> Result]
    BY DEF Checkpoint
  <2> QED
    BY <2>2, <2>3
<1> QED
  BY <1>1, <1>2

\* A pause freezes the batch: nothing is told.
LEMMA PauseOK ==
  ASSUME mem \in Checkpoint, NEW kind \in Pauses, Pause(kind)
  PROVE  /\ mem' \in Checkpoint /\ pc' = "persist"
         /\ mem'.pending = kind /\ mem'.decision = "NONE"
         /\ mem'.batch = mem.batch /\ mem'.index = mem.index
         /\ mem'.results = mem.results
BY DEF Pause, Checkpoint

\* A new batch starts at its first call, and nothing is told of it.
LEMMA ProposeOK ==
  ASSUME mem \in Checkpoint, issued \in 0..Batches, Propose
  PROVE  /\ mem' \in Checkpoint /\ pc' \in {"persist", "call"}
         /\ mem'.batch = issued + 1 /\ mem'.batch \in Batch /\ mem'.index \in 1..Calls
         /\ mem'.results = mem.results /\ mem'.decision = "NONE"
         /\ mem'.pending \in {"APPROVAL", "NONE"}
         /\ pc' = "call" => ~NeedsApproval(mem'.batch)
         /\ pc' = "call" <=> mem'.pending = "NONE"
<1>1. /\ mem' = [mem EXCEPT !.batch = issued + 1, !.index = 1, !.decision = "NONE",
                   !.pending = IF NeedsApproval(issued + 1) THEN "APPROVAL" ELSE "NONE"]
      /\ pc' = IF NeedsApproval(issued + 1) THEN "persist" ELSE "call"
      /\ issued < Batches
  BY DEF Propose
<1>2. /\ issued + 1 \in Batch /\ issued + 1 \in 0..Batches
      /\ 1 \in 1..(Calls + 1) /\ 1 \in 1..Calls
  BY <1>1, ConstantsAssumption DEF Batch
<1> QED
  BY <1>1, <1>2 DEF Checkpoint, Pauses

\* The run resumes from the checkpoint the request read, with the decision it carries.
LEMMA ResumedOK ==
  ASSUME NEW r \in Reviewer, seen[r] \in Checkpoint,
         choice[r] \in Approval \cup Reconciliation
  PROVE  /\ Resumed(r) \in Checkpoint
         /\ Resumed(r).pending = seen[r].pending
         /\ Resumed(r).batch = seen[r].batch /\ Resumed(r).index = seen[r].index
         /\ Resumed(r).results = seen[r].results
         /\ Resumed(r).decision = choice[r]
BY DEF Resumed, Checkpoint

-----------------------------------------------------------------------------
(* Types.                                                                  *)

\* Every step keeps the types, and the places at which a run can stand or be paused.
LEMMA TypeStep ==
  ASSUME TypeInv, [Next]_vars
  PROVE  TypeInv'
<1> USE DEF TypeInv, TypeOK, PlacedRun, Placed, Fits, Executing, Starts, Goto,
            PC, Status, Pauses, Approval, Reconciliation, row, tools, run, request
<1>1. ASSUME Begin PROVE TypeInv'
  BY <1>1 DEF Begin
<1>2. ASSUME ResumeApproved PROVE TypeInv'
  <2>1. mem' \in Checkpoint /\ mem'.batch = mem.batch /\ mem'.index = mem.index
        /\ mem'.pending = "NONE"
    BY <1>2 DEF ResumeApproved, Checkpoint
  <2> QED
    BY <1>2, <2>1 DEF ResumeApproved
<1>3. ASSUME ResumeRejected PROVE TypeInv'
  <2>1. "rejected" \in Result /\ Answer(1, "rejected")
    BY <1>3 DEF ResumeRejected, Result
  <2>2. mem' \in Checkpoint /\ mem'.pending = "NONE" /\ pc' = "think"
    BY <2>1, AnswerOK
  <2> QED
    BY <1>3, <2>2 DEF ResumeRejected
<1>4. ASSUME ResumeReconciled PROVE TypeInv'
  <2>1. /\ mem.decision \in Reconciliation /\ mem.index \in 1..Calls /\ Current \in Call
        /\ pc = "start"
    BY <1>4 DEF ResumeReconciled, Current, Call
  <2>2. /\ mem' \in Checkpoint /\ pc' \in {"think", "call"} /\ mem'.pending = "NONE"
        /\ mem'.batch = mem.batch
        /\ pc' = "call" => mem'.index \in 1..Calls
    BY <1>4, <2>1, ReconciledOK
  <2>3. ledger' \in [Call -> Settled \cup {"NONE", "running"}]
    BY <1>4, <2>1 DEF ResumeReconciled, Record, Settled
  <2>4. mem.batch \in Batch
    BY <1>4 DEF ResumeReconciled
  <2> QED
    BY <1>4, <2>2, <2>3, <2>4 DEF ResumeReconciled
<1>5. ASSUME ResumeRefused PROVE TypeInv'
  <2>1. Pause("RECONCILIATION") /\ faults' \in 0..MaxFaults
    BY <1>5, ConstantsAssumption DEF ResumeRefused, Fault
  <2>2. /\ mem' \in Checkpoint /\ mem'.pending = "RECONCILIATION" /\ pc' = "persist"
        /\ mem'.batch = mem.batch /\ mem'.index = mem.index
    BY <2>1, PauseOK
  <2> QED
    BY <1>5, <2>1, <2>2 DEF ResumeRefused
<1>6. ASSUME SeeCancel PROVE TypeInv'
  BY <1>6 DEF SeeCancel
<1>7. ASSUME Conclude PROVE TypeInv'
  BY <1>7 DEF Conclude
<1>8. ASSUME Propose PROVE TypeInv'
  <2>1. /\ mem' \in Checkpoint /\ pc' \in {"persist", "call"}
        /\ mem'.batch \in Batch /\ mem'.index \in 1..Calls
    BY <1>8, ProposeOK
  <2>2. issued' \in 0..Batches
    BY <1>8, ConstantsAssumption DEF Propose
  <2> QED
    BY <1>8, <2>1, <2>2 DEF Propose
<1>9. ASSUME SkipCancelled PROVE TypeInv'
  <2>1. "cancelled" \in Result /\ Tell("cancelled")
    BY <1>9 DEF SkipCancelled, Result, Settled
  <2>2. /\ mem' \in Checkpoint /\ pc' \in {"think", "call"} /\ mem'.pending = "NONE"
        /\ mem'.batch = mem.batch
        /\ pc' = "call" => mem'.index \in 1..Calls
    BY <1>9, <2>1, TellOK DEF SkipCancelled
  <2> QED
    BY <1>9, <2>2 DEF SkipCancelled
<1>10. ASSUME ClaimCall PROVE TypeInv'
  BY <1>10 DEF ClaimCall, Record, Claimable, Current
<1>11. ASSUME Replay PROVE TypeInv'
  <2>1. ledger[Current] \in Result /\ Tell(ledger[Current])
    BY <1>11 DEF Replay, Result, Settled
  <2>2. /\ mem' \in Checkpoint /\ pc' \in {"think", "call"} /\ mem'.pending = "NONE"
        /\ mem'.batch = mem.batch
        /\ pc' = "call" => mem'.index \in 1..Calls
    BY <1>11, <2>1, TellOK DEF Replay
  <2> QED
    BY <1>11, <2>2 DEF Replay
<1>12. ASSUME InDoubt PROVE TypeInv'
  <2>1. /\ mem' \in Checkpoint /\ mem'.pending = "RECONCILIATION" /\ pc' = "persist"
        /\ mem'.batch = mem.batch /\ mem'.index = mem.index
    BY <1>12, PauseOK DEF InDoubt
  <2> QED
    BY <1>12, <2>1 DEF InDoubt
<1>13. ASSUME ClaimFails PROVE TypeInv'
  <2>1. "error" \in Result /\ Tell("error")
    BY <1>13 DEF ClaimFails, Result, Settled
  <2>2. /\ mem' \in Checkpoint /\ pc' \in {"think", "call"} /\ mem'.pending = "NONE"
        /\ mem'.batch = mem.batch
        /\ pc' = "call" => mem'.index \in 1..Calls
    BY <1>13, <2>1, TellOK DEF ClaimFails
  <2>3. faults' \in 0..MaxFaults /\ ledger' \in [Call -> Settled \cup {"NONE", "running"}]
    BY <1>13, ConstantsAssumption DEF ClaimFails, Fault, Record
  <2> QED
    BY <1>13, <2>2, <2>3 DEF ClaimFails
<1>14. ASSUME Execute PROVE TypeInv'
  <2>1. executed' \in [Call -> Nat]
    BY <1>14 DEF Execute, Current, Call
  <2>2. CASE pc' \in {"complete", "fail"} /\ UNCHANGED mem
    BY <1>14, <2>1, <2>2 DEF Execute
  <2>3. CASE Pause("RECONCILIATION")
    <3>1. /\ mem' \in Checkpoint /\ mem'.pending = "RECONCILIATION" /\ pc' = "persist"
          /\ mem'.batch = mem.batch /\ mem'.index = mem.index
      BY <2>3, PauseOK
    <3> QED
      BY <1>14, <2>1, <3>1 DEF Execute
  <2> QED
    BY <1>14, <2>2, <2>3 DEF Execute
<1>15. ASSUME Settle PROVE TypeInv'
  <2>1. ledger' \in [Call -> Settled \cup {"NONE", "running"}] /\ Outcome \in Result
    BY <1>15 DEF Settle, Finish, Record, Outcome, Settled, Result
  <2>2. /\ UNCHANGED <<row, executed, issued, approved, cancel, request, faults>>
        /\ mem.batch \in Batch /\ mem.index \in 1..Calls
    BY <1>15 DEF Settle
  <2>3. CASE Tell(Outcome)
    <3>1. /\ mem' \in Checkpoint /\ pc' \in {"think", "call"} /\ mem'.pending = "NONE"
          /\ mem'.batch = mem.batch
          /\ pc' = "call" => mem'.index \in 1..Calls
      BY <2>1, <2>2, <2>3, TellOK
    <3> QED
      BY <2>1, <2>2, <3>1
  <2>4. CASE Pause("RECONCILIATION")
    <3>1. /\ mem' \in Checkpoint /\ mem'.pending = "RECONCILIATION" /\ pc' = "persist"
          /\ mem'.batch = mem.batch /\ mem'.index = mem.index
      BY <2>4, PauseOK
    <3> QED
      BY <2>1, <2>2, <3>1
  <2> QED
    BY <1>15, <2>3, <2>4 DEF Settle
<1>16. ASSUME SettleFails PROVE TypeInv'
  <2>1. ledger' \in [Call -> Settled \cup {"NONE", "running"}] /\ faults' \in 0..MaxFaults
    BY <1>16, ConstantsAssumption DEF SettleFails, Finish, Record, Outcome, Settled, Fault
  <2>2. /\ mem' \in Checkpoint /\ mem'.pending = "RECONCILIATION" /\ pc' = "persist"
        /\ mem'.batch = mem.batch /\ mem'.index = mem.index
    BY <1>16, PauseOK DEF SettleFails
  <2> QED
    BY <1>16, <2>1, <2>2 DEF SettleFails
<1>17. ASSUME Persist PROVE TypeInv'
  BY <1>17 DEF Persist
<1>18. ASSUME PersistFails PROVE TypeInv'
  BY <1>18, ConstantsAssumption DEF PersistFails, Fault
<1>19. ASSUME Release PROVE TypeInv'
  <2>1. status' \in Status
    BY <1>19 DEF Release, Returned, Active, Checkpoint
  <2>2. mem' \in Checkpoint /\ mem'.pending = "NONE" /\ pc' = "idle" /\ cancel' = FALSE
    BY <1>19, FreshOK DEF Release, Forget
  <2> QED
    BY <1>19, <2>1, <2>2 DEF Release
<1>20. ASSUME Interrupt PROVE TypeInv'
  <2>1. status' \in Status
    BY <1>20 DEF Interrupt, Active
  <2>2. mem' \in Checkpoint /\ mem'.pending = "NONE" /\ pc' = "idle" /\ cancel' = FALSE
    BY <1>20, FreshOK DEF Interrupt, Forget
  <2> QED
    BY <1>20, <2>1, <2>2 DEF Interrupt
<1>21. ASSUME Cancel PROVE TypeInv'
  BY <1>21 DEF Cancel
<1>22. ASSUME Sweep PROVE TypeInv'
  BY <1>22 DEF Sweep
<1>23. ASSUME NEW r \in Reviewer, NEW d \in Approval \cup Reconciliation, Read(r, d)
       PROVE TypeInv'
  BY <1>23 DEF Read
<1>24. ASSUME NEW r \in Reviewer, Resolve(r) PROVE TypeInv'
  <2>1. ledger' \in [Call -> Settled \cup {"NONE", "running"}]
    BY <1>24 DEF Resolve, Record, Settled
  <2>2. /\ at' \in [Reviewer -> {"idle", "resolve", "claim", "deal", "restore", "ended"}]
        /\ at[r] = "resolve" /\ at'[r] \in {"claim", "deal", "ended"}
        /\ \A q \in Reviewer \ {r} : at'[q] = at[q]
    BY <1>24 DEF Resolve
  <2>3. UNCHANGED <<row, executed, issued, approved, run, seen, choice, recovers, overlap, faults>>
    BY <1>24 DEF Resolve
  <2> QED
    BY <2>1, <2>2, <2>3
<1>25. ASSUME NEW r \in Reviewer, Claim(r) PROVE TypeInv'
  <2>1. /\ Resumed(r) \in Checkpoint /\ Resumed(r).pending = seen[r].pending
        /\ Resumed(r).batch = seen[r].batch /\ Resumed(r).index = seen[r].index
    BY ResumedOK
  <2>2. status' \in Status /\ data' \in Checkpoint /\ Placed(data)'
    BY <1>25, <2>1 DEF Claim
  <2>3. approved' \subseteq Batch
    BY <1>25 DEF Claim
  <2>4. /\ at' \in [Reviewer -> {"idle", "resolve", "claim", "deal", "restore", "ended"}]
        /\ at[r] = "claim" /\ at'[r] \in {"deal", "ended"}
        /\ \A q \in Reviewer \ {r} : at'[q] = at[q]
    BY <1>25 DEF Claim
  <2>5. UNCHANGED <<tools, issued, run, seen, choice, recovers, overlap, faults>>
    BY <1>25 DEF Claim
  <2> QED
    BY <2>2, <2>3, <2>4, <2>5
<1>26. ASSUME NEW r \in Reviewer, Deal(r) PROVE TypeInv'
  <2>1. /\ Resumed(r) \in Checkpoint /\ Resumed(r).pending = seen[r].pending
        /\ Resumed(r).batch = seen[r].batch /\ Resumed(r).index = seen[r].index
        /\ Resumed(r).decision = choice[r]
    BY ResumedOK
  <2>2. mem' \in Checkpoint /\ Placed(mem)' /\ pc' = "start" /\ Starts'
    BY <1>26, <2>1 DEF Deal
  <2>3. /\ at' \in [Reviewer -> {"idle", "resolve", "claim", "deal", "restore", "ended"}]
        /\ at'[r] = "ended" /\ \A q \in Reviewer \ {r} : at'[q] = at[q]
    BY <1>26 DEF Deal
  <2> QED
    BY <1>26, <2>2, <2>3 DEF Deal
<1>27. ASSUME NEW r \in Reviewer, Refuse(r) PROVE TypeInv'
  BY <1>27 DEF Refuse
<1>28. ASSUME NEW r \in Reviewer, Restore(r) PROVE TypeInv'
  <2>1. status' \in Status /\ data' \in Checkpoint /\ Placed(data)'
    BY <1>28 DEF Restore, Checkpoint
  <2>2. /\ at' \in [Reviewer -> {"idle", "resolve", "claim", "deal", "restore", "ended"}]
        /\ at'[r] = "ended" /\ \A q \in Reviewer \ {r} : at'[q] = at[q]
    BY <1>28 DEF Restore
  <2> QED
    BY <1>28, <2>1, <2>2 DEF Restore
<1>29. ASSUME NEW r \in Reviewer, Abort(r) PROVE TypeInv'
  BY <1>29 DEF Abort
<1>30. CASE UNCHANGED vars
  BY <1>30 DEF vars
<1> QED
  BY <1>1, <1>2, <1>3, <1>4, <1>5, <1>6, <1>7, <1>8, <1>9, <1>10, <1>11,
     <1>12, <1>13, <1>14, <1>15, <1>16, <1>17, <1>18, <1>19, <1>20, <1>21,
     <1>22, <1>23, <1>24, <1>25, <1>26, <1>27, <1>28, <1>29, <1>30 DEF Next,
     RunStep, RequestStep

-----------------------------------------------------------------------------
(* The ledger's promise.                                                   *)

At(m) == <<m.batch, m.index>>

\* A checkpoint in doubt names a call that was claimed ...
Known(m) == m.pending = "RECONCILIATION" => ledger[At(m)] # "NONE"

\* ... which is not the one about to be executed.
Elsewhere(m) == m.pending = "RECONCILIATION" => At(m) # Current

LedgerInv ==
  /\ \A c \in Call : executed[c] <= 1 /\ (ledger[c] = "NONE" => executed[c] = 0)
  /\ pc = "execute" =>
       /\ ledger[Current] = "running" /\ executed[Current] = 0
       /\ Elsewhere(data) /\ \A r \in Reviewer : Elsewhere(seen[r])
  /\ pc \in {"complete", "fail"} => ledger[Current] # "NONE"
  /\ Known(mem) /\ Known(data) /\ \A r \in Reviewer : Known(seen[r])

\* A run that is at a call is at one of the calls.
LEMMA CurrentOK ==
  ASSUME TypeInv, pc \in Executing
  PROVE  Current \in Call
BY DEF TypeInv, PlacedRun, Current, Call

\* So is a paused one.
LEMMA AtOK ==
  ASSUME NEW m, Placed(m), m.pending # "NONE"
  PROVE  At(m) \in Call
BY DEF Placed, At, Call

\* Every step is one the ledger promises, or does not concern it.
LEMMA LedgerStep ==
  ASSUME TypeInv, LedgerInv, [Next]_vars
  PROVE  [Effects!Next]_<<ledger, executed>>
<1> USE DEF tools, Effects!Next, Effects!Take, Effects!Attempt, Effects!Decide
<1>1. ASSUME Begin PROVE [Effects!Next]_<<ledger, executed>>
  BY <1>1 DEF Begin
<1>2. ASSUME ResumeApproved PROVE [Effects!Next]_<<ledger, executed>>
  BY <1>2 DEF ResumeApproved
<1>3. ASSUME ResumeRejected PROVE [Effects!Next]_<<ledger, executed>>
  BY <1>3 DEF ResumeRejected
<1>4. ASSUME ResumeReconciled PROVE [Effects!Next]_<<ledger, executed>>
  <2>1. Current \in Call /\ mem.decision \in Settled
    BY <1>4, AtOK DEF ResumeReconciled, Current, At, TypeInv, Starts, PlacedRun, Settled
  <2>2. CASE ledger[Current] = "running"
    BY <1>4, <2>1, <2>2 DEF ResumeReconciled, Record
  <2>3. CASE ledger[Current] = mem.decision
    BY <1>4, <2>1, <2>3 DEF ResumeReconciled, Record, TypeInv, TypeOK
  <2> QED
    BY <1>4, <2>2, <2>3 DEF ResumeReconciled, Resolvable
<1>5. ASSUME ResumeRefused PROVE [Effects!Next]_<<ledger, executed>>
  BY <1>5 DEF ResumeRefused
<1>6. ASSUME SeeCancel PROVE [Effects!Next]_<<ledger, executed>>
  BY <1>6 DEF SeeCancel
<1>7. ASSUME Conclude PROVE [Effects!Next]_<<ledger, executed>>
  BY <1>7 DEF Conclude
<1>8. ASSUME Propose PROVE [Effects!Next]_<<ledger, executed>>
  BY <1>8 DEF Propose
<1>9. ASSUME SkipCancelled PROVE [Effects!Next]_<<ledger, executed>>
  BY <1>9 DEF SkipCancelled
<1>10. ASSUME ClaimCall PROVE [Effects!Next]_<<ledger, executed>>
  BY <1>10, CurrentOK DEF ClaimCall, Claimable, Record, Executing
<1>11. ASSUME Replay PROVE [Effects!Next]_<<ledger, executed>>
  BY <1>11 DEF Replay
<1>12. ASSUME InDoubt PROVE [Effects!Next]_<<ledger, executed>>
  BY <1>12 DEF InDoubt
<1>13. ASSUME ClaimFails PROVE [Effects!Next]_<<ledger, executed>>
  BY <1>13, CurrentOK DEF ClaimFails, Record, Executing
<1>14. ASSUME Execute PROVE [Effects!Next]_<<ledger, executed>>
  <2>1. Current \in Call /\ ledger[Current] = "running" /\ executed[Current] = 0
    BY <1>14, CurrentOK DEF Execute, Executing, LedgerInv
  <2>2. executed' = [executed EXCEPT ![Current] = 1] /\ UNCHANGED ledger
    BY <1>14, <2>1 DEF Execute
  <2> QED
    BY <2>1, <2>2
<1>15. ASSUME Settle PROVE [Effects!Next]_<<ledger, executed>>
  <2>1. Current \in Call /\ Outcome \in Settled
    BY <1>15, CurrentOK DEF Settle, Executing, Outcome, Settled, Reconciliation
  <2>2. CASE ledger[Current] = "running"
    BY <1>15, <2>1, <2>2 DEF Settle, Finish, Record
  <2>3. CASE ledger[Current] # "running"
    BY <1>15, <2>1, <2>3 DEF Settle, Finish, Record, TypeInv, TypeOK
  <2> QED
    BY <2>2, <2>3
<1>16. ASSUME SettleFails PROVE [Effects!Next]_<<ledger, executed>>
  <2>1. Current \in Call /\ Outcome \in Settled
    BY <1>16, CurrentOK DEF SettleFails, Executing, Outcome, Settled, Reconciliation
  <2>2. CASE ledger[Current] = "running"
    BY <1>16, <2>1, <2>2 DEF SettleFails, Finish, Record
  <2>3. CASE ledger[Current] # "running"
    BY <1>16, <2>1, <2>3 DEF SettleFails, Finish, Record, TypeInv, TypeOK
  <2> QED
    BY <2>2, <2>3
<1>17. ASSUME Persist PROVE [Effects!Next]_<<ledger, executed>>
  BY <1>17 DEF Persist
<1>18. ASSUME PersistFails PROVE [Effects!Next]_<<ledger, executed>>
  BY <1>18 DEF PersistFails
<1>19. ASSUME Release PROVE [Effects!Next]_<<ledger, executed>>
  BY <1>19 DEF Release
<1>20. ASSUME Interrupt PROVE [Effects!Next]_<<ledger, executed>>
  BY <1>20 DEF Interrupt
<1>21. ASSUME Cancel PROVE [Effects!Next]_<<ledger, executed>>
  BY <1>21 DEF Cancel
<1>22. ASSUME Sweep PROVE [Effects!Next]_<<ledger, executed>>
  BY <1>22 DEF Sweep
<1>23. ASSUME NEW r \in Reviewer, NEW d \in Approval \cup Reconciliation, Read(r, d)
       PROVE [Effects!Next]_<<ledger, executed>>
  BY <1>23 DEF Read
<1>24. ASSUME NEW r \in Reviewer, Resolve(r) PROVE [Effects!Next]_<<ledger, executed>>
  <2>1. Doubted(r) \in Call /\ choice[r] \in Settled
    BY <1>24, AtOK DEF Resolve, Doubted, At, TypeInv, Fits, PlacedRun, Settled
  <2>2. CASE ledger[Doubted(r)] = "running" /\ Record(Doubted(r), choice[r])
    BY <1>24, <2>1, <2>2 DEF Resolve, Record
  <2>3. CASE ledger[Doubted(r)] = choice[r] /\ Record(Doubted(r), choice[r])
    BY <1>24, <2>1, <2>3 DEF Resolve, Record, TypeInv, TypeOK
  <2>4. CASE UNCHANGED ledger
    BY <1>24, <2>4 DEF Resolve
  <2> QED
    BY <1>24, <2>2, <2>3, <2>4 DEF Resolve, Resolvable
<1>25. ASSUME NEW r \in Reviewer, Claim(r) PROVE [Effects!Next]_<<ledger, executed>>
  BY <1>25 DEF Claim
<1>26. ASSUME NEW r \in Reviewer, Deal(r) PROVE [Effects!Next]_<<ledger, executed>>
  BY <1>26 DEF Deal
<1>27. ASSUME NEW r \in Reviewer, Refuse(r) PROVE [Effects!Next]_<<ledger, executed>>
  BY <1>27 DEF Refuse
<1>28. ASSUME NEW r \in Reviewer, Restore(r) PROVE [Effects!Next]_<<ledger, executed>>
  BY <1>28 DEF Restore
<1>29. ASSUME NEW r \in Reviewer, Abort(r) PROVE [Effects!Next]_<<ledger, executed>>
  BY <1>29 DEF Abort
<1>30. CASE UNCHANGED vars
  BY <1>30 DEF vars
<1> QED
  BY <1>1, <1>2, <1>3, <1>4, <1>5, <1>6, <1>7, <1>8, <1>9, <1>10, <1>11,
     <1>12, <1>13, <1>14, <1>15, <1>16, <1>17, <1>18, <1>19, <1>20, <1>21,
     <1>22, <1>23, <1>24, <1>25, <1>26, <1>27, <1>28, <1>29, <1>30 DEF Next,
     RunStep, RequestStep

\* What such a step leaves alone.
LEMMA LedgerMonotone ==
  ASSUME TypeInv, LedgerInv, [Next]_vars
  PROVE  \A c \in Call :
           /\ ledger[c] # "NONE" => ledger'[c] # "NONE"
           /\ ledger[c] \in Settled => ledger'[c] = ledger[c]
           /\ executed'[c] <= 1 /\ (ledger'[c] = "NONE" => executed'[c] = 0)
<1>1. [Effects!Next]_<<ledger, executed>>
  BY LedgerStep
<1>2. /\ ledger \in [Call -> Settled \cup {"NONE", "running"}] /\ executed \in [Call -> Nat]
      /\ "running" \notin Settled /\ "NONE" \notin Settled
      /\ \A c \in Call : executed[c] <= 1 /\ (ledger[c] = "NONE" => executed[c] = 0)
  BY DEF TypeInv, TypeOK, LedgerInv, Settled, Reconciliation
<1>3. ASSUME NEW d \in Call, Effects!Take(d) \/ Effects!Attempt(d)
               \/ \E v \in Settled : Effects!Decide(d, v)
      PROVE  \A c \in Call :
               /\ ledger[c] # "NONE" => ledger'[c] # "NONE"
               /\ ledger[c] \in Settled => ledger'[c] = ledger[c]
               /\ executed'[c] <= 1 /\ (ledger'[c] = "NONE" => executed'[c] = 0)
  BY <1>2, <1>3 DEF Effects!Take, Effects!Attempt, Effects!Decide
<1> QED
  BY <1>1, <1>2, <1>3 DEF Effects!Next

\* Every step keeps it that no call is executed twice, that the call about to be
\* executed is claimed and untried, and that a checkpoint in doubt names a claimed call
\* that is not that one.
LEMMA LedgerInvStep ==
  ASSUME TypeInv, LedgerInv, [Next]_vars
  PROVE  LedgerInv'
<1> DEFINE K == \A c \in Call : ledger[c] # "NONE" => ledger'[c] # "NONE"
<1>a. /\ K
      /\ \A c \in Call : executed'[c] <= 1 /\ (ledger'[c] = "NONE" => executed'[c] = 0)
  BY LedgerMonotone
<1>b. /\ mem \in Checkpoint /\ data \in Checkpoint
      /\ pc \in Executing => mem.index \in 1..Calls
      /\ \A r \in Reviewer : seen[r] \in Checkpoint
      /\ \A r \in Reviewer : choice[r] \in Approval \cup Reconciliation
      /\ Placed(mem) /\ Placed(data) /\ \A r \in Reviewer : Placed(seen[r])
  BY DEF TypeInv, TypeOK, PlacedRun
\* Whatever was claimed stays claimed.
<1>c. ASSUME NEW m, Placed(m), Known(m)
      PROVE  m.pending = "RECONCILIATION" => ledger'[At(m)] # "NONE"
  BY <1>a, <1>c, AtOK DEF Known
<1>d. /\ Known(mem) /\ Known(data) /\ \A r \in Reviewer : Known(seen[r])
      /\ mem.pending = "RECONCILIATION" => ledger'[At(mem)] # "NONE"
      /\ data.pending = "RECONCILIATION" => ledger'[At(data)] # "NONE"
      /\ \A r \in Reviewer :
           seen[r].pending = "RECONCILIATION" => ledger'[At(seen[r])] # "NONE"
  BY <1>b, <1>c DEF LedgerInv
<1>e. pc \in Executing => Current \in Call
  BY CurrentOK
<1> USE <1>a, <1>d, <1>e DEF LedgerInv, Known, Elsewhere, row, tools, run, request
<1> HIDE DEF K
<1>1. ASSUME Begin PROVE LedgerInv'
  BY <1>1 DEF Begin, Current, At
<1>2. ASSUME ResumeApproved PROVE LedgerInv'
  <2>1. mem'.pending = "NONE" /\ pc' = "call" /\ UNCHANGED <<data, seen>>
    BY <1>2, <1>b DEF ResumeApproved, Checkpoint
  <2> QED
    BY <2>1
<1>3. ASSUME ResumeRejected PROVE LedgerInv'
  <2>1. "rejected" \in Result
    BY DEF Result
  <2>2. mem'.pending = "NONE" /\ pc' \in {"think", "call"}
    BY <1>3, <1>b, <2>1, AnswerOK DEF ResumeRejected
  <2>3. UNCHANGED <<data, seen>>
    BY <1>3 DEF ResumeRejected
  <2> QED
    BY <2>2, <2>3
<1>4. ASSUME ResumeReconciled PROVE LedgerInv'
  <2>1. /\ Current \in Call /\ mem.index \in 1..Calls
        /\ mem.decision \in Reconciliation
    BY <1>4, <1>b, AtOK DEF ResumeReconciled, Placed, TypeInv, Starts, At, Current
  <2>2. mem'.pending = "NONE" /\ pc' \in {"think", "call"}
    BY <1>4, <1>b, <2>1, ReconciledOK
  <2>3. UNCHANGED <<data, seen>>
    BY <1>4 DEF ResumeReconciled
  <2> QED
    BY <2>2, <2>3
<1>5. ASSUME ResumeRefused PROVE LedgerInv'
  <2>1. /\ mem'.pending = "RECONCILIATION" /\ pc' = "persist" /\ At(mem)' = At(mem)
    BY <1>5, <1>b, PauseOK DEF ResumeRefused, Pauses, At
  <2>2. mem.pending = "RECONCILIATION" /\ UNCHANGED <<data, seen>>
    BY <1>5 DEF ResumeRefused
  <2> QED
    BY <2>1, <2>2
<1>6. ASSUME SeeCancel PROVE LedgerInv'
  BY <1>6 DEF SeeCancel, Current, At
<1>7. ASSUME Conclude PROVE LedgerInv'
  BY <1>7 DEF Conclude, Current, At
<1>8. ASSUME Propose PROVE LedgerInv'
  <2>1. mem'.pending # "RECONCILIATION" /\ pc' \in {"persist", "call"}
    BY <1>8, <1>b, ProposeOK DEF TypeInv, TypeOK
  <2>2. UNCHANGED <<data, seen>>
    BY <1>8 DEF Propose
  <2> QED
    BY <2>1, <2>2
<1>9. ASSUME SkipCancelled PROVE LedgerInv'
  <2>1. mem'.pending = "NONE" /\ pc' \in {"think", "call"}
    BY <1>9, <1>b, TellOK DEF SkipCancelled, Result, Executing
  <2>2. UNCHANGED <<data, seen>>
    BY <1>9 DEF SkipCancelled
  <2> QED
    BY <2>1, <2>2
<1>10. ASSUME ClaimCall PROVE LedgerInv'
  <2>1. /\ ledger[Current] = "NONE" /\ executed[Current] = 0 /\ Current \in Call
        /\ ledger' = [ledger EXCEPT ![Current] = "running"]
        /\ pc' = "execute" /\ UNCHANGED <<executed, data, seen, mem>>
    BY <1>10 DEF ClaimCall, Claimable, Record, Executing
  <2>2. ledger'[Current] = "running"
    BY <2>1 DEF TypeInv, TypeOK
  <2>3. Current' = Current
    BY <2>1 DEF Current
  <2>4. /\ data.pending = "RECONCILIATION" => At(data) # Current
        /\ \A r \in Reviewer : seen[r].pending = "RECONCILIATION" => At(seen[r]) # Current
    BY <2>1
  <2> QED
    BY <2>1, <2>2, <2>3, <2>4 DEF At
<1>11. ASSUME Replay PROVE LedgerInv'
  <2>1. mem'.pending = "NONE" /\ pc' \in {"think", "call"}
    BY <1>11, <1>b, TellOK DEF Replay, Result, Executing
  <2>2. UNCHANGED <<data, seen>>
    BY <1>11 DEF Replay
  <2> QED
    BY <2>1, <2>2
<1>12. ASSUME InDoubt PROVE LedgerInv'
  <2>1. /\ mem'.pending = "RECONCILIATION" /\ pc' = "persist" /\ At(mem)' = At(mem)
    BY <1>12, <1>b, PauseOK DEF InDoubt, Pauses, At
  <2>2. ledger'[At(mem)] # "NONE" /\ UNCHANGED <<data, seen>>
    BY <1>12 DEF InDoubt, Current, At
  <2> QED
    BY <2>1, <2>2
<1>13. ASSUME ClaimFails PROVE LedgerInv'
  <2>1. mem'.pending = "NONE" /\ pc' \in {"think", "call"}
    BY <1>13, <1>b, TellOK DEF ClaimFails, Result, Executing
  <2>2. UNCHANGED <<data, seen>>
    BY <1>13 DEF ClaimFails
  <2> QED
    BY <2>1, <2>2
<1>14. ASSUME Execute PROVE LedgerInv'
  <2>1. /\ ledger[Current] = "running" /\ Current \in Call
        /\ UNCHANGED <<ledger, data, seen>>
    BY <1>14 DEF Execute, Executing
  <2>2. CASE pc' \in {"complete", "fail"} /\ UNCHANGED mem
    <3>1. Current' = Current /\ At(mem)' = At(mem)
      BY <2>2 DEF Current, At
    <3> QED
      BY <2>1, <2>2, <3>1 DEF At
  <2>3. CASE Pause("RECONCILIATION")
    <3>1. /\ mem'.pending = "RECONCILIATION" /\ pc' = "persist" /\ At(mem)' = At(mem)
      BY <2>3, <1>b, PauseOK DEF Pauses, At
    <3> QED
      BY <2>1, <3>1 DEF Current, At
  <2> QED
    BY <1>14, <2>2, <2>3 DEF Execute
<1>15. ASSUME Settle PROVE LedgerInv'
  <2>1. /\ ledger[Current] # "NONE" /\ Current \in Call /\ Outcome \in Result
        /\ mem.index \in 1..Calls /\ UNCHANGED <<data, seen>>
    BY <1>15, <1>b DEF Settle, Executing, Outcome, Result, Settled, Reconciliation
  <2>2. CASE Tell(Outcome)
    <3>1. mem'.pending = "NONE" /\ pc' \in {"think", "call"}
      BY <2>1, <2>2, <1>b, TellOK
    <3> QED
      BY <2>1, <3>1
  <2>3. CASE Pause("RECONCILIATION")
    <3>1. /\ mem'.pending = "RECONCILIATION" /\ pc' = "persist" /\ At(mem)' = At(mem)
      BY <2>3, <1>b, PauseOK DEF Pauses, At
    <3>2. ledger'[At(mem)] # "NONE"
      BY <2>1 DEF Current, At, K
    <3> QED
      BY <2>1, <3>1, <3>2
  <2> QED
    BY <1>15, <2>2, <2>3 DEF Settle
<1>16. ASSUME SettleFails PROVE LedgerInv'
  <2>1. /\ mem'.pending = "RECONCILIATION" /\ pc' = "persist" /\ At(mem)' = At(mem)
    BY <1>16, <1>b, PauseOK DEF SettleFails, Pauses, At
  <2>2. ledger[Current] # "NONE" /\ Current \in Call /\ UNCHANGED <<data, seen>>
    BY <1>16 DEF SettleFails, Executing
  <2>3. ledger'[At(mem)] # "NONE"
    BY <2>2 DEF Current, At, K
  <2> QED
    BY <2>1, <2>2, <2>3
<1>17. ASSUME Persist PROVE LedgerInv'
  BY <1>17 DEF Persist, At
<1>18. ASSUME PersistFails PROVE LedgerInv'
  BY <1>18 DEF PersistFails, Current, At
<1>19. ASSUME Release PROVE LedgerInv'
  BY <1>19, FreshOK DEF Release, Forget
<1>20. ASSUME Interrupt PROVE LedgerInv'
  BY <1>20, FreshOK DEF Interrupt, Forget
<1>21. ASSUME Cancel PROVE LedgerInv'
  BY <1>21 DEF Cancel, Current, At
<1>22. ASSUME Sweep PROVE LedgerInv'
  BY <1>22 DEF Sweep, Current, At
<1>23. ASSUME NEW r \in Reviewer, NEW d \in Approval \cup Reconciliation, Read(r, d)
       PROVE LedgerInv'
  <2>1. UNCHANGED <<tools, run, data>> /\ \A q \in Reviewer : seen'[q] \in {seen[q], data}
    BY <1>23 DEF Read, TypeInv, TypeOK
  <2> QED
    BY <2>1 DEF Current, At
<1>24. ASSUME NEW r \in Reviewer, Resolve(r) PROVE LedgerInv'
  <2>1. UNCHANGED <<mem, pc, data, seen, executed>>
    BY <1>24 DEF Resolve
  <2>2. /\ Doubted(r) = At(seen[r]) /\ seen[r].pending = "RECONCILIATION"
        /\ \A c \in Call : c # Doubted(r) => ledger'[c] = ledger[c]
    BY <1>24 DEF Resolve, Doubted, At, TypeInv, TypeOK, Fits, Record
  <2>3. Current' = Current
    BY <2>1 DEF Current
  <2>4. pc = "execute" => ledger'[Current] = "running"
    BY <2>2 DEF Executing
  <2>5. pc \in {"complete", "fail"} => ledger'[Current] # "NONE"
    BY DEF Executing, K
  <2> QED
    BY <2>1, <2>3, <2>4, <2>5 DEF At
<1>25. ASSUME NEW r \in Reviewer, Claim(r) PROVE LedgerInv'
  <2>1. Resumed(r).pending = seen[r].pending /\ At(Resumed(r)) = At(seen[r])
    BY <1>b, ResumedOK DEF At
  <2>2. UNCHANGED <<tools, run, seen>> /\ data' \in {data, Resumed(r)}
    BY <1>25 DEF Claim
  <2>3. Current' = Current
        /\ Elsewhere(data)' = 
          (data'.pending = "RECONCILIATION" => At(data') # Current)
    BY <2>2 DEF Current, At
  <2> QED
    BY <2>1, <2>2, <2>3 DEF At
<1>26. ASSUME NEW r \in Reviewer, Deal(r) PROVE LedgerInv'
  <2>1. Resumed(r).pending = seen[r].pending /\ At(Resumed(r)) = At(seen[r])
    BY <1>b, ResumedOK DEF At
  <2>2. UNCHANGED <<tools, data, seen>> /\ mem' = Resumed(r) /\ pc' = "start"
    BY <1>26 DEF Deal
  <2> QED
    BY <2>1, <2>2 DEF At
<1>27. ASSUME NEW r \in Reviewer, Refuse(r) PROVE LedgerInv'
  BY <1>27 DEF Refuse, Current, At
<1>28. ASSUME NEW r \in Reviewer, Restore(r) PROVE LedgerInv'
  <2>1. UNCHANGED <<tools, run, seen>> /\ data' \in {data, seen[r]}
    BY <1>28 DEF Restore
  <2> QED
    BY <2>1 DEF Current, At
<1>29. ASSUME NEW r \in Reviewer, Abort(r) PROVE LedgerInv'
  BY <1>29 DEF Abort, Current, At
<1>30. CASE UNCHANGED vars
  BY <1>30 DEF vars, Current, At
<1> QED
  BY <1>1, <1>2, <1>3, <1>4, <1>5, <1>6, <1>7, <1>8, <1>9, <1>10, <1>11,
     <1>12, <1>13, <1>14, <1>15, <1>16, <1>17, <1>18, <1>19, <1>20, <1>21,
     <1>22, <1>23, <1>24, <1>25, <1>26, <1>27, <1>28, <1>29, <1>30 DEF Next,
     RunStep, RequestStep

-----------------------------------------------------------------------------
(* Where the checkpoints in the row and in the requests come from.         *)

\* The row holds what the run remembered, or what a request read of it.
LEMMA DataCopied ==
  ASSUME [Next]_vars
  PROVE  \/ data' \in {data, mem}
         \/ \E r \in Reviewer : data' \in {seen[r], Resumed(r)}
<1>1. CASE Persist
  BY <1>1 DEF Persist
<1>2. CASE \E r \in Reviewer : Claim(r) \/ Restore(r)
  BY <1>2 DEF Claim, Restore, row
<1>3. CASE ~Persist /\ ~\E r \in Reviewer : Claim(r) \/ Restore(r)
  BY <1>3 DEF Next, RunStep, RequestStep, vars, row, Begin, ResumeApproved,
      ResumeRejected, ResumeReconciled, ResumeRefused, SeeCancel, Conclude,
      Propose, SkipCancelled, ClaimCall, Replay, InDoubt, ClaimFails, Execute,
      Settle, SettleFails, PersistFails, Release, Interrupt, Cancel, Sweep,
      Resolve, Deal, Refuse, Abort, Read
<1> QED
  BY <1>1, <1>2, <1>3

\* A request holds what the row held.
LEMMA SeenCopied ==
  ASSUME TypeInv, [Next]_vars
  PROVE  \A q \in Reviewer : seen'[q] \in {seen[q], data}
<1>1. CASE \E r \in Reviewer, d \in Approval \cup Reconciliation : Read(r, d)
  BY <1>1 DEF Read, TypeInv, TypeOK
<1>2. CASE ~\E r \in Reviewer, d \in Approval \cup Reconciliation : Read(r, d)
  BY <1>2 DEF Next, RunStep, RequestStep, vars, request, Begin, ResumeApproved,
      ResumeRejected, ResumeReconciled, ResumeRefused, SeeCancel, Conclude,
      Propose, SkipCancelled, ClaimCall, Replay, InDoubt, ClaimFails, Execute,
      Settle, SettleFails, Persist, PersistFails, Release, Interrupt, Cancel,
      Sweep, Resolve, Claim, Deal, Refuse, Restore, Abort
<1> QED
  BY <1>1, <1>2

-----------------------------------------------------------------------------
(* What is told.                                                           *)

Truthful(m) == \A c \in Call : m.results[c] \in Settled => ledger[c] = m.results[c]

\* ... of the ledger as the step leaves it.
Still(m) == \A c \in Call : m.results[c] \in Settled => ledger'[c] = m.results[c]

\* ToldAsRecorded, memory by memory.
LEMMA TruthfulAll ==
  ToldAsRecorded <=>
    /\ Truthful(mem) /\ Truthful(data)
    /\ \A r \in Reviewer : Truthful(seen[r])
BY DEF ToldAsRecorded, Truthful

\* What a step makes the run's memory say is what it leaves in the ledger.
LEMMA ToldMemory ==
  ASSUME TypeInv, LedgerInv, ToldAsRecorded, [Next]_vars
  PROVE  Still(mem')
<1>a. /\ mem \in Checkpoint /\ data \in Checkpoint
      /\ pc \in Executing => mem.index \in 1..Calls
      /\ \A r \in Reviewer : seen[r] \in Checkpoint
      /\ \A r \in Reviewer : choice[r] \in Approval \cup Reconciliation
      /\ Placed(mem)
      /\ ledger \in [Call -> Settled \cup {"NONE", "running"}]
  BY DEF TypeInv, TypeOK, PlacedRun
<1>b. /\ "NONE" \notin Settled /\ "error" \notin Settled /\ "rejected" \notin Settled
      /\ "skipped" \notin Settled /\ "cancelled" \notin Settled
  BY DEF Settled, Reconciliation
<1>c. \A c \in Call : ledger[c] \in Settled => ledger'[c] = ledger[c]
  BY LedgerMonotone
<1>d. /\ Truthful(mem) /\ Truthful(data)
      /\ \A r \in Reviewer : Truthful(seen[r])
  BY TruthfulAll
\* What was truthful still is: settled is settled.
<1>e. /\ Still(mem) /\ Still(data) /\ \A r \in Reviewer : Still(seen[r])
  BY <1>c, <1>d DEF Truthful, Still
<1>f. pc \in Executing => Current \in Call
  BY CurrentOK
<1>1. ASSUME Begin PROVE Still(mem')
  BY <1>1, <1>e DEF Begin, row, tools, run, request
<1>2. ASSUME ResumeApproved PROVE Still(mem')
  <2>1. mem'.results = mem.results
    BY <1>2, <1>a DEF ResumeApproved, Pauses, Checkpoint
  <2> QED
    BY <1>e, <2>1 DEF Still
<1>3. ASSUME ResumeRejected PROVE Still(mem')
  <2>1. "rejected" \in Result
    BY DEF Result
  <2>2. \A c \in Call : mem'.results[c] \in {"rejected", mem.results[c]}
    BY <1>3, <1>a, <2>1, AnswerOK DEF ResumeRejected
  <2> QED
    BY <1>b, <1>e, <2>2 DEF Still
<1>4. ASSUME ResumeReconciled PROVE Still(mem')
  <2>1. /\ Current \in Call /\ mem.index \in 1..Calls
        /\ mem.decision \in Reconciliation
    BY <1>4, <1>a, AtOK DEF ResumeReconciled, Placed, TypeInv, Starts, At, Current
  <2>2. /\ mem'.results[Current] = mem.decision
        /\ \A c \in Call \ {Current} : mem'.results[c] \in {"skipped", mem.results[c]}
    BY <1>4, <1>a, <2>1, ReconciledOK
  <2>3. ledger'[Current] = mem.decision
    BY <1>4, <1>a, <2>1 DEF ResumeReconciled, Record
  <2> QED
    BY <1>b, <1>e, <2>2, <2>3 DEF Still
<1>5. ASSUME ResumeRefused PROVE Still(mem')
  <2>1. mem'.results = mem.results
    BY <1>5, <1>a, PauseOK DEF ResumeRefused, Pauses, Checkpoint
  <2> QED
    BY <1>e, <2>1 DEF Still
<1>6. ASSUME SeeCancel PROVE Still(mem')
  BY <1>6, <1>e DEF SeeCancel, row, tools, run, request
<1>7. ASSUME Conclude PROVE Still(mem')
  BY <1>7, <1>e DEF Conclude, row, tools, run, request
<1>8. ASSUME Propose PROVE Still(mem')
  <2>1. mem'.results = mem.results
    BY <1>8, <1>a, ProposeOK DEF TypeInv, TypeOK
  <2> QED
    BY <1>e, <2>1 DEF Still
<1>9. ASSUME SkipCancelled PROVE Still(mem')
  <2>1. mem'.results = [mem.results EXCEPT ![Current] = "cancelled"]
    BY <1>9, <1>a, TellOK DEF SkipCancelled, Result, Executing
  <2> QED
    BY <1>a, <1>b, <1>e, <1>f, <2>1 DEF Still, Checkpoint
<1>10. ASSUME ClaimCall PROVE Still(mem')
  BY <1>10, <1>e DEF ClaimCall, row, tools, run, request
<1>11. ASSUME Replay PROVE Still(mem')
  <2>1. /\ mem'.results = [mem.results EXCEPT ![Current] = ledger[Current]]
        /\ ledger' = ledger
    BY <1>11, <1>a, TellOK DEF Replay, Result, Executing, tools
  <2> QED
    BY <1>a, <1>e, <1>f, <2>1 DEF Still, Checkpoint
<1>12. ASSUME InDoubt PROVE Still(mem')
  <2>1. mem'.results = mem.results
    BY <1>12, <1>a, PauseOK DEF InDoubt, Pauses, Checkpoint
  <2> QED
    BY <1>e, <2>1 DEF Still
<1>13. ASSUME ClaimFails PROVE Still(mem')
  <2>1. mem'.results = [mem.results EXCEPT ![Current] = "error"]
    BY <1>13, <1>a, TellOK DEF ClaimFails, Result, Executing
  <2> QED
    BY <1>a, <1>b, <1>e, <1>f, <2>1 DEF Still, Checkpoint
<1>14. ASSUME Execute PROVE Still(mem')
  <2>1. mem'.results = mem.results
    BY <1>14, <1>a, PauseOK DEF Execute, Pauses
  <2> QED
    BY <1>e, <2>1 DEF Still
<1>15. ASSUME Settle PROVE Still(mem')
  <2>1. /\ Current \in Call /\ Outcome \in Result /\ mem.index \in 1..Calls
    BY <1>15, <1>a, <1>f DEF Settle, Executing, Outcome, Result, Settled, Reconciliation
  <2>2. CASE ledger[Current] = "running"
    <3>1. mem'.results = [mem.results EXCEPT ![Current] = Outcome]
      BY <1>15, <1>a, <2>1, <2>2, TellOK DEF Settle
    <3>2. ledger'[Current] = Outcome
      BY <1>15, <1>a, <2>1, <2>2 DEF Settle, Finish, Record
    <3> QED
      BY <1>a, <1>e, <2>1, <3>1, <3>2 DEF Still, Checkpoint
  <2>3. CASE ledger[Current] # "running"
    <3>1. mem'.results = mem.results
      BY <1>15, <1>a, <2>3, PauseOK DEF Settle, Pauses
    <3> QED
      BY <1>e, <3>1 DEF Still
  <2> QED
    BY <2>2, <2>3
<1>16. ASSUME SettleFails PROVE Still(mem')
  <2>1. mem'.results = mem.results
    BY <1>16, <1>a, PauseOK DEF SettleFails, Pauses, Checkpoint
  <2> QED
    BY <1>e, <2>1 DEF Still
<1>17. ASSUME Persist PROVE Still(mem')
  BY <1>17, <1>e DEF Persist, row, tools, run, request
<1>18. ASSUME PersistFails PROVE Still(mem')
  BY <1>18, <1>e DEF PersistFails, row, tools, run, request
<1>19. ASSUME Release PROVE Still(mem')
  BY <1>19, <1>b, FreshOK DEF Release, Forget, Still
<1>20. ASSUME Interrupt PROVE Still(mem')
  BY <1>20, <1>b, FreshOK DEF Interrupt, Forget, Still
<1>21. ASSUME Cancel PROVE Still(mem')
  BY <1>21, <1>e DEF Cancel, row, tools, run, request
<1>22. ASSUME Sweep PROVE Still(mem')
  BY <1>22, <1>e DEF Sweep, row, tools, run, request
<1>23. ASSUME NEW r \in Reviewer, NEW d \in Approval \cup Reconciliation, Read(r, d)
       PROVE Still(mem')
  BY <1>23, <1>e DEF Read, row, tools, run, request
<1>24. ASSUME NEW r \in Reviewer, Resolve(r) PROVE Still(mem')
  BY <1>24, <1>e DEF Resolve, row, tools, run, request
<1>25. ASSUME NEW r \in Reviewer, Claim(r) PROVE Still(mem')
  BY <1>25, <1>e DEF Claim, row, tools, run, request
<1>26. ASSUME NEW r \in Reviewer, Deal(r) PROVE Still(mem')
  <2>1. mem'.results = seen[r].results
    BY <1>26, <1>a, ResumedOK DEF Deal
  <2> QED
    BY <1>e, <2>1 DEF Still
<1>27. ASSUME NEW r \in Reviewer, Refuse(r) PROVE Still(mem')
  BY <1>27, <1>e DEF Refuse, row, tools, run, request
<1>28. ASSUME NEW r \in Reviewer, Restore(r) PROVE Still(mem')
  BY <1>28, <1>e DEF Restore, row, tools, run, request
<1>29. ASSUME NEW r \in Reviewer, Abort(r) PROVE Still(mem')
  BY <1>29, <1>e DEF Abort, row, tools, run, request
<1>30. CASE UNCHANGED vars
  BY <1>30, <1>e DEF vars, row, tools, run, request
<1> QED
  BY <1>1, <1>2, <1>3, <1>4, <1>5, <1>6, <1>7, <1>8, <1>9, <1>10, <1>11,
     <1>12, <1>13, <1>14, <1>15, <1>16, <1>17, <1>18, <1>19, <1>20, <1>21,
     <1>22, <1>23, <1>24, <1>25, <1>26, <1>27, <1>28, <1>29, <1>30 DEF Next,
     RunStep, RequestStep

\* What was told stays true: the ledger changes no outcome, and every copy of the
\* checkpoint comes from a memory that was true.
LEMMA ToldStep ==
  ASSUME TypeInv, LedgerInv, ToldAsRecorded, [Next]_vars
  PROVE  ToldAsRecorded'
<1>1. \A c \in Call : ledger[c] \in Settled => ledger'[c] = ledger[c]
  BY LedgerMonotone
<1>2. /\ Still(mem) /\ Still(data) /\ \A r \in Reviewer : Still(seen[r])
  BY <1>1, TruthfulAll DEF Truthful, Still
<1>3. \A r \in Reviewer : Resumed(r).results = seen[r].results
  BY ResumedOK DEF TypeInv, TypeOK
<1>4. Still(data')
  BY <1>2, <1>3, DataCopied DEF Still
<1>5. \A r \in Reviewer : Still(seen'[r])
  BY <1>2, SeenCopied DEF Still
<1> QED
  BY <1>4, <1>5, ToldMemory DEF ToldAsRecorded, Still

-----------------------------------------------------------------------------
(* Approval.                                                               *)

\* The run may go on with the batch this checkpoint is in.
Opens(m) == \/ m.pending = "RECONCILIATION"
            \/ m.pending = "APPROVAL" /\ m.decision = "approve"

Permitted(m) == Opens(m) /\ m.batch \in Gated => m.batch \in approved

ApprovalInv ==
  /\ OnlyApproved
  /\ pc \in Executing /\ mem.batch \in Gated => mem.batch \in approved
  /\ Permitted(mem) /\ Permitted(data) /\ \A r \in Reviewer : Permitted(seen[r])
  /\ \A r \in Reviewer :
       at[r] = "deal" /\ choice[r] = "approve" /\ seen[r].batch \in Gated =>
         seen[r].batch \in approved

\* Every step keeps the trail from an approval to the calls executed under it.
LEMMA ApprovalStep ==
  ASSUME TypeInv, ApprovalInv, [Next]_vars
  PROVE  ApprovalInv'
<1>a. /\ mem \in Checkpoint /\ data \in Checkpoint
      /\ pc \in Executing => mem.index \in 1..Calls
      /\ \A r \in Reviewer : seen[r] \in Checkpoint
      /\ \A r \in Reviewer : choice[r] \in Approval \cup Reconciliation
      /\ Placed(mem)
  BY DEF TypeInv, TypeOK, PlacedRun
<1>b. pc \in Executing => Current \in Call
  BY CurrentOK
<1> USE DEF ApprovalInv, OnlyApproved, Permitted, Opens, row, tools, run, request
<1>1. ASSUME Begin PROVE ApprovalInv'
  BY <1>1 DEF Begin, Executing
<1>2. ASSUME ResumeApproved PROVE ApprovalInv'
  <2>1. /\ mem'.pending = "NONE" /\ mem'.batch = mem.batch
    BY <1>2, <1>a DEF ResumeApproved, Checkpoint
  <2> QED
    BY <1>2, <2>1 DEF ResumeApproved
<1>3. ASSUME ResumeRejected PROVE ApprovalInv'
  <2>1. "rejected" \in Result
    BY DEF Result
  <2>2. mem'.pending = "NONE" /\ pc' = "think"
    BY <1>3, <1>a, <2>1, AnswerOK DEF ResumeRejected
  <2> QED
    BY <1>3, <2>2 DEF ResumeRejected, Executing
<1>4. ASSUME ResumeReconciled PROVE ApprovalInv'
  <2>1. /\ Current \in Call /\ mem.index \in 1..Calls
        /\ mem.decision \in Reconciliation
    BY <1>4, <1>a, AtOK DEF ResumeReconciled, Placed, TypeInv, Starts, At, Current
  <2>2. mem'.pending = "NONE" /\ mem'.batch = mem.batch
    BY <1>4, <1>a, <2>1, ReconciledOK
  <2>3. UNCHANGED <<row, executed, approved, request>> /\ mem.pending = "RECONCILIATION"
    BY <1>4 DEF ResumeReconciled
  <2> QED
    BY <2>2, <2>3
<1>5. ASSUME ResumeRefused PROVE ApprovalInv'
  <2>1. /\ mem'.pending = "RECONCILIATION" /\ mem'.batch = mem.batch /\ pc' = "persist"
        /\ mem.pending = "RECONCILIATION"
    BY <1>5, <1>a, PauseOK DEF ResumeRefused, Pauses, Executing
  <2>2. UNCHANGED <<row, executed, approved, request>>
    BY <1>5 DEF ResumeRefused
  <2> QED
    BY <2>1, <2>2 DEF Executing
<1>6. ASSUME SeeCancel PROVE ApprovalInv'
  BY <1>6 DEF SeeCancel, Executing
<1>7. ASSUME Conclude PROVE ApprovalInv'
  BY <1>7 DEF Conclude, Executing
<1>8. ASSUME Propose PROVE ApprovalInv'
  <2>1. /\ pc' \in {"persist", "call"} /\ mem'.decision = "NONE"
        /\ mem'.pending \in {"APPROVAL", "NONE"}
        /\ pc' = "call" => mem'.batch \notin Gated
    BY <1>8, <1>a, ProposeOK DEF TypeInv, TypeOK, NeedsApproval
  <2>2. UNCHANGED <<row, executed, approved, request>>
    BY <1>8 DEF Propose
  <2> QED
    BY <2>1, <2>2 DEF Executing
<1>9. ASSUME SkipCancelled PROVE ApprovalInv'
  <2>1. /\ mem'.pending = "NONE" /\ mem'.batch = mem.batch /\ pc' \in {"think", "call"}
        /\ pc \in Executing
    BY <1>9, <1>a, TellOK DEF SkipCancelled, Result, Executing
  <2>2. UNCHANGED <<row, executed, approved, request>>
    BY <1>9 DEF SkipCancelled
  <2> QED
    BY <2>1, <2>2
<1>10. ASSUME ClaimCall PROVE ApprovalInv'
  BY <1>10 DEF ClaimCall, Executing
<1>11. ASSUME Replay PROVE ApprovalInv'
  <2>1. /\ mem'.pending = "NONE" /\ mem'.batch = mem.batch /\ pc' \in {"think", "call"}
        /\ pc \in Executing
    BY <1>11, <1>a, TellOK DEF Replay, Result, Executing
  <2>2. UNCHANGED <<row, executed, approved, request>>
    BY <1>11 DEF Replay
  <2> QED
    BY <2>1, <2>2
<1>12. ASSUME InDoubt PROVE ApprovalInv'
  <2>1. /\ mem'.pending = "RECONCILIATION" /\ mem'.batch = mem.batch /\ pc' = "persist"
        /\ pc \in Executing
    BY <1>12, <1>a, PauseOK DEF InDoubt, Pauses, Executing
  <2>2. UNCHANGED <<row, executed, approved, request>>
    BY <1>12 DEF InDoubt
  <2> QED
    BY <2>1, <2>2 DEF Executing
<1>13. ASSUME ClaimFails PROVE ApprovalInv'
  <2>1. /\ mem'.pending = "NONE" /\ mem'.batch = mem.batch /\ pc' \in {"think", "call"}
        /\ pc \in Executing
    BY <1>13, <1>a, TellOK DEF ClaimFails, Result, Executing
  <2>2. UNCHANGED <<row, executed, approved, request>>
    BY <1>13 DEF ClaimFails
  <2> QED
    BY <2>1, <2>2
<1>14. ASSUME Execute PROVE ApprovalInv'
  <2>1. /\ pc \in Executing /\ Current[1] = mem.batch
        /\ UNCHANGED <<row, approved, request>>
    BY <1>14 DEF Execute, Executing, Current
  <2>2. /\ mem'.batch = mem.batch
        /\ mem'.pending = "RECONCILIATION" \/ UNCHANGED mem
        /\ pc' \in PC
    BY <1>14, <1>a, PauseOK DEF Execute, Pauses, PC
  <2>3. \A c \in Call : c # Current => executed'[c] = executed[c]
    BY <1>14 DEF Execute, TypeInv, TypeOK
  <2> QED
    BY <2>1, <2>2, <2>3
<1>15. ASSUME Settle PROVE ApprovalInv'
  <2>1. /\ Outcome \in Result /\ mem.index \in 1..Calls /\ pc \in Executing
        /\ UNCHANGED <<row, executed, approved, request>>
    BY <1>15, <1>a DEF Settle, Executing, Outcome, Result, Settled, Reconciliation
  <2>2. CASE Tell(Outcome)
    <3>1. mem'.pending = "NONE" /\ mem'.batch = mem.batch
      BY <1>a, <2>1, <2>2, TellOK
    <3> QED
      BY <2>1, <3>1
  <2>3. CASE Pause("RECONCILIATION")
    <3>1. mem'.pending = "RECONCILIATION" /\ mem'.batch = mem.batch
      BY <1>a, <2>3, PauseOK DEF Pauses
    <3> QED
      BY <2>1, <3>1
  <2> QED
    BY <1>15, <2>2, <2>3 DEF Settle
<1>16. ASSUME SettleFails PROVE ApprovalInv'
  <2>1. /\ mem'.pending = "RECONCILIATION" /\ mem'.batch = mem.batch /\ pc' = "persist"
        /\ pc \in Executing
    BY <1>16, <1>a, PauseOK DEF SettleFails, Pauses, Executing
  <2>2. UNCHANGED <<row, executed, approved, request>>
    BY <1>16 DEF SettleFails
  <2> QED
    BY <2>1, <2>2 DEF Executing
<1>17. ASSUME Persist PROVE ApprovalInv'
  BY <1>17 DEF Persist, Executing
<1>18. ASSUME PersistFails PROVE ApprovalInv'
  BY <1>18 DEF PersistFails, Executing
<1>19. ASSUME Release PROVE ApprovalInv'
  <2>1. mem'.pending = "NONE" /\ pc' = "idle" /\ UNCHANGED <<data, executed, approved, request>>
    BY <1>19, FreshOK DEF Release, Forget
  <2> QED
    BY <2>1 DEF Executing
<1>20. ASSUME Interrupt PROVE ApprovalInv'
  <2>1. mem'.pending = "NONE" /\ pc' = "idle" /\ UNCHANGED <<data, executed, approved, request>>
    BY <1>20, FreshOK DEF Interrupt, Forget
  <2> QED
    BY <2>1 DEF Executing
<1>21. ASSUME Cancel PROVE ApprovalInv'
  BY <1>21 DEF Cancel, Executing
<1>22. ASSUME Sweep PROVE ApprovalInv'
  BY <1>22 DEF Sweep, Executing
<1>23. ASSUME NEW r \in Reviewer, NEW d \in Approval \cup Reconciliation, Read(r, d)
       PROVE ApprovalInv'
  <2>1. UNCHANGED <<data, executed, approved, run>>
    BY <1>23 DEF Read
  <2>2. \A q \in Reviewer : Permitted(seen[q])'
    BY <1>23, <2>1, SeenCopied
  <2>3. /\ at'[r] = "deal" /\ choice'[r] = "approve" /\ seen'[r].batch \in Gated =>
             seen'[r].batch \in approved
        /\ \A q \in Reviewer \ {r} :
             at'[q] = at[q] /\ choice'[q] = choice[q] /\ seen'[q] = seen[q]
    BY <1>23 DEF Read, Goto, TypeInv, TypeOK, Placed, PlacedRun
  <2> QED
    BY <2>1, <2>2, <2>3
<1>24. ASSUME NEW r \in Reviewer, Resolve(r) PROVE ApprovalInv'
  <2>1. UNCHANGED <<row, executed, approved, run, seen, choice>>
    BY <1>24 DEF Resolve
  <2>2. /\ choice[r] # "approve"
        /\ \A q \in Reviewer \ {r} : at'[q] = at[q]
    BY <1>24 DEF Resolve, Goto, TypeInv, TypeOK, Fits, Reconciliation
  <2> QED
    BY <2>1, <2>2
<1>25. ASSUME NEW r \in Reviewer, Claim(r) PROVE ApprovalInv'
  <2>1. /\ Resumed(r).pending = seen[r].pending /\ Resumed(r).batch = seen[r].batch
        /\ Resumed(r).decision = choice[r]
    BY <1>a, ResumedOK
  <2>2. /\ UNCHANGED <<executed, run, seen, choice>>
        /\ \A q \in Reviewer \ {r} : at'[q] = at[q]
        /\ approved \subseteq approved'
    BY <1>25 DEF Claim, Goto, TypeInv, TypeOK
  <2>3. CASE status = seen[r].pending
    <3>1. /\ data' = Resumed(r)
          /\ choice[r] = "approve" => seen[r].batch \in approved'
      BY <1>25, <2>3 DEF Claim
    <3> QED
      BY <2>1, <2>2, <3>1
  <2>4. CASE status # seen[r].pending
    <3>1. data' = data /\ at'[r] # "deal"
      BY <1>25, <2>4 DEF Claim, Goto, TypeInv, TypeOK
    <3> QED
      BY <2>2, <3>1
  <2> QED
    BY <2>3, <2>4
<1>26. ASSUME NEW r \in Reviewer, Deal(r) PROVE ApprovalInv'
  <2>1. /\ Resumed(r).pending = seen[r].pending /\ Resumed(r).batch = seen[r].batch
        /\ Resumed(r).decision = choice[r]
    BY <1>a, ResumedOK
  <2>2. /\ mem' = Resumed(r) /\ pc' = "start" /\ at[r] = "deal"
        /\ UNCHANGED <<data, executed, approved, seen, choice>>
        /\ \A q \in Reviewer : at'[q] = "deal" => at[q] = "deal"
    BY <1>26 DEF Deal, Goto, TypeInv, TypeOK
  <2> QED
    BY <2>1, <2>2 DEF Executing
<1>27. ASSUME NEW r \in Reviewer, Refuse(r) PROVE ApprovalInv'
  <2>1. /\ UNCHANGED <<executed, approved, run, seen, choice>> /\ data' \in {data, seen[r]}
        /\ \A q \in Reviewer : at'[q] = "deal" => at[q] = "deal"
    BY <1>27 DEF Refuse, Goto, TypeInv, TypeOK
  <2> QED
    BY <2>1
<1>28. ASSUME NEW r \in Reviewer, Restore(r) PROVE ApprovalInv'
  <2>1. /\ UNCHANGED <<executed, approved, run, seen, choice>> /\ data' \in {data, seen[r]}
        /\ \A q \in Reviewer : at'[q] = "deal" => at[q] = "deal"
    BY <1>28 DEF Restore, Goto, TypeInv, TypeOK
  <2> QED
    BY <2>1
<1>29. ASSUME NEW r \in Reviewer, Abort(r) PROVE ApprovalInv'
  <2>1. /\ UNCHANGED <<executed, approved, run, seen, choice>> /\ data' \in {data, seen[r]}
        /\ \A q \in Reviewer : at'[q] = "deal" => at[q] = "deal"
    BY <1>29 DEF Abort, Goto, TypeInv, TypeOK
  <2> QED
    BY <2>1
<1>30. CASE UNCHANGED vars
  BY <1>30 DEF vars
<1> QED
  BY <1>1, <1>2, <1>3, <1>4, <1>5, <1>6, <1>7, <1>8, <1>9, <1>10, <1>11,
     <1>12, <1>13, <1>14, <1>15, <1>16, <1>17, <1>18, <1>19, <1>20, <1>21,
     <1>22, <1>23, <1>24, <1>25, <1>26, <1>27, <1>28, <1>29, <1>30 DEF Next,
     RunStep, RequestStep

-----------------------------------------------------------------------------
(* The theorems.                                                           *)

Invariant == TypeInv /\ LedgerInv /\ ToldAsRecorded /\ ApprovalInv

\* The invariant holds of a task that was just started.
LEMMA InitInvariant ==
  ASSUME Init
  PROVE  Invariant
<1>1. TypeOK
  <2>1. /\ issued \in 0..Batches /\ faults \in 0..MaxFaults
        /\ executed \in [Call -> Nat] /\ approved \subseteq Batch
    BY ConstantsAssumption DEF Init
  <2>2. /\ data \in Checkpoint /\ mem \in Checkpoint /\ seen \in [Reviewer -> Checkpoint]
    BY FreshOK DEF Init
  <2>3. /\ status \in Status /\ pc \in PC /\ cancel \in BOOLEAN /\ overlap \in BOOLEAN
        /\ ledger \in [Call -> Settled \cup {"NONE", "running"}]
        /\ at \in [Reviewer -> {"idle", "resolve", "claim", "deal", "restore", "ended"}]
        /\ choice \in [Reviewer -> Approval \cup Reconciliation]
        /\ recovers \in [Reviewer -> BOOLEAN]
    BY DEF Init, Status, PC, Approval
  <2> QED
    BY <2>1, <2>2, <2>3 DEF TypeOK
<1>2. PlacedRun /\ Starts /\ \A r \in Reviewer : Fits(r)
  BY FreshOK DEF Init, PlacedRun, Placed, Starts, Fits, Executing
<1>3. LedgerInv
  BY FreshOK DEF Init, LedgerInv, Known
<1>4. ToldAsRecorded
  BY FreshOK DEF Init, ToldAsRecorded, Settled, Reconciliation
<1>5. ApprovalInv
  BY FreshOK DEF Init, ApprovalInv, OnlyApproved, Permitted, Opens, Executing
<1> QED
  BY <1>1, <1>2, <1>3, <1>4, <1>5 DEF Invariant, TypeInv

\* The inductive invariant holds throughout.
LEMMA InvariantAlways == Spec => []Invariant
<1>1. Invariant /\ [Next]_vars => Invariant'
  BY TypeStep, LedgerInvStep, ToldStep, ApprovalStep DEF Invariant
<1> QED
  BY InitInvariant, <1>1, PTL DEF Spec

\* The types of every variable, and the places a run can pause at.
THEOREM RunTypeCorrect == Spec => []TypeOK
<1>1. Invariant => TypeOK
  BY DEF Invariant, TypeInv
<1> QED
  BY <1>1, InvariantAlways, PTL

\* Whatever pauses, duplicate decisions, lost writes and interruptions the run
\* goes through, the ledger implements SideEffects: claim, attempt and settle
\* once (execution/ledger.py).
THEOREM PromiseKept == Spec => KeepsPromise
<1>1. Init => Effects!Init
  BY DEF Init, Effects!Init
<1>2. Invariant /\ [Next]_vars => [Effects!Next]_<<ledger, executed>>
  BY LedgerStep DEF Invariant
<1> QED
  BY <1>1, <1>2, InvariantAlways, PTL DEF Spec, KeepsPromise, Effects!Spec

\* No side effect is attempted twice.
THEOREM AtMostOnceAlways == Spec => []AtMostOnce
<1>1. Invariant => AtMostOnce
  BY DEF Invariant, LedgerInv, AtMostOnce
<1> QED
  BY <1>1, InvariantAlways, PTL

\* The transcript, the checkpoint and the ledger never disagree on an outcome.
THEOREM ToldAsRecordedAlways == Spec => []ToldAsRecorded
<1>1. Invariant => ToldAsRecorded
  BY DEF Invariant
<1> QED
  BY <1>1, InvariantAlways, PTL

\* Nothing that needs an approval is executed without one.
THEOREM OnlyApprovedAlways == Spec => []OnlyApproved
<1>1. Invariant => OnlyApproved
  BY DEF Invariant, ApprovalInv
<1> QED
  BY <1>1, InvariantAlways, PTL

-----------------------------------------------------------------------------
(* Where a run can stand.                                                  *)

\* While it runs the row is not free for a reviewer, a batch in progress is not paused,
\* and only proposed batches have claimed calls.
Standing ==
  /\ pc # "idle" => status \in Active \cup {"OVER"}
  /\ pc \in Executing \cup {"think"} => mem.pending = "NONE"
  /\ mem.batch <= issued /\ data.batch <= issued
  /\ \A r \in Reviewer : seen[r].batch <= issued
  /\ \A c \in Call : c[1] > issued => ledger[c] = "NONE"

\* The ledger changes at the run's call or at the call a reviewer decides on.
LEMMA LedgerTouched ==
  ASSUME TypeInv, [Next]_vars, NEW c \in Call, ledger'[c] # ledger[c]
  PROVE  c = At(mem) \/ \E q \in Reviewer : c = At(seen[q])
<1> USE DEF TypeInv, TypeOK, tools, Record, Finish, At, Current, Doubted
<1>1. ASSUME Begin PROVE c = At(mem) \/ \E q \in Reviewer : c = At(seen[q])
  BY <1>1 DEF Begin
<1>2. ASSUME ResumeApproved PROVE c = At(mem) \/ \E q \in Reviewer : c = At(seen[q])
  BY <1>2 DEF ResumeApproved
<1>3. ASSUME ResumeRejected PROVE c = At(mem) \/ \E q \in Reviewer : c = At(seen[q])
  BY <1>3 DEF ResumeRejected
<1>4. ASSUME ResumeReconciled PROVE c = At(mem) \/ \E q \in Reviewer : c = At(seen[q])
  BY <1>4 DEF ResumeReconciled
<1>5. ASSUME ResumeRefused PROVE c = At(mem) \/ \E q \in Reviewer : c = At(seen[q])
  BY <1>5 DEF ResumeRefused
<1>6. ASSUME SeeCancel PROVE c = At(mem) \/ \E q \in Reviewer : c = At(seen[q])
  BY <1>6 DEF SeeCancel
<1>7. ASSUME Conclude PROVE c = At(mem) \/ \E q \in Reviewer : c = At(seen[q])
  BY <1>7 DEF Conclude
<1>8. ASSUME Propose PROVE c = At(mem) \/ \E q \in Reviewer : c = At(seen[q])
  BY <1>8 DEF Propose
<1>9. ASSUME SkipCancelled PROVE c = At(mem) \/ \E q \in Reviewer : c = At(seen[q])
  BY <1>9 DEF SkipCancelled
<1>10. ASSUME ClaimCall PROVE c = At(mem) \/ \E q \in Reviewer : c = At(seen[q])
  BY <1>10 DEF ClaimCall
<1>11. ASSUME Replay PROVE c = At(mem) \/ \E q \in Reviewer : c = At(seen[q])
  BY <1>11 DEF Replay
<1>12. ASSUME InDoubt PROVE c = At(mem) \/ \E q \in Reviewer : c = At(seen[q])
  BY <1>12 DEF InDoubt
<1>13. ASSUME ClaimFails PROVE c = At(mem) \/ \E q \in Reviewer : c = At(seen[q])
  BY <1>13 DEF ClaimFails
<1>14. ASSUME Execute PROVE c = At(mem) \/ \E q \in Reviewer : c = At(seen[q])
  BY <1>14 DEF Execute
<1>15. ASSUME Settle PROVE c = At(mem) \/ \E q \in Reviewer : c = At(seen[q])
  BY <1>15 DEF Settle
<1>16. ASSUME SettleFails PROVE c = At(mem) \/ \E q \in Reviewer : c = At(seen[q])
  BY <1>16 DEF SettleFails
<1>17. ASSUME Persist PROVE c = At(mem) \/ \E q \in Reviewer : c = At(seen[q])
  BY <1>17 DEF Persist
<1>18. ASSUME PersistFails PROVE c = At(mem) \/ \E q \in Reviewer : c = At(seen[q])
  BY <1>18 DEF PersistFails
<1>19. ASSUME Release PROVE c = At(mem) \/ \E q \in Reviewer : c = At(seen[q])
  BY <1>19 DEF Release
<1>20. ASSUME Interrupt PROVE c = At(mem) \/ \E q \in Reviewer : c = At(seen[q])
  BY <1>20 DEF Interrupt
<1>21. ASSUME Cancel PROVE c = At(mem) \/ \E q \in Reviewer : c = At(seen[q])
  BY <1>21 DEF Cancel
<1>22. ASSUME Sweep PROVE c = At(mem) \/ \E q \in Reviewer : c = At(seen[q])
  BY <1>22 DEF Sweep
<1>23. ASSUME NEW r \in Reviewer, NEW d \in Approval \cup Reconciliation, Read(r, d)
       PROVE c = At(mem) \/ \E q \in Reviewer : c = At(seen[q])
  BY <1>23 DEF Read
<1>24. ASSUME NEW r \in Reviewer, Resolve(r)
       PROVE c = At(mem) \/ \E q \in Reviewer : c = At(seen[q])
  BY <1>24 DEF Resolve
<1>25. ASSUME NEW r \in Reviewer, Claim(r)
       PROVE c = At(mem) \/ \E q \in Reviewer : c = At(seen[q])
  BY <1>25 DEF Claim
<1>26. ASSUME NEW r \in Reviewer, Deal(r)
       PROVE c = At(mem) \/ \E q \in Reviewer : c = At(seen[q])
  BY <1>26 DEF Deal
<1>27. ASSUME NEW r \in Reviewer, Refuse(r)
       PROVE c = At(mem) \/ \E q \in Reviewer : c = At(seen[q])
  BY <1>27 DEF Refuse
<1>28. ASSUME NEW r \in Reviewer, Restore(r)
       PROVE c = At(mem) \/ \E q \in Reviewer : c = At(seen[q])
  BY <1>28 DEF Restore
<1>29. ASSUME NEW r \in Reviewer, Abort(r)
       PROVE c = At(mem) \/ \E q \in Reviewer : c = At(seen[q])
  BY <1>29 DEF Abort
<1>30. CASE UNCHANGED vars
  BY <1>30 DEF vars
<1> QED
  BY <1>1, <1>2, <1>3, <1>4, <1>5, <1>6, <1>7, <1>8, <1>9, <1>10, <1>11, <1>12, <1>13,
     <1>14, <1>15, <1>16, <1>17, <1>18, <1>19, <1>20, <1>21, <1>22, <1>23, <1>24,
     <1>25, <1>26, <1>27, <1>28, <1>29, <1>30
  DEF Next, RunStep, RequestStep
\* Every step leaves the run and its row standing so.
LEMMA StandingStep ==
  ASSUME TypeInv, Standing, [Next]_vars
  PROVE  Standing'
<1>a. /\ mem \in Checkpoint /\ data \in Checkpoint /\ issued \in 0..Batches
      /\ \A r \in Reviewer : seen[r] \in Checkpoint
      /\ \A r \in Reviewer : choice[r] \in Approval \cup Reconciliation
      /\ Placed(mem)
      /\ pc \in Executing => mem.index \in 1..Calls
      /\ status \in Status
  BY DEF TypeInv, TypeOK, PlacedRun
<1>b. /\ issued' = issued \/ (Propose /\ issued' = issued + 1)
      /\ issued' \in Nat /\ issued <= issued'
  BY <1>a, ConstantsAssumption DEF Next, RunStep, RequestStep, vars, Begin, ResumeApproved,
     ResumeRejected, ResumeReconciled, ResumeRefused, SeeCancel, Conclude, Propose,
     SkipCancelled, ClaimCall, Replay, InDoubt, ClaimFails, Execute, Settle, SettleFails,
     Persist, PersistFails, Release, Interrupt, Cancel, Sweep, Read, Resolve, Claim, Deal,
     Refuse, Restore, Abort
<1>c. \A c \in Call : c[1] > issued' => ledger'[c] = "NONE"
  <2> SUFFICES ASSUME NEW c \in Call, c[1] > issued' PROVE ledger'[c] = "NONE"
    OBVIOUS
  <2>1. c[1] \in Nat /\ c[1] > issued
    BY <1>a, <1>b, ConstantsAssumption DEF Call, Batch
  <2>2. c # At(mem) /\ \A r \in Reviewer : c # At(seen[r])
    BY <1>a, <2>1 DEF Standing, At, Checkpoint
  <2> QED
    BY <2>1, <2>2, LedgerTouched DEF Standing
<1>d. /\ mem.batch \in Nat /\ data.batch \in Nat /\ \A r \in Reviewer : seen[r].batch \in Nat
  BY <1>a, ConstantsAssumption DEF Checkpoint
<1>e. mem.batch <= issued' /\ data.batch <= issued' /\ \A r \in Reviewer : seen[r].batch <= issued'
  BY <1>a, <1>b, <1>d DEF Standing
<1> DEFINE Rest == /\ pc' # "idle" => status' \in Active \cup {"OVER"}
                   /\ pc' \in Executing \cup {"think"} => mem'.pending = "NONE"
                   /\ mem'.batch <= issued' /\ data'.batch <= issued'
                   /\ \A r \in Reviewer : seen'[r].batch <= issued'
<1> HIDE DEF Rest
<1>1. ASSUME Begin PROVE Rest
  BY <1>e, <1>1 DEF Begin, Rest, Standing, row, run, request, Executing, Active
<1>2. ASSUME ResumeApproved PROVE Rest
  <2>1. mem'.batch = mem.batch /\ mem'.pending = "NONE"
    BY <1>2, <1>a DEF ResumeApproved, Checkpoint
  <2> QED
    BY <1>2, <1>e, <2>1 DEF ResumeApproved, Rest, Standing, row, request
<1>3. ASSUME ResumeRejected PROVE Rest
  <2>1. Answer(1, "rejected") /\ "rejected" \in Result
    BY <1>3 DEF ResumeRejected, Result
  <2>2. mem'.pending = "NONE" /\ pc' = "think" /\ mem'.batch = mem.batch
    BY <1>a, <2>1, AnswerOK DEF Answer, Checkpoint
  <2> QED
    BY <1>3, <1>e, <2>2 DEF ResumeRejected, Rest, Standing, row, request
<1>4. ASSUME ResumeReconciled PROVE Rest
  <2>1. /\ mem.decision \in Reconciliation /\ mem.index \in 1..Calls /\ Current \in Call
    BY <1>4, <1>a, AtOK DEF ResumeReconciled, Placed, TypeInv, Starts, At, Current
  <2>2. mem'.pending = "NONE" /\ pc' \in {"think", "call"} /\ mem'.batch = mem.batch
    BY <1>4, <1>a, <2>1, ReconciledOK
  <2> QED
    BY <1>4, <1>e, <2>2 DEF ResumeReconciled, Rest, Standing, row, request
<1>5. ASSUME ResumeRefused PROVE Rest
  <2>1. mem'.batch = mem.batch /\ pc' = "persist"
    BY <1>5, <1>a, PauseOK DEF ResumeRefused, Pauses
  <2> QED
    BY <1>5, <1>e, <2>1 DEF ResumeRefused, Rest, Standing, Executing, row, request
<1>6. ASSUME SeeCancel PROVE Rest
  BY <1>e, <1>6 DEF SeeCancel, Rest, Standing, row, run, request, Executing, Active
<1>7. ASSUME Conclude PROVE Rest
  BY <1>e, <1>7 DEF Conclude, Rest, Standing, row, run, request, Executing, Active
<1>8. ASSUME Propose PROVE Rest
  <2>1. /\ mem'.batch = issued + 1 /\ pc' \in {"persist", "call"}
        /\ pc' = "call" <=> mem'.pending = "NONE"
    BY <1>8, <1>a, ProposeOK
  <2>2. issued' = issued + 1 /\ UNCHANGED <<row, request>> /\ pc = "think"
    BY <1>8 DEF Propose
  <2> QED
    BY <1>8, <1>a, <1>e, <2>1, <2>2 DEF Rest, Standing, Executing, row, request
<1>9. ASSUME SkipCancelled PROVE Rest
  <2>1. Tell("cancelled") /\ "cancelled" \in Result
    BY <1>9 DEF SkipCancelled, Result, Settled, Reconciliation
  <2>2. mem'.batch = mem.batch /\ mem'.pending = "NONE" /\ pc' \in {"think", "call"}
    BY <1>9, <1>a, <2>1, TellOK DEF SkipCancelled, Executing
  <2> QED
    BY <1>9, <1>e, <2>2 DEF SkipCancelled, Rest, Standing, Executing, row, request
<1>10. ASSUME ClaimCall PROVE Rest
  BY <1>e, <1>10 DEF ClaimCall, Rest, Standing, row, run, request, Executing, Active
<1>11. ASSUME Replay PROVE Rest
  <2>1. Tell(ledger[Current]) /\ ledger[Current] \in Result
    BY <1>11 DEF Replay, Result, Settled, Reconciliation
  <2>2. mem'.batch = mem.batch /\ mem'.pending = "NONE" /\ pc' \in {"think", "call"}
    BY <1>11, <1>a, <2>1, TellOK DEF Replay, Executing
  <2> QED
    BY <1>11, <1>e, <2>2 DEF Replay, Rest, Standing, Executing, row, request
<1>12. ASSUME InDoubt PROVE Rest
  <2>1. mem'.batch = mem.batch /\ pc' = "persist"
    BY <1>12, <1>a, PauseOK DEF InDoubt, Pauses
  <2> QED
    BY <1>12, <1>e, <2>1 DEF InDoubt, Rest, Standing, Executing, row, request
<1>13. ASSUME ClaimFails PROVE Rest
  <2>1. Tell("error") /\ "error" \in Result
    BY <1>13 DEF ClaimFails, Result, Settled, Reconciliation
  <2>2. mem'.batch = mem.batch /\ mem'.pending = "NONE" /\ pc' \in {"think", "call"}
    BY <1>13, <1>a, <2>1, TellOK DEF ClaimFails, Executing
  <2> QED
    BY <1>13, <1>e, <2>2 DEF ClaimFails, Rest, Standing, Executing, row, request
<1>14. ASSUME Execute PROVE Rest
  <2>1. CASE Pause("RECONCILIATION")
    <3>1. mem'.batch = mem.batch /\ pc' = "persist"
      BY <2>1, <1>a, PauseOK DEF Pauses
    <3> QED
      BY <1>14, <1>e, <3>1 DEF Execute, Rest, Standing, Executing, row, request
  <2>2. CASE pc' \in {"complete", "fail"} /\ UNCHANGED mem
    BY <1>14, <1>e, <2>2 DEF Execute, Rest, Standing, Executing, row, request
  <2> QED
    BY <1>14, <2>1, <2>2 DEF Execute
<1>15. ASSUME Settle PROVE Rest
  <2>1. CASE Pause("RECONCILIATION")
    <3>1. mem'.batch = mem.batch /\ pc' = "persist"
      BY <2>1, <1>a, PauseOK DEF Pauses
    <3> QED
      BY <1>15, <1>e, <3>1 DEF Settle, Rest, Standing, Executing, row, request
  <2>2. CASE Tell(Outcome)
    <3>1. Outcome \in Result /\ mem.index \in 1..Calls
      BY <1>15, <1>a DEF Settle, Outcome, Result, Settled, Reconciliation, Executing
    <3>2. mem'.batch = mem.batch /\ mem'.pending = "NONE" /\ pc' \in {"think", "call"}
      BY <2>2, <3>1, <1>a, TellOK
    <3> QED
      BY <1>15, <1>e, <3>2 DEF Settle, Rest, Standing, Executing, row, request
  <2> QED
    BY <1>15, <2>1, <2>2 DEF Settle
<1>16. ASSUME SettleFails PROVE Rest
  <2>1. mem'.batch = mem.batch /\ pc' = "persist"
    BY <1>16, <1>a, PauseOK DEF SettleFails, Pauses
  <2> QED
    BY <1>16, <1>e, <2>1 DEF SettleFails, Rest, Standing, Executing, row, request
<1>17. ASSUME Persist PROVE Rest
  BY <1>e, <1>17 DEF Persist, Rest, Standing, row, run, request, Executing, Active
<1>18. ASSUME PersistFails PROVE Rest
  BY <1>e, <1>18 DEF PersistFails, Rest, Standing, row, run, request, Executing, Active
<1>19. ASSUME Release PROVE Rest
  <2>1. mem' = Fresh /\ pc' = "idle" /\ UNCHANGED <<data, seen, issued>>
    BY <1>19 DEF Release, Forget, request
  <2>2. mem'.batch <= issued'
    BY <1>a, <2>1, ConstantsAssumption DEF Fresh
  <2> QED
    BY <1>e, <2>1, <2>2 DEF Rest, Executing
<1>20. ASSUME Interrupt PROVE Rest
  <2>1. mem' = Fresh /\ pc' = "idle" /\ UNCHANGED <<data, seen, issued>>
    BY <1>20 DEF Interrupt, Forget, request
  <2>2. mem'.batch <= issued'
    BY <1>a, <2>1, ConstantsAssumption DEF Fresh
  <2> QED
    BY <1>e, <2>1, <2>2 DEF Rest, Executing
<1>21. ASSUME Cancel PROVE Rest
  BY <1>e, <1>21 DEF Cancel, Rest, Standing, row, run, request, Executing, Active
<1>22. ASSUME Sweep PROVE Rest
  BY <1>e, <1>22 DEF Sweep, Rest, Standing, row, run, request, Executing, Active
<1>23. ASSUME NEW r \in Reviewer, NEW d \in Approval \cup Reconciliation, Read(r, d)
       PROVE Rest
  <2>1. UNCHANGED <<row, run, issued>> /\ \A q \in Reviewer : seen'[q] \in {seen[q], data}
    BY <1>23 DEF Read, TypeInv, TypeOK
  <2> QED
    BY <1>e, <2>1 DEF Rest, Standing, run, row, Executing
<1>24. ASSUME NEW r \in Reviewer, Resolve(r) PROVE Rest
  BY <1>e, <1>24 DEF Resolve, Rest, Standing, row, run, request, Executing, Active
<1>25. ASSUME NEW r \in Reviewer, Claim(r) PROVE Rest
  <2>1. Resumed(r).batch = seen[r].batch
    BY <1>a, ResumedOK
  <2>2. /\ UNCHANGED <<run, seen, issued>>
        /\ \/ status = seen[r].pending /\ data' = Resumed(r)
           \/ UNCHANGED row
    BY <1>25 DEF Claim
  <2>3. at[r] = "claim" /\ seen[r].pending \in Pauses
    BY <1>25, <1>a DEF Claim, TypeInv, Fits, Checkpoint
  <2>4. pc # "idle" => UNCHANGED status
    BY <2>2, <2>3 DEF Standing, Active, Pauses, row
  <2> QED
    BY <1>e, <2>1, <2>2, <2>4 DEF Rest, Standing, run, row, Executing
<1>26. ASSUME NEW r \in Reviewer, Deal(r) PROVE Rest
  <2>1. Resumed(r).batch = seen[r].batch
    BY <1>a, ResumedOK
  <2> QED
    BY <1>26, <1>e, <2>1 DEF Deal, Rest, Standing, Executing, Active
<1>27. ASSUME NEW r \in Reviewer, Refuse(r) PROVE Rest
  BY <1>e, <1>27 DEF Refuse, Rest, Standing, row, run, request, Executing, Active
<1>28. ASSUME NEW r \in Reviewer, Restore(r) PROVE Rest
  <2>1. /\ UNCHANGED <<run, seen, issued>> /\ data' \in {data, seen[r]}
        /\ status # "INIT" => UNCHANGED status
    BY <1>28 DEF Restore, row
  <2> QED
    BY <1>e, <2>1 DEF Rest, Standing, run, Executing, Active
<1>29. ASSUME NEW r \in Reviewer, Abort(r) PROVE Rest
  BY <1>e, <1>29 DEF Abort, Rest, Standing, row, run, request, Executing, Active
<1>30. ASSUME UNCHANGED vars PROVE Rest
  BY <1>e, <1>30 DEF vars, Rest, Standing, row, run, request, Executing
<1>f. Rest
  BY <1>1, <1>2, <1>3, <1>4, <1>5, <1>6, <1>7, <1>8, <1>9, <1>10, <1>11, <1>12, <1>13,
     <1>14, <1>15, <1>16, <1>17, <1>18, <1>19, <1>20, <1>21, <1>22, <1>23, <1>24,
     <1>25, <1>26, <1>27, <1>28, <1>29, <1>30
  DEF Next, RunStep, RequestStep
<1> QED
  BY <1>c, <1>f DEF Rest, Standing

-----------------------------------------------------------------------------
(* What the checkpoints hold as long as no write fails.                    *)

Disputable == {"running"} \cup Reconciliation

\* The ledger can take a verdict on the call a checkpoint is in doubt of.
Undecided(m) == m.pending = "RECONCILIATION" => ledger[At(m)] \in Disputable

Kept ==
  faults = 0 =>
    /\ Undecided(mem) /\ Undecided(data) /\ \A r \in Reviewer : Undecided(seen[r])
    /\ pc \in {"execute", "complete", "fail"} =>
         /\ ledger[Current] = "running"
         /\ Elsewhere(data) /\ \A r \in Reviewer : Elsewhere(seen[r])
    /\ pc = "release" => data = mem
    /\ status \in Pauses => data.pending = status

\* A call in doubt remains so until a person decides, unless it is the run's own.
LEMMA DoubtStays ==
  ASSUME TypeInv, [Next]_vars, NEW c \in Call, ledger[c] \in Disputable,
         pc \in {"complete", "fail"} => c # Current
  PROVE  ledger'[c] \in Disputable
<1>a. /\ ledger \in [Call -> Settled \cup {"NONE", "running"}]
      /\ \A r \in Reviewer : at[r] = "resolve" => choice[r] \in Reconciliation
      /\ pc = "start" /\ mem.pending = "RECONCILIATION" => mem.decision \in Reconciliation
      /\ "NONE" \notin Disputable
  BY DEF TypeInv, TypeOK, Fits, Starts, Disputable, Reconciliation
<1> USE DEF tools, Record, Finish, Disputable
<1>1. ASSUME Begin PROVE ledger'[c] \in Disputable
  BY <1>a, <1>1 DEF Begin
<1>2. ASSUME ResumeApproved PROVE ledger'[c] \in Disputable
  BY <1>a, <1>2 DEF ResumeApproved
<1>3. ASSUME ResumeRejected PROVE ledger'[c] \in Disputable
  BY <1>a, <1>3 DEF ResumeRejected
<1>4. ASSUME ResumeReconciled PROVE ledger'[c] \in Disputable
  BY <1>a, <1>4 DEF ResumeReconciled
<1>5. ASSUME ResumeRefused PROVE ledger'[c] \in Disputable
  BY <1>a, <1>5 DEF ResumeRefused
<1>6. ASSUME SeeCancel PROVE ledger'[c] \in Disputable
  BY <1>a, <1>6 DEF SeeCancel
<1>7. ASSUME Conclude PROVE ledger'[c] \in Disputable
  BY <1>a, <1>7 DEF Conclude
<1>8. ASSUME Propose PROVE ledger'[c] \in Disputable
  BY <1>a, <1>8 DEF Propose
<1>9. ASSUME SkipCancelled PROVE ledger'[c] \in Disputable
  BY <1>a, <1>9 DEF SkipCancelled
<1>10. ASSUME ClaimCall PROVE ledger'[c] \in Disputable
  BY <1>a, <1>10 DEF ClaimCall
<1>11. ASSUME Replay PROVE ledger'[c] \in Disputable
  BY <1>a, <1>11 DEF Replay
<1>12. ASSUME InDoubt PROVE ledger'[c] \in Disputable
  BY <1>a, <1>12 DEF InDoubt
<1>13. ASSUME ClaimFails PROVE ledger'[c] \in Disputable
  BY <1>a, <1>13 DEF ClaimFails
<1>14. ASSUME Execute PROVE ledger'[c] \in Disputable
  BY <1>a, <1>14 DEF Execute
<1>15. ASSUME Settle PROVE ledger'[c] \in Disputable
  BY <1>a, <1>15 DEF Settle
<1>16. ASSUME SettleFails PROVE ledger'[c] \in Disputable
  BY <1>a, <1>16 DEF SettleFails
<1>17. ASSUME Persist PROVE ledger'[c] \in Disputable
  BY <1>a, <1>17 DEF Persist
<1>18. ASSUME PersistFails PROVE ledger'[c] \in Disputable
  BY <1>a, <1>18 DEF PersistFails
<1>19. ASSUME Release PROVE ledger'[c] \in Disputable
  BY <1>a, <1>19 DEF Release
<1>20. ASSUME Interrupt PROVE ledger'[c] \in Disputable
  BY <1>a, <1>20 DEF Interrupt
<1>21. ASSUME Cancel PROVE ledger'[c] \in Disputable
  BY <1>a, <1>21 DEF Cancel
<1>22. ASSUME Sweep PROVE ledger'[c] \in Disputable
  BY <1>a, <1>22 DEF Sweep
<1>23. ASSUME NEW r \in Reviewer, NEW d \in Approval \cup Reconciliation, Read(r, d)
       PROVE ledger'[c] \in Disputable
  BY <1>a, <1>23 DEF Read
<1>24. ASSUME NEW r \in Reviewer, Resolve(r) PROVE ledger'[c] \in Disputable
  BY <1>a, <1>24 DEF Resolve
<1>25. ASSUME NEW r \in Reviewer, Claim(r) PROVE ledger'[c] \in Disputable
  BY <1>a, <1>25 DEF Claim
<1>26. ASSUME NEW r \in Reviewer, Deal(r) PROVE ledger'[c] \in Disputable
  BY <1>a, <1>26 DEF Deal
<1>27. ASSUME NEW r \in Reviewer, Refuse(r) PROVE ledger'[c] \in Disputable
  BY <1>a, <1>27 DEF Refuse
<1>28. ASSUME NEW r \in Reviewer, Restore(r) PROVE ledger'[c] \in Disputable
  BY <1>a, <1>28 DEF Restore
<1>29. ASSUME NEW r \in Reviewer, Abort(r) PROVE ledger'[c] \in Disputable
  BY <1>a, <1>29 DEF Abort
<1>30. CASE UNCHANGED vars
  BY <1>a, <1>30 DEF vars
<1> QED
  BY <1>1, <1>2, <1>3, <1>4, <1>5, <1>6, <1>7, <1>8, <1>9, <1>10, <1>11, <1>12, <1>13,
     <1>14, <1>15, <1>16, <1>17, <1>18, <1>19, <1>20, <1>21, <1>22, <1>23, <1>24,
     <1>25, <1>26, <1>27, <1>28, <1>29, <1>30
  DEF Next, RunStep, RequestStep

\* No step that succeeds breaks it.
LEMMA KeptStep ==
  ASSUME TypeInv, LedgerInv, Standing, Kept, [Next]_vars
  PROVE  Kept'
<1> SUFFICES ASSUME faults' = 0 PROVE Kept'
  BY DEF Kept
<1>a. /\ mem \in Checkpoint /\ data \in Checkpoint
      /\ \A r \in Reviewer : seen[r] \in Checkpoint
      /\ \A r \in Reviewer : choice[r] \in Approval \cup Reconciliation
      /\ Placed(mem) /\ Placed(data) /\ \A r \in Reviewer : Placed(seen[r])
      /\ pc \in Executing => mem.index \in 1..Calls /\ Current \in Call
      /\ status \in Status /\ faults \in Nat
      /\ ledger \in [Call -> Settled \cup {"NONE", "running"}]
  BY CurrentOK, ConstantsAssumption DEF TypeInv, TypeOK, PlacedRun
<1>b. faults = 0
  BY <1>a DEF Next, RunStep, RequestStep, vars, Begin, ResumeApproved,
     ResumeRejected, ResumeReconciled, ResumeRefused, SeeCancel, Conclude, Propose,
     SkipCancelled, ClaimCall, Replay, InDoubt, ClaimFails, Execute, Settle, SettleFails,
     Persist, PersistFails, Release, Interrupt, Cancel, Sweep, Read, Resolve, Claim, Deal,
     Refuse, Restore, Abort, Fault
<1>c. ASSUME NEW m, Placed(m), Undecided(m), pc \in {"complete", "fail"} => Elsewhere(m)
      PROVE  m.pending = "RECONCILIATION" => ledger'[At(m)] \in Disputable
  BY <1>c, DoubtStays, AtOK DEF Undecided, Elsewhere
<1>d. /\ data.pending = "RECONCILIATION" => ledger'[At(data)] \in Disputable
      /\ \A r \in Reviewer :
           seen[r].pending = "RECONCILIATION" => ledger'[At(seen[r])] \in Disputable
      /\ mem.pending = "RECONCILIATION" => ledger'[At(mem)] \in Disputable
  BY <1>a, <1>b, <1>c DEF Kept, Standing, Executing
<1> DEFINE Doubts == /\ mem'.pending = "RECONCILIATION" => ledger'[At(mem')] \in Disputable
                     /\ data'.pending = "RECONCILIATION" => ledger'[At(data')] \in Disputable
                     /\ \A r \in Reviewer : seen'[r].pending = "RECONCILIATION"
                                              => ledger'[At(seen'[r])] \in Disputable
           Apart == pc' \in {"execute", "complete", "fail"} =>
                      /\ ledger'[<<mem'.batch, mem'.index>>] = "running"
                      /\ data'.pending = "RECONCILIATION" => At(data') # <<mem'.batch, mem'.index>>
                      /\ \A r \in Reviewer : seen'[r].pending = "RECONCILIATION"
                                               => At(seen'[r]) # <<mem'.batch, mem'.index>>
           Rows == /\ pc' = "release" => data' = mem'
                   /\ status' \in Pauses => data'.pending = status'
           Goal == Doubts /\ Apart /\ Rows
<1>e. Goal => Kept'
  BY DEF Kept, Undecided, Elsewhere, At, Current
<1>f. /\ pc \in {"execute", "complete", "fail"} =>
         /\ ledger[Current] = "running"
         /\ data.pending = "RECONCILIATION" => At(data) # Current
         /\ \A r \in Reviewer : seen[r].pending = "RECONCILIATION" => At(seen[r]) # Current
      /\ pc = "release" => data = mem
      /\ status \in Pauses => data.pending = status
  BY <1>b DEF Kept, Elsewhere
<1> HIDE DEF Disputable
<1>1. ASSUME Begin PROVE Goal
  BY <1>d, <1>f, <1>1 DEF Begin, Current, row, run, request, tools
<1>2. ASSUME ResumeApproved PROVE Goal
  <2>1. mem'.pending = "NONE"
    BY <1>2, <1>a DEF ResumeApproved, Checkpoint
  <2> QED
    BY <1>2, <1>d, <1>f, <2>1 DEF ResumeApproved, row, request, tools
<1>3. ASSUME ResumeRejected PROVE Goal
  <2>1. Answer(1, "rejected") /\ "rejected" \in Result
    BY <1>3 DEF ResumeRejected, Result
  <2>2. mem'.pending = "NONE" /\ pc' = "think"
    BY <1>a, <2>1, AnswerOK
  <2> QED
    BY <1>3, <1>d, <1>f, <2>2 DEF ResumeRejected, row, request, tools
<1>4. ASSUME ResumeReconciled PROVE Goal
  <2>1. /\ mem.decision \in Reconciliation /\ mem.index \in 1..Calls /\ Current \in Call
    BY <1>4, <1>a, AtOK DEF ResumeReconciled, Placed, TypeInv, Starts, At, Current
  <2>2. mem'.pending = "NONE" /\ pc' \in {"think", "call"}
    BY <1>4, <1>a, <2>1, ReconciledOK
  <2> QED
    BY <1>4, <1>d, <1>f, <2>2 DEF ResumeReconciled, row, request
<1>5. ASSUME ResumeRefused PROVE Goal
  <2>1. mem'.pending = "RECONCILIATION" /\ pc' = "persist" /\ At(mem') = At(mem)
    BY <1>5, <1>a, PauseOK DEF ResumeRefused, Pauses, At
  <2>2. pc = "start" /\ mem.pending = "RECONCILIATION" /\ UNCHANGED <<row, request>>
    BY <1>5 DEF ResumeRefused
  <2> QED
    BY <1>d, <1>f, <2>1, <2>2 DEF row, request
<1>6. ASSUME SeeCancel PROVE Goal
  BY <1>d, <1>f, <1>6 DEF SeeCancel, Current, row, run, request, tools
<1>7. ASSUME Conclude PROVE Goal
  BY <1>d, <1>f, <1>7 DEF Conclude, Current, row, run, request, tools
<1>8. ASSUME Propose PROVE Goal
  <2>1. mem'.pending # "RECONCILIATION" /\ pc' \in {"persist", "call"}
    BY <1>8, <1>a, ProposeOK DEF TypeInv, TypeOK
  <2> QED
    BY <1>8, <1>d, <1>f, <2>1 DEF Propose, row, request, tools
<1>9. ASSUME SkipCancelled PROVE Goal
  <2>1. Tell("cancelled") /\ "cancelled" \in Result
    BY <1>9, <1>a DEF SkipCancelled, Result, Settled, Reconciliation
  <2>2. mem'.pending = "NONE" /\ pc' \in {"think", "call"}
    BY <1>9, <1>a, <2>1, TellOK DEF SkipCancelled, Executing
  <2> QED
    BY <1>9, <1>d, <1>f, <2>2 DEF SkipCancelled, row, request
<1>10. ASSUME ClaimCall PROVE Goal
  <2>1. /\ Current \in Call /\ ledger[Current] = "NONE" /\ pc = "call"
        /\ ledger' = [ledger EXCEPT ![Current] = "running"]
        /\ UNCHANGED <<row, mem, request>>
    BY <1>10, <1>a DEF ClaimCall, Claimable, Record, Executing
  <2>2. ledger'[Current] = "running"
    BY <1>a, <2>1
  <2>3. /\ data.pending = "RECONCILIATION" => At(data) # Current
        /\ \A r \in Reviewer : seen[r].pending = "RECONCILIATION" => At(seen[r]) # Current
    BY <2>1 DEF LedgerInv, Known
  <2> QED
    BY <1>10, <1>d, <1>f, <2>1, <2>2, <2>3 DEF ClaimCall, row, request, Current
<1>11. ASSUME Replay PROVE Goal
  <2>1. Tell(ledger[Current]) /\ ledger[Current] \in Result
    BY <1>11, <1>a DEF Replay, Result, Settled, Reconciliation
  <2>2. mem'.pending = "NONE" /\ pc' \in {"think", "call"}
    BY <1>11, <1>a, <2>1, TellOK DEF Replay, Executing
  <2> QED
    BY <1>11, <1>d, <1>f, <2>2 DEF Replay, row, request
<1>12. ASSUME InDoubt PROVE Goal
  <2>1. mem'.pending = "RECONCILIATION" /\ pc' = "persist" /\ At(mem') = Current
    BY <1>12, <1>a, PauseOK DEF InDoubt, Pauses, At, Current
  <2>2. UNCHANGED <<row, request, ledger>> /\ ledger[Current] \in Disputable
    BY <1>12 DEF InDoubt, tools, Disputable
  <2> QED
    BY <1>d, <1>f, <2>1, <2>2 DEF row, request
<1>13. ASSUME ClaimFails PROVE Goal
  <2>1. Tell("error") /\ "error" \in Result
    BY <1>13, <1>a DEF ClaimFails, Result, Settled, Reconciliation
  <2>2. mem'.pending = "NONE" /\ pc' \in {"think", "call"}
    BY <1>13, <1>a, <2>1, TellOK DEF ClaimFails, Executing
  <2> QED
    BY <1>13, <1>d, <1>f, <2>2 DEF ClaimFails, row, request
<1>14. ASSUME Execute PROVE Goal
  <2>1. pc = "execute" /\ UNCHANGED <<row, request, ledger>> /\ Current \in Call
    BY <1>14, <1>a DEF Execute, Executing
  <2>2. CASE Pause("RECONCILIATION")
    <3>1. mem'.pending = "RECONCILIATION" /\ pc' = "persist" /\ At(mem') = Current
      BY <2>2, <1>a, PauseOK DEF Pauses, At, Current
    <3>2. ledger'[Current] \in Disputable
      BY <1>f, <2>1 DEF Disputable
    <3> QED
      BY <1>d, <1>f, <2>1, <3>1, <3>2 DEF row, request
  <2>3. CASE pc' \in {"complete", "fail"} /\ UNCHANGED mem
    BY <1>d, <1>f, <2>1, <2>3 DEF row, request, Current
  <2> QED
    BY <1>14, <2>2, <2>3 DEF Execute
<1>15. ASSUME Settle PROVE Goal
  <2>1. /\ ledger[Current] = "running" /\ mem.index \in 1..Calls
        /\ Outcome \in Result /\ Tell(Outcome) /\ UNCHANGED <<row, request>>
    BY <1>15, <1>a, <1>f DEF Settle, Executing, Outcome, Result, Settled, Reconciliation
  <2>2. mem'.pending = "NONE" /\ pc' \in {"think", "call"}
    BY <1>a, <2>1, TellOK
  <2> QED
    BY <1>d, <1>f, <2>1, <2>2 DEF row, request
<1>16. ASSUME SettleFails PROVE Goal
  BY <1>16, <1>a, <1>b DEF SettleFails, Fault
<1>17. ASSUME Persist PROVE Goal
  <2>1. data' = mem /\ pc = "persist" /\ pc' = "release" /\ UNCHANGED <<status, mem, seen>>
    BY <1>17 DEF Persist, request
  <2>2. status' \notin Pauses
    BY <2>1 DEF Standing, Active, Pauses
  <2> QED
    BY <1>d, <2>1, <2>2
<1>18. ASSUME PersistFails PROVE Goal
  BY <1>18, <1>a, <1>b DEF PersistFails, Fault
<1>19. ASSUME Release PROVE Goal
  <2>1. /\ mem'.pending = "NONE" /\ pc' = "idle" /\ UNCHANGED <<data, seen>>
        /\ data = mem
        /\ status' = IF status \in Active THEN Returned ELSE status
    BY <1>19, <1>f, FreshOK DEF Release, Forget, request
  <2>2. status' \in Pauses => data'.pending = status'
    BY <1>f, <2>1 DEF Returned, Pauses
  <2> QED
    BY <1>d, <2>1, <2>2
<1>20. ASSUME Interrupt PROVE Goal
  <2>1. /\ mem'.pending = "NONE" /\ pc' = "idle" /\ UNCHANGED <<data, seen>>
        /\ status' \in {status, "OVER"}
    BY <1>20, FreshOK DEF Interrupt, Forget, request
  <2>2. "OVER" \notin Pauses
    BY DEF Pauses
  <2> QED
    BY <1>d, <1>f, <2>1, <2>2
<1>21. ASSUME Cancel PROVE Goal
  <2>1. status' \notin Pauses /\ UNCHANGED <<data, tools, run, request>>
    BY <1>21 DEF Cancel, Pauses
  <2> QED
    BY <1>d, <1>f, <2>1 DEF tools, run, request, Current
<1>22. ASSUME Sweep PROVE Goal
  <2>1. status' \notin Pauses /\ UNCHANGED <<data, tools, run, request>>
    BY <1>22 DEF Sweep, Pauses
  <2> QED
    BY <1>d, <1>f, <2>1 DEF tools, run, request, Current
<1>23. ASSUME NEW r \in Reviewer, NEW d \in Approval \cup Reconciliation, Read(r, d)
       PROVE Goal
  <2>1. /\ UNCHANGED <<row, run, tools>>
        /\ \A q \in Reviewer : seen'[q] \in {seen[q], data}
    BY <1>23 DEF Read, TypeInv, TypeOK
  <2> QED
    BY <1>d, <1>f, <2>1 DEF row, run, tools, Current
<1>24. ASSUME NEW r \in Reviewer, Resolve(r) PROVE Goal
  <2>1. /\ UNCHANGED <<row, run, seen>> /\ Doubted(r) = At(seen[r])
        /\ seen[r].pending = "RECONCILIATION"
        /\ \A c \in Call : c # Doubted(r) => ledger'[c] = ledger[c]
    BY <1>24, <1>a DEF Resolve, Doubted, At, TypeInv, Fits, Record
  <2>2. pc \in {"execute", "complete", "fail"} => ledger'[Current] = "running"
    BY <1>a, <1>f, <2>1 DEF Executing
  <2>3. pc \in {"complete", "fail"} => mem.pending # "RECONCILIATION"
    BY DEF Standing, Executing
  <2> QED
    BY <1>d, <1>f, <2>1, <2>2, <2>3 DEF row, run, Current
<1>25. ASSUME NEW r \in Reviewer, Claim(r) PROVE Goal
  <2>1. /\ Resumed(r).pending = seen[r].pending /\ At(Resumed(r)) = At(seen[r])
    BY <1>a, ResumedOK DEF At
  <2>2. /\ UNCHANGED <<run, seen, tools>>
        /\ \/ status' = "INIT" /\ data' = Resumed(r) /\ status = seen[r].pending
           \/ UNCHANGED row
    BY <1>25 DEF Claim
  <2>3. status = seen[r].pending => pc = "idle"
    BY <1>25, <1>a DEF Claim, TypeInv, Fits, Checkpoint, Standing, Active, Pauses
  <2>4. "INIT" \notin Pauses
    BY DEF Pauses
  <2> QED
    BY <1>d, <1>f, <2>1, <2>2, <2>3, <2>4 DEF row, run, tools, Current
<1>26. ASSUME NEW r \in Reviewer, Deal(r) PROVE Goal
  <2>1. /\ Resumed(r).pending = seen[r].pending /\ At(Resumed(r)) = At(seen[r])
    BY <1>a, ResumedOK DEF At
  <2>2. /\ UNCHANGED <<data, tools, seen>> /\ status' = "PROCESSING" /\ "PROCESSING" \notin Pauses
        /\ mem' = Resumed(r) /\ pc' = "start"
    BY <1>26 DEF Deal, Pauses
  <2> QED
    BY <1>d, <1>f, <2>1, <2>2
<1>27. ASSUME NEW r \in Reviewer, Refuse(r) PROVE Goal
  BY <1>d, <1>f, <1>27 DEF Refuse, Current, row, run, request, tools
<1>28. ASSUME NEW r \in Reviewer, Restore(r) PROVE Goal
  <2>1. /\ UNCHANGED <<run, seen, tools>>
        /\ \/ status' = seen[r].pending /\ data' = seen[r] /\ status = "INIT"
           \/ UNCHANGED row
    BY <1>28 DEF Restore
  <2>2. status = "INIT" => pc = "idle"
    BY DEF Standing, Active
  <2> QED
    BY <1>d, <1>f, <2>1, <2>2 DEF row, run, tools, Current
<1>29. ASSUME NEW r \in Reviewer, Abort(r) PROVE Goal
  BY <1>d, <1>f, <1>29 DEF Abort, Current, row, run, request, tools
<1>30. ASSUME UNCHANGED vars PROVE Goal
  BY <1>d, <1>f, <1>30 DEF vars, Current, row, run, request, tools
<1>g. Goal
  BY <1>1, <1>2, <1>3, <1>4, <1>5, <1>6, <1>7, <1>8, <1>9, <1>10, <1>11, <1>12, <1>13,
     <1>14, <1>15, <1>16, <1>17, <1>18, <1>19, <1>20, <1>21, <1>22, <1>23, <1>24,
     <1>25, <1>26, <1>27, <1>28, <1>29, <1>30
  DEF Next, RunStep, RequestStep
<1> QED
  BY <1>e, <1>g

-----------------------------------------------------------------------------
(* Reviewers that do not overlap.                                          *)

Acting(r) == at[r] \notin {"idle", "ended"}

\* The row can still be resumed.
Open == status \in Pauses \cup {"INIT"}

\* The row is as the request in progress expects it.
InStep(r) ==
  /\ at[r] = "resolve" => data = seen[r]
       /\ IF recovers[r] THEN status = "INIT" /\ data = Resumed(r)
                         ELSE status = seen[r].pending
  /\ at[r] = "claim" => data = seen[r] /\ status = seen[r].pending
  /\ at[r] \in {"deal", "restore"} => data = Resumed(r) /\ status = "INIT"

\* One request at a time is in progress, and only while the run stands still.
Alone ==
  ~overlap =>
    /\ \A r, q \in Reviewer : Acting(r) /\ Acting(q) => r = q
    /\ \A r \in Reviewer : Acting(r) => pc = "idle"
    /\ Open => \A r \in Reviewer : InStep(r)

\* Every step keeps it that one request at a time is in progress.
LEMMA AloneStep ==
  ASSUME TypeInv, Standing, Alone, [Next]_vars
  PROVE  Alone'
<1> SUFFICES ASSUME ~overlap' PROVE Alone'
  BY DEF Alone
<1>a. /\ data \in Checkpoint /\ \A r \in Reviewer : seen[r] \in Checkpoint
      /\ \A r \in Reviewer : choice[r] \in Approval \cup Reconciliation
      /\ at \in [Reviewer -> {"idle", "resolve", "claim", "deal", "restore", "ended"}]
      /\ status \in Status /\ overlap \in BOOLEAN
      /\ seen \in [Reviewer -> Checkpoint] /\ recovers \in [Reviewer -> BOOLEAN]
      /\ choice \in [Reviewer -> Approval \cup Reconciliation]
  BY DEF TypeInv, TypeOK
<1>b. ~overlap
  BY <1>a DEF Next, RunStep, RequestStep, vars, request, Begin, ResumeApproved,
     ResumeRejected, ResumeReconciled, ResumeRefused, SeeCancel, Conclude, Propose,
     SkipCancelled, ClaimCall, Replay, InDoubt, ClaimFails, Execute, Settle, SettleFails,
     Persist, PersistFails, Release, Interrupt, Cancel, Sweep, Read, Resolve, Claim, Deal,
     Refuse, Restore, Abort
<1>c. /\ \A r, q \in Reviewer : Acting(r) /\ Acting(q) => r = q
      /\ \A r \in Reviewer : Acting(r) => pc = "idle"
      /\ Open => \A r \in Reviewer : InStep(r)
  BY <1>b DEF Alone
\* While the run takes a step no request is in progress.
<1>d. ASSUME pc # "idle", UNCHANGED request PROVE Alone'
  <2>1. \A r \in Reviewer : at'[r] \in {"idle", "ended"}
    BY <1>a, <1>c, <1>d DEF Acting, request
  <2> QED
    BY <2>1 DEF Alone, Acting, InStep
<1>1. ASSUME Begin PROVE Alone'
  BY <1>d, <1>1 DEF Begin
<1>2. ASSUME ResumeApproved PROVE Alone'
  BY <1>d, <1>2 DEF ResumeApproved
<1>3. ASSUME ResumeRejected PROVE Alone'
  BY <1>d, <1>3 DEF ResumeRejected
<1>4. ASSUME ResumeReconciled PROVE Alone'
  BY <1>d, <1>4 DEF ResumeReconciled
<1>5. ASSUME ResumeRefused PROVE Alone'
  BY <1>d, <1>5 DEF ResumeRefused
<1>6. ASSUME SeeCancel PROVE Alone'
  BY <1>d, <1>6 DEF SeeCancel
<1>7. ASSUME Conclude PROVE Alone'
  BY <1>d, <1>7 DEF Conclude
<1>8. ASSUME Propose PROVE Alone'
  BY <1>d, <1>8 DEF Propose
<1>9. ASSUME SkipCancelled PROVE Alone'
  BY <1>d, <1>9 DEF SkipCancelled
<1>10. ASSUME ClaimCall PROVE Alone'
  BY <1>d, <1>10 DEF ClaimCall
<1>11. ASSUME Replay PROVE Alone'
  BY <1>d, <1>11 DEF Replay
<1>12. ASSUME InDoubt PROVE Alone'
  BY <1>d, <1>12 DEF InDoubt
<1>13. ASSUME ClaimFails PROVE Alone'
  BY <1>d, <1>13 DEF ClaimFails
<1>14. ASSUME Execute PROVE Alone'
  BY <1>d, <1>14 DEF Execute
<1>15. ASSUME Settle PROVE Alone'
  BY <1>d, <1>15 DEF Settle
<1>16. ASSUME SettleFails PROVE Alone'
  BY <1>d, <1>16 DEF SettleFails
<1>17. ASSUME Persist PROVE Alone'
  BY <1>d, <1>17 DEF Persist
<1>18. ASSUME PersistFails PROVE Alone'
  BY <1>d, <1>18 DEF PersistFails
<1>19. ASSUME Release PROVE Alone'
  BY <1>d, <1>19 DEF Release
<1>20. ASSUME Interrupt PROVE Alone'
  BY <1>d, <1>20 DEF Interrupt
<1>21. ASSUME Cancel PROVE Alone'
  <2>1. ~Open' /\ UNCHANGED <<run, request>>
    BY <1>21, <1>a DEF Cancel, Open, Pauses, Status
  <2> QED
    BY <1>c, <2>1 DEF Alone, Acting, run, request
<1>22. ASSUME Sweep PROVE Alone'
  <2>1. ~Open' /\ UNCHANGED <<run, request>>
    BY <1>22, <1>a DEF Sweep, Open, Pauses, Status
  <2> QED
    BY <1>c, <2>1 DEF Alone, Acting, run, request
<1>23. ASSUME NEW r \in Reviewer, NEW d \in Approval \cup Reconciliation, Read(r, d)
       PROVE Alone'
  <2>1. \A q \in Reviewer : ~Acting(q)
    BY <1>23, <1>b DEF Read, Acting
  <2>2. /\ UNCHANGED <<row, pc>> /\ at'[r] \in {"resolve", "deal", "claim"}
        /\ \A q \in Reviewer \ {r} : at'[q] = at[q]
        /\ seen'[r] = data /\ choice'[r] = d /\ recovers'[r] = (status = "INIT")
        /\ status = data.pending \/ (status = "INIT" /\ data.decision = d)
        /\ at'[r] = "deal" => status = "INIT"
        /\ at'[r] = "claim" => status # "INIT"
    BY <1>23, <1>a DEF Read, Goto, row, run
  <2>3. status = "INIT" => data = [data EXCEPT !.decision = d]
    <3>1. status = "INIT" => d = data.decision
      BY <1>a, <2>2 DEF Checkpoint, Pauses
    <3>2. data = [data EXCEPT !.decision = data.decision]
      BY <1>a DEF Checkpoint
    <3> QED
      BY <3>1, <3>2
  <2>4. InStep(r)'
    BY <2>2, <2>3 DEF InStep, Resumed, row
  <2>5. pc = "idle"
    BY <1>a, <2>2 DEF Standing, Active, Checkpoint, Pauses
  <2>6. \A q \in Reviewer \ {r} : ~Acting(q)' /\ InStep(q)'
    BY <2>1, <2>2 DEF Acting, InStep
  <2> QED
    BY <2>2, <2>4, <2>5, <2>6 DEF Alone
<1>24. ASSUME NEW r \in Reviewer, Resolve(r) PROVE Alone'
  <2>1. /\ at[r] = "resolve" /\ UNCHANGED <<row, pc, seen, choice, recovers>>
        /\ \/ at'[r] = "ended" \/ at'[r] = IF recovers[r] THEN "deal" ELSE "claim"
        /\ \A q \in Reviewer \ {r} : at'[q] = at[q]
    BY <1>24, <1>a DEF Resolve, Goto, run
  <2>2. pc = "idle" /\ (Open => InStep(r))
    BY <1>c, <2>1 DEF Acting
  <2>3. Open' => InStep(r)'
    BY <1>a, <2>1, <2>2 DEF InStep, Open, Resumed, row
  <2>8. \A q \in Reviewer \ {r} : ~Acting(q)' /\ InStep(q)'
    BY <1>c, <2>1 DEF Acting, InStep
  <2> QED
    BY <2>1, <2>2, <2>3, <2>8 DEF Alone
<1>25. ASSUME NEW r \in Reviewer, Claim(r) PROVE Alone'
  <2>1. /\ at[r] = "claim" /\ UNCHANGED <<pc, seen, choice, recovers>>
        /\ \/ at'[r] = "ended"
           \/ at'[r] = "deal" /\ data' = Resumed(r) /\ status' = "INIT"
        /\ \A q \in Reviewer \ {r} : at'[q] = at[q]
    BY <1>25, <1>a DEF Claim, Goto, run
  <2>2. pc = "idle"
    BY <1>c, <2>1 DEF Acting
  <2>3. InStep(r)'
    BY <2>1 DEF InStep, Resumed
  <2>8. \A q \in Reviewer \ {r} : ~Acting(q)' /\ InStep(q)'
    BY <1>c, <2>1 DEF Acting, InStep
  <2> QED
    BY <2>1, <2>2, <2>3, <2>8 DEF Alone
<1>26. ASSUME NEW r \in Reviewer, Deal(r) PROVE Alone'
  <2>1. /\ at[r] = "deal" /\ at'[r] = "ended" /\ UNCHANGED <<seen, choice, recovers>>
        /\ \A q \in Reviewer \ {r} : at'[q] = at[q]
    BY <1>26, <1>a DEF Deal, Goto
  <2>8. \A q \in Reviewer \ {r} : ~Acting(q)' /\ InStep(q)'
    BY <1>c, <2>1 DEF Acting, InStep
  <2> QED
    BY <2>1, <2>8 DEF Alone, Acting, InStep
<1>27. ASSUME NEW r \in Reviewer, Refuse(r) PROVE Alone'
  <2>1. /\ at[r] = "deal" /\ at'[r] = "restore" /\ UNCHANGED <<row, pc, seen, choice, recovers>>
        /\ \A q \in Reviewer \ {r} : at'[q] = at[q]
    BY <1>27, <1>a DEF Refuse, Goto, run
  <2>2. pc = "idle" /\ (Open => InStep(r))
    BY <1>c, <2>1 DEF Acting
  <2>3. Open' => InStep(r)'
    BY <1>a, <2>1, <2>2 DEF InStep, Open, Resumed, row
  <2>8. \A q \in Reviewer \ {r} : ~Acting(q)' /\ InStep(q)'
    BY <1>c, <2>1 DEF Acting, InStep
  <2> QED
    BY <2>1, <2>2, <2>3, <2>8 DEF Alone
<1>28. ASSUME NEW r \in Reviewer, Restore(r) PROVE Alone'
  <2>1. /\ Acting(r) /\ at'[r] = "ended"
        /\ \A q \in Reviewer \ {r} : at'[q] = at[q]
    BY <1>28, <1>a DEF Restore, Goto, Acting
  <2>8. \A q \in Reviewer \ {r} : ~Acting(q)' /\ InStep(q)'
    BY <1>c, <2>1 DEF Acting, InStep
  <2> QED
    BY <2>1, <2>8 DEF Alone, Acting, InStep
<1>29. ASSUME NEW r \in Reviewer, Abort(r) PROVE Alone'
  <2>1. /\ Acting(r) /\ at'[r] = "ended"
        /\ \A q \in Reviewer \ {r} : at'[q] = at[q]
    BY <1>29, <1>a DEF Abort, Goto, Acting
  <2>8. \A q \in Reviewer \ {r} : ~Acting(q)' /\ InStep(q)'
    BY <1>c, <2>1 DEF Acting, InStep
  <2> QED
    BY <2>1, <2>8 DEF Alone, Acting, InStep
<1>30. CASE UNCHANGED vars
  BY <1>30 DEF Alone, vars, row, run, request, Acting, Open, InStep, Resumed
<1> QED
  BY <1>1, <1>2, <1>3, <1>4, <1>5, <1>6, <1>7, <1>8, <1>9, <1>10, <1>11, <1>12, <1>13,
     <1>14, <1>15, <1>16, <1>17, <1>18, <1>19, <1>20, <1>21, <1>22, <1>23, <1>24,
     <1>25, <1>26, <1>27, <1>28, <1>29, <1>30
  DEF Next, RunStep, RequestStep

-----------------------------------------------------------------------------
(* What the run knows of its calls as long as no write fails and reviewers *)
(* do not overlap.                                                         *)

\* The ledger knows the outcome of an executed call, and m tells it; no other call was
\* even claimed.
Plain(m, c) ==
  IF executed[c] > 0 THEN ledger[c] \in Settled /\ m.results[c] \in Settled
                     ELSE ledger[c] = "NONE" /\ m.results[c] \notin Settled

\* So it is of every call but the current one, which m does not tell yet; and the
\* batch has been executed no further.
Accounted(m) ==
  /\ \A c \in Call \ {At(m)} : Plain(m, c)
  /\ \A c \in Call : c[1] = m.batch /\ c[2] > m.index => ledger[c] = "NONE"
  /\ m.pending = "APPROVAL" => m.index = 1
  /\ At(m) \in Call => m.results[At(m)] \notin Settled

\* The current call: executed if it is in doubt, or not begun.
Frozen(m) ==
  At(m) \in Call =>
    IF m.pending = "RECONCILIATION" THEN executed[At(m)] > 0 ELSE ledger[At(m)] = "NONE"

Running ==
  /\ Accounted(mem)
  /\ pc \notin {"execute", "complete", "fail"} => Frozen(mem)
  /\ pc \in {"complete", "fail"} => executed[At(mem)] > 0
  /\ pc = "think" \/ (pc = "start" /\ mem.pending = "NONE") => At(mem) \notin Call

Complete ==
  faults = 0 /\ ~overlap =>
    /\ pc # "idle" => Running
    /\ pc = "idle" /\ Open => Accounted(data) /\ Frozen(data)

\* Only what a checkpoint holds of its calls matters.
LEMMA SameCheckpoint ==
  ASSUME NEW m, NEW n, n.pending = m.pending, n.batch = m.batch, n.index = m.index,
         n.results = m.results, Accounted(m), Frozen(m)
  PROVE  Accounted(n) /\ Frozen(n)
BY DEF Accounted, Frozen, Plain, At

\* When the current call is told the run goes on to the next, which is not begun.
LEMMA TellComplete ==
  ASSUME mem \in Checkpoint, mem.index \in 1..Calls, mem.batch \in Batch,
         \A c \in Call : ledger[c] = "NONE" => executed[c] = 0,
         Accounted(mem), NEW s \in Result, Tell(s),
         \A c \in Call \ {Current} : ledger'[c] = ledger[c] /\ executed'[c] = executed[c],
         IF executed'[Current] > 0 THEN ledger'[Current] \in Settled /\ s \in Settled
                                   ELSE ledger'[Current] = "NONE" /\ s \notin Settled
  PROVE  Running' /\ pc' \in {"think", "call"}
<1>1. /\ mem' \in Checkpoint /\ pc' \in {"think", "call"}
      /\ mem'.pending = "NONE" /\ mem'.batch = mem.batch
      /\ mem'.results = [mem.results EXCEPT ![Current] = s]
  BY TellOK
<1>2. /\ mem'.index = mem.index + 1 /\ (pc' = "think" <=> mem.index = Calls)
  BY DEF Tell, Checkpoint
<1>3. Current \in Call /\ Current = At(mem) /\ mem.results \in [Call -> Result]
  BY DEF Current, At, Call, Checkpoint
<1>4. /\ mem'.results[Current] = s
      /\ \A c \in Call \ {Current} : mem'.results[c] = mem.results[c]
  BY <1>1, <1>3
<1>5. \A c \in Call : Plain(mem, c)' 
  <2>1. ASSUME NEW c \in Call, c = Current PROVE Plain(mem, c)'
    BY <1>4, <2>1 DEF Plain
  <2>2. ASSUME NEW c \in Call \ {Current} PROVE Plain(mem, c)'
    BY <1>3, <1>4, <2>2 DEF Plain, Accounted
  <2> QED
    BY <2>1, <2>2
<1>6. ASSUME NEW c \in Call, c[1] = mem.batch, c[2] > mem.index
      PROVE  ledger'[c] = "NONE" /\ c # Current
  BY <1>3, <1>6, ConstantsAssumption DEF Accounted, Current, Call
<1>7. ASSUME NEW c \in Call, c[1] = mem'.batch, c[2] > mem'.index
      PROVE  ledger'[c] = "NONE"
  <2>1. c[2] \in Nat /\ mem.index \in Nat
    BY ConstantsAssumption DEF Call
  <2> QED
    BY <1>1, <1>2, <1>6, <1>7, <2>1
<1>8. ASSUME At(mem)' \in Call
      PROVE  ledger'[At(mem)'] = "NONE" /\ mem'.results[At(mem)'] \notin Settled
  <2>1. At(mem)' = <<mem.batch, mem.index + 1>>
    BY <1>1, <1>2 DEF At
  <2>2. /\ At(mem)'[1] = mem.batch /\ At(mem)'[2] = mem.index + 1
        /\ mem.index + 1 > mem.index
    BY <2>1
  <2>3. ledger'[At(mem)'] = "NONE" /\ At(mem)' # Current
    BY <1>6, <1>8, <2>2
  <2>4. /\ ledger[At(mem)'] = "NONE" /\ executed[At(mem)'] = 0
        /\ executed'[At(mem)'] = 0
    BY <1>8, <2>3
  <2> QED
    BY <1>5, <1>8, <2>3, <2>4 DEF Plain
<1>9. pc' = "think" => At(mem)' \notin Call
  <2>1. mem.index = Calls => mem.index + 1 \notin 1..Calls
    BY ConstantsAssumption
  <2> QED
    BY <1>1, <1>2, <2>1 DEF At, Call
<1> QED
  BY <1>1, <1>5, <1>7, <1>8, <1>9 DEF Running, Accounted, Frozen

\* Every step that does not fail keeps it.
LEMMA CompleteStep ==
  ASSUME TypeInv, LedgerInv, Standing, Kept, Alone, Complete, [Next]_vars
  PROVE  Complete'
<1> SUFFICES ASSUME faults' = 0, ~overlap' PROVE Complete'
  BY DEF Complete
<1>a. /\ mem \in Checkpoint /\ data \in Checkpoint /\ issued \in 0..Batches
      /\ \A r \in Reviewer : seen[r] \in Checkpoint
      /\ \A r \in Reviewer : choice[r] \in Approval \cup Reconciliation
      /\ Placed(mem) /\ Placed(data) /\ \A r \in Reviewer : Placed(seen[r])
      /\ pc \in Executing => mem.index \in 1..Calls /\ mem.batch \in Batch /\ Current \in Call
      /\ status \in Status /\ faults \in Nat /\ overlap \in BOOLEAN
      /\ ledger \in [Call -> Settled \cup {"NONE", "running"}]
      /\ executed \in [Call -> Nat]
      /\ \A c \in Call : ledger[c] = "NONE" => executed[c] = 0
  BY CurrentOK, ConstantsAssumption DEF TypeInv, TypeOK, PlacedRun, LedgerInv
<1>b. faults = 0 /\ ~overlap
  BY <1>a DEF Next, RunStep, RequestStep, vars, request, Begin, ResumeApproved,
     ResumeRejected, ResumeReconciled, ResumeRefused, SeeCancel, Conclude, Propose,
     SkipCancelled, ClaimCall, Replay, InDoubt, ClaimFails, Execute, Settle, SettleFails,
     Persist, PersistFails, Release, Interrupt, Cancel, Sweep, Read, Resolve, Claim, Deal,
     Refuse, Restore, Abort, Fault
<1>c. /\ pc # "idle" => Running
      /\ pc = "idle" /\ Open => Accounted(data) /\ Frozen(data)
  BY <1>b DEF Complete
<1>d. At(mem) = Current
  BY DEF At, Current
\* At a call that was not begun, its ledger row is free.
<1>e. pc = "call" => ledger[Current] = "NONE" /\ executed[Current] = 0
  BY <1>a, <1>c, <1>d DEF Running, Frozen, Standing, Executing
<1>f. ASSUME Running', pc' # "idle" PROVE Complete'
  BY <1>f DEF Complete
<1>g. ASSUME pc = "idle", pc' = "idle", Open' => Accounted(data)' /\ Frozen(data)'
      PROVE Complete'
  BY <1>g DEF Complete
\* What is not begun is not told.
<1>h. ASSUME NEW c \in Call, Accounted(mem), ledger[c] = "NONE"
      PROVE  mem.results[c] \notin Settled /\ executed[c] = 0
  BY <1>a, <1>h DEF Accounted, Plain
\* The run moves on within its checkpoint.
<1>i. ASSUME pc # "idle", UNCHANGED <<mem, ledger, executed>>, pc' # "idle",
             pc' \notin {"execute", "complete", "fail", "think"} \/ pc' = pc,
             pc' = "start" => pc = "start",
             pc' \notin {"execute", "complete", "fail"} => pc \notin {"execute", "complete", "fail"}
      PROVE  Complete'
  BY <1>c, <1>f, <1>i DEF Running, Accounted, Frozen, Plain, At
<1>1. ASSUME Begin PROVE Complete'
  <2>1. Running'
    BY <1>1, <1>c DEF Begin, tools, Running, Accounted, Frozen, Plain, At
  <2> QED
    BY <1>1, <1>f, <2>1 DEF Begin
<1>2. ASSUME ResumeApproved PROVE Complete'
  <2>1. /\ pc = "start" /\ mem.pending = "APPROVAL" /\ mem'.pending = "NONE" /\ pc' = "call"
        /\ mem'.batch = mem.batch /\ mem'.index = mem.index /\ mem'.results = mem.results
        /\ UNCHANGED <<ledger, executed>>
    BY <1>2, <1>a DEF ResumeApproved, Checkpoint, tools
  <2>2. Running'
    BY <1>c, <2>1 DEF Running, Accounted, Frozen, Plain, At
  <2> QED
    BY <1>f, <2>1, <2>2
<1>3. ASSUME ResumeRejected PROVE Complete'
  <2>1. /\ Answer(1, "rejected") /\ "rejected" \in Result /\ "rejected" \notin Settled
        /\ pc = "start" /\ mem.pending = "APPROVAL" /\ UNCHANGED <<ledger, executed>>
    BY <1>3 DEF ResumeRejected, Result, Settled, Reconciliation, tools
  <2>2. mem' \in Checkpoint /\ mem'.pending = "NONE" /\ pc' = "think"
    BY <1>a, <2>1, AnswerOK
  <2>3. mem'.index = Calls + 1 /\ mem'.batch = mem.batch
        /\ mem'.results = [c \in Call |-> IF c[1] = mem.batch /\ c[2] >= 1
                                             THEN "rejected" ELSE mem.results[c]]
    BY <1>a, <2>1 DEF Answer, Checkpoint
  <2>4. Accounted(mem) /\ Frozen(mem) /\ mem.index = 1
    BY <1>c, <2>1 DEF Running, Accounted
  <2>5. ASSUME NEW c \in Call, c[1] = mem.batch PROVE ledger[c] = "NONE"
    <3>1. c[2] > mem.index \/ c = At(mem)
      BY <2>4, <2>5, ConstantsAssumption DEF Call, At
    <3> QED
      BY <2>1, <2>4, <2>5, <3>1 DEF Accounted, Frozen
  <2>6. \A c \in Call : Plain(mem, c)'
    <3>1. ASSUME NEW c \in Call, c[1] = mem.batch PROVE Plain(mem, c)'
      <4>1. mem'.results[c] \notin Settled
        BY <1>h, <2>1, <2>3, <2>4, <2>5, <3>1
      <4> QED
        BY <1>a, <2>1, <2>5, <3>1, <4>1 DEF Plain
    <3>2. ASSUME NEW c \in Call, c[1] # mem.batch PROVE Plain(mem, c)'
      <4>1. c # At(mem) /\ mem'.results[c] = mem.results[c]
        BY <2>3, <3>2 DEF At
      <4> QED
        BY <2>1, <2>4, <4>1 DEF Plain, Accounted
    <3> QED
      BY <3>1, <3>2
  <2>7. At(mem)' \notin Call
    BY <2>3, ConstantsAssumption DEF At, Call
  <2>8. Running'
    BY <2>1, <2>2, <2>3, <2>5, <2>6, <2>7 DEF Running, Accounted, Frozen
  <2> QED
    BY <1>f, <2>2, <2>8
<1>4. ASSUME ResumeReconciled PROVE Complete'
  <2>1. /\ mem.decision \in Reconciliation /\ mem.index \in 1..Calls /\ Current \in Call
        /\ mem.batch \in Batch /\ pc = "start" /\ mem.pending = "RECONCILIATION"
        /\ ledger' = [ledger EXCEPT ![Current] = mem.decision] /\ UNCHANGED executed
        /\ mem.decision \in Settled /\ mem.decision \in Result
    BY <1>4, <1>a, AtOK DEF ResumeReconciled, Placed, TypeInv, Starts, At, Current, Record,
       Settled, Result
  <2>2. Accounted(mem) /\ executed[Current] > 0
    BY <1>c, <1>d, <2>1 DEF Running, Frozen
  <2>3. ledger'[Current] = mem.decision /\ \A c \in Call \ {Current} : ledger'[c] = ledger[c]
    BY <1>a, <2>1
  <2>4. CASE mem.decision # "refuted"
    <3>1. Tell(mem.decision)
      BY <1>4, <2>4 DEF ResumeReconciled
    <3>2. Running' /\ pc' \in {"think", "call"}
      BY <1>a, <2>1, <2>2, <2>3, <3>1, TellComplete
    <3> QED
      BY <1>f, <3>2
  <2>5. CASE mem.decision = "refuted"
    <3>1. /\ mem'.index = Calls + 1 /\ mem'.batch = mem.batch /\ mem'.pending = "NONE"
          /\ mem'.results = [c \in Call |-> IF c = Current THEN "refuted"
                                ELSE IF Skipped(c) THEN "skipped" ELSE mem.results[c]]
          /\ pc' = "think"
      BY <1>4, <1>a, <2>5 DEF ResumeReconciled, Checkpoint
    <3>2. ASSUME NEW c \in Call, c[1] = mem.batch, c[2] > mem.index
          PROVE  ledger'[c] = "NONE" /\ c # Current
      BY <2>1, <2>2, <2>3, <3>2, ConstantsAssumption DEF Accounted, Current, Call
    <3>3. \A c \in Call : Plain(mem, c)'
      <4>1. ASSUME NEW c \in Call, c = Current PROVE Plain(mem, c)'
        BY <2>1, <2>2, <2>3, <2>5, <3>1, <4>1 DEF Plain
      <4>2. ASSUME NEW c \in Call \ {Current}, Skipped(c) PROVE Plain(mem, c)'
        <5>1. ledger'[c] = "NONE" /\ ledger[c] = "NONE"
          BY <2>3, <3>2, <4>2 DEF Skipped
        <5>2. mem'.results[c] = "skipped" /\ "skipped" \notin Settled
          BY <3>1, <4>2 DEF Settled, Reconciliation
        <5> QED
          BY <1>a, <2>1, <5>1, <5>2 DEF Plain
      <4>3. ASSUME NEW c \in Call \ {Current}, ~Skipped(c) PROVE Plain(mem, c)'
        <5>1. mem'.results[c] = mem.results[c]
          BY <3>1, <4>3
        <5> QED
          BY <1>d, <2>1, <2>2, <2>3, <4>3, <5>1 DEF Plain, Accounted
      <4> QED
        BY <4>1, <4>2, <4>3
    <3>4. At(mem)' \notin Call
      BY <3>1, ConstantsAssumption DEF At, Call
    <3>5. ASSUME NEW c \in Call, c[2] > mem'.index PROVE FALSE
      BY <3>1, <3>5, ConstantsAssumption DEF Call
    <3>6. Running'
      BY <3>1, <3>3, <3>4, <3>5 DEF Running, Accounted, Frozen
    <3> QED
      BY <1>f, <3>1, <3>6
  <2> QED
    BY <2>4, <2>5
<1>5. ASSUME ResumeRefused PROVE Complete'
  <2>1. /\ mem'.pending = "RECONCILIATION" /\ pc' = "persist" /\ mem'.batch = mem.batch
        /\ mem'.index = mem.index /\ mem'.results = mem.results
    BY <1>5, <1>a, PauseOK DEF ResumeRefused, Pauses
  <2>2. pc = "start" /\ mem.pending = "RECONCILIATION" /\ UNCHANGED <<ledger, executed>>
    BY <1>5, <1>a, <1>b DEF ResumeRefused, Fault
  <2>3. Running'
    BY <1>c, <2>1, <2>2 DEF Running, Accounted, Frozen, Plain, At
  <2> QED
    BY <1>f, <2>1, <2>3
<1>6. ASSUME SeeCancel PROVE Complete'
  BY <1>6, <1>i DEF SeeCancel, tools
<1>7. ASSUME Conclude PROVE Complete'
  BY <1>7, <1>i DEF Conclude, tools
<1>8. ASSUME Propose PROVE Complete'
  <2>1. /\ mem'.batch = issued + 1 /\ mem'.batch \in Batch /\ mem'.index \in 1..Calls
        /\ mem'.results = mem.results /\ mem'.pending \in {"APPROVAL", "NONE"}
        /\ pc' \in {"persist", "call"}
    BY <1>8, <1>a, ProposeOK
  <2>2. mem'.index = 1 /\ pc = "think" /\ UNCHANGED <<ledger, executed>>
    BY <1>8, <1>a DEF Propose, Checkpoint, tools
  <2>3. Accounted(mem) /\ At(mem) \notin Call
    BY <1>c, <2>2 DEF Running
  <2>4. \A c \in Call : c[1] = mem'.batch => ledger'[c] = "NONE"
    BY <1>a, <2>1, <2>2 DEF Standing
  <2>5. \A c \in Call : Plain(mem, c)'
    BY <2>1, <2>2, <2>3 DEF Plain, Accounted
  <2>6. At(mem)' \in Call /\ ledger'[At(mem)'] = "NONE"
    BY <2>1, <2>4 DEF At, Call
  <2>7. mem'.results[At(mem)'] \notin Settled
    BY <1>a, <2>2, <2>5, <2>6 DEF Plain
  <2>8. Running'
    BY <2>1, <2>2, <2>4, <2>5, <2>6, <2>7 DEF Running, Accounted, Frozen
  <2> QED
    BY <1>f, <2>1, <2>8
<1>9. ASSUME SkipCancelled PROVE Complete'
  <2>1. /\ Tell("cancelled") /\ "cancelled" \in Result /\ "cancelled" \notin Settled
        /\ pc = "call" /\ UNCHANGED <<ledger, executed>>
    BY <1>9, <1>a, <1>b DEF SkipCancelled, Result, Settled, Reconciliation, tools, Fault
  <2>2. Running' /\ pc' \in {"think", "call"}
    BY <1>a, <1>c, <1>e, <2>1, TellComplete DEF Running, Executing
  <2> QED
    BY <1>f, <2>2
<1>10. ASSUME ClaimCall PROVE Complete'
  <2>1. /\ pc = "call" /\ pc' = "execute" /\ UNCHANGED <<mem, executed>>
        /\ Current \in Call /\ ledger' = [ledger EXCEPT ![Current] = "running"]
    BY <1>10, <1>a DEF ClaimCall, Record, Executing
  <2>2. \A c \in Call \ {Current} : ledger'[c] = ledger[c]
    BY <1>a, <2>1
  <2>3. Accounted(mem) /\ mem.index \in 1..Calls
    BY <1>a, <1>c, <2>1 DEF Running, Executing
  <2>4. ~(Current[2] > mem.index)
    BY <2>3, ConstantsAssumption DEF Current
  <2>5. Running'
    BY <1>d, <2>1, <2>2, <2>3, <2>4 DEF Running, Accounted, Plain, At
  <2> QED
    BY <1>f, <2>1, <2>5
<1>11. ASSUME Replay PROVE Complete'
  BY <1>11, <1>e DEF Replay, Settled, Reconciliation
<1>12. ASSUME InDoubt PROVE Complete'
  BY <1>12, <1>e DEF InDoubt
<1>13. ASSUME ClaimFails PROVE Complete'
  <2>1. /\ Tell("error") /\ "error" \in Result /\ "error" \notin Settled
        /\ pc = "call" /\ UNCHANGED <<ledger, executed>>
    BY <1>13, <1>a, <1>b DEF ClaimFails, Result, Settled, Reconciliation, tools, Fault
  <2>2. Running' /\ pc' \in {"think", "call"}
    BY <1>a, <1>c, <1>e, <2>1, TellComplete DEF Running, Executing
  <2> QED
    BY <1>f, <2>2
<1>14. ASSUME Execute PROVE Complete'
  <2>1. /\ pc = "execute" /\ UNCHANGED ledger /\ Current \in Call
        /\ executed' = [executed EXCEPT ![Current] = executed[Current] + 1]
    BY <1>14, <1>a DEF Execute, Executing
  <2>2. executed'[Current] > 0 /\ \A c \in Call \ {Current} : executed'[c] = executed[c]
    BY <1>a, <2>1
  <2>3. Accounted(mem) /\ mem.pending = "NONE"
    BY <1>c, <2>1 DEF Running, Standing, Executing
  <2>4. CASE Pause("RECONCILIATION")
    <3>1. /\ mem'.pending = "RECONCILIATION" /\ pc' = "persist" /\ mem'.batch = mem.batch
          /\ mem'.index = mem.index /\ mem'.results = mem.results
      BY <2>4, <1>a, PauseOK DEF Pauses
    <3>2. Running'
      BY <1>d, <2>1, <2>2, <2>3, <3>1 DEF Running, Accounted, Frozen, Plain, At
    <3> QED
      BY <1>f, <3>1, <3>2
  <2>5. CASE pc' \in {"complete", "fail"} /\ UNCHANGED mem
    <3>1. Running'
      BY <1>d, <2>1, <2>2, <2>3, <2>5 DEF Running, Accounted, Frozen, Plain, At
    <3> QED
      BY <1>f, <2>5, <3>1
  <2> QED
    BY <1>14, <2>4, <2>5 DEF Execute
<1>15. ASSUME Settle PROVE Complete'
  <2>1. /\ pc \in {"complete", "fail"} /\ UNCHANGED executed
        /\ Outcome \in Settled /\ Outcome \in Result /\ ledger[Current] = "running"
    BY <1>15, <1>b DEF Settle, Outcome, Result, Settled, Reconciliation, Kept
  <2>2. Tell(Outcome) /\ ledger' = [ledger EXCEPT ![Current] = Outcome]
    BY <1>15, <2>1 DEF Settle, Finish, Record
  <2>3. /\ Current \in Call /\ mem.index \in 1..Calls /\ mem.batch \in Batch
        /\ Accounted(mem) /\ executed[Current] > 0
    BY <1>a, <1>c, <1>d, <2>1 DEF Running, Executing
  <2>4. ledger'[Current] = Outcome /\ \A c \in Call \ {Current} : ledger'[c] = ledger[c]
    BY <1>a, <2>2, <2>3
  <2>5. Running' /\ pc' \in {"think", "call"}
    BY <1>a, <2>1, <2>2, <2>3, <2>4, TellComplete
  <2> QED
    BY <1>f, <2>5
<1>16. ASSUME SettleFails PROVE Complete'
  BY <1>16, <1>a, <1>b DEF SettleFails, Fault
<1>17. ASSUME Persist PROVE Complete'
  BY <1>17, <1>i DEF Persist, tools
<1>18. ASSUME PersistFails PROVE Complete'
  BY <1>18, <1>a, <1>b DEF PersistFails, Fault
<1>19. ASSUME Release PROVE Complete'
  <2>1. pc = "release" /\ pc' = "idle" /\ UNCHANGED <<data, ledger, executed>> /\ data = mem
    BY <1>19, <1>b DEF Release, Forget, tools, Kept
  <2>2. Accounted(data) /\ Frozen(data)
    BY <1>c, <2>1 DEF Running
  <2>3. Accounted(data)' /\ Frozen(data)'
    BY <2>1, <2>2 DEF Accounted, Frozen, Plain, At
  <2> QED
    BY <2>1, <2>3 DEF Complete
<1>20. ASSUME Interrupt PROVE Complete'
  <2>1. pc # "idle" /\ pc' = "idle" /\ status' \in {status, "OVER"}
    BY <1>20 DEF Interrupt, Forget
  <2>2. ~Open'
    BY <2>1 DEF Standing, Open, Active, Pauses
  <2> QED
    BY <2>1, <2>2 DEF Complete
<1>21. ASSUME Cancel PROVE Complete'
  <2>1. UNCHANGED <<data, tools, run>> /\ ~Open'
    BY <1>21, <1>a DEF Cancel, Open, Pauses, Status
  <2>2. pc # "idle" => Running'
    BY <1>c, <2>1 DEF Running, Accounted, Frozen, Plain, At, tools, run
  <2> QED
    BY <2>1, <2>2 DEF Complete, run
<1>22. ASSUME Sweep PROVE Complete'
  <2>1. UNCHANGED <<data, tools, run>> /\ ~Open'
    BY <1>22, <1>a DEF Sweep, Open, Pauses, Status
  <2>2. pc # "idle" => Running'
    BY <1>c, <2>1 DEF Running, Accounted, Frozen, Plain, At, tools, run
  <2> QED
    BY <2>1, <2>2 DEF Complete, run
<1>23. ASSUME NEW r \in Reviewer, NEW d \in Approval \cup Reconciliation, Read(r, d)
       PROVE Complete'
  <2>1. UNCHANGED <<row, tools, run>>
    BY <1>23 DEF Read
  <2>2. /\ pc # "idle" => Running'
        /\ pc = "idle" /\ Open => Accounted(data)' /\ Frozen(data)'
    BY <1>c, <2>1 DEF Running, Accounted, Frozen, Plain, At, row, tools, run
  <2> QED
    BY <2>1, <2>2 DEF Complete, Open, row, run
<1>24. ASSUME NEW r \in Reviewer, Resolve(r) PROVE Complete'
  <2>a. pc = "idle" /\ (Open => InStep(r))
    BY <1>24, <1>b DEF Resolve, Acting, Alone
  <2>1. /\ at[r] = "resolve" /\ UNCHANGED <<row, run, executed>> /\ Doubted(r) = At(seen[r])
        /\ seen[r].pending = "RECONCILIATION" /\ choice[r] \in Settled
        /\ \/ Resolvable(Doubted(r), choice[r])
              /\ ledger' = [ledger EXCEPT ![Doubted(r)] = choice[r]]
           \/ UNCHANGED ledger
    BY <1>24 DEF Resolve, Doubted, At, TypeInv, Fits, Record, Settled
  <2>2. Doubted(r) \in Call /\ Doubted(r)[2] = seen[r].index /\ seen[r].index \in Nat
    BY <1>a, <2>1, AtOK, ConstantsAssumption DEF At, Checkpoint
  <2>3. \A c \in Call \ {Doubted(r)} : ledger'[c] = ledger[c]
    BY <1>a, <2>1
  <2>4. ASSUME Open PROVE Accounted(data)' /\ Frozen(data)'
    <3>1. data = seen[r] /\ Accounted(data) /\ Frozen(data)
      BY <1>c, <2>a, <2>1, <2>4 DEF InStep
    <3>2. ~(Doubted(r)[2] > data.index)
      BY <2>2, <3>1
    <3> QED
      BY <2>1, <2>2, <2>3, <3>1, <3>2 DEF Accounted, Frozen, Plain, At, row
  <2> QED
    BY <1>g, <2>a, <2>1, <2>4 DEF row, run, Open
<1>25. ASSUME NEW r \in Reviewer, Claim(r) PROVE Complete'
  <2>a. pc = "idle" /\ (Open => InStep(r))
    BY <1>25, <1>b DEF Claim, Acting, Alone
  <2>1. /\ Resumed(r).pending = seen[r].pending /\ Resumed(r).batch = seen[r].batch
        /\ Resumed(r).index = seen[r].index /\ Resumed(r).results = seen[r].results
    BY <1>a, ResumedOK
  <2>2. /\ UNCHANGED <<tools, run>> /\ at[r] = "claim"
        /\ \/ status = seen[r].pending /\ data' = Resumed(r)
           \/ UNCHANGED row
    BY <1>25 DEF Claim
  <2>3. CASE status = seen[r].pending /\ data' = Resumed(r)
    <3>1. Open /\ data = seen[r]
      BY <1>a, <2>a, <2>2, <2>3 DEF Open, InStep, TypeInv, Fits, Checkpoint, Pauses
    <3>2. Accounted(Resumed(r)) /\ Frozen(Resumed(r))
      BY <1>c, <2>a, <2>1, <3>1, SameCheckpoint
    <3>3. Accounted(data)' /\ Frozen(data)'
      BY <2>2, <2>3, <3>2 DEF Accounted, Frozen, Plain, At, tools
    <3> QED
      BY <1>g, <2>a, <2>2, <3>3 DEF run
  <2>4. CASE UNCHANGED row
    <3>1. Open => Accounted(data)' /\ Frozen(data)'
      BY <1>c, <2>a, <2>2, <2>4 DEF Accounted, Frozen, Plain, At, tools, row
    <3> QED
      BY <1>g, <2>a, <2>2, <2>4, <3>1 DEF run, row, Open
  <2> QED
    BY <2>2, <2>3, <2>4
<1>26. ASSUME NEW r \in Reviewer, Deal(r) PROVE Complete'
  <2>a. pc = "idle" /\ (Open => InStep(r))
    BY <1>26, <1>b DEF Deal, Acting, Alone
  <2>1. /\ status = "INIT" /\ pc' = "start" /\ mem' = Resumed(r) /\ UNCHANGED tools
        /\ at[r] = "deal" /\ Resumed(r).pending # "NONE"
    BY <1>26, <1>a, ResumedOK DEF Deal, TypeInv, Fits
  <2>2. data = Resumed(r) /\ Open
    BY <2>a, <2>1 DEF Open, InStep
  <2>3. Accounted(data) /\ Frozen(data)
    BY <1>c, <2>a, <2>2
  <2>4. Running'
    BY <2>1, <2>2, <2>3 DEF Running, Accounted, Frozen, Plain, At, tools
  <2> QED
    BY <1>f, <2>1, <2>4
<1>27. ASSUME NEW r \in Reviewer, Refuse(r) PROVE Complete'
  <2>1. UNCHANGED <<row, tools, run>>
    BY <1>27 DEF Refuse
  <2>2. /\ pc # "idle" => Running'
        /\ pc = "idle" /\ Open => Accounted(data)' /\ Frozen(data)'
    BY <1>c, <2>1 DEF Running, Accounted, Frozen, Plain, At, row, tools, run
  <2> QED
    BY <2>1, <2>2 DEF Complete, Open, row, run
<1>28. ASSUME NEW r \in Reviewer, Restore(r) PROVE Complete'
  <2>a. pc = "idle" /\ (Open => InStep(r))
    BY <1>28, <1>b DEF Restore, Acting, Alone
  <2>1. /\ Resumed(r).pending = seen[r].pending /\ Resumed(r).batch = seen[r].batch
        /\ Resumed(r).index = seen[r].index /\ Resumed(r).results = seen[r].results
    BY <1>a, ResumedOK
  <2>2. /\ UNCHANGED <<tools, run>> /\ at[r] = "restore"
        /\ \/ status = "INIT" /\ data' = seen[r]
           \/ UNCHANGED row
    BY <1>28 DEF Restore
  <2>3. CASE status = "INIT" /\ data' = seen[r]
    <3>1. Open /\ data = Resumed(r)
      BY <2>a, <2>2, <2>3 DEF Open, InStep
    <3>2. Accounted(seen[r]) /\ Frozen(seen[r])
      BY <1>c, <2>a, <2>1, <3>1, SameCheckpoint
    <3>3. Accounted(data)' /\ Frozen(data)'
      BY <2>2, <2>3, <3>2 DEF Accounted, Frozen, Plain, At, tools
    <3> QED
      BY <1>g, <2>a, <2>2, <3>3 DEF run
  <2>4. CASE UNCHANGED row
    <3>1. Open => Accounted(data)' /\ Frozen(data)'
      BY <1>c, <2>a, <2>2, <2>4 DEF Accounted, Frozen, Plain, At, tools, row
    <3> QED
      BY <1>g, <2>a, <2>2, <2>4, <3>1 DEF run, row, Open
  <2> QED
    BY <2>2, <2>3, <2>4
<1>29. ASSUME NEW r \in Reviewer, Abort(r) PROVE Complete'
  <2>1. UNCHANGED <<row, tools, run>>
    BY <1>29 DEF Abort
  <2>2. /\ pc # "idle" => Running'
        /\ pc = "idle" /\ Open => Accounted(data)' /\ Frozen(data)'
    BY <1>c, <2>1 DEF Running, Accounted, Frozen, Plain, At, row, tools, run
  <2> QED
    BY <2>1, <2>2 DEF Complete, Open, row, run
<1>30. CASE UNCHANGED vars
  BY <1>c, <1>30 DEF Complete, vars, row, run, tools, Running, Accounted, Frozen, Plain, At, Open
<1> QED
  BY <1>1, <1>2, <1>3, <1>4, <1>5, <1>6, <1>7, <1>8, <1>9, <1>10, <1>11, <1>12, <1>13,
     <1>14, <1>15, <1>16, <1>17, <1>18, <1>19, <1>20, <1>21, <1>22, <1>23, <1>24,
     <1>25, <1>26, <1>27, <1>28, <1>29, <1>30
  DEF Next, RunStep, RequestStep

-----------------------------------------------------------------------------
(* A batch stops at a call in doubt.                                       *)

\* An executed call has been decided.
Decided(c) == executed[c] > 0 => ledger[c] # "running"

\* No call before the current one is in doubt, unless the batch is at its end.
Going(m) ==
  m.index <= Calls => \A c \in Call : c[1] = m.batch /\ c[2] < m.index => Decided(c)

Stops ==
  faults <= 1 /\ ~overlap =>
    /\ pc # "idle" /\ (~cancel \/ pc = "execute") => Going(mem)
    /\ pc = "idle" /\ status \in {"INIT", data.pending} => Going(data)
    /\ pc = "release" /\ ~cancel /\ mem.pending = data.pending => Going(data)
    /\ faults = 0 /\ pc # "idle" /\ data.batch = mem.batch => data.index <= mem.index

\* Only executing a call can put it in doubt.
LEMMA DecidedStays ==
  ASSUME TypeInv, LedgerInv, [Next]_vars, NEW c \in Call, Decided(c),
         pc = "execute" => c # Current
  PROVE  Decided(c)'
<1>a. /\ ledger \in [Call -> Settled \cup {"NONE", "running"}] /\ executed \in [Call -> Nat]
      /\ ledger[c] = "NONE" => executed[c] = 0
      /\ "running" \notin Settled
      /\ \A r \in Reviewer : at[r] = "resolve" => choice[r] \in Settled
      /\ pc = "start" /\ mem.pending = "RECONCILIATION" => mem.decision \in Settled
      /\ pc \in Executing => Current \in Call
  BY CurrentOK DEF TypeInv, TypeOK, Fits, Starts, LedgerInv, Settled, Reconciliation
<1> USE DEF tools, Record, Finish, Decided, Executing
<1>1. ASSUME Begin PROVE Decided(c)'
  BY <1>a, <1>1 DEF Begin
<1>2. ASSUME ResumeApproved PROVE Decided(c)'
  BY <1>a, <1>2 DEF ResumeApproved
<1>3. ASSUME ResumeRejected PROVE Decided(c)'
  BY <1>a, <1>3 DEF ResumeRejected
<1>4. ASSUME ResumeReconciled PROVE Decided(c)'
  BY <1>a, <1>4 DEF ResumeReconciled
<1>5. ASSUME ResumeRefused PROVE Decided(c)'
  BY <1>a, <1>5 DEF ResumeRefused
<1>6. ASSUME SeeCancel PROVE Decided(c)'
  BY <1>a, <1>6 DEF SeeCancel
<1>7. ASSUME Conclude PROVE Decided(c)'
  BY <1>a, <1>7 DEF Conclude
<1>8. ASSUME Propose PROVE Decided(c)'
  BY <1>a, <1>8 DEF Propose
<1>9. ASSUME SkipCancelled PROVE Decided(c)'
  BY <1>a, <1>9 DEF SkipCancelled
<1>10. ASSUME ClaimCall PROVE Decided(c)'
  BY <1>a, <1>10 DEF ClaimCall, Claimable
<1>11. ASSUME Replay PROVE Decided(c)'
  BY <1>a, <1>11 DEF Replay
<1>12. ASSUME InDoubt PROVE Decided(c)'
  BY <1>a, <1>12 DEF InDoubt
<1>13. ASSUME ClaimFails PROVE Decided(c)'
  BY <1>a, <1>13 DEF ClaimFails
<1>14. ASSUME Execute PROVE Decided(c)'
  BY <1>a, <1>14 DEF Execute
<1>15. ASSUME Settle PROVE Decided(c)'
  BY <1>a, <1>15 DEF Settle, Outcome, Settled, Reconciliation
<1>16. ASSUME SettleFails PROVE Decided(c)'
  BY <1>a, <1>16 DEF SettleFails, Outcome, Settled, Reconciliation
<1>17. ASSUME Persist PROVE Decided(c)'
  BY <1>a, <1>17 DEF Persist
<1>18. ASSUME PersistFails PROVE Decided(c)'
  BY <1>a, <1>18 DEF PersistFails
<1>19. ASSUME Release PROVE Decided(c)'
  BY <1>a, <1>19 DEF Release
<1>20. ASSUME Interrupt PROVE Decided(c)'
  BY <1>a, <1>20 DEF Interrupt
<1>21. ASSUME Cancel PROVE Decided(c)'
  BY <1>a, <1>21 DEF Cancel
<1>22. ASSUME Sweep PROVE Decided(c)'
  BY <1>a, <1>22 DEF Sweep
<1>23. ASSUME NEW r \in Reviewer, NEW d \in Approval \cup Reconciliation, Read(r, d)
       PROVE Decided(c)'
  BY <1>a, <1>23 DEF Read
<1>24. ASSUME NEW r \in Reviewer, Resolve(r) PROVE Decided(c)'
  BY <1>a, <1>24 DEF Resolve
<1>25. ASSUME NEW r \in Reviewer, Claim(r) PROVE Decided(c)'
  BY <1>a, <1>25 DEF Claim
<1>26. ASSUME NEW r \in Reviewer, Deal(r) PROVE Decided(c)'
  BY <1>a, <1>26 DEF Deal
<1>27. ASSUME NEW r \in Reviewer, Refuse(r) PROVE Decided(c)'
  BY <1>a, <1>27 DEF Refuse
<1>28. ASSUME NEW r \in Reviewer, Restore(r) PROVE Decided(c)'
  BY <1>a, <1>28 DEF Restore
<1>29. ASSUME NEW r \in Reviewer, Abort(r) PROVE Decided(c)'
  BY <1>a, <1>29 DEF Abort
<1>30. CASE UNCHANGED vars
  BY <1>a, <1>30 DEF vars
<1> QED
  BY <1>1, <1>2, <1>3, <1>4, <1>5, <1>6, <1>7, <1>8, <1>9, <1>10, <1>11, <1>12, <1>13,
     <1>14, <1>15, <1>16, <1>17, <1>18, <1>19, <1>20, <1>21, <1>22, <1>23, <1>24,
     <1>25, <1>26, <1>27, <1>28, <1>29, <1>30
  DEF Next, RunStep, RequestStep

\* Every step keeps it that a batch in progress has no call in doubt behind it.
LEMMA StopsStep ==
  ASSUME TypeInv, LedgerInv, Standing, Kept, Alone, Complete, Stops, [Next]_vars
  PROVE  Stops'
<1> SUFFICES ASSUME faults' <= 1, ~overlap' PROVE Stops'
  BY DEF Stops
<1>a. /\ mem \in Checkpoint /\ data \in Checkpoint /\ issued \in 0..Batches
      /\ \A r \in Reviewer : seen[r] \in Checkpoint
      /\ \A r \in Reviewer : choice[r] \in Approval \cup Reconciliation
      /\ Placed(mem) /\ Placed(data) /\ \A r \in Reviewer : Placed(seen[r])
      /\ pc \in Executing => mem.index \in 1..Calls /\ mem.batch \in Batch /\ Current \in Call
      /\ status \in Status /\ faults \in Nat /\ overlap \in BOOLEAN /\ cancel \in BOOLEAN
      /\ ledger \in [Call -> Settled \cup {"NONE", "running"}]
      /\ executed \in [Call -> Nat]
      /\ \A c \in Call : ledger[c] = "NONE" => executed[c] = 0
      /\ data.index \in 1..(Calls + 1) /\ mem.index \in 1..(Calls + 1)
      /\ data.batch \in Nat /\ mem.batch \in Nat
  BY CurrentOK, ConstantsAssumption DEF TypeInv, TypeOK, PlacedRun, LedgerInv, Checkpoint
<1>b. /\ faults <= 1 /\ ~overlap
      /\ faults' = faults \/ (Fault /\ faults = 0 /\ faults' = 1)
  BY <1>a DEF Next, RunStep, RequestStep, vars, request, Begin, ResumeApproved,
     ResumeRejected, ResumeReconciled, ResumeRefused, SeeCancel, Conclude, Propose,
     SkipCancelled, ClaimCall, Replay, InDoubt, ClaimFails, Execute, Settle, SettleFails,
     Persist, PersistFails, Release, Interrupt, Cancel, Sweep, Read, Resolve, Claim, Deal,
     Refuse, Restore, Abort, Fault
<1>c. /\ pc # "idle" /\ (~cancel \/ pc = "execute") => Going(mem)
      /\ pc = "idle" /\ status \in {"INIT", data.pending} => Going(data)
      /\ pc = "release" /\ ~cancel /\ mem.pending = data.pending => Going(data)
      /\ faults = 0 /\ pc # "idle" /\ data.batch = mem.batch => data.index <= mem.index
  BY <1>b DEF Stops
\* A call that was passed by stays decided.
<1>d. \A c \in Call : c[1] = mem.batch /\ c[2] < mem.index /\ Decided(c) => Decided(c)'
  <2> SUFFICES ASSUME NEW c \in Call, c[1] = mem.batch, c[2] < mem.index, Decided(c)
               PROVE  Decided(c)'
    OBVIOUS
  <2>1. c # Current
    BY <1>a DEF Current
  <2> QED
    BY <2>1, DecidedStays
<1>e. pc # "execute" => \A c \in Call : Decided(c) => Decided(c)'
  BY DecidedStays
\* The run stays at its call, or moves to the next.
<1>f. ASSUME pc # "idle", pc' \notin {"idle", "release"}, data' = data, mem'.batch = mem.batch,
             mem'.index = mem.index, ~cancel' \/ pc' = "execute" => ~cancel \/ pc = "execute"
      PROVE  Stops'
  <2>1. Going(mem) => Going(mem)'
    BY <1>d, <1>f DEF Going
  <2> QED
    BY <1>b, <1>c, <1>f, <2>1 DEF Stops
<1>g. ASSUME mem.index \in 1..Calls, mem.batch \in Batch, NEW s \in Result, Tell(s), data' = data,
             pc # "idle", cancel' = cancel,
             ~cancel => \A c \in Call : c = Current => Decided(c)'
      PROVE  Stops'
  <2>1. /\ mem'.batch = mem.batch /\ mem'.index = mem.index + 1 /\ pc' \in {"think", "call"}
    BY <1>a, <1>g, TellOK DEF Tell, Checkpoint
  <2>2. ASSUME ~cancel, NEW c \in Call, mem'.index <= Calls, c[1] = mem'.batch, c[2] < mem'.index
        PROVE  Decided(c)'
    <3>1. Going(mem) /\ mem.index <= Calls
      BY <1>a, <1>c, <1>g, <2>2, ConstantsAssumption
    <3>2. c[2] < mem.index \/ c = Current
      BY <1>a, <2>1, <2>2, ConstantsAssumption DEF Current, Call
    <3> QED
      BY <1>d, <1>g, <2>1, <2>2, <3>1, <3>2 DEF Going
  <2>3. ~cancel' => Going(mem)'
    BY <1>g, <2>2 DEF Going
  <2>4. data.index <= mem.index => data.index <= mem'.index
    BY <1>a, <2>1
  <2> QED
    BY <1>b, <1>c, <1>g, <2>1, <2>3, <2>4 DEF Stops
\* The batch is at its end.
<1>h. ASSUME mem'.batch = mem.batch, mem'.index = Calls + 1, data' = data, pc' = "think"
      PROVE  Stops'
  <2>1. Going(mem)' /\ data'.index <= mem'.index
    BY <1>a, <1>h, ConstantsAssumption DEF Going
  <2> QED
    BY <1>h, <2>1 DEF Stops
\* The run stands still, and so does the row.
<1>i. ASSUME pc = "idle", pc' = "idle", status' \in {"INIT", data'.pending} => Going(data)'
      PROVE  Stops'
  BY <1>i DEF Stops
<1>1. ASSUME Begin PROVE Stops'
  BY <1>1, <1>f DEF Begin, row, run
<1>2. ASSUME ResumeApproved PROVE Stops'
  <2>1. mem'.batch = mem.batch /\ mem'.index = mem.index
    BY <1>2, <1>a DEF ResumeApproved, Checkpoint
  <2> QED
    BY <1>2, <1>f, <2>1 DEF ResumeApproved, row
<1>3. ASSUME ResumeRejected PROVE Stops'
  <2>1. mem'.batch = mem.batch /\ mem'.index = Calls + 1 /\ pc' = "think"
    BY <1>3, <1>a DEF ResumeRejected, Answer, Checkpoint
  <2> QED
    BY <1>3, <1>h, <2>1 DEF ResumeRejected, row
<1>4. ASSUME ResumeReconciled PROVE Stops'
  <2>1. /\ mem.decision \in Reconciliation /\ mem.index \in 1..Calls /\ Current \in Call
        /\ mem.batch \in Batch /\ pc = "start" /\ mem.decision \in Result
        /\ ledger' = [ledger EXCEPT ![Current] = mem.decision]
        /\ UNCHANGED <<data, cancel>>
    BY <1>4, <1>a, AtOK DEF ResumeReconciled, Placed, TypeInv, Starts, At, Current, Record,
       Settled, Result, row
  <2>2. CASE mem.decision # "refuted"
    <3>1. Tell(mem.decision)
      BY <1>4, <2>2 DEF ResumeReconciled
    <3>2. \A c \in Call : c = Current => Decided(c)'
      BY <1>a, <2>1 DEF Decided, Reconciliation
    <3> QED
      BY <1>g, <2>1, <3>1, <3>2
  <2>3. CASE mem.decision = "refuted"
    <3>1. mem'.index = Calls + 1 /\ mem'.batch = mem.batch /\ pc' = "think"
      BY <1>4, <1>a, <2>3 DEF ResumeReconciled, Checkpoint
    <3> QED
      BY <1>h, <2>1, <3>1
  <2> QED
    BY <2>2, <2>3
<1>5. ASSUME ResumeRefused PROVE Stops'
  <2>1. mem'.batch = mem.batch /\ mem'.index = mem.index /\ pc' = "persist"
    BY <1>5, <1>a, PauseOK DEF ResumeRefused, Pauses
  <2> QED
    BY <1>5, <1>f, <2>1 DEF ResumeRefused, row
<1>6. ASSUME SeeCancel PROVE Stops'
  BY <1>6, <1>f DEF SeeCancel, row, run
<1>7. ASSUME Conclude PROVE Stops'
  BY <1>7, <1>f DEF Conclude, row
<1>8. ASSUME Propose PROVE Stops'
  <2>1. /\ mem'.batch = issued + 1 /\ mem'.index = 1 /\ pc' \in {"persist", "call"}
        /\ UNCHANGED data
    BY <1>8, <1>a, ProposeOK DEF Propose, Checkpoint, row
  <2>2. data'.batch # mem'.batch
    BY <1>a, <2>1 DEF Standing
  <2>3. Going(mem)'
    BY <2>1, ConstantsAssumption DEF Going, Call
  <2> QED
    BY <2>1, <2>2, <2>3 DEF Stops
<1>9. ASSUME SkipCancelled PROVE Stops'
  <2>1. "cancelled" \in Result /\ Tell("cancelled") /\ cancel /\ pc = "call"
        /\ UNCHANGED <<data, cancel>>
    BY <1>9 DEF SkipCancelled, Result, row
  <2> QED
    BY <1>a, <1>g, <2>1 DEF Executing
<1>10. ASSUME ClaimCall PROVE Stops'
  BY <1>10, <1>f DEF ClaimCall, row, run
<1>11. ASSUME Replay PROVE Stops'
  <2>1. /\ ledger[Current] \in Result /\ Tell(ledger[Current]) /\ pc = "call"
        /\ ledger[Current] # "running" /\ UNCHANGED <<data, cancel, ledger>>
    BY <1>11 DEF Replay, Result, Settled, Reconciliation, row, tools
  <2>2. \A c \in Call : c = Current => Decided(c)'
    BY <2>1 DEF Decided
  <2> QED
    BY <1>a, <1>g, <2>1, <2>2 DEF Executing
<1>12. ASSUME InDoubt PROVE Stops'
  <2>1. mem'.batch = mem.batch /\ mem'.index = mem.index /\ pc' = "persist"
    BY <1>12, <1>a, PauseOK DEF InDoubt, Pauses
  <2> QED
    BY <1>12, <1>f, <2>1 DEF InDoubt, row
<1>13. ASSUME ClaimFails PROVE Stops'
  <2>1. /\ "error" \in Result /\ Tell("error") /\ pc = "call"
        /\ UNCHANGED <<data, cancel, executed>>
    BY <1>13 DEF ClaimFails, Result, row
  <2>2. ledger[Current] = "NONE"
    <3>1. CASE Fault
      <4>1. faults = 0
        BY <1>a, <1>b, <3>1 DEF Fault
      <4>2. Running
        BY <1>b, <2>1, <4>1 DEF Complete
      <4> QED
        BY <1>a, <2>1, <4>2 DEF Running, Frozen, Standing, Executing, At, Current
    <3>2. CASE ~Fault
      BY <1>13, <3>2 DEF ClaimFails
    <3> QED
      BY <3>1, <3>2
  <2>3. executed'[Current] = 0
    BY <1>a, <2>1, <2>2 DEF Executing
  <2>4. \A c \in Call : c = Current => Decided(c)'
    BY <2>3 DEF Decided
  <2> QED
    BY <1>a, <1>g, <2>1, <2>4 DEF Executing
<1>14. ASSUME Execute PROVE Stops'
  <2>1. CASE Pause("RECONCILIATION")
    <3>1. mem'.batch = mem.batch /\ mem'.index = mem.index /\ pc' = "persist"
      BY <2>1, <1>a, PauseOK DEF Pauses
    <3> QED
      BY <1>14, <1>f, <3>1 DEF Execute, row
  <2>2. CASE pc' \in {"complete", "fail"} /\ UNCHANGED mem
    BY <1>14, <1>f, <2>2 DEF Execute, row
  <2> QED
    BY <1>14, <2>1, <2>2 DEF Execute
<1>15. ASSUME Settle PROVE Stops'
  <2>1. CASE Pause("RECONCILIATION")
    <3>1. mem'.batch = mem.batch /\ mem'.index = mem.index /\ pc' = "persist"
      BY <2>1, <1>a, PauseOK DEF Pauses
    <3> QED
      BY <1>15, <1>f, <3>1 DEF Settle, row
  <2>2. CASE ledger[Current] = "running"
    <3>1. /\ Tell(Outcome) /\ Outcome \in Result /\ Outcome # "running"
          /\ ledger' = [ledger EXCEPT ![Current] = Outcome]
          /\ UNCHANGED <<data, cancel>> /\ pc \in {"complete", "fail"}
      BY <1>15, <2>2 DEF Settle, Finish, Record, Outcome, Result, Settled, Reconciliation, row
    <3>2. \A c \in Call : c = Current => Decided(c)'
      BY <1>a, <3>1 DEF Decided, Executing
    <3> QED
      BY <1>a, <1>g, <3>1, <3>2 DEF Executing
  <2> QED
    BY <1>15, <2>1, <2>2 DEF Settle
<1>16. ASSUME SettleFails PROVE Stops'
  <2>1. mem'.batch = mem.batch /\ mem'.index = mem.index /\ pc' = "persist"
    BY <1>16, <1>a, PauseOK DEF SettleFails, Pauses
  <2> QED
    BY <1>16, <1>f, <2>1 DEF SettleFails, row
<1>17. ASSUME Persist PROVE Stops'
  <2>1. /\ pc = "persist" /\ pc' = "release" /\ data' = mem /\ UNCHANGED <<mem, cancel>>
    BY <1>17 DEF Persist
  <2>2. Going(mem) => Going(mem)' /\ Going(data)'
    BY <1>d, <2>1 DEF Going
  <2> QED
    BY <1>a, <1>c, <2>1, <2>2 DEF Stops
<1>18. ASSUME PersistFails PROVE Stops'
  <2>1. /\ pc = "persist" /\ pc' = "release" /\ UNCHANGED <<row, mem, cancel, tools>>
        /\ faults = 0 /\ faults' = 1
    BY <1>18, <1>a, <1>b DEF PersistFails, Fault
  <2>2. Running
    BY <1>b, <2>1 DEF Complete
  <2>3. Going(data)
    <3> SUFFICES ASSUME NEW c \in Call, c[1] = data.batch, c[2] < data.index
        PROVE Decided(c)
      BY DEF Going
    <3>1. c # At(mem)
      BY <1>a, <1>c, <2>1 DEF At
    <3> QED
      BY <2>2, <3>1 DEF Running, Accounted, Plain, Decided, Settled, Reconciliation
  <2>4. Going(data)' /\ (Going(mem) => Going(mem)')
    BY <2>1, <2>3 DEF Going, Decided, row, tools
  <2> QED
    BY <1>c, <2>1, <2>4 DEF Stops
<1>19. ASSUME Release PROVE Stops'
  <2>1. /\ pc = "release" /\ pc' = "idle" /\ UNCHANGED <<data, ledger, executed>>
        /\ status' = IF status \in Active THEN Returned ELSE status
    BY <1>19 DEF Release, Forget, tools
  <2>2. status' \in {"INIT", data.pending} => ~cancel /\ mem.pending = data.pending
    BY <1>a, <2>1 DEF Returned, Standing, Active, Checkpoint, Pauses
  <2>3. Going(data) => Going(data)'
    BY <2>1 DEF Going, Decided
  <2> QED
    BY <1>c, <2>1, <2>2, <2>3 DEF Stops
<1>20. ASSUME Interrupt PROVE Stops'
  <2>1. pc # "idle" /\ pc' = "idle" /\ status' \in {status, "OVER"} /\ UNCHANGED data
    BY <1>20 DEF Interrupt, Forget
  <2>2. status' \notin {"INIT", data'.pending}
    BY <1>a, <2>1 DEF Standing, Active, Checkpoint, Pauses
  <2> QED
    BY <2>1, <2>2 DEF Stops
<1>21. ASSUME Cancel PROVE Stops'
  <2>1. /\ UNCHANGED <<data, tools, run, faults>>
        /\ status' \notin {"INIT", data.pending}
    BY <1>21, <1>a DEF Cancel, Checkpoint, Pauses
  <2>2. (Going(mem) => Going(mem)') /\ (Going(data) => Going(data)')
    BY <2>1 DEF Going, Decided, tools, run
  <2> QED
    BY <1>c, <2>1, <2>2 DEF Stops, run
<1>22. ASSUME Sweep PROVE Stops'
  <2>1. /\ UNCHANGED <<data, tools, run, faults>>
        /\ status' \notin {"INIT", data.pending}
    BY <1>22, <1>a DEF Sweep, Checkpoint, Pauses
  <2>2. (Going(mem) => Going(mem)') /\ (Going(data) => Going(data)')
    BY <2>1 DEF Going, Decided, tools, run
  <2> QED
    BY <1>c, <2>1, <2>2 DEF Stops, run
<1>23. ASSUME NEW r \in Reviewer, NEW d \in Approval \cup Reconciliation, Read(r, d)
       PROVE Stops'
  <2>1. UNCHANGED <<row, tools, run, faults>>
    BY <1>23 DEF Read
  <2>2. (Going(mem) => Going(mem)') /\ (Going(data) => Going(data)')
    BY <2>1 DEF Going, Decided, tools, run, row
  <2> QED
    BY <1>c, <2>1, <2>2 DEF Stops, run, row
<1>24. ASSUME NEW r \in Reviewer, Resolve(r) PROVE Stops'
  <2>a. pc = "idle" /\ (Open => InStep(r))
    BY <1>24, <1>b DEF Resolve, Acting, Alone
  <2>1. UNCHANGED <<row, run>>
    BY <1>24 DEF Resolve
  <2>2. Going(data) => Going(data)'
    BY <1>e, <2>a, <2>1 DEF Going, row
  <2> QED
    BY <1>c, <1>i, <2>a, <2>1, <2>2 DEF run, row
<1>25. ASSUME NEW r \in Reviewer, Claim(r) PROVE Stops'
  <2>a. pc = "idle" /\ (Open => InStep(r))
    BY <1>25, <1>b DEF Claim, Acting, Alone
  <2>1. /\ Resumed(r).pending = seen[r].pending /\ Resumed(r).batch = seen[r].batch
        /\ Resumed(r).index = seen[r].index
    BY <1>a, ResumedOK
  <2>2. /\ UNCHANGED <<tools, run>> /\ at[r] = "claim"
        /\ \/ status = seen[r].pending /\ data' = Resumed(r)
           \/ UNCHANGED row
    BY <1>25 DEF Claim
  <2>3. CASE status = seen[r].pending /\ data' = Resumed(r)
    <3>1. Open /\ data = seen[r]
      BY <1>a, <2>a, <2>2, <2>3 DEF Open, InStep, TypeInv, Fits, Checkpoint, Pauses
    <3>2. Going(data)
      BY <1>c, <2>a, <2>3, <3>1
    <3>3. Going(data)'
      BY <2>1, <2>2, <2>3, <3>1, <3>2 DEF Going, Decided, tools
    <3> QED
      BY <1>i, <2>a, <2>2, <3>3 DEF run
  <2>4. CASE UNCHANGED row
    <3>1. Going(data) => Going(data)'
      BY <2>2, <2>4 DEF Going, Decided, tools, row
    <3> QED
      BY <1>c, <1>i, <2>a, <2>2, <2>4, <3>1 DEF run, row
  <2> QED
    BY <2>2, <2>3, <2>4
<1>26. ASSUME NEW r \in Reviewer, Deal(r) PROVE Stops'
  <2>a. pc = "idle" /\ (Open => InStep(r))
    BY <1>26, <1>b DEF Deal, Acting, Alone
  <2>1. /\ status = "INIT" /\ pc' = "start" /\ mem' = Resumed(r) /\ UNCHANGED <<tools, data>>
        /\ at[r] = "deal"
    BY <1>26 DEF Deal
  <2>2. data = Resumed(r)
    BY <2>a, <2>1 DEF Open, InStep
  <2>3. Going(data)
    BY <1>c, <2>a, <2>1
  <2>4. Going(mem)'
    BY <2>1, <2>2, <2>3 DEF Going, Decided, tools
  <2>5. data'.index <= mem'.index
    BY <1>a, <2>1, <2>2
  <2> QED
    BY <2>1, <2>4, <2>5 DEF Stops
<1>27. ASSUME NEW r \in Reviewer, Refuse(r) PROVE Stops'
  <2>1. UNCHANGED <<row, tools, run, faults>>
    BY <1>27 DEF Refuse
  <2>2. (Going(mem) => Going(mem)') /\ (Going(data) => Going(data)')
    BY <2>1 DEF Going, Decided, tools, run, row
  <2> QED
    BY <1>c, <2>1, <2>2 DEF Stops, run, row
<1>28. ASSUME NEW r \in Reviewer, Restore(r) PROVE Stops'
  <2>a. pc = "idle" /\ (Open => InStep(r))
    BY <1>28, <1>b DEF Restore, Acting, Alone
  <2>1. /\ Resumed(r).pending = seen[r].pending /\ Resumed(r).batch = seen[r].batch
        /\ Resumed(r).index = seen[r].index
    BY <1>a, ResumedOK
  <2>2. /\ UNCHANGED <<tools, run>> /\ at[r] = "restore"
        /\ \/ status = "INIT" /\ data' = seen[r]
           \/ UNCHANGED row
    BY <1>28 DEF Restore
  <2>3. CASE status = "INIT" /\ data' = seen[r]
    <3>1. data = Resumed(r) /\ Going(data)
      BY <1>c, <2>a, <2>2, <2>3 DEF Open, InStep
    <3>2. Going(data)'
      BY <2>1, <2>2, <2>3, <3>1 DEF Going, Decided, tools
    <3> QED
      BY <1>i, <2>a, <2>2, <3>2 DEF run
  <2>4. CASE UNCHANGED row
    <3>1. Going(data) => Going(data)'
      BY <2>2, <2>4 DEF Going, Decided, tools, row
    <3> QED
      BY <1>c, <1>i, <2>a, <2>2, <2>4, <3>1 DEF run, row
  <2> QED
    BY <2>2, <2>3, <2>4
<1>29. ASSUME NEW r \in Reviewer, Abort(r) PROVE Stops'
  <2>1. UNCHANGED <<row, tools, run, faults>>
    BY <1>29 DEF Abort
  <2>2. (Going(mem) => Going(mem)') /\ (Going(data) => Going(data)')
    BY <2>1 DEF Going, Decided, tools, run, row
  <2> QED
    BY <1>c, <2>1, <2>2 DEF Stops, run, row
<1>30. CASE UNCHANGED vars
  BY <1>c, <1>30 DEF Stops, Going, Decided, vars, row, run, tools
<1> QED
  BY <1>1, <1>2, <1>3, <1>4, <1>5, <1>6, <1>7, <1>8, <1>9, <1>10, <1>11, <1>12, <1>13,
     <1>14, <1>15, <1>16, <1>17, <1>18, <1>19, <1>20, <1>21, <1>22, <1>23, <1>24,
     <1>25, <1>26, <1>27, <1>28, <1>29, <1>30
  DEF Next, RunStep, RequestStep
-----------------------------------------------------------------------------
Sound == Standing /\ Kept /\ Alone /\ Complete /\ Stops

\* It holds when the run starts.
LEMMA InitSound ==
  ASSUME Init
  PROVE  Sound
<1>1. /\ mem = Fresh /\ data = Fresh /\ pc = "start" /\ status = "PROCESSING" /\ issued = 0
      /\ \A r \in Reviewer : seen[r] = Fresh /\ at[r] = "idle"
      /\ \A c \in Call : ledger[c] = "NONE" /\ executed[c] = 0
  BY DEF Init
<1>2. /\ Fresh.pending = "NONE" /\ Fresh.batch = 0 /\ Fresh.index = 1
      /\ \A c \in Call : Fresh.results[c] = "NONE"
  BY FreshOK DEF Fresh
<1>3. /\ "NONE" \notin Settled /\ At(mem) \notin Call
      /\ \A c \in Call : c[1] # 0
  BY <1>1, <1>2, ConstantsAssumption DEF Settled, Reconciliation, At, Call, Batch
<1>4. Standing
  BY <1>1, <1>2 DEF Standing, Active, Executing
<1>5. Kept
  BY <1>1, <1>2 DEF Kept, Undecided, Elsewhere, Pauses
<1>6. Alone
  BY <1>1 DEF Alone, Acting, Open, Pauses
<1>7. Complete
  BY <1>1, <1>2, <1>3 DEF Complete, Running, Accounted, Frozen, Plain
<1>8. Stops
  BY <1>1, <1>2, <1>3 DEF Stops, Going
<1> QED
  BY <1>4, <1>5, <1>6, <1>7, <1>8 DEF Sound

\* It always holds.
LEMMA SoundAlways == Spec => [](Invariant /\ Sound)
<1>1. Init => Sound
  BY InitSound
<1>2. Invariant /\ Sound /\ [Next]_vars => Sound'
  BY StandingStep, KeptStep, AloneStep, CompleteStep, StopsStep DEF Invariant, Sound
<1>3. Spec => []Invariant
  BY InvariantAlways
<1> QED
  BY <1>1, <1>2, <1>3, PTL DEF Spec

\* As long as no write fails a paused run can be resumed: the row names the pause its
\* data holds, and the ledger takes a verdict on the call in doubt.
THEOREM RecoverableAlways == Spec => []RecoverableUnlessFault
<1>1. ASSUME Invariant, Sound PROVE RecoverableUnlessFault
  <2> SUFFICES ASSUME faults = 0, status \in Pauses PROVE Recoverable
    BY DEF RecoverableUnlessFault, Recoverable
  <2>1. data.pending = status /\ Undecided(data)
    BY <1>1 DEF Sound, Kept
  <2>2. ASSUME status = "RECONCILIATION"
        PROVE  \E s \in Reconciliation : Resolvable(<<data.batch, data.index>>, s)
    <3>1. ledger[<<data.batch, data.index>>] \in {"running"} \cup Reconciliation
      BY <2>1, <2>2 DEF Undecided, Disputable, At
    <3>2. "completed" \in Reconciliation
      BY DEF Reconciliation
    <3> QED
      BY <3>1, <3>2 DEF Resolvable
  <2> QED
    BY <2>1, <2>2 DEF Recoverable
<1> QED
  BY <1>1, SoundAlways, PTL

\* As long as no write fails and reviewers do not overlap, the model is told of every
\* side effect attempted, and of no other, when it decides on the next step.
THEOREM NothingForgottenAlways == Spec => []NothingForgotten
<1>1. ASSUME Invariant, Sound PROVE NothingForgotten
  <2> SUFFICES ASSUME faults = 0, ~overlap, pc = "think", NEW c \in Call
               PROVE  executed[c] > 0 <=> mem.results[c] \in Settled
    BY DEF NothingForgotten
  <2>1. Running
    BY <1>1 DEF Sound, Complete
  <2>2. Plain(mem, c)
    BY <2>1 DEF Running, Accounted
  <2> QED
    BY <2>2 DEF Plain
<1> QED
  BY <1>1, SoundAlways, PTL

\* As long as reviewers do not overlap and at most one write fails, a batch stops at a
\* call in doubt.
THEOREM DoubtStopsBatch == Spec => StopsInDoubt
<1>1. ASSUME Invariant, Sound, [Next]_vars, faults <= 1, ~overlap
      PROVE  WaitsForVerdict
  <2> SUFFICES ASSUME NEW c \in Call, executed'[c] > executed[c],
                      NEW i \in 1..(c[2] - 1),
                      executed[<<c[1], i>>] > 0
               PROVE  ledger[<<c[1], i>>] # "running"
    BY DEF WaitsForVerdict
  <2>1. executed \in [Call -> Nat]
    BY <1>1 DEF Invariant, TypeInv, TypeOK
  <2>2. Execute
    BY <1>1, <2>1 DEF Next, RunStep, RequestStep, vars, tools, Begin, ResumeApproved,
       ResumeRejected, ResumeReconciled, ResumeRefused, SeeCancel, Conclude, Propose,
       SkipCancelled, ClaimCall, Replay, InDoubt, ClaimFails, Settle, SettleFails,
       Persist, PersistFails, Release, Interrupt, Cancel, Sweep, Read, Resolve, Claim,
       Deal, Refuse, Restore, Abort
  <2>3. pc = "execute" /\ c = Current
    BY <2>1, <2>2 DEF Execute
  <2>4. Going(mem) /\ mem.index \in 1..Calls
    BY <1>1, <2>3 DEF Sound, Stops, Invariant, TypeInv, PlacedRun, Executing
  <2>5. /\ <<c[1], i>> \in Call /\ i < mem.index /\ c[1] = mem.batch
    BY <2>3, <2>4, ConstantsAssumption DEF Call, Current
  <2>6. Decided(<<c[1], i>>)
    BY <2>4, <2>5, ConstantsAssumption DEF Going
  <2> QED
    BY <2>6 DEF Decided
<1> QED
  BY <1>1, SoundAlways, PTL DEF Spec, StopsInDoubt
=============================================================================
