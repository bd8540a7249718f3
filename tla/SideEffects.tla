----------------------------- MODULE SideEffects ----------------------------
(***************************************************************************)
(* What the tool execution ledger promises of side effects, whatever       *)
(* pauses, crashes and duplicate decisions the run goes through: a call is *)
(* claimed once, attempted at most once and only under its claim, and      *)
(* settled once, for good.                                                 *)
(***************************************************************************)
EXTENDS Naturals

CONSTANTS
  Call,     \* the tool calls
  Verdict   \* the ways a call is settled

VARIABLES
  record,   \* "NONE", "running" or a verdict, for each call
  attempts  \* how often each call was attempted

Init ==
  /\ record   = [c \in Call |-> "NONE"]
  /\ attempts = [c \in Call |-> 0]

Take(c) ==
  /\ record[c] = "NONE"
  /\ record' = [record EXCEPT ![c] = "running"]
  /\ UNCHANGED attempts

Attempt(c) ==
  /\ record[c] = "running" /\ attempts[c] = 0
  /\ attempts' = [attempts EXCEPT ![c] = 1]
  /\ UNCHANGED record

\* By the run, or by a person who does not know whether it was attempted.
Decide(c, v) ==
  /\ record[c] = "running"
  /\ record' = [record EXCEPT ![c] = v]
  /\ UNCHANGED attempts

Next == \E c \in Call : Take(c) \/ Attempt(c) \/ \E v \in Verdict : Decide(c, v)

Spec == Init /\ [][Next]_<<record, attempts>>
=============================================================================
