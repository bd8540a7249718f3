---------------------------- MODULE ContextWindow ----------------------------
(***************************************************************************)
(* What a step of the loop sends to the model (Think.run up to the planner *)
(* call): the system prompt and the messages of the run, compacted by the  *)
(* ContextWindowManager when they exceed the window, old long tool results *)
(* folded. state.messages only grows; what is sent is made anew each step. *)
(*                                                                         *)
(* Compaction cuts the messages, or, when a compactor is configured,       *)
(* replaces all but the last by a summary. Sizes are in tokens, a few as   *)
(* such, the 4 of each message's framing included.                         *)
(***************************************************************************)
EXTENDS Naturals, Sequences, FiniteSets

CONSTANTS
  Limit,       \* effective_limit: max_tokens less the reserve
  KeepRecent,  \* messages the summary leaves (10)
  KeepFull,    \* keep_full_last_n_tool (2)
  Long,        \* size of a tool result over the threshold, more than Folded
  MaxMessages  \* bound on the messages of the run

Short  == 1  \* size of any other message
Folded == 2  \* size of a summary of a long result

VARIABLES
  messages, \* state.messages
  sent,     \* the messages of the last planner call
  cut,      \* how they were made: whole, truncated, summarized
  compactor \* a compactor is configured

vars == <<messages, sent, cut, compactor>>

\* A message: calls are the ids of an assistant's tool_calls, answers the
\* tool_call_id of a tool result.
M(role, size, calls, answers) ==
  [role |-> role, size |-> size, calls |-> calls, answers |-> answers]

System  == M("system", Short, {}, 0)
Summary == M("system", Folded, {}, 0)

Init ==
  /\ messages = <<M("user", Short, {}, 0)>>
  /\ sent = <<>> /\ cut = "whole" /\ compactor \in BOOLEAN

-----------------------------------------------------------------------------
(* The run's messages grow by a step: the assistant's, and a result for     *)
(* each of its calls; or a hint of the planner.                             *)

NextId == 1 + Cardinality(UNION {messages[i].calls : i \in 1..Len(messages)})

Observe(sizes) ==
  LET n == Len(sizes) IN
  /\ Len(messages) + 1 + n <= MaxMessages
  /\ messages' = messages
       \o <<M("assistant", Short, {NextId + k - 1 : k \in 1..n}, 0)>>
       \o [k \in 1..n |-> M("tool", sizes[k], {}, NextId + k - 1)]
  /\ UNCHANGED <<sent, cut, compactor>>

-----------------------------------------------------------------------------
(* Compaction.                                                              *)

Total(s) ==
  LET sum[i \in 0..Len(s)] == IF i = 0 THEN 0 ELSE sum[i - 1] + s[i]
  IN  sum[Len(s)]

CountMessages(ms) == Total([i \in 1..Len(ms) |-> ms[i].size])

Tokens(ms, S) == Total([i \in 1..Len(ms) |-> IF i \in S THEN ms[i].size ELSE 0])

\* An assistant message and the results of its calls, or any other message.
Group(ms, i) == {i} \cup {k \in 1..Len(ms) : ms[k].answers \in ms[i].calls}

\* What the messages from i on take, as the loop from the last to the first
\* adds it up: the results of a call by themselves, and again with the call.
Used(ms, i) ==
  Total([k \in 1..Len(ms) |-> IF k >= i THEN Tokens(ms, Group(ms, k)) ELSE 0])

\* The messages kept: the longest end that fits the budget.
Kept(ms, budget) ==
  {i \in 1..Len(ms) : Used(ms, i) <= budget}

\* Mutant of HasPair: no orphan is dropped.
HasPairAny(ms, kept, i) == i \in kept

\* A result is kept with its call.
HasPair(ms, kept, i) ==
  ms[i].role = "tool" => \E j \in kept : ms[i].answers \in ms[j].calls

\* The messages at the places in idx, in their order.
Chosen(ms, idx) ==
  LET chosen[k \in 0..Len(ms)] ==
        IF k = 0 THEN <<>>
        ELSE IF k \in idx THEN Append(chosen[k - 1], ms[k]) ELSE chosen[k - 1]
  IN  chosen[Len(ms)]

TruncateMiddle(ms, limit) ==
  LET others == Tail(ms)
      budget == limit - Head(ms).size
      kept   == IF limit <= Head(ms).size THEN {} ELSE Kept(others, budget)
      idx    == {i \in kept : HasPair(others, kept, i)}
  IN  <<Head(ms)>> \o Chosen(others, idx)

\* The last KeepRecent messages stay, whatever they are. With nothing before
\* them nothing changes, whatever they take.
WithSummary(ms) ==
  LET others == Tail(ms)
      n      == Len(others)
  IN  IF n <= KeepRecent THEN ms
      ELSE <<Head(ms), Summary>> \o SubSeq(others, n - KeepRecent + 1, n)

\* The long results but the last KeepFull are folded.
Collapse(ms) ==
  LET long == {i \in 1..Len(ms) : ms[i].role = "tool" /\ ms[i].size = Long}
      full == {i \in long : Cardinality({j \in long : j > i}) < KeepFull}
  IN  [i \in 1..Len(ms) |-> IF i \in long \ full THEN [ms[i] EXCEPT !.size = Folded] ELSE ms[i]]

Send(ms, how) == sent' = Collapse(ms) /\ cut' = how /\ UNCHANGED <<messages, compactor>>

Prompt  == <<System>> \o messages
TooLong == CountMessages(Prompt) > Limit

SendWhole == ~TooLong /\ Send(Prompt, "whole")

\* The compactor may fail, or return nothing.
SendTruncated == TooLong /\ Send(TruncateMiddle(Prompt, Limit), "truncated")

SendSummarized == TooLong /\ compactor /\ Send(WithSummary(Prompt), "summarized")

Next ==
  \/ \E n \in 0..2 : \E sizes \in [1..n -> {Short, Long}] : Observe(sizes)
  \/ SendWhole \/ SendTruncated \/ SendSummarized

Spec == Init /\ [][Next]_vars

-----------------------------------------------------------------------------
(* Properties.                                                             *)

TypeOK ==
  /\ Len(messages) \in 1..MaxMessages /\ cut \in {"whole", "truncated", "summarized"}
  /\ compactor \in BOOLEAN /\ Len(sent) <= MaxMessages + 2

\* Every result follows its call, and every call has the results it has in
\* the run: a model refuses a conversation where either is missing.
PairsWhole ==
  /\ \A i \in 1..Len(sent) : sent[i].role = "tool" =>
       \E j \in 1..(i - 1) : sent[i].answers \in sent[j].calls
  /\ \A i \in 1..Len(sent) : \A id \in sent[i].calls :
       \E j \in (i + 1)..Len(sent) : sent[j].answers = id

\* _truncate_middle: whatever the sizes and calls of the steps, the messages it
\* leaves are whole pairs, and fit the window with the system prompt.
TruncationSound ==
  cut = "truncated" => PairsWhole /\ CountMessages(sent) <= Limit

\* The summary keeps the pairs whole too (manager.py: pairs are kept or dropped
\* as a group).
SummarySound == cut = "summarized" => PairsWhole

\* docs/design/state/context-window-management.md: the first user message, with
\* the goal, is kept.
GoalKept == (sent # <<>>) => \E i \in 1..Len(sent) : sent[i].role = "user"
=============================================================================
