--------------------------------- MODULE Chat ---------------------------------
(***************************************************************************)
(* The chat: conversations (endpoints/chat.py over chat/repository.py) and *)
(* the turns that append to them: a question, the history sent to the      *)
(* model, an answer. A turn is a coroutine of its own, run_chat_turn()     *)
(* ("chat"), or a scheduled task, _run_chat_mode() ("task"), which a       *)
(* poller tells of a cancellation.                                         *)
(*                                                                         *)
(* A turn goes under the trace of its request, which the client may choose *)
(* (X-Trace-ID): two turns may share one. The messages of a trace form a   *)
(* tree, whose tip is in trace_head. A message is numbered by a plain      *)
(* SELECT in the transaction that stores it: the SELECT is a step, the     *)
(* rest, from the first row lock to the COMMIT, another.                   *)
(*                                                                         *)
(* All requests are of one account.                                        *)
(***************************************************************************)
EXTENDS Naturals, Sequences, FiniteSets

CONSTANTS
  Conversation, \* conversations
  Trace,        \* trace ids
  Turn,         \* turns, each used once
  HistoryLimit  \* _HISTORY_LIMIT, not 0

VARIABLES
  conv,     \* chat_conversations: status and title
  messages, \* chat_messages, in the order of their ids
  heads,    \* trace_head: head_seq and next_seq
  turns,    \* the turns
  asked,    \* task turns whose row says CANCEL_REQUESTED
  seen,     \* cancel_flag["requested"] of the task turns
  polling,  \* task turns whose poller runs
  shared    \* history: traces that turns have shared at one time

vars == <<conv, messages, heads, turns, asked, seen, polling, shared>>

\* No row of trace_head: the row of a trace without messages is inserted as this.
NoHead == [head |-> 0, next |-> 1]

NoTurn == [pc |-> "none", kind |-> "none", conv |-> "none", trace |-> "none",
           asks |-> FALSE, read |-> NoHead, prompt |-> {}]

Init ==
  /\ conv = [c \in Conversation |-> [status |-> "absent", title |-> "none"]]
  /\ messages = <<>>
  /\ heads = [r \in Trace |-> NoHead]
  /\ turns = [t \in Turn |-> NoTurn]
  /\ asked = {} /\ seen = {} /\ polling = {} /\ shared = {}

Ended  == {"none", "success", "failed", "cancelled"}
Active == {t \in Turn : turns[t].pc \notin Ended}

-----------------------------------------------------------------------------
(* Conversations.                                                          *)

CreateConversation(c) ==
  /\ conv[c].status = "absent"
  /\ conv' = [conv EXCEPT ![c].status = "active"]
  /\ UNCHANGED <<messages, heads, turns, asked, seen, polling, shared>>

\* Whatever the status: a deleted conversation can be renamed.
UpdateTitle(c) ==
  /\ conv[c] \in [status : {"active", "deleted"}, title : {"none"}]
  /\ conv' = [conv EXCEPT ![c].title = "new"]
  /\ UNCHANGED <<messages, heads, turns, asked, seen, polling, shared>>

\* A row of another status; its turns and messages stay.
DeleteConversation(c) ==
  /\ conv[c].status = "active"
  /\ conv' = [conv EXCEPT ![c].status = "deleted"]
  /\ UNCHANGED <<messages, heads, turns, asked, seen, polling, shared>>

-----------------------------------------------------------------------------
(* Turns.                                                                  *)

Begin(t, turn) ==
  /\ turns[t] = NoTurn
  /\ turns' = [turns EXCEPT ![t] = turn]
  /\ shared' = IF \E u \in Active : turns[u].trace = turn.trace
                 THEN shared \cup {turn.trace} ELSE shared

Goto(t, pc) == turns' = [turns EXCEPT ![t].pc = pc]

\* A message, which is not empty, for a conversation that is not deleted: the
\* turn is left to itself.
SendMessage(t, c, r) ==
  /\ conv[c].status = "active"
  /\ Begin(t, [NoTurn EXCEPT !.pc = "look", !.kind = "chat", !.conv = c, !.trace = r,
                             !.asks = TRUE])
  /\ UNCHANGED <<conv, messages, heads, asked, seen, polling>>

\* The scheduler runs no two tasks under one trace. The conversation is the
\* caller's word, and so is the message, if any.
StartTask(t, c, r, asks) ==
  /\ \A u \in Active : turns[u].kind = "task" => turns[u].trace # r
  /\ Begin(t, [NoTurn EXCEPT !.pc = "look", !.kind = "task", !.conv = c, !.trace = r,
                             !.asks = asks])
  /\ polling' = polling \cup {t}
  /\ UNCHANGED <<conv, messages, heads, asked, seen>>

\* The conversation must exist, deleted or not. The early return leaves the
\* poller running.
Look(t) ==
  /\ turns[t].pc = "look"
  /\ Goto(t, IF conv[turns[t].conv].status = "absent" THEN "failed"
             ELSE IF turns[t].asks THEN "ask" ELSE "history")
  /\ UNCHANGED <<conv, messages, heads, asked, seen, polling, shared>>

\* SELECT head_seq, next_seq, for the question or the answer.
AllocSeq(t) ==
  /\ turns[t].pc \in {"ask", "answer"}
  /\ turns' = [turns EXCEPT ![t].read = heads[turns[t].trace],
                            ![t].pc = IF @ = "ask" THEN "ask_commit" ELSE "answer_commit"]
  /\ UNCHANGED <<conv, messages, heads, asked, seen, polling, shared>>

\* Mutant of Advanced: the tip moves, the next number stays.
AdvancedHead(read) == [read EXCEPT !.head = read.next]

\* trace_head after a message with the number read.next.
Advanced(read) == [head |-> read.next, next |-> read.next + 1]

\* The message and the tip, which rest on what was read. An INSERT of a tip
\* that another turn has inserted since fails.
Store(t, role) ==
  LET r    == turns[t].trace
      read == turns[t].read
  IN  /\ read = NoHead => heads[r] = NoHead
      /\ messages' = Append(messages, [conv |-> turns[t].conv, role |-> role, trace |-> r,
                                       seq |-> read.next, parent |-> read.head, turn |-> t])
      /\ heads' = [heads EXCEPT ![r] = Advanced(read)]

\* A COMMIT whose reply is lost has stored the question and raises all the same.
AppendQuestion(t) ==
  /\ turns[t].pc = "ask_commit" /\ Store(t, "user")
  /\ Goto(t, "history") \/ Goto(t, "failed")
  /\ UNCHANGED <<conv, asked, seen, polling, shared>>

\* Nothing is stored. Outside any try: the turn ends, and its poller goes on.
QuestionFails(t) ==
  /\ turns[t].pc = "ask_commit" /\ Goto(t, "failed")
  /\ UNCHANGED <<conv, messages, heads, asked, seen, polling, shared>>

Of(c) == {i \in 1..Len(messages) : messages[i].conv = c}

\* list_messages: the first HistoryLimit messages, by their ids.
History(c) == {i \in Of(c) : Cardinality({j \in Of(c) : j < i}) < HistoryLimit}

BuildMessages(t) ==
  /\ turns[t].pc = "history"
  /\ turns' = [turns EXCEPT ![t].prompt = History(turns[t].conv), ![t].pc = "model"]
  /\ UNCHANGED <<conv, messages, heads, asked, seen, polling, shared>>

\* The loop's result: with a text or without one. It ends the poller.
RunLoop(t, answers) ==
  /\ turns[t].pc = "model"
  /\ Goto(t, IF answers THEN "answer" ELSE "unanswered")
  /\ polling' = polling \ {t}
  /\ UNCHANGED <<conv, messages, heads, asked, seen, shared>>

\* After the COMMIT nothing depends on its reply: one that is lost is logged.
AppendAnswer(t) ==
  /\ turns[t].pc = "answer_commit" /\ Store(t, "assistant") /\ Goto(t, "answered")
  /\ UNCHANGED <<conv, asked, seen, polling, shared>>

\* Nothing is stored, and the exception is logged.
AnswerFails(t) ==
  /\ turns[t].pc = "answer_commit" /\ Goto(t, "answered")
  /\ UNCHANGED <<conv, messages, heads, asked, seen, polling, shared>>

End(t) ==
  /\ turns[t].pc \in {"answered", "unanswered"}
  /\ Goto(t, IF t \in seen THEN "cancelled"
             ELSE IF turns[t].pc = "answered" THEN "success" ELSE "failed")
  /\ UNCHANGED <<conv, messages, heads, asked, seen, polling, shared>>

-----------------------------------------------------------------------------
(* Cancellation: the row of a running task is marked; the turns outside the *)
(* scheduler are not registered anywhere.                                   *)

CancelTurn(r) ==
  /\ \E t \in Active \ asked : /\ turns[t].kind = "task" /\ turns[t].trace = r
                               /\ asked' = asked \cup {t}
  /\ UNCHANGED <<conv, messages, heads, turns, seen, polling, shared>>

Poll(t) ==
  /\ t \in polling \cap asked
  /\ seen' = seen \cup {t} /\ polling' = polling \ {t}
  /\ UNCHANGED <<conv, messages, heads, turns, asked, shared>>

Next ==
  \/ \E c \in Conversation :
       CreateConversation(c) \/ UpdateTitle(c) \/ DeleteConversation(c)
  \/ \E t \in Turn, c \in Conversation, r \in Trace :
       SendMessage(t, c, r) \/ \E asks \in BOOLEAN : StartTask(t, c, r, asks)
  \/ \E t \in Turn :
       \/ Look(t) \/ AllocSeq(t) \/ AppendQuestion(t) \/ QuestionFails(t)
       \/ BuildMessages(t) \/ \E answers \in BOOLEAN : RunLoop(t, answers)
       \/ AppendAnswer(t) \/ AnswerFails(t) \/ End(t) \/ Poll(t)
  \/ \E r \in Trace : CancelTurn(r)

Spec == Init /\ [][Next]_vars

-----------------------------------------------------------------------------
(* Properties.                                                             *)

TypeOK ==
  /\ conv \in [Conversation -> [status : {"absent", "active", "deleted"},
                                title : {"none", "new"}]]
  /\ \A r \in Trace : heads[r].head \in Nat /\ heads[r].next \in Nat \ {0}
  /\ \A t \in Turn : turns[t].prompt \subseteq 1..Len(messages)
  /\ asked \subseteq Turn /\ seen \subseteq asked /\ polling \subseteq Turn

OfTrace(r) == {i \in 1..Len(messages) : messages[i].trace = r}

\* The messages of a trace form one chain, numbered from 1 in the order they
\* were stored, whose tip is in trace_head; and an answer hangs on the question
\* of its turn: whatever turns come under the trace one after another or fail
\* between, and whatever goes on under other traces of the conversation
\* (append_message, init.sql: seq, parent_seq).
TraceIsChain ==
  \A r \in Trace \ shared :
    /\ \A k \in 1..heads[r].head : \E i \in OfTrace(r) : messages[i].seq = k
    /\ \A i \in OfTrace(r) :
         /\ messages[i].seq \in 1..heads[r].head /\ messages[i].parent = messages[i].seq - 1
         /\ \A j \in OfTrace(r) : j < i => messages[j].seq < messages[i].seq
         /\ (messages[i].role = "assistant" /\ turns[messages[i].turn].asks) =>
              \E j \in OfTrace(r) : /\ messages[j].seq = messages[i].parent
                                    /\ messages[j].turn = messages[i].turn

\* init.sql: seq is a number within the trace. Also for turns that share one.
SeqIsUnique ==
  \A i, j \in 1..Len(messages) :
    (messages[i].trace = messages[j].trace /\ messages[i].seq = messages[j].seq) => i = j

\* The model sees the question that it is to answer (run_chat_turn).
QuestionInPrompt ==
  \A t \in Turn : (turns[t].pc = "model" /\ turns[t].asks) =>
    \E i \in turns[t].prompt : messages[i].turn = t /\ messages[i].role = "user"

\* No poller outlives its turn.
PollerEnds == polling \subseteq Active
=============================================================================
