------------------------------ MODULE AgentParts ------------------------------
(***************************************************************************)
(* The parts around the agent's loop, with what each promises: the message *)
(* bus, tool access, the context window, the chat and the message tree its *)
(* rows may be read as. Each has constants and variables of its own.       *)
(***************************************************************************)
CONSTANTS Mailboxes, Receiver, MaxSent, MaxQueues,          \* MessageBus
          Tool, AreaOf, RiskOf, Retries, AllowInvoke,       \* ToolAccess
          Limit, KeepRecent, KeepFull, Long, MaxMessages,   \* ContextWindow
          Conversation, Trace, Turn, HistoryLimit,          \* Chat
          MaxRows                                           \* MessageTree

VARIABLES
  queues, current, made, deferred, history, got, gone, waits, \* MessageBus
  registry, loaded, request, data, pc, policy, guard, call, executed, invoked, \* ToolAccess
  messages, sent, cut, compactor,                           \* ContextWindow
  conv, log, heads, turns, asked, seen, polling, shared,    \* Chat
  rows, head, torn                                          \* MessageTree

MB == INSTANCE MessageBus WITH Agents <- Mailboxes
TA == INSTANCE ToolAccess
CW == INSTANCE ContextWindow
CH == INSTANCE Chat WITH messages <- log
MT == INSTANCE MessageTree

bus    == <<queues, current, made, deferred, history, got, gone, waits>>
tools  == <<registry, loaded, request, data, pc, policy, guard, call, executed, invoked>>
window == <<messages, sent, cut, compactor>>
chat   == <<conv, log, heads, turns, asked, seen, polling, shared>>
tree   == <<rows, head, torn>>

\* What the parts promise, as their modules state it: delivery of the agents'
\* messages (multi_agents/bus.py), the request's policy (skills/executor.py), a
\* truncated prompt (context/manager.py), the messages of a trace (chat/repository.py)
\* and the tree made of them (message_tree.py).
DeliveredOnce        == MB!DeliveredOnce
ExecutedWithinPolicy == TA!ExecutedWithinPolicy
TruncationSound      == CW!TruncationSound
TraceIsChain         == CH!TraceIsChain
TreeIsSound          == MT!TreeIsSound
=============================================================================
