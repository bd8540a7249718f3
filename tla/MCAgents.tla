------------------------------ MODULE MCAgents ------------------------------
(***************************************************************************)
(* TLC instance of the coordinator and the parts around the agent's loop.  *)
(* They do not share state: each behaviour is of one part, the others      *)
(* stand still.                                                            *)
(***************************************************************************)
EXTENDS Coordinator, AgentParts, TLC

VARIABLE part                                            \* the part that acts

MCAreaOf == [n \in Tool |-> IF n = "a" THEN "x" ELSE "y"]
MCRiskOf == [n \in Tool |-> IF n = "b" THEN "write" ELSE "read"]

\* Agents and calls of the bus are told apart by nothing but their name.
MCSymmetry == Permutations(Mailboxes) \cup Permutations(Receiver)

AgentsInit ==
  /\ part \in {"coordinator", "bus", "tools", "window", "chat", "tree"}
  /\ Init /\ MB!Init /\ TA!Init /\ CW!Init /\ CH!Init /\ MT!Init
  /\ part # "coordinator" => phase = "decompose" /\ strategy = "dag" /\ agents = {}
  /\ part # "window" => compactor = FALSE

CoordinatorStep == part = "coordinator" /\ Next /\ UNCHANGED <<part, bus, tools, window, chat, tree>>
BusStep    == part = "bus" /\ MB!Next /\ UNCHANGED <<part, vars, tools, window, chat, tree>>
ToolsStep  == part = "tools" /\ TA!Next /\ UNCHANGED <<part, vars, bus, window, chat, tree>>
WindowStep == part = "window" /\ CW!Next /\ UNCHANGED <<part, vars, bus, tools, chat, tree>>
ChatStep   == part = "chat" /\ CH!Next /\ UNCHANGED <<part, vars, bus, tools, window, tree>>
TreeStep   == part = "tree" /\ MT!Next /\ UNCHANGED <<part, vars, bus, tools, window, chat>>

AgentsNext ==
  \/ CoordinatorStep \/ BusStep \/ ToolsStep \/ WindowStep \/ ChatStep \/ TreeStep

AgentsSpec == AgentsInit /\ [][AgentsNext]_<<part, vars, bus, tools, window, chat, tree>>
=============================================================================
