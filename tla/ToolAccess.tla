------------------------------ MODULE ToolAccess ------------------------------
(***************************************************************************)
(* Which tools a run may call: the tool policy of the request, kept in the *)
(* row's data when the run pauses, the tools advertised to the model, and  *)
(* the guard and the validator between a call of the model, which may name *)
(* any tool, and its handler (run_goal._run_agent_mode, capabilities/      *)
(* skills/policy.py, guard.py, validator.py, executor.py). The registry is *)
(* shared by all runs; system skills come and go under any name, and, if   *)
(* the deployment allows it, requests invoke skills without any run.       *)
(***************************************************************************)
EXTENDS Naturals, FiniteSets

CONSTANTS
  Tool,    \* names of skills
  AreaOf,  \* the area (domain) whose module defines the tool
  RiskOf,  \* its risk level
  Retries, \* retries of an executor
  AllowInvoke \* TASK_PILOT_ALLOW_DIRECT_SKILL_INVOKE

Risk == {"read", "write"}
Area == {AreaOf[n] : n \in Tool}

\* An optional field is the set of its values: {} when it is missing.
Policy == [levels : (SUBSET Risk) \ {{}}, allowed : {{}} \cup {{S} : S \in SUBSET Tool},
           blocked : SUBSET Tool]

VARIABLES
  registry, \* the kind of the skill under each name
  loaded,   \* areas whose module has been imported
  request,  \* what was asked for: the policy as it came, areas, tools to leave out
  data,     \* the same as the row's data has it
  pc,       \* the run
  policy,   \* its policy
  guard,    \* the guard of its executor: levels, allowed_tools, blocked_tools
  call,     \* the call under way, and the skill it found
  executed, \* history: names whose handler has run, with the skill's kind
  invoked   \* history: the same of those invoked outside the run

vars == <<registry, loaded, request, data, pc, policy, guard, call, executed, invoked>>

NoCall == [name |-> "none", kind |-> "none", attempt |-> 0]
READ   == [levels |-> {"read"}, allowed |-> {}, blocked |-> {}]
NoData == [levels |-> {}, allowed |-> {}, blocked |-> {}, areas |-> {}, exclude |-> {}]

Init ==
  /\ registry = [n \in Tool |-> "none"] /\ loaded = {}
  /\ request = NoData /\ data = NoData
  /\ pc = "none" /\ policy = READ /\ guard = READ
  /\ call = NoCall /\ executed = {} /\ invoked = {}

-----------------------------------------------------------------------------
(* The policy.                                                             *)

\* from_mapping: an empty list of levels is refused, a missing one means READ;
\* a tool is not both allowed and blocked.
Parses(raw) == /\ raw.levels # {{}}
               /\ \A S \in raw.allowed : S \cap raw.blocked = {}

FromMapping(raw) ==
  [levels |-> IF raw.levels = {} THEN {"read"} ELSE UNION raw.levels,
   allowed |-> raw.allowed, blocked |-> raw.blocked]

\* Mutant of ToDict: what is blocked is not written.
ToDictUnblocked(p, d) == [d EXCEPT !.levels = {p.levels}, !.allowed = p.allowed, !.blocked = {}]

\* The policy as the row's data keeps it.
ToDict(p, d) ==
  [d EXCEPT !.levels = {p.levels}, !.allowed = p.allowed, !.blocked = p.blocked]

\* PermissionGuard.check
Check(g, n) ==
  /\ n \notin g.blocked /\ \A S \in g.allowed : n \in S
  /\ RiskOf[n] \in g.levels

\* The guard allows what is advertised, and of that what the policy allows.
ToGuard(p, advertised) ==
  [levels |-> p.levels, blocked |-> p.blocked,
   allowed |-> {{n \in advertised : \A S \in p.allowed : n \in S}}]

-----------------------------------------------------------------------------
(* Submitting, pausing and resuming a run.                                 *)

\* run_agent parses the policy and passes it on; it leaves no tool out and
\* drops the areas it does not know. run_task hands its parameters on as they are.
Submit(raw) ==
  /\ pc = "none" /\ Parses(raw) /\ raw.exclude = {}
  /\ request' = raw /\ data' = ToDict(FromMapping(raw), raw) /\ pc' = "scheduled"
  /\ UNCHANGED <<registry, loaded, policy, guard, call, executed, invoked>>

RunTask(raw) ==
  /\ pc = "none" /\ request' = raw /\ data' = raw /\ pc' = "scheduled"
  /\ UNCHANGED <<registry, loaded, policy, guard, call, executed, invoked>>

\* load_agentic_tools imports the modules, which register their tools once.
Loaded ==
  [n \in Tool |-> IF AreaOf[n] \in data.areas \ loaded THEN "executable" ELSE registry[n]]

Advertised(p, reg) ==
  {n \in Tool : /\ reg[n] = "executable" /\ AreaOf[n] \in data.areas
                /\ n \notin data.exclude /\ Check(p, n)}

\* _run_agent_mode up to the runner. A run without tools fails.
StartRun ==
  /\ pc = "scheduled"
  /\ IF Parses(data)
       THEN LET p == FromMapping(data)
                advertised == Advertised(p, Loaded)
            IN  /\ registry' = Loaded /\ loaded' = loaded \cup data.areas
                /\ policy' = p /\ guard' = ToGuard(p, advertised)
                /\ pc' = IF advertised = {} THEN "failed" ELSE "running"
       ELSE pc' = "failed" /\ UNCHANGED <<registry, loaded, policy, guard, invoked>>
  /\ UNCHANGED <<request, data, call, executed, invoked>>

\* The run waits for a decision; the row's data is rewritten.
Pause ==
  /\ pc = "running" /\ call = NoCall
  /\ pc' = "waiting" /\ data' = ToDict(policy, data)
  /\ UNCHANGED <<registry, loaded, request, policy, guard, call, executed, invoked>>

Resume ==
  /\ pc = "waiting" /\ pc' = "scheduled"
  /\ UNCHANGED <<registry, loaded, request, data, policy, guard, call, executed, invoked>>

Finish ==
  /\ pc = "running" /\ call = NoCall /\ pc' = "ended"
  /\ UNCHANGED <<registry, loaded, request, data, policy, guard, call, executed, invoked>>

-----------------------------------------------------------------------------
(* Calls.                                                                  *)

\* ParameterValidator.validate: the skill has a handler; what it requires is
\* given, of the right type, and nothing else.
Validates(kind, args) == kind = "executable" /\ args = "conforming"

\* An unknown name ends the run; a refused call is an error for the model.
Call(n, args) ==
  /\ pc = "running" /\ call = NoCall
  /\ IF registry[n] = "none" THEN pc' = "failed" /\ UNCHANGED call
     ELSE /\ Check(guard, n) /\ Validates(registry[n], args)
          /\ call' = [name |-> n, kind |-> registry[n], attempt |-> 1] /\ UNCHANGED pc
  /\ UNCHANGED <<registry, loaded, request, data, policy, guard, executed, invoked>>

\* execute_prevalidated: an attempt at the skill that was found.
Execute ==
  /\ call # NoCall
  /\ executed' = executed \cup {<<call.name, call.kind>>}
  /\ \/ call' = NoCall                 \* it returns, or raises
     \/ /\ call.attempt <= Retries     \* timeout, connection error: once more
        /\ call' = [call EXCEPT !.attempt = @ + 1]
  /\ UNCHANGED <<registry, loaded, request, data, pc, policy, guard, invoked>>

\* invoke_skill: any skill there is, with no run and no policy, but only one that
\* reads; the default executor validates the call and tries it once.
Invoke(n, args) ==
  /\ AllowInvoke /\ registry[n] # "none" /\ RiskOf[n] = "read"
  /\ Validates(registry[n], args)
  /\ invoked' = invoked \cup {<<n, registry[n]>>}
  /\ UNCHANGED <<registry, loaded, request, data, pc, policy, guard, call, executed>>

-----------------------------------------------------------------------------
(* The registry.                                                           *)

\* A system skill takes the name, whoever had it; a deleted one leaves nothing.
RegisterSystem(n) ==
  /\ registry[n] # "knowledge" /\ registry' = [registry EXCEPT ![n] = "knowledge"]
  /\ UNCHANGED <<loaded, request, data, pc, policy, guard, call, executed, invoked>>

Unregister(n) ==
  /\ registry[n] = "knowledge" /\ registry' = [registry EXCEPT ![n] = "none"]
  /\ UNCHANGED <<loaded, request, data, pc, policy, guard, call, executed, invoked>>

Raw == [levels : {{}, {{}}} \cup {{S} : S \in (SUBSET Risk) \ {{}}},
        allowed : {{}} \cup {{S} : S \in SUBSET Tool}, blocked : SUBSET Tool,
        areas : (SUBSET Area) \ {{}}, exclude : SUBSET Tool]

Next ==
  \/ \E raw \in Raw : Submit(raw) \/ RunTask(raw)
  \/ StartRun \/ Pause \/ Resume \/ Finish \/ Execute
  \/ \E n \in Tool, args \in {"conforming", "not_conforming"} : Call(n, args) \/ Invoke(n, args)
  \/ \E n \in Tool : RegisterSystem(n) \/ Unregister(n)

Spec == Init /\ [][Next]_vars

-----------------------------------------------------------------------------
(* Properties.                                                             *)

TypeOK ==
  /\ registry \in [Tool -> {"none", "executable", "knowledge"}] /\ loaded \subseteq Area
  /\ pc \in {"none", "scheduled", "running", "waiting", "ended", "failed"}
  /\ policy \in Policy /\ guard \in Policy /\ call.attempt \in 0..(Retries + 1)

\* A handler runs only if the request's own policy permits its tool and its
\* areas hold it, whatever names the model makes up, however often the run was
\* paused and resumed, and whatever took the name since (policy.py: a
\* fabricated tool call cannot bypass the advertised capability set). Outside of
\* runs, only what reads is invoked (skills.py: "only READ allowed").
ExecutedWithinPolicy ==
  /\ \A e \in executed :
       /\ e[2] = "executable" /\ Check(FromMapping(request), e[1])
       /\ AreaOf[e[1]] \in request.areas /\ e[1] \notin request.exclude
  /\ \A e \in invoked : e[2] = "executable" /\ RiskOf[e[1]] = "read"

\* load_agentic_tools: the tools of the areas a run asks for are there.
AreasLoaded == pc = "running" =>
  \A n \in Tool : AreaOf[n] \in data.areas => registry[n] # "none"
=============================================================================
