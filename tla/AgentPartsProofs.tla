--------------------------- MODULE AgentPartsProofs ---------------------------
(***************************************************************************)
(* Proofs about the parts around the agent's loop, each an instance of its *)
(* module with constants and variables of its own: a tool is executed only *)
(* within the policy of the request (ToolAccess), a message between agents *)
(* is in one place at a time and delivered once (MessageBus), the messages *)
(* of a run stay a tree (MessageTree), those of a trace of the chat a      *)
(* chain (Chat), and a prompt that was cut holds whole pairs of call and   *)
(* result and fits the window (ContextWindow).                             *)
(***************************************************************************)
EXTENDS AgentParts, Integers, Sequences, NaturalsInduction, WellFoundedInduction,
        FiniteSetTheorems, TLAPS

-----------------------------------------------------------------------------
(* Tool access: the inductive invariant.                                   *)

\* What a mapping of a policy may look like, or the empty one of no run.
RawType == [levels : {{}, {{}}} \cup {{S} : S \in (SUBSET TA!Risk) \ {{}}},
            allowed : {{}} \cup {{S} : S \in SUBSET Tool}, blocked : SUBSET Tool,
            areas : SUBSET TA!Area, exclude : SUBSET Tool]

\* What the request itself permits.
Within(n) == /\ TA!Check(TA!FromMapping(request), n)
             /\ AreaOf[n] \in request.areas /\ n \notin request.exclude

ToolTyped ==
  /\ TA!TypeOK
  /\ request \in RawType /\ data \in RawType
  /\ \/ call = TA!NoCall
     \/ call \in [name : Tool, kind : {"none", "executable", "knowledge"},
                 attempt : 1..(Retries + 1)]
  /\ \A e \in executed : e[1] \in Tool

\* The row's data says the same as the request, however often it was rewritten.
SamePolicy ==
  /\ TA!FromMapping(data) = TA!FromMapping(request)
  /\ data.areas = request.areas /\ data.exclude = request.exclude

\* The policy and the guard of the executor are the request's, and the guard lets
\* nothing else through.
Guarded ==
  /\ pc \in {"running", "waiting"} => policy = TA!FromMapping(request)
  /\ pc = "running" => \A n \in Tool : TA!Check(guard, n) => Within(n)
  /\ call # TA!NoCall => pc = "running" /\ call.kind = "executable" /\ Within(call.name)
  /\ pc = "none" => executed = {}

ToolInv == ToolTyped /\ SamePolicy /\ Guarded /\ TA!ExecutedWithinPolicy

\* A mapping that parses is a policy.
LEMMA ParsedIsPolicy ==
  ASSUME NEW raw \in RawType, raw.levels # {{}}
  PROVE  TA!FromMapping(raw) \in TA!Policy
<1> DEFINE p == TA!FromMapping(raw)
<1>1. p = [levels |-> IF raw.levels = {} THEN {"read"} ELSE UNION raw.levels,
           allowed |-> raw.allowed, blocked |-> raw.blocked]
  BY DEF TA!FromMapping
<1>2. (IF raw.levels = {} THEN {"read"} ELSE UNION raw.levels) \in (SUBSET TA!Risk) \ {{}}
  <2>1. CASE raw.levels = {}
    <3>1. {"read"} # {} /\ {"read"} \subseteq TA!Risk
      BY DEF TA!Risk
    <3>a. {"read"} \notin {{}}
      BY <3>1
    <3>b. {"read"} \in SUBSET TA!Risk
      BY <3>1
    <3>2. {"read"} \in (SUBSET TA!Risk) \ {{}}
      BY <3>a, <3>b
    <3>3. (IF raw.levels = {} THEN {"read"} ELSE UNION raw.levels) = {"read"}
      BY <2>1
    <3> QED
      BY <3>2, <3>3
  <2>2. CASE raw.levels # {}
    <3>1. PICK S \in (SUBSET TA!Risk) \ {{}} : raw.levels = {S}
      BY <2>2 DEF RawType
    <3>2. UNION raw.levels = S
      BY <3>1
    <3> QED
      BY <2>2, <3>1, <3>2
  <2> QED
    BY <2>1, <2>2
<1> QED
  BY <1>1, <1>2 DEF TA!Policy, RawType

\* What the row's data says of a policy survives being written down and read.
LEMMA ToDictKeeps ==
  ASSUME NEW p \in TA!Policy, NEW d \in RawType
  PROVE  LET w == TA!ToDict(p, d)
         IN  /\ w \in RawType /\ TA!FromMapping(w) = p
             /\ w.areas = d.areas /\ w.exclude = d.exclude
<1> DEFINE w == TA!ToDict(p, d)
<1>1. p = [levels |-> p.levels, allowed |-> p.allowed, blocked |-> p.blocked]
      /\ p.levels \in (SUBSET TA!Risk) \ {{}}
  BY DEF TA!Policy
<1>2. w = [levels |-> {p.levels}, allowed |-> p.allowed, blocked |-> p.blocked,
           areas |-> d.areas, exclude |-> d.exclude]
  <2>1. d = [levels |-> d.levels, allowed |-> d.allowed, blocked |-> d.blocked,
             areas |-> d.areas, exclude |-> d.exclude]
    BY DEF RawType
  <2> DEFINE a == [d EXCEPT !.levels = {p.levels}]
             b == [a EXCEPT !.allowed = p.allowed]
  <2>2. a = [levels |-> {p.levels}, allowed |-> d.allowed, blocked |-> d.blocked,
             areas |-> d.areas, exclude |-> d.exclude]
    BY <2>1
  <2>3. w = [b EXCEPT !.blocked = p.blocked]
    BY DEF TA!ToDict
  <2> HIDE DEF a, w
  <2>4. b = [levels |-> {p.levels}, allowed |-> p.allowed, blocked |-> d.blocked,
             areas |-> d.areas, exclude |-> d.exclude]
    BY <2>2
  <2> HIDE DEF b
  <2> QED
    BY <2>3, <2>4
<1>3. {p.levels} \in {{}, {{}}} \cup {{S} : S \in (SUBSET TA!Risk) \ {{}}}
  BY <1>1
<1>4. w \in RawType
  BY <1>2, <1>3 DEF RawType, TA!Policy
<1>5. UNION w.levels = p.levels /\ w.levels # {}
  BY <1>2
<1>6. w.allowed = p.allowed /\ w.blocked = p.blocked
  BY <1>2
<1>7. TA!FromMapping(w) = p
  BY <1>5, <1>6, <1>1 DEF TA!FromMapping
<1>8. w.areas = d.areas /\ w.exclude = d.exclude
  BY <1>2
<1> QED
  BY <1>4, <1>7, <1>8

\* The guard of a policy is one.
LEMMA GuardIsPolicy ==
  ASSUME NEW p \in TA!Policy, NEW S \in SUBSET Tool PROVE TA!ToGuard(p, S) \in TA!Policy
  BY DEF TA!Policy, TA!ToGuard

\* What the guard lets through is advertised, and what is advertised the policy
\* permits.
LEMMA GuardWithin ==
  ASSUME NEW p, NEW reg, NEW n \in Tool,
         TA!Check(TA!ToGuard(p, TA!Advertised(p, reg)), n)
  PROVE  TA!Check(p, n) /\ AreaOf[n] \in data.areas /\ n \notin data.exclude
  BY DEF TA!Check, TA!ToGuard, TA!Advertised

\* It holds before anything is asked for.
LEMMA ToolInit == ASSUME Retries \in Nat PROVE TA!Init => ToolInv
<1> SUFFICES ASSUME TA!Init PROVE ToolInv
  OBVIOUS
<1>1. TA!READ \in TA!Policy
  <2>1. {"read"} # {} /\ {"read"} \subseteq TA!Risk
    BY DEF TA!Risk
  <2>a. {"read"} \notin {{}}
    BY <2>1
  <2>b. {"read"} \in SUBSET TA!Risk
    BY <2>1
  <2>2. {"read"} \in (SUBSET TA!Risk) \ {{}}
    BY <2>a, <2>b
  <2> QED
    BY <2>2 DEF TA!READ, TA!Policy
<1>2. TA!NoData \in RawType
  BY DEF TA!NoData, RawType
<1>3. ToolTyped
  BY <1>1, <1>2 DEF TA!Init, ToolTyped, TA!TypeOK, TA!NoCall
<1>4. SamePolicy /\ Guarded /\ TA!ExecutedWithinPolicy
  BY DEF TA!Init, SamePolicy, Guarded, TA!ExecutedWithinPolicy
<1> QED
  BY <1>3, <1>4 DEF ToolInv

\* No step leaves the types.
LEMMA ToolTypedKept ==
  ASSUME Retries \in Nat, ToolInv, [TA!Next]_(TA!vars)
  PROVE  ToolTyped'
<1>1. ASSUME NEW raw \in TA!Raw, TA!Submit(raw) PROVE ToolTyped'
  <2>1. raw \in RawType /\ raw.levels # {{}}
    BY <1>1 DEF TA!Submit, TA!Parses, TA!Raw, RawType
  <2>2. data' \in RawType
    BY <1>1, <2>1, ParsedIsPolicy, ToDictKeeps DEF TA!Submit
  <2> QED
    BY <1>1, <2>1, <2>2 DEF TA!Submit, ToolInv, ToolTyped, TA!TypeOK
<1>2. ASSUME NEW raw \in TA!Raw, TA!RunTask(raw) PROVE ToolTyped'
  <2>1. raw \in RawType
    BY DEF TA!Raw, RawType
  <2> QED
    BY <1>2, <2>1 DEF TA!RunTask, ToolInv, ToolTyped, TA!TypeOK
<1>3. ASSUME TA!StartRun PROVE ToolTyped'
  <2> DEFINE p == TA!FromMapping(data)
             advertised == TA!Advertised(p, TA!Loaded)
  <2>1. CASE ~TA!Parses(data)
    BY <1>3, <2>1 DEF TA!StartRun, ToolInv, ToolTyped, TA!TypeOK
  <2>2. CASE TA!Parses(data)
    <3>1. p \in TA!Policy /\ advertised \in SUBSET Tool
      BY <2>2, ParsedIsPolicy DEF ToolInv, ToolTyped, TA!Parses, TA!Advertised
    <3>2. guard' \in TA!Policy
      BY <1>3, <2>2, <3>1, GuardIsPolicy DEF TA!StartRun
    <3>3. loaded' \subseteq TA!Area /\ registry' \in [Tool -> {"none", "executable", "knowledge"}]
      BY <1>3, <2>2 DEF TA!StartRun, TA!Loaded, ToolInv, ToolTyped, TA!TypeOK, RawType
    <3> QED
      BY <1>3, <2>2, <3>1, <3>2, <3>3 DEF TA!StartRun, ToolInv, ToolTyped, TA!TypeOK
  <2> QED
    BY <2>1, <2>2
<1>4. ASSUME TA!Pause PROVE ToolTyped'
  <2>1. data' \in RawType
    BY <1>4, ToDictKeeps DEF TA!Pause, ToolInv, ToolTyped, TA!TypeOK
  <2> QED
    BY <1>4, <2>1 DEF TA!Pause, ToolInv, ToolTyped, TA!TypeOK
<1>5. ASSUME TA!Resume PROVE ToolTyped'
  BY <1>5 DEF TA!Resume, ToolInv, ToolTyped, TA!TypeOK
<1>6. ASSUME TA!Finish PROVE ToolTyped'
  BY <1>6 DEF TA!Finish, ToolInv, ToolTyped, TA!TypeOK
<1>7. ASSUME TA!Execute PROVE ToolTyped'
  <2>1. call.name \in Tool /\ call.attempt \in 0..(Retries + 1)
    BY <1>7 DEF TA!Execute, ToolInv, ToolTyped, TA!TypeOK
  <2>2. \A e \in executed' : e[1] \in Tool
    BY <1>7, <2>1 DEF TA!Execute, ToolInv, ToolTyped
  <2>3. CASE call' = TA!NoCall
    <3>1. TA!NoCall.attempt \in 0..(Retries + 1)
      BY DEF TA!NoCall
    <3> QED
      BY <1>7, <2>2, <2>3, <3>1 DEF TA!Execute, ToolInv, ToolTyped, TA!TypeOK
  <2>4. CASE call.attempt <= Retries /\ call' = [call EXCEPT !.attempt = call.attempt + 1]
    <3>1. call = [name |-> call.name, kind |-> call.kind, attempt |-> call.attempt]
      BY <1>7 DEF TA!Execute, ToolInv, ToolTyped
    <3>2. call'.name = call.name /\ call'.attempt \in 0..(Retries + 1)
      BY <2>1, <2>4, <3>1
    <3> QED
      BY <1>7, <2>1, <2>2, <3>2 DEF TA!Execute, ToolInv, ToolTyped, TA!TypeOK
  <2> QED
    BY <1>7, <2>3, <2>4 DEF TA!Execute
<1>8. ASSUME NEW n \in Tool, NEW args \in {"conforming", "not_conforming"}, TA!Call(n, args)
      PROVE ToolTyped'
  BY <1>8 DEF TA!Call, ToolInv, ToolTyped, TA!TypeOK
<1>9. ASSUME NEW n \in Tool, NEW args \in {"conforming", "not_conforming"}, TA!Invoke(n, args)
      PROVE ToolTyped'
  BY <1>9 DEF TA!Invoke, ToolInv, ToolTyped, TA!TypeOK
<1>10. ASSUME NEW n \in Tool, TA!RegisterSystem(n) PROVE ToolTyped'
  BY <1>10 DEF TA!RegisterSystem, ToolInv, ToolTyped, TA!TypeOK
<1>11. ASSUME NEW n \in Tool, TA!Unregister(n) PROVE ToolTyped'
  BY <1>11 DEF TA!Unregister, ToolInv, ToolTyped, TA!TypeOK
<1>12. CASE UNCHANGED TA!vars
  BY <1>12 DEF TA!vars, ToolInv, ToolTyped, TA!TypeOK
<1> QED
  BY <1>1, <1>2, <1>3, <1>4, <1>5, <1>6, <1>7, <1>8, <1>9, <1>10, <1>11, <1>12
  DEF TA!Next

\* However the row is rewritten, it says what the request said.
LEMMA SamePolicyKept ==
  ASSUME Retries \in Nat, ToolInv, [TA!Next]_(TA!vars)
  PROVE  SamePolicy'
<1>1. ASSUME NEW raw \in TA!Raw, TA!Submit(raw) PROVE SamePolicy'
  <2>1. raw \in RawType /\ raw.levels # {{}}
    BY <1>1 DEF TA!Submit, TA!Parses, TA!Raw, RawType
  <2>2. TA!FromMapping(data') = TA!FromMapping(raw) /\ data'.areas = raw.areas
        /\ data'.exclude = raw.exclude
    BY <1>1, <2>1, ParsedIsPolicy, ToDictKeeps DEF TA!Submit
  <2> QED
    BY <1>1, <2>2 DEF TA!Submit, SamePolicy, TA!FromMapping
<1>2. ASSUME NEW raw \in TA!Raw, TA!RunTask(raw) PROVE SamePolicy'
  BY <1>2 DEF TA!RunTask, ToolInv, SamePolicy
<1>3. ASSUME TA!StartRun PROVE SamePolicy'
  BY <1>3 DEF TA!StartRun, ToolInv, SamePolicy
<1>4. ASSUME TA!Pause PROVE SamePolicy'
  <2>1. policy \in TA!Policy /\ data \in RawType /\ policy = TA!FromMapping(request)
    BY <1>4 DEF TA!Pause, ToolInv, ToolTyped, TA!TypeOK, Guarded
  <2>2. TA!FromMapping(data') = policy /\ data'.areas = data.areas /\ data'.exclude = data.exclude
    BY <1>4, <2>1, ToDictKeeps DEF TA!Pause
  <2> QED
    BY <1>4, <2>1, <2>2 DEF TA!Pause, ToolInv, SamePolicy, TA!FromMapping
<1>5. ASSUME TA!Resume PROVE SamePolicy'
  BY <1>5 DEF TA!Resume, ToolInv, SamePolicy
<1>6. ASSUME TA!Finish PROVE SamePolicy'
  BY <1>6 DEF TA!Finish, ToolInv, SamePolicy
<1>7. ASSUME TA!Execute PROVE SamePolicy'
  BY <1>7 DEF TA!Execute, ToolInv, SamePolicy
<1>8. ASSUME NEW n \in Tool, NEW args \in {"conforming", "not_conforming"}, TA!Call(n, args)
      PROVE SamePolicy'
  BY <1>8 DEF TA!Call, ToolInv, SamePolicy
<1>9. ASSUME NEW n \in Tool, NEW args \in {"conforming", "not_conforming"}, TA!Invoke(n, args)
      PROVE SamePolicy'
  BY <1>9 DEF TA!Invoke, ToolInv, SamePolicy
<1>10. ASSUME NEW n \in Tool, TA!RegisterSystem(n) PROVE SamePolicy'
  BY <1>10 DEF TA!RegisterSystem, ToolInv, SamePolicy
<1>11. ASSUME NEW n \in Tool, TA!Unregister(n) PROVE SamePolicy'
  BY <1>11 DEF TA!Unregister, ToolInv, SamePolicy
<1>12. CASE UNCHANGED TA!vars
  BY <1>12 DEF TA!vars, ToolInv, SamePolicy
<1> QED
  BY <1>1, <1>2, <1>3, <1>4, <1>5, <1>6, <1>7, <1>8, <1>9, <1>10, <1>11, <1>12
  DEF TA!Next

\* A run's guard, and the call under way, stay within the request.
LEMMA GuardedKept ==
  ASSUME Retries \in Nat, ToolInv, [TA!Next]_(TA!vars)
  PROVE  Guarded'
<1>1. ASSUME NEW raw \in TA!Raw, TA!Submit(raw) PROVE Guarded'
  BY <1>1 DEF TA!Submit, ToolInv, Guarded, SamePolicy, Within, TA!NoCall
<1>2. ASSUME NEW raw \in TA!Raw, TA!RunTask(raw) PROVE Guarded'
  BY <1>2 DEF TA!RunTask, ToolInv, Guarded, SamePolicy, Within, TA!NoCall
<1>3. ASSUME TA!StartRun PROVE Guarded'
  <2> DEFINE p == TA!FromMapping(data)
             advertised == TA!Advertised(p, TA!Loaded)
  <2>1. CASE ~TA!Parses(data)
    BY <1>3, <2>1 DEF TA!StartRun, ToolInv, Guarded
  <2>2. CASE TA!Parses(data)
    <3>1. p \in TA!Policy /\ advertised \in SUBSET Tool
      BY <2>2, ParsedIsPolicy DEF ToolInv, ToolTyped, TA!Parses, TA!Advertised
    <3>2. policy' = p /\ guard' = TA!ToGuard(p, advertised) /\ request' = request /\ call' = call
          /\ executed' = executed /\ pc' # "none" /\ pc = "scheduled"
      BY <1>3, <2>2 DEF TA!StartRun
    <3>3. p = TA!FromMapping(request) /\ data.areas = request.areas
          /\ data.exclude = request.exclude
      BY DEF ToolInv, SamePolicy
    <3>4. \A n \in Tool : TA!Check(guard', n) => Within(n)
      BY <3>2, <3>3, GuardWithin DEF Within
    <3>5. call = TA!NoCall
      BY <3>2 DEF ToolInv, Guarded
    <3> HIDE DEF p, advertised
    <3> QED
      BY <3>2, <3>3, <3>4, <3>5 DEF Guarded, Within, TA!Check, TA!FromMapping
  <2> QED
    BY <2>1, <2>2
<1>4. ASSUME TA!Pause PROVE Guarded'
  BY <1>4 DEF TA!Pause, ToolInv, Guarded, SamePolicy, Within, TA!NoCall
<1>5. ASSUME TA!Resume PROVE Guarded'
  BY <1>5 DEF TA!Resume, ToolInv, Guarded, SamePolicy, Within, TA!NoCall
<1>6. ASSUME TA!Finish PROVE Guarded'
  BY <1>6 DEF TA!Finish, ToolInv, Guarded, SamePolicy, Within, TA!NoCall
<1>7. ASSUME TA!Execute PROVE Guarded'
  <2>1. call = [name |-> call.name, kind |-> call.kind, attempt |-> call.attempt]
    BY <1>7 DEF TA!Execute, ToolInv, ToolTyped
  <2>2. (call'.name = call.name /\ call'.kind = call.kind) \/ call' = TA!NoCall
    BY <1>7, <2>1 DEF TA!Execute
  <2>3. call # TA!NoCall /\ pc = "running" /\ pc' = pc
    BY <1>7 DEF TA!Execute, ToolInv, Guarded
  <2> QED
    BY <1>7, <2>2, <2>3 DEF TA!Execute, ToolInv, Guarded, Within, TA!Check, TA!FromMapping
<1>8. ASSUME NEW n \in Tool, NEW args \in {"conforming", "not_conforming"}, TA!Call(n, args)
      PROVE Guarded'
  <2>1. CASE call' = call
    BY <1>8, <2>1 DEF TA!Call, ToolInv, Guarded, Within, TA!Check, TA!FromMapping
  <2>2. CASE /\ TA!Check(guard, n) /\ TA!Validates(registry[n], args)
             /\ call' = [name |-> n, kind |-> registry[n], attempt |-> 1] /\ pc' = pc
    <3>1. call'.name = n /\ call'.kind = "executable" /\ pc = "running" /\ Within(n)
      BY <1>8, <2>2 DEF TA!Call, TA!Validates, ToolInv, Guarded
    <3> QED
      BY <1>8, <2>2, <3>1 DEF TA!Call, ToolInv, Guarded, Within, TA!Check, TA!FromMapping
  <2> QED
    BY <1>8, <2>1, <2>2 DEF TA!Call
<1>9. ASSUME NEW n \in Tool, NEW args \in {"conforming", "not_conforming"}, TA!Invoke(n, args)
      PROVE Guarded'
  BY <1>9 DEF TA!Invoke, ToolInv, Guarded, SamePolicy, Within, TA!NoCall
<1>10. ASSUME NEW n \in Tool, TA!RegisterSystem(n) PROVE Guarded'
  BY <1>10 DEF TA!RegisterSystem, ToolInv, Guarded, SamePolicy, Within, TA!NoCall
<1>11. ASSUME NEW n \in Tool, TA!Unregister(n) PROVE Guarded'
  BY <1>11 DEF TA!Unregister, ToolInv, Guarded, SamePolicy, Within, TA!NoCall
<1>12. CASE UNCHANGED TA!vars
  BY <1>12 DEF TA!vars, ToolInv, Guarded, SamePolicy, Within, TA!NoCall
<1> QED
  BY <1>1, <1>2, <1>3, <1>4, <1>5, <1>6, <1>7, <1>8, <1>9, <1>10, <1>11, <1>12
  DEF TA!Next

\* A handler runs only within the request.
LEMMA WithinKept ==
  ASSUME Retries \in Nat, ToolInv, [TA!Next]_(TA!vars)
  PROVE  TA!ExecutedWithinPolicy'
<1>1. ASSUME NEW raw \in TA!Raw, TA!Submit(raw) PROVE TA!ExecutedWithinPolicy'
  BY <1>1 DEF TA!Submit, ToolInv, Guarded, Within, TA!ExecutedWithinPolicy
<1>2. ASSUME NEW raw \in TA!Raw, TA!RunTask(raw) PROVE TA!ExecutedWithinPolicy'
  BY <1>2 DEF TA!RunTask, ToolInv, Guarded, Within, TA!ExecutedWithinPolicy
<1>3. ASSUME TA!StartRun PROVE TA!ExecutedWithinPolicy'
  BY <1>3 DEF TA!StartRun, ToolInv, Guarded, Within, TA!ExecutedWithinPolicy
<1>4. ASSUME TA!Pause PROVE TA!ExecutedWithinPolicy'
  BY <1>4 DEF TA!Pause, ToolInv, Guarded, Within, TA!ExecutedWithinPolicy
<1>5. ASSUME TA!Resume PROVE TA!ExecutedWithinPolicy'
  BY <1>5 DEF TA!Resume, ToolInv, Guarded, Within, TA!ExecutedWithinPolicy
<1>6. ASSUME TA!Finish PROVE TA!ExecutedWithinPolicy'
  BY <1>6 DEF TA!Finish, ToolInv, Guarded, Within, TA!ExecutedWithinPolicy
<1>7. ASSUME TA!Execute PROVE TA!ExecutedWithinPolicy'
  BY <1>7 DEF TA!Execute, ToolInv, Guarded, Within, TA!ExecutedWithinPolicy
<1>8. ASSUME NEW n \in Tool, NEW args \in {"conforming", "not_conforming"}, TA!Call(n, args)
      PROVE TA!ExecutedWithinPolicy'
  BY <1>8 DEF TA!Call, ToolInv, Guarded, Within, TA!ExecutedWithinPolicy
<1>9. ASSUME NEW n \in Tool, NEW args \in {"conforming", "not_conforming"}, TA!Invoke(n, args)
      PROVE TA!ExecutedWithinPolicy'
  <2>1. registry[n] = "executable" /\ RiskOf[n] = "read" /\ executed' = executed
        /\ request' = request
    BY <1>9 DEF TA!Invoke, TA!Validates
  <2>2. \A e \in invoked' : e \in invoked \/ e = <<n, "executable">>
    BY <1>9, <2>1 DEF TA!Invoke
  <2> QED
    BY <2>1, <2>2 DEF ToolInv, TA!ExecutedWithinPolicy, TA!Check, TA!FromMapping
<1>10. ASSUME NEW n \in Tool, TA!RegisterSystem(n) PROVE TA!ExecutedWithinPolicy'
  BY <1>10 DEF TA!RegisterSystem, ToolInv, Guarded, Within, TA!ExecutedWithinPolicy
<1>11. ASSUME NEW n \in Tool, TA!Unregister(n) PROVE TA!ExecutedWithinPolicy'
  BY <1>11 DEF TA!Unregister, ToolInv, Guarded, Within, TA!ExecutedWithinPolicy
<1>12. CASE UNCHANGED TA!vars
  BY <1>12 DEF TA!vars, ToolInv, Guarded, Within, TA!ExecutedWithinPolicy
<1> QED
  BY <1>1, <1>2, <1>3, <1>4, <1>5, <1>6, <1>7, <1>8, <1>9, <1>10, <1>11, <1>12
  DEF TA!Next

\* The types of the tools' state.
THEOREM ToolTypeCorrect ==
  ASSUME Retries \in Nat PROVE TA!Spec => []TA!TypeOK
<1>1. ToolInv /\ [TA!Next]_(TA!vars) => ToolInv'
  BY ToolTypedKept, SamePolicyKept, GuardedKept, WithinKept DEF ToolInv
<1>2. ToolInv => TA!TypeOK
  BY DEF ToolInv, ToolTyped
<1> QED
  BY ToolInit, <1>1, <1>2, PTL DEF TA!Spec

\* Whatever names a model makes up, however often its run is paused and resumed
\* and whoever takes a tool's name since: a handler runs only if the request
\* itself permits its tool; and outside of runs only what reads is invoked.
THEOREM ToolsStayWithinPolicy ==
  ASSUME Retries \in Nat PROVE TA!Spec => []ExecutedWithinPolicy
<1>1. ToolInv /\ [TA!Next]_(TA!vars) => ToolInv'
  BY ToolTypedKept, SamePolicyKept, GuardedKept, WithinKept DEF ToolInv
<1>2. ToolInv => ExecutedWithinPolicy
  BY DEF ToolInv, ExecutedWithinPolicy
<1> QED
  BY ToolInit, <1>1, <1>2, PTL DEF TA!Spec

-----------------------------------------------------------------------------
(* Sequences in which nothing comes twice.                                 *)

Rng(s) == {s[i] : i \in 1..Len(s)}

Distinct(s) == \A i, j \in 1..Len(s) : s[i] = s[j] => i = j

\* What is in a sequence over S is in S.
LEMMA ElementOf == ASSUME NEW S, NEW s \in Seq(S), NEW i \in 1..Len(s) PROVE s[i] \in S
  OBVIOUS

\* One at the end.
LEMMA AppendDistinct ==
  ASSUME NEW S, NEW s \in Seq(S), NEW m \in S
  PROVE  /\ Append(s, m) \in Seq(S) /\ Rng(Append(s, m)) = Rng(s) \cup {m}
         /\ Distinct(s) /\ m \notin Rng(s) => Distinct(Append(s, m))
<1>1. Len(Append(s, m)) = Len(s) + 1 /\ Len(s) \in Nat
  OBVIOUS
<1>2. \A i \in 1..Len(s) : Append(s, m)[i] = s[i]
  OBVIOUS
<1>3. Append(s, m)[Len(s) + 1] = m
  OBVIOUS
<1>4. Rng(Append(s, m)) = Rng(s) \cup {m}
  BY <1>1, <1>2, <1>3 DEF Rng
<1>5. Distinct(s) /\ m \notin Rng(s) => Distinct(Append(s, m))
  BY <1>1, <1>2, <1>3 DEF Rng, Distinct
<1> QED
  BY <1>4, <1>5

\* The first one taken away.
LEMMA TailDistinct ==
  ASSUME NEW S, NEW s \in Seq(S), s # <<>>
  PROVE  /\ Tail(s) \in Seq(S) /\ Head(s) \in S /\ Head(s) \in Rng(s)
         /\ Distinct(s) => Distinct(Tail(s)) /\ Rng(Tail(s)) = Rng(s) \ {Head(s)}
<1>1. /\ Len(s) \in Nat \ {0} /\ Len(Tail(s)) = Len(s) - 1 /\ Head(s) = s[1]
      /\ Tail(s) \in Seq(S) /\ Head(s) \in S
  OBVIOUS
<1>2. \A i \in 1..Len(Tail(s)) : Tail(s)[i] = s[i + 1]
  OBVIOUS
<1>3. Head(s) \in Rng(s)
  BY <1>1 DEF Rng
<1>4. ASSUME Distinct(s) PROVE Distinct(Tail(s)) /\ Rng(Tail(s)) = Rng(s) \ {Head(s)}
  <2>1. Distinct(Tail(s))
    BY <1>1, <1>2, <1>4 DEF Distinct
  <2>2. \A x \in Rng(Tail(s)) : x \in Rng(s) /\ x # Head(s)
    BY <1>1, <1>2, <1>4 DEF Rng, Distinct
  <2>3. ASSUME NEW x \in Rng(s), x # Head(s) PROVE x \in Rng(Tail(s))
    <3>1. PICK i \in 1..Len(s) : s[i] = x
      BY DEF Rng
    <3>2. i - 1 \in 1..Len(Tail(s)) /\ Tail(s)[i - 1] = x
      BY <3>1, <2>3, <1>1, <1>2
    <3> QED
      BY <3>2 DEF Rng
  <2> QED
    BY <2>1, <2>2, <2>3
<1> QED
  BY <1>1, <1>3, <1>4

\* One after the other.
LEMMA ConcatDistinct ==
  ASSUME NEW S, NEW s \in Seq(S), NEW t \in Seq(S)
  PROVE  /\ s \o t \in Seq(S) /\ Rng(s \o t) = Rng(s) \cup Rng(t)
         /\ Distinct(s) /\ Distinct(t) /\ Rng(s) \cap Rng(t) = {} => Distinct(s \o t)
<1>1. Len(s \o t) = Len(s) + Len(t) /\ Len(s) \in Nat /\ Len(t) \in Nat
  OBVIOUS
<1>2. \A i \in 1..Len(s) : (s \o t)[i] = s[i]
  OBVIOUS
<1>3. \A i \in 1..Len(t) : (s \o t)[Len(s) + i] = t[i]
  OBVIOUS
<1>4. \A i \in 1..Len(s \o t) :
        (i \in 1..Len(s) /\ (s \o t)[i] = s[i])
        \/ (i - Len(s) \in 1..Len(t) /\ (s \o t)[i] = t[i - Len(s)])
  <2> TAKE i \in 1..Len(s \o t)
  <2>1. CASE i <= Len(s)
    BY <2>1, <1>1, <1>2
  <2>2. CASE i > Len(s)
    <3>1. i - Len(s) \in 1..Len(t) /\ i = Len(s) + (i - Len(s))
      BY <2>2, <1>1
    <3> QED
      BY <3>1, <1>3
  <2> QED
    BY <2>1, <2>2, <1>1
<1>5. \A x \in Rng(s \o t) : x \in Rng(s) \cup Rng(t)
  BY <1>4 DEF Rng
<1>6. \A x \in Rng(s) : x \in Rng(s \o t)
  BY <1>1, <1>2 DEF Rng
<1>7. ASSUME NEW x \in Rng(t) PROVE x \in Rng(s \o t)
  <2>1. PICK i \in 1..Len(t) : t[i] = x
    BY DEF Rng
  <2>2. Len(s) + i \in 1..Len(s \o t) /\ (s \o t)[Len(s) + i] = x
    BY <2>1, <1>1, <1>3
  <2> QED
    BY <2>2 DEF Rng
<1>8. ASSUME Distinct(s), Distinct(t), Rng(s) \cap Rng(t) = {} PROVE Distinct(s \o t)
  <2> SUFFICES ASSUME NEW i \in 1..Len(s \o t), NEW j \in 1..Len(s \o t),
  (s \o t)[i] = (s \o t)[j]
               PROVE  i = j
    BY DEF Distinct
  <2>1. \A k \in 1..Len(s), l \in 1..Len(t) : s[k] # t[l]
    BY <1>8 DEF Rng
  <2>2. CASE i \in 1..Len(s) /\ (s \o t)[i] = s[i]
    <3>1. j \in 1..Len(s) /\ (s \o t)[j] = s[j]
      BY <2>1, <2>2, <1>4
    <3> QED
      BY <2>2, <3>1, <1>8 DEF Distinct
  <2>3. CASE i - Len(s) \in 1..Len(t) /\ (s \o t)[i] = t[i - Len(s)]
    <3>1. j - Len(s) \in 1..Len(t) /\ (s \o t)[j] = t[j - Len(s)]
      BY <2>1, <2>3, <1>4
    <3>2. i - Len(s) = j - Len(s)
      BY <2>3, <3>1, <1>8 DEF Distinct
    <3> QED
      BY <3>2, <1>1
  <2> QED
    BY <2>2, <2>3, <1>4
<1> QED
  BY <1>5, <1>6, <1>7, <1>8

\* The instance's cardinality is the library's.
LEMMA SameCardinality == \A S : MB!Cardinality(S) = Cardinality(S)
  BY DEF MB!Cardinality, Cardinality

-----------------------------------------------------------------------------
(* The message bus: the inductive invariant.                               *)

BusPlace == 0..MB!Received

Waiting == [agent : Mailboxes, queue : 1..MaxQueues, urgent : BOOLEAN]

BusTyped ==
  /\ queues \in [Mailboxes -> [1..MaxQueues -> Seq(MB!Message)]]
  /\ current \in [Mailboxes -> 0..MaxQueues] /\ made \in [Mailboxes -> 1..MaxQueues]
  /\ deferred \in [Mailboxes -> Seq(MB!Message)] /\ got \in [Mailboxes -> Seq(MB!Message)]
  /\ gone \in [Mailboxes -> SUBSET MB!Message]
  /\ waits \in [Receiver -> Waiting \cup {MB!NotWaiting}]
  /\ history \in Seq([message : MB!Message, to : SUBSET Mailboxes])
  /\ \A i \in 1..Len(history) : history[i].message.id = i

\* m was sent to a.
SentTo(m, a) == \E i \in 1..Len(history) : history[i].message = m /\ a \in history[i].to

\* What was sent to a is in one of its places, once, or discarded, and nothing else is.
AgentHas(a) ==
  /\ \A p \in BusPlace : Distinct(MB!At(a, p))
  /\ \A p \in BusPlace : \A m \in Rng(MB!At(a, p)) :
       m \notin gone[a] /\ \A q \in BusPlace : m \in Rng(MB!At(a, q)) => p = q
  /\ \A m \in MB!Message :
       m \in gone[a] \/ (\E p \in BusPlace : m \in Rng(MB!At(a, p))) <=> SentTo(m, a)

BusInv == BusTyped /\ \A a \in Mailboxes : AgentHas(a)

\* What the places are, before a step and after it.
LEMMA BusPlaces ==
  ASSUME MaxQueues \in Nat, NEW a
  PROVE  /\ 0 \in BusPlace /\ MB!Received \in BusPlace /\ 1..MaxQueues \subseteq BusPlace
         /\ BusPlace = {0, MB!Received} \cup (1..MaxQueues)
         /\ 0 # MB!Received /\ \A q \in 1..MaxQueues : q # 0 /\ q # MB!Received
         /\ MB!At(a, 0) = deferred[a] /\ MB!At(a, MB!Received) = got[a]
         /\ \A q \in 1..MaxQueues : MB!At(a, q) = queues[a][q]
         /\ MB!At(a, 0)' = deferred'[a] /\ MB!At(a, MB!Received)' = got'[a]
         /\ \A q \in 1..MaxQueues : MB!At(a, q)' = queues'[a][q]
  BY DEF BusPlace, MB!Received, MB!At

\* The messages of an agent are what their types say, wherever they are.
LEMMA PlaceTypes ==
  ASSUME MaxQueues \in Nat, BusInv, NEW a \in Mailboxes
  PROVE  /\ AgentHas(a) /\ \A p \in BusPlace : MB!At(a, p) \in Seq(MB!Message)
         /\ deferred[a] \in Seq(MB!Message) /\ got[a] \in Seq(MB!Message)
         /\ \A q \in 1..MaxQueues : queues[a][q] \in Seq(MB!Message)
<1>1. /\ deferred[a] \in Seq(MB!Message) /\ got[a] \in Seq(MB!Message)
      /\ \A q \in 1..MaxQueues : queues[a][q] \in Seq(MB!Message)
  BY DEF BusInv, BusTyped
<1>2. \A p \in BusPlace : MB!At(a, p) \in Seq(MB!Message)
  BY <1>1, BusPlaces
<1> QED
  BY <1>1, <1>2 DEF BusInv

\* It implies that a message is in one place.
LEMMA BusInvImplies == ASSUME MaxQueues \in Nat, BusInv PROVE MB!DeliveredOnce
<1> SUFFICES ASSUME NEW i \in 1..Len(history), NEW a \in Mailboxes
             PROVE  MB!Cardinality(MB!Copies(history[i].message, a))
                      = IF a \in history[i].to /\ history[i].message \notin gone[a] THEN 1 ELSE 0
  BY DEF MB!DeliveredOnce
<1> DEFINE m == history[i].message
           C == MB!Copies(m, a)
<1>a. AgentHas(a) /\ BusTyped
  BY DEF BusInv
<1>b. m \in MB!Message
  <2>1. history[i] \in [message : MB!Message, to : SUBSET Mailboxes]
    BY <1>a, ElementOf DEF BusTyped
  <2> QED
    BY <2>1
<1>c. SentTo(m, a) <=> a \in history[i].to
  BY <1>a DEF SentTo, BusTyped
<1>d. \A c : c \in C <=> \E p \in BusPlace : \E j \in 1..Len(MB!At(a, p)) :
                           MB!At(a, p)[j] = m /\ c = <<p, j>>
  BY DEF MB!Copies, BusPlace
<1> HIDE DEF m, C
<1>1. CASE \E p \in BusPlace : m \in Rng(MB!At(a, p))
  <2>1. PICK p \in BusPlace : m \in Rng(MB!At(a, p))
    BY <1>1
  <2>2. PICK j \in 1..Len(MB!At(a, p)) : MB!At(a, p)[j] = m
    BY <2>1 DEF Rng
  <2>3. \A q \in BusPlace : \A k \in 1..Len(MB!At(a, q)) : MB!At(a, q)[k] = m => q = p /\ k = j
    <3> SUFFICES ASSUME NEW q \in BusPlace, NEW k \in 1..Len(MB!At(a, q)), MB!At(a, q)[k] = m
                 PROVE  q = p /\ k = j
      OBVIOUS
    <3>1. m \in Rng(MB!At(a, q))
      BY DEF Rng
    <3>2. q = p
      BY <3>1, <2>1, <1>a DEF AgentHas
    <3> QED
      BY <3>2, <2>2, <1>a DEF AgentHas, Distinct
  <2>4. \A c : c \in C <=> c = <<p, j>>
    BY <2>2, <2>3, <1>d
  <2>5. C = {<<p, j>>}
    BY <2>4
  <2>6. MB!Cardinality(C) = 1
    BY <2>5, SameCardinality, FS_Singleton
  <2>7. a \in history[i].to /\ m \notin gone[a]
    BY <2>1, <1>a, <1>b, <1>c DEF AgentHas
  <2> QED
    BY <2>6, <2>7 DEF m, C
<1>2. CASE \A p \in BusPlace : m \notin Rng(MB!At(a, p))
  <2>1. \A c : c \notin C
    BY <1>2, <1>d DEF Rng
  <2>2. C = {}
    BY <2>1
  <2>3. MB!Cardinality(C) = 0
    BY <2>2, SameCardinality, FS_EmptySet
  <2>4. ~(a \in history[i].to /\ m \notin gone[a])
    BY <1>2, <1>a, <1>b, <1>c DEF AgentHas
  <2> QED
    BY <2>3, <2>4 DEF m, C
<1> QED
  BY <1>1, <1>2

\* It holds when nothing has been sent.
LEMMA BusInit ==
  ASSUME MaxQueues \in Nat \ {0} PROVE MB!Init => BusInv
<1> SUFFICES ASSUME MB!Init PROVE BusInv
  OBVIOUS
<1>1. BusTyped
  BY DEF MB!Init, BusTyped
<1>2. ASSUME NEW a \in Mailboxes PROVE AgentHas(a)
  <2>1. \A p \in BusPlace : MB!At(a, p) = <<>>
    BY BusPlaces DEF MB!Init
  <2>2. \A p \in BusPlace : Distinct(MB!At(a, p)) /\ Rng(MB!At(a, p)) = {}
    BY <2>1 DEF Distinct, Rng
  <2> QED
    BY <2>2 DEF MB!Init, AgentHas, SentTo
<1> QED
  BY <1>1, <1>2 DEF BusInv

\* An agent whose places and messages stay.
LEMMA SameAgent ==
  ASSUME MaxQueues \in Nat, NEW a \in Mailboxes, AgentHas(a), history' = history,
         queues'[a] = queues[a], deferred'[a] = deferred[a], got'[a] = got[a],
         gone'[a] = gone[a]
  PROVE  AgentHas(a)'
<1>1. \A p \in BusPlace : MB!At(a, p)' = MB!At(a, p)
  BY BusPlaces
<1> QED
  BY <1>1 DEF AgentHas, SentTo, BusPlace, MB!Received

\* What is taken from a's places and discarded is all that was put aside.
LEMMA AsideDiscarded ==
  ASSUME MaxQueues \in Nat, NEW a \in Mailboxes, AgentHas(a), history' = history,
         queues'[a] = queues[a], deferred'[a] = <<>>, got'[a] = got[a],
         gone'[a] = gone[a] \cup Rng(deferred[a])
  PROVE  AgentHas(a)'
<1>1. \A p \in BusPlace \ {0} : MB!At(a, p)' = MB!At(a, p)
  BY BusPlaces
<1>2. Rng(MB!At(a, 0)') = {} /\ Distinct(MB!At(a, 0)')
  BY BusPlaces DEF Rng, Distinct
<1>3. gone'[a] = gone[a] \cup Rng(MB!At(a, 0)) /\ 0 \in BusPlace
  BY BusPlaces
<1> QED
  BY <1>1, <1>2, <1>3 DEF AgentHas, SentTo, BusPlace, MB!Received

\* A place that a step does not touch.
LEMMA OtherPlace ==
  ASSUME MaxQueues \in Nat, NEW a, NEW q \in 1..MaxQueues, NEW p \in BusPlace, p # q,
         \A x \in (1..MaxQueues) \ {q} : queues'[a][x] = queues[a][x],
         p = 0 => deferred'[a] = deferred[a], p = MB!Received => got'[a] = got[a]
  PROVE  MB!At(a, p)' = MB!At(a, p)
<1>1. CASE p = 0
  BY <1>1, BusPlaces
<1>2. CASE p = MB!Received
  BY <1>2, BusPlaces
<1>3. CASE p # 0 /\ p # MB!Received
  <2>1. p \in (1..MaxQueues) \ {q}
    BY <1>3, BusPlaces
  <2>2. MB!At(a, p) = queues[a][p] /\ MB!At(a, p)' = queues'[a][p]
    BY <2>1, BusPlaces
  <2> QED
    BY <2>1, <2>2
<1> QED
  BY <1>1, <1>2, <1>3

\* No step leaves the types.
LEMMA BusTypedKept ==
  ASSUME MaxSent \in Nat, MaxQueues \in Nat, BusInv, [MB!Next]_(MB!vars)
  PROVE  BusTyped'
<1>a. BusTyped
  BY DEF BusInv
<1>1. ASSUME NEW u \in BOOLEAN, NEW to \in (SUBSET Mailboxes) \ {{}}, MB!Send(u, to)
      PROVE BusTyped'
  <2> DEFINE m == [id |-> Len(history) + 1, urgent |-> u]
             here == {a \in to : MB!Registered(a)}
             entry == [message |-> m, to |-> here]
  <2>1. m \in MB!Message
    BY <1>1, <1>a DEF MB!Send, MB!Message, BusTyped
  <2>2. entry \in [message : MB!Message, to : SUBSET Mailboxes]
        /\ entry.message.id = Len(history) + 1
    BY <2>1
  <2>3. history' = Append(history, entry)
    BY <1>1 DEF MB!Send
  <2>4. queues' = [a \in Mailboxes |->
                     IF a \in here THEN [queues[a] EXCEPT ![current[a]] = Append(@, m)]
                                   ELSE queues[a]]
    BY <1>1 DEF MB!Send
  <2> HIDE DEF entry
  <2>5. /\ history' \in Seq([message : MB!Message, to : SUBSET Mailboxes])
        /\ \A i \in 1..Len(history') : history'[i].message.id = i
    <3>1. history \in Seq([message : MB!Message, to : SUBSET Mailboxes])
          /\ \A i \in 1..Len(history) : history[i].message.id = i
      BY <1>a DEF BusTyped
    <3> QED
      BY <2>2, <2>3, <3>1
  <2> HIDE DEF m
  <2>6. ASSUME NEW a \in Mailboxes PROVE queues'[a] \in [1..MaxQueues -> Seq(MB!Message)]
    <3>1. CASE a \in here
      <4>1. current[a] \in 1..MaxQueues
        BY <3>1, <1>a DEF BusTyped, MB!Registered
      <4>2. Append(queues[a][current[a]], m) \in Seq(MB!Message)
        BY <4>1, <2>1, <1>a, AppendDistinct DEF BusTyped
      <4> QED
        BY <3>1, <4>1, <4>2, <2>4, <1>a DEF BusTyped
    <3>2. CASE a \notin here
      BY <3>2, <2>4, <1>a DEF BusTyped
    <3> QED
      BY <3>1, <3>2
  <2>7. queues' \in [Mailboxes -> [1..MaxQueues -> Seq(MB!Message)]]
    BY <2>4, <2>6
  <2> QED
    BY <1>1, <2>5, <2>7, <1>a DEF MB!Send, BusTyped
<1>2. ASSUME NEW r \in Receiver, MB!Receive(r) PROVE BusTyped'
  <2> DEFINE a == waits[r].agent
             q == waits[r].queue
             m == Head(queues[a][q])
  <2>1. a \in Mailboxes /\ q \in 1..MaxQueues /\ queues[a][q] # <<>>
    BY <1>2, <1>a DEF MB!Receive, BusTyped, Waiting
  <2>a. /\ queues[a] \in [1..MaxQueues -> Seq(MB!Message)]
        /\ queues[a][q] \in Seq(MB!Message) /\ deferred[a] \in Seq(MB!Message)
        /\ got[a] \in Seq(MB!Message)
    BY <2>1, <1>a DEF BusTyped
  <2>2. m \in MB!Message /\ Tail(queues[a][q]) \in Seq(MB!Message)
    BY <2>1, <2>a, TailDistinct
  <2>3. /\ Append(got[a], m) \in Seq(MB!Message) /\ Append(deferred[a], m) \in Seq(MB!Message)
        /\ Tail(queues[a][q]) \o deferred[a] \in Seq(MB!Message)
    BY <2>2, <2>a, AppendDistinct, ConcatDistinct
  <2>4. MB!Requeued(a) \in Seq(MB!Message)
    BY DEF MB!Requeued
  <2>5. queues' \in [Mailboxes -> [1..MaxQueues -> Seq(MB!Message)]]
    <3>1. queues' = [queues EXCEPT ![a][q] = Tail(queues[a][q]) \o deferred[a]]
          \/ queues' = [queues EXCEPT ![a][q] = Tail(queues[a][q])]
      BY <1>2 DEF MB!Receive
    <3>2. /\ [queues[a] EXCEPT ![q] = Tail(queues[a][q]) \o deferred[a]]
               \in [1..MaxQueues -> Seq(MB!Message)]
          /\ [queues[a] EXCEPT ![q] = Tail(queues[a][q])] \in [1..MaxQueues -> Seq(MB!Message)]
      BY <2>1, <2>2, <2>3, <2>a
    <3> QED
      BY <3>1, <3>2, <2>1, <1>a DEF BusTyped
  <2>6. deferred' \in [Mailboxes -> Seq(MB!Message)]
    <3>1. deferred' = [deferred EXCEPT ![a] = MB!Requeued(a)]
          \/ deferred' = [deferred EXCEPT ![a] = Append(deferred[a], m)]
      BY <1>2 DEF MB!Receive
    <3> QED
      BY <3>1, <2>1, <2>3, <2>4, <1>a DEF BusTyped
  <2>7. got' \in [Mailboxes -> Seq(MB!Message)]
    <3>1. got' = got \/ got' = [got EXCEPT ![a] = Append(got[a], m)]
      BY <1>2 DEF MB!Receive
    <3> QED
      BY <3>1, <2>1, <2>3, <1>a DEF BusTyped
  <2>8. waits' \in [Receiver -> Waiting \cup {MB!NotWaiting}]
    BY <1>2, <1>a DEF MB!Receive, BusTyped
  <2> QED
    BY <1>2, <2>5, <2>6, <2>7, <2>8, <1>a DEF MB!Receive, BusTyped
<1>3. ASSUME NEW r \in Receiver, MB!TimeOut(r) PROVE BusTyped'
  BY <1>3, <1>a DEF MB!TimeOut, BusTyped
<1>4. ASSUME NEW r \in Receiver, NEW b \in Mailboxes, NEW u \in BOOLEAN, MB!BeginReceive(r, b, u)
      PROVE BusTyped'
  <2>1. [agent |-> b, queue |-> current[b], urgent |-> u] \in Waiting
    BY <1>4, <1>a DEF MB!BeginReceive, MB!Registered, BusTyped, Waiting
  <2> QED
    BY <1>4, <2>1, <1>a DEF MB!BeginReceive, BusTyped
<1>5. ASSUME NEW b \in Mailboxes, MB!DrainDeferred(b) PROVE BusTyped'
  <2>1. deferred' \in [Mailboxes -> Seq(MB!Message)]
    BY <1>5, <1>a DEF MB!DrainDeferred, BusTyped
  <2>2. CASE MB!Registered(b)
    <3>1. current[b] \in 1..MaxQueues
      BY <2>2, <1>a DEF MB!Registered, BusTyped
    <3>2. queues[b][current[b]] \o deferred[b] \in Seq(MB!Message)
      BY <3>1, <1>a, ConcatDistinct DEF BusTyped
    <3>3. [queues[b] EXCEPT ![current[b]] = @ \o deferred[b]] \in [1..MaxQueues -> Seq(MB!Message)]
      BY <3>1, <3>2, <1>a DEF BusTyped
    <3>4. queues' \in [Mailboxes -> [1..MaxQueues -> Seq(MB!Message)]]
      BY <1>5, <2>2, <3>3, <1>a DEF MB!DrainDeferred, BusTyped
    <3> QED
      BY <1>5, <2>1, <2>2, <3>4, <1>a DEF MB!DrainDeferred, BusTyped
  <2>3. CASE ~MB!Registered(b)
    <3>1. MB!ToSet(deferred[b]) \in SUBSET MB!Message
      BY <1>a DEF MB!ToSet, BusTyped
    <3> QED
      BY <1>5, <2>1, <2>3, <3>1, <1>a DEF MB!DrainDeferred, BusTyped
  <2> QED
    BY <2>2, <2>3
<1>6. ASSUME NEW b \in Mailboxes, MB!Unregister(b) PROVE BusTyped'
  BY <1>6, <1>a DEF MB!Unregister, BusTyped
<1>7. ASSUME NEW b \in Mailboxes, MB!Register(b) PROVE BusTyped'
  <2>1. made[b] + 1 \in 1..MaxQueues
    BY <1>7, <1>a DEF MB!Register, BusTyped
  <2> QED
    BY <1>7, <2>1, <1>a DEF MB!Register, BusTyped
<1>8. ASSUME MB!ResetStats PROVE BusTyped'
  <2>1. \A a \in Mailboxes : MB!ToSet(deferred[a]) \in SUBSET MB!Message
    BY <1>a DEF MB!ToSet, BusTyped
  <2> QED
    BY <1>8, <2>1, <1>a DEF MB!ResetStats, BusTyped
<1>9. CASE UNCHANGED MB!vars
  BY <1>9, <1>a DEF MB!vars, BusTyped
<1> QED
  BY <1>1, <1>2, <1>3, <1>4, <1>5, <1>6, <1>7, <1>8, <1>9
  DEF MB!Next

\* No step loses a message or doubles it.
LEMMA AgentsKept ==
  ASSUME MaxSent \in Nat, MaxQueues \in Nat, BusInv, [MB!Next]_(MB!vars), NEW a \in Mailboxes
  PROVE  AgentHas(a)'
<1>a. BusTyped /\ AgentHas(a) /\ \A p \in BusPlace : MB!At(a, p) \in Seq(MB!Message)
  BY PlaceTypes DEF BusInv
<1>h. AgentHas(a)
  BY <1>a
<1>p. /\ 0 \in BusPlace /\ MB!Received \in BusPlace /\ 0 # MB!Received
      /\ \A q \in 1..MaxQueues : q \in BusPlace /\ q # 0 /\ q # MB!Received
  BY BusPlaces
<1>b. /\ \A p \in BusPlace : p = 0 \/ p = MB!Received \/ p \in 1..MaxQueues
      /\ MB!At(a, 0) = deferred[a] /\ MB!At(a, MB!Received) = got[a]
      /\ \A q \in 1..MaxQueues : MB!At(a, q) = queues[a][q]
  BY BusPlaces
<1>c. /\ MB!At(a, 0)' = deferred'[a] /\ MB!At(a, MB!Received)' = got'[a]
      /\ \A q \in 1..MaxQueues : MB!At(a, q)' = queues'[a][q]
  BY BusPlaces
<1>1. ASSUME NEW u \in BOOLEAN, NEW to \in (SUBSET Mailboxes) \ {{}}, MB!Send(u, to)
      PROVE AgentHas(a)'
  <2> DEFINE m == [id |-> Len(history) + 1, urgent |-> u]
             here == {b \in to : MB!Registered(b)}
  <2>1. history' = Append(history, [message |-> m, to |-> here]) /\ m \in MB!Message
    BY <1>1, <1>a DEF MB!Send, MB!Message, BusTyped
  <2>2. /\ deferred'[a] = deferred[a] /\ got'[a] = got[a] /\ gone'[a] = gone[a]
        /\ queues'[a] = IF a \in here THEN [queues[a] EXCEPT ![current[a]] = Append(@, m)]
                                       ELSE queues[a]
    BY <1>1 DEF MB!Send
  <2>3. ~SentTo(m, a)
    <3>1. Len(history) \in Nat /\ \A i \in 1..Len(history) : history[i].message.id = i
      BY <1>a DEF BusTyped
    <3>2. m.id = Len(history) + 1
      OBVIOUS
    <3> HIDE DEF m
    <3> QED
      BY <3>1, <3>2 DEF SentTo
  <2> HIDE DEF m
  <2>5. \A n \in MB!Message : SentTo(n, a)' <=> SentTo(n, a) \/ (n = m /\ a \in here)
    <3>1. /\ Len(history') = Len(history) + 1 /\ Len(history) \in Nat
          /\ history'[Len(history) + 1] = [message |-> m, to |-> here]
          /\ \A i \in 1..Len(history) : history'[i] = history[i]
      BY <2>1, <1>a DEF BusTyped
    <3> HIDE DEF here
    <3> QED
      BY <3>1 DEF SentTo
  <2>6. CASE a \notin here
    <3>1. \A p \in BusPlace : MB!At(a, p)' = MB!At(a, p)
      BY <2>2, <2>6, <1>p, <1>b, <1>c
    <3> QED
      BY <2>2, <2>5, <2>6, <3>1, <1>a DEF AgentHas, BusPlace, MB!Received
  <2>7. CASE a \in here
    <3>0. current[a] \in 1..MaxQueues
      BY <2>7, <1>a DEF BusTyped, MB!Registered
    <3>1. PICK q \in 1..MaxQueues : q = current[a] /\ q \in BusPlace
      BY <3>0, <1>p
    <3>2. MB!At(a, q)' = Append(MB!At(a, q), m)
      <4>1. queues[a] \in [1..MaxQueues -> Seq(MB!Message)]
        BY <1>a DEF BusTyped
      <4> QED
        BY <2>2, <2>7, <3>1, <4>1, <1>p, <1>b, <1>c
    <3>3. \A p \in BusPlace \ {q} : MB!At(a, p)' = MB!At(a, p)
      <4>1. queues[a] \in [1..MaxQueues -> Seq(MB!Message)]
        BY <1>a DEF BusTyped
      <4>2. \A x \in (1..MaxQueues) \ {q} : queues'[a][x] = queues[a][x]
        BY <2>2, <2>7, <3>1, <4>1
      <4> QED
        BY <2>2, <4>2, <1>p, <1>b, <1>c
    <3>4. m \notin gone[a] /\ \A p \in BusPlace : m \notin Rng(MB!At(a, p))
      BY <2>3, <2>1, <1>a DEF AgentHas
    <3>5. Rng(MB!At(a, q)') = Rng(MB!At(a, q)) \cup {m} /\ Distinct(MB!At(a, q)')
      BY <3>1, <3>2, <3>4, <2>1, <1>a, AppendDistinct DEF AgentHas
    <3> HIDE DEF here
    <3>s. /\ q \in BusPlace /\ \A p \in BusPlace \ {q} : MB!At(a, p)' = MB!At(a, p)
          /\ \A n : n \in Rng(MB!At(a, q)') <=> n \in Rng(MB!At(a, q)) \/ n = m
          /\ Distinct(MB!At(a, q)') /\ gone'[a] = gone[a] /\ m \in MB!Message
          /\ m \notin gone[a] /\ \A p \in BusPlace : m \notin Rng(MB!At(a, p))
      BY <2>1, <2>2, <3>1, <3>3, <3>4, <3>5
    <3>6. \A p \in BusPlace : Distinct(MB!At(a, p)')
      BY <2>5, <2>7, <3>s, <1>h DEF AgentHas
    <3>7. \A p \in BusPlace : \A n \in Rng(MB!At(a, p)') :
           n \notin gone'[a] /\ \A x \in BusPlace : n \in Rng(MB!At(a, x)') => p = x
      BY <2>5, <2>7, <3>s, <1>h DEF AgentHas
    <3>8. \A n \in MB!Message :
            n \in gone'[a] \/ (\E p \in BusPlace : n \in Rng(MB!At(a, p)')) <=> SentTo(n, a)'
      BY <2>5, <2>7, <3>s, <1>h DEF AgentHas
    <3> QED
      BY <3>6, <3>7, <3>8 DEF AgentHas, BusPlace, MB!Received
  <2> QED
    BY <2>6, <2>7
<1>2. ASSUME NEW r \in Receiver, MB!Receive(r) PROVE AgentHas(a)'
  <2> DEFINE b == waits[r].agent
             m == Head(queues[b][waits[r].queue])
  <2>0. b \in Mailboxes /\ waits[r].queue \in 1..MaxQueues
    BY <1>2, <1>a DEF MB!Receive, BusTyped, Waiting
  <2>1. PICK q \in 1..MaxQueues :
          /\ q = waits[r].queue /\ q \in BusPlace /\ b \in Mailboxes /\ queues[b][q] # <<>>
          /\ m = Head(queues[b][q]) /\ history' = history /\ gone' = gone
    BY <1>2, <2>0, <1>p DEF MB!Receive
  <2>2. CASE a # b
    <3>1. queues'[a] = queues[a] /\ deferred'[a] = deferred[a] /\ got'[a] = got[a]
      BY <1>2, <2>1, <2>2, <1>a DEF MB!Receive, BusTyped
    <3> QED
      BY <3>1, <2>1, <1>a, SameAgent
  <2>3. CASE a = b
    <3>a. MB!At(a, q) = queues[a][q] /\ MB!At(a, 0) \in Seq(MB!Message) /\ queues[a] \in [1..MaxQueues -> Seq(MB!Message)]
      BY <2>1, <1>a, <1>p, <1>b, <1>c DEF BusTyped
    <3>1. /\ Tail(MB!At(a, q)) \in Seq(MB!Message) /\ m \in MB!Message /\ m \in Rng(MB!At(a, q))
          /\ Distinct(Tail(MB!At(a, q))) /\ Rng(Tail(MB!At(a, q))) = Rng(MB!At(a, q)) \ {m}
      BY <2>1, <2>3, <3>a, <1>a, TailDistinct DEF AgentHas
    <3>2. gone'[a] = gone[a] /\ \A n : SentTo(n, a)' <=> SentTo(n, a)
      BY <2>1 DEF SentTo
    <3>3. m \notin Rng(MB!At(a, MB!Received)) /\ m \notin Rng(MB!At(a, 0))
          /\ Rng(Tail(MB!At(a, q))) \cap Rng(MB!At(a, 0)) = {}
      BY <3>1, <2>1, <1>a, <1>p DEF AgentHas
    <3>4. CASE m.urgent \/ ~waits[r].urgent
      <4>1. /\ got'[a] = Append(got[a], m) /\ deferred'[a] = <<>>
            /\ queues'[a] = [queues[a] EXCEPT ![q] = Tail(queues[a][q]) \o deferred[a]]
        <5>1. /\ got' = [got EXCEPT ![b] = Append(got[b], m)]
              /\ deferred' = [deferred EXCEPT ![b] = MB!Requeued(b)]
              /\ queues' = [queues EXCEPT ![b][q] = Tail(queues[b][q]) \o deferred[b]]
          BY <1>2, <3>4, <2>1 DEF MB!Receive
        <5> HIDE DEF m
        <5> QED
          BY <5>1, <2>1, <2>3, <1>a DEF MB!Requeued, BusTyped
      <4>2. /\ MB!At(a, MB!Received)' = Append(MB!At(a, MB!Received), m)
            /\ MB!At(a, 0)' = <<>>
            /\ MB!At(a, q)' = Tail(MB!At(a, q)) \o MB!At(a, 0)
            /\ \A p \in BusPlace \ {0, q, MB!Received} : MB!At(a, p)' = MB!At(a, p)
        <5>1. \A x \in (1..MaxQueues) \ {q} : queues'[a][x] = queues[a][x]
          BY <4>1, <3>a
        <5>2. queues'[a][q] = Tail(queues[a][q]) \o deferred[a]
          BY <4>1, <3>a
        <5>3. \A p \in BusPlace \ {0, q, MB!Received} : MB!At(a, p)' = MB!At(a, p)
          BY <4>1, <5>1, OtherPlace
        <5>4. MB!At(a, q)' = Tail(MB!At(a, q)) \o MB!At(a, 0)
          BY <5>2, <3>a, <1>b, <1>c
        <5> HIDE DEF m
        <5> QED
          BY <4>1, <5>3, <5>4, <1>b, <1>c
      <4>3. /\ Rng(MB!At(a, MB!Received)') = Rng(MB!At(a, MB!Received)) \cup {m}
            /\ Distinct(MB!At(a, MB!Received)')
        BY <4>2, <3>a, <3>1, <3>3, <1>a, <1>p, AppendDistinct DEF AgentHas
      <4>4. Distinct(MB!At(a, 0))
        BY <1>a, <1>p DEF AgentHas
      <4>5. Distinct(Tail(MB!At(a, q)) \o MB!At(a, 0))
            /\ Rng(Tail(MB!At(a, q)) \o MB!At(a, 0)) = Rng(Tail(MB!At(a, q))) \cup Rng(MB!At(a, 0))
        <5> DEFINE s == Tail(MB!At(a, q))
                   t == MB!At(a, 0)
        <5>1. s \in Seq(MB!Message) /\ t \in Seq(MB!Message) /\ Distinct(s) /\ Distinct(t)
              /\ Rng(s) \cap Rng(t) = {}
          BY <4>4, <3>a, <3>1, <3>3
        <5> HIDE DEF s, t
        <5>2. Distinct(s \o t) /\ Rng(s \o t) = Rng(s) \cup Rng(t)
          BY <5>1, ConcatDistinct
        <5> QED
          BY <5>2 DEF s, t
      <4>6. Rng(MB!At(a, q)') = (Rng(MB!At(a, q)) \ {m}) \cup Rng(MB!At(a, 0))
            /\ Distinct(MB!At(a, q)')
        BY <4>2, <4>5, <3>1
      <4>7. Rng(MB!At(a, 0)') = {} /\ Distinct(MB!At(a, 0)')
        BY <4>2 DEF Rng, Distinct
      <4> HIDE DEF m
      <4>s. /\ q \in BusPlace /\ q # 0 /\ q # MB!Received
            /\ \A p \in BusPlace \ {0, q, MB!Received} : MB!At(a, p)' = MB!At(a, p)
            /\ \A n : n \in Rng(MB!At(a, MB!Received)') <=> n \in Rng(MB!At(a, MB!Received)) \/ n = m
            /\ \A n : n \in Rng(MB!At(a, q)') <=>
                        (n \in Rng(MB!At(a, q)) /\ n # m) \/ n \in Rng(MB!At(a, 0))
            /\ \A n : n \notin Rng(MB!At(a, 0)')
            /\ Distinct(MB!At(a, q)') /\ Distinct(MB!At(a, 0)') /\ Distinct(MB!At(a, MB!Received)')
            /\ m \in Rng(MB!At(a, q))
        BY <4>2, <4>3, <4>6, <4>7, <3>1, <2>1, <1>p
      <4>8. \A p \in BusPlace : Distinct(MB!At(a, p)')
        BY <4>s, <3>2, <1>p, <1>h DEF AgentHas
      <4>9. \A p \in BusPlace : \A n \in Rng(MB!At(a, p)') :
             n \notin gone'[a] /\ \A x \in BusPlace : n \in Rng(MB!At(a, x)') => p = x
        BY <4>s, <3>2, <1>p, <1>h DEF AgentHas
      <4>10. \A n \in MB!Message :
              n \in gone'[a] \/ (\E p \in BusPlace : n \in Rng(MB!At(a, p)')) <=> SentTo(n, a)'
        BY <4>s, <3>2, <1>p, <1>h DEF AgentHas
      <4> QED
        BY <4>8, <4>9, <4>10 DEF AgentHas, BusPlace, MB!Received
    <3>5. CASE ~(m.urgent \/ ~waits[r].urgent)
      <4>1. /\ got'[a] = got[a] /\ deferred'[a] = Append(deferred[a], m)
            /\ queues'[a] = [queues[a] EXCEPT ![q] = Tail(queues[a][q])]
        <5>1. /\ got' = got /\ deferred' = [deferred EXCEPT ![b] = Append(deferred[b], m)]
              /\ queues' = [queues EXCEPT ![b][q] = Tail(queues[b][q])]
          BY <1>2, <3>5, <2>1 DEF MB!Receive
        <5> HIDE DEF m
        <5> QED
          BY <5>1, <2>1, <2>3, <1>a DEF BusTyped
      <4>2. /\ MB!At(a, 0)' = Append(MB!At(a, 0), m)
            /\ MB!At(a, q)' = Tail(MB!At(a, q))
            /\ \A p \in BusPlace \ {0, q} : MB!At(a, p)' = MB!At(a, p)
        <5>1. \A x \in (1..MaxQueues) \ {q} : queues'[a][x] = queues[a][x]
          BY <4>1, <3>a
        <5>2. queues'[a][q] = Tail(queues[a][q])
          BY <4>1, <3>a
        <5>3. \A p \in BusPlace \ {0, q} : MB!At(a, p)' = MB!At(a, p)
          BY <4>1, <5>1, OtherPlace
        <5>4. MB!At(a, q)' = Tail(MB!At(a, q))
          BY <5>2, <3>a, <1>b, <1>c
        <5> HIDE DEF m
        <5> QED
          BY <4>1, <5>3, <5>4, <1>b, <1>c
      <4>3. Rng(MB!At(a, 0)') = Rng(MB!At(a, 0)) \cup {m} /\ Distinct(MB!At(a, 0)')
        <5> DEFINE t == MB!At(a, 0)
        <5>1. Distinct(t) /\ t \in Seq(MB!Message) /\ m \in MB!Message /\ m \notin Rng(t)
          BY <1>h, <1>p, <3>a, <3>1, <3>3 DEF AgentHas
        <5> HIDE DEF m, t
        <5>2. Rng(Append(t, m)) = Rng(t) \cup {m} /\ Distinct(Append(t, m))
          BY <5>1, AppendDistinct
        <5>3. MB!At(a, 0)' = Append(t, m)
          BY <4>2 DEF t
        <5> QED
          BY <5>2, <5>3 DEF t
      <4>4. Rng(MB!At(a, q)') = Rng(MB!At(a, q)) \ {m} /\ Distinct(MB!At(a, q)')
        BY <4>2, <3>1
      <4> HIDE DEF m
      <4>s. /\ q \in BusPlace /\ q # 0 /\ q # MB!Received
            /\ \A p \in BusPlace \ {0, q} : MB!At(a, p)' = MB!At(a, p)
            /\ \A n : n \in Rng(MB!At(a, 0)') <=> n \in Rng(MB!At(a, 0)) \/ n = m
            /\ \A n : n \in Rng(MB!At(a, q)') <=> n \in Rng(MB!At(a, q)) /\ n # m
            /\ Distinct(MB!At(a, q)') /\ Distinct(MB!At(a, 0)')
            /\ m \in Rng(MB!At(a, q))
        BY <4>2, <4>3, <4>4, <3>1, <2>1, <1>p
      <4>8. \A p \in BusPlace : Distinct(MB!At(a, p)')
        BY <4>s, <3>2, <1>p, <1>h DEF AgentHas
      <4>9. \A p \in BusPlace : \A n \in Rng(MB!At(a, p)') :
             n \notin gone'[a] /\ \A x \in BusPlace : n \in Rng(MB!At(a, x)') => p = x
        BY <4>s, <3>2, <1>p, <1>h DEF AgentHas
      <4>10. \A n \in MB!Message :
              n \in gone'[a] \/ (\E p \in BusPlace : n \in Rng(MB!At(a, p)')) <=> SentTo(n, a)'
        BY <4>s, <3>2, <1>p, <1>h DEF AgentHas
      <4> QED
        BY <4>8, <4>9, <4>10 DEF AgentHas, BusPlace, MB!Received
    <3> QED
      BY <3>4, <3>5
  <2> QED
    BY <2>2, <2>3
<1>3. ASSUME NEW r \in Receiver, MB!TimeOut(r) PROVE AgentHas(a)'
  BY <1>3, <1>a, SameAgent DEF MB!TimeOut
<1>4. ASSUME NEW r \in Receiver, NEW b \in Mailboxes, NEW u \in BOOLEAN, MB!BeginReceive(r, b, u)
      PROVE AgentHas(a)'
  BY <1>4, <1>a, SameAgent DEF MB!BeginReceive
<1>5. ASSUME NEW b \in Mailboxes, MB!DrainDeferred(b) PROVE AgentHas(a)'
  <2>1. CASE a # b
    <3>1. /\ queues'[a] = queues[a] /\ deferred'[a] = deferred[a] /\ got'[a] = got[a]
          /\ gone'[a] = gone[a]
      BY <1>5, <2>1, <1>a DEF MB!DrainDeferred, BusTyped
    <3> QED
      BY <1>5, <3>1, <1>a, SameAgent DEF MB!DrainDeferred
  <2>2. CASE a = b /\ MB!Registered(a)
    <3>0. current[a] \in 1..MaxQueues
      BY <2>2, <1>a DEF BusTyped, MB!Registered
    <3>1. PICK q \in 1..MaxQueues : q = current[a] /\ q \in BusPlace
      BY <3>0, <1>p
    <3>a. queues[a] \in [1..MaxQueues -> Seq(MB!Message)]
      BY <1>a DEF BusTyped
    <3>2. /\ queues'[a] = [queues[a] EXCEPT ![q] = @ \o deferred[a]] /\ deferred'[a] = <<>>
          /\ got'[a] = got[a] /\ gone'[a] = gone[a]
      BY <1>5, <2>2, <3>1, <1>a DEF MB!DrainDeferred, BusTyped
    <3>3. /\ MB!At(a, q)' = MB!At(a, q) \o MB!At(a, 0) /\ MB!At(a, 0)' = <<>>
          /\ \A p \in BusPlace \ {0, q} : MB!At(a, p)' = MB!At(a, p)
      <4>1. \A x \in (1..MaxQueues) \ {q} : queues'[a][x] = queues[a][x]
        BY <3>2, <3>a, <3>1
      <4>2. queues'[a][q] = queues[a][q] \o deferred[a]
        BY <3>2, <3>a, <3>1
      <4>3. \A p \in BusPlace \ {0, q} : MB!At(a, p)' = MB!At(a, p)
        BY <3>2, <4>1, OtherPlace
      <4> QED
        BY <3>2, <4>2, <4>3, <1>b, <1>c
    <3>4. /\ Distinct(MB!At(a, q)) /\ Distinct(MB!At(a, 0))
          /\ Rng(MB!At(a, q)) \cap Rng(MB!At(a, 0)) = {}
      BY <3>1, <1>a, <1>p DEF AgentHas
    <3>5. Rng(MB!At(a, q)') = Rng(MB!At(a, q)) \cup Rng(MB!At(a, 0)) /\ Distinct(MB!At(a, q)')
      BY <3>1, <3>3, <3>4, <1>a, <1>p, ConcatDistinct
    <3>6. Rng(MB!At(a, 0)') = {} /\ Distinct(MB!At(a, 0)')
      BY <3>3 DEF Rng, Distinct
    <3>7. \A n : SentTo(n, a)' <=> SentTo(n, a)
      BY <1>5 DEF MB!DrainDeferred, SentTo
    <3>s. /\ q \in BusPlace /\ q # 0
          /\ \A p \in BusPlace \ {0, q} : MB!At(a, p)' = MB!At(a, p)
          /\ \A n : n \in Rng(MB!At(a, q)') <=> n \in Rng(MB!At(a, q)) \/ n \in Rng(MB!At(a, 0))
          /\ \A n : n \notin Rng(MB!At(a, 0)')
          /\ Distinct(MB!At(a, q)') /\ Distinct(MB!At(a, 0)') /\ gone'[a] = gone[a]
      BY <3>1, <3>2, <3>3, <3>5, <3>6, <1>p
    <3>8. \A p \in BusPlace : Distinct(MB!At(a, p)')
      BY <3>s, <3>7, <1>p, <1>h DEF AgentHas
    <3>9. \A p \in BusPlace : \A n \in Rng(MB!At(a, p)') :
           n \notin gone'[a] /\ \A x \in BusPlace : n \in Rng(MB!At(a, x)') => p = x
      BY <3>s, <3>7, <1>p, <1>h DEF AgentHas
    <3>10. \A n \in MB!Message :
            n \in gone'[a] \/ (\E p \in BusPlace : n \in Rng(MB!At(a, p)')) <=> SentTo(n, a)'
      BY <3>s, <3>7, <1>p, <1>h DEF AgentHas
    <3> QED
      BY <3>8, <3>9, <3>10 DEF AgentHas, BusPlace, MB!Received
  <2>3. CASE a = b /\ ~MB!Registered(a)
    <3>1. MB!ToSet(deferred[a]) = Rng(deferred[a])
      BY PlaceTypes DEF MB!ToSet, Rng
    <3>2. /\ queues'[a] = queues[a] /\ deferred'[a] = <<>> /\ got'[a] = got[a]
          /\ gone'[a] = gone[a] \cup Rng(deferred[a]) /\ history' = history
      BY <1>5, <2>3, <3>1, <1>a DEF MB!DrainDeferred, BusTyped
    <3> QED
      BY <3>2, <1>a, AsideDiscarded
  <2> QED
    BY <2>1, <2>2, <2>3
<1>6. ASSUME NEW b \in Mailboxes, MB!Unregister(b) PROVE AgentHas(a)'
  BY <1>6, <1>a, SameAgent DEF MB!Unregister
<1>7. ASSUME NEW b \in Mailboxes, MB!Register(b) PROVE AgentHas(a)'
  BY <1>7, <1>a, SameAgent DEF MB!Register
<1>8. ASSUME MB!ResetStats PROVE AgentHas(a)'
  <2>1. MB!ToSet(deferred[a]) = Rng(deferred[a])
    BY PlaceTypes DEF MB!ToSet, Rng
  <2>2. /\ queues'[a] = queues[a] /\ deferred'[a] = <<>> /\ got'[a] = got[a]
        /\ gone'[a] = gone[a] \cup Rng(deferred[a]) /\ history' = history
    BY <1>8, <2>1 DEF MB!ResetStats
  <2> QED
    BY <2>2, <1>a, AsideDiscarded
<1>9. CASE UNCHANGED MB!vars
  BY <1>9, <1>a, SameAgent DEF MB!vars
<1> QED
  BY <1>1, <1>2, <1>3, <1>4, <1>5, <1>6, <1>7, <1>8, <1>9
  DEF MB!Next

\* Whatever filtered receives put aside and put back, and whoever registers and
\* unregisters under a receive that waits: a message that was sent to an agent is in
\* one place, once, unless it was discarded as DeliveredOnce says.
THEOREM MessagesDeliveredOnce ==
  ASSUME MaxSent \in Nat, MaxQueues \in Nat \ {0} PROVE MB!Spec => []DeliveredOnce
<1>1. BusInv /\ [MB!Next]_(MB!vars) => BusInv'
  BY BusTypedKept, AgentsKept DEF BusInv
<1>2. BusInv => DeliveredOnce
  BY BusInvImplies DEF DeliveredOnce
<1> QED
  BY BusInit, <1>1, <1>2, PTL DEF MB!Spec

-----------------------------------------------------------------------------
(* The message tree: the inductive invariant.                              *)

RowType == [seq : Nat \ {0}, parent : Nat, branch : {"main", "compression"}]

TreeTyped ==
  /\ rows \in Seq(RowType) /\ head \in [head : Nat, next : Nat \ {0}] /\ torn \in BOOLEAN

\* Numbers are given once, and trace_head knows the next.
Numbered ==
  /\ \A i, j \in 1..Len(rows) : rows[i].seq = rows[j].seq => i = j
  /\ \A i \in 1..Len(rows) : rows[i].seq < head.next

\* A parent is a message, or none; so is the tip.
Rooted ==
  /\ \A i \in 1..Len(rows) : rows[i].parent \in MT!Seqs \cup {0}
  /\ head.head \in MT!Seqs \cup {0}

Acyclic == \A S \in (SUBSET MT!Seqs) \ {{}} : \E s \in S : MT!BySeq(s).parent \notin S

TreeInv == TreeTyped /\ (~torn => Numbered /\ Rooted /\ Acyclic)

\* A non-empty set of natural numbers has a least element.
LEMMA LeastElement ==
  ASSUME NEW S \in SUBSET Nat, S # {}
  PROVE  \E i \in S : \A j \in S : i <= j
<1> DEFINE less == OpToRel(<, Nat)
<1>1. \A i, j \in Nat : i < j => <<i, j>> \in less
  BY DEF OpToRel
<1>2. IsWellFoundedOn(less, Nat)
  BY NatLessThanWellFounded
<1> HIDE DEF less
<1>3. PICK i \in S : \A j \in S : <<j, i>> \notin less
  BY <1>2, WFMin
<1>4. \A j \in S : ~ (j < i)
  BY <1>1, <1>3
<1> QED
  BY <1>4

-----------------------------------------------------------------------------
(* Lemmas about numbers and parents.                                       *)

\* The last row of rs with the number s, by_seq[s].
At(rs, s) ==
  rs[CHOOSE k \in 1..Len(rs) : rs[k].seq = s /\ \A j \in (k + 1)..Len(rs) : rs[j].seq # s]

\* The columns of a row.
LEMMA Columns ==
  ASSUME NEW rs \in Seq(RowType)
  PROVE  /\ Len(rs) \in Nat
         /\ \A i \in 1..Len(rs) : /\ rs[i] \in RowType /\ rs[i].seq \in Nat /\ rs[i].seq # 0
                                  /\ rs[i].parent \in Nat
<1>1. \A i \in 1..Len(rs) : rs[i] \in RowType
  BY ElementOf
<1>2. \A r \in RowType : r.seq \in Nat /\ r.seq # 0 /\ r.parent \in Nat
  BY DEF RowType
<1> HIDE DEF RowType
<1> QED
  BY <1>1, <1>2

\* Of rows with different numbers, the last with a number is the only one.
LEMMA OnlyRow ==
  ASSUME NEW rs \in Seq(RowType), NEW i \in 1..Len(rs),
         \A k, l \in 1..Len(rs) : rs[k].seq = rs[l].seq => k = l
  PROVE  At(rs, rs[i].seq) = rs[i]
<1> DEFINE P(k) == rs[k].seq = rs[i].seq /\ \A j \in (k + 1)..Len(rs) : rs[j].seq # rs[i].seq
<1>1. P(i)
  <2> SUFFICES ASSUME NEW j \in (i + 1)..Len(rs), rs[j].seq = rs[i].seq PROVE FALSE
    OBVIOUS
  <2>1. j \in 1..Len(rs) /\ j # i
    OBVIOUS
  <2> QED
    BY <2>1
<1>2. \A k \in 1..Len(rs) : P(k) => k = i
  OBVIOUS
<1> HIDE DEF P
<1>3. (CHOOSE k \in 1..Len(rs) : P(k)) = i
  BY <1>1, <1>2
<1> QED
  BY <1>3 DEF P, At

\* The messages of the main path are messages: a way of Len(rows) + 1 steps must
\* meet one again, or leave the tree.
LEMMA PathInTree ==
  ASSUME TreeTyped, NEW k \in Nat \ {0}, k < Len(MT!MainPath)
  PROVE  MT!MainPath[k] \in MT!Seqs
<1> DEFINE W == MT!Walk
           met == {l \in DOMAIN W : W[l] \in MT!Seqs /\ \A j \in 0..(l - 1) : W[j] # W[l]}
           n == CHOOSE m \in 0..Len(rows) : (m \notin met) /\ \A j \in 0..(m - 1) : j \in met
<1>a. Len(rows) \in Nat
  BY DEF TreeTyped
<1>1. MT!MainPath = [l \in 1..n |-> W[l - 1]]
  BY DEF MT!MainPath
<1>b. \A l \in met : W[l] \in MT!Seqs /\ \A j \in 0..(l - 1) : W[j] # W[l]
  OBVIOUS
<1> HIDE DEF W, met
<1>2. \E m \in 0..Len(rows) : m \notin met
  <2> SUFFICES ASSUME \A m \in 0..Len(rows) : m \in met PROVE FALSE
    OBVIOUS
  <2> DEFINE f == [m \in 0..Len(rows) |-> W[m]]
  <2>1. f \in Injection(0..Len(rows), MT!Seqs)
    <3>1. f \in [0..Len(rows) -> MT!Seqs]
      BY <1>b
    <3>2. ASSUME NEW i \in 0..Len(rows), NEW j \in 0..Len(rows), f[i] = f[j] PROVE i = j
      <4>1. CASE i < j
        <5>1. i \in 0..(j - 1)
          BY <4>1
        <5> QED
          BY <5>1, <3>2, <1>b
      <4>2. CASE j < i
        <5>1. j \in 0..(i - 1)
          BY <4>2
        <5> QED
          BY <5>1, <3>2, <1>b
      <4> QED
        BY <4>1, <4>2
    <3> QED
      BY <3>1, <3>2 DEF Injection, IsInjective
  <2>2. IsFiniteSet(MT!Seqs) /\ Cardinality(MT!Seqs) <= Len(rows)
    <3> DEFINE g == [i \in 1..Len(rows) |-> rows[i].seq]
    <3>1. g \in Surjection(1..Len(rows), MT!Seqs)
      <4>1. g \in [1..Len(rows) -> MT!Seqs]
        BY DEF MT!Seqs
      <4>2. \A t \in MT!Seqs : \E i \in 1..Len(rows) : g[i] = t
        BY DEF MT!Seqs
      <4> HIDE DEF g
      <4> QED
        BY <4>1, <4>2 DEF Surjection
    <3>2. IsFiniteSet(1..Len(rows)) /\ Cardinality(1..Len(rows)) = Len(rows)
      <4>1. 1 \in Int /\ Len(rows) \in Int
        BY <1>a
      <4>2. IsFiniteSet(1..Len(rows))
        BY <4>1, FS_Interval
      <4>3. Cardinality(1..Len(rows)) = IF 1 > Len(rows) THEN 0 ELSE Len(rows) - 1 + 1
        BY <4>1, FS_Interval
      <4> QED
        BY <1>a, <4>2, <4>3
    <3> HIDE DEF g
    <3> QED
      BY <3>1, <3>2, FS_Surjection
  <2>3. Cardinality(0..Len(rows)) = Len(rows) + 1
    BY <1>a, FS_Interval
  <2>4. Cardinality(0..Len(rows)) <= Cardinality(MT!Seqs)
    <3> HIDE DEF f
    <3> QED
      BY <2>1, <2>2, FS_Injection
  <2>5. Cardinality(MT!Seqs) \in Nat
    BY <2>2, FS_CardinalityType
  <2> QED
    BY <2>2, <2>3, <2>4, <2>5, <1>a
<1>3. \E m \in 0..Len(rows) : (m \notin met) /\ \A j \in 0..(m - 1) : j \in met
  <2> DEFINE Out == {m \in 0..Len(rows) : m \notin met}
  <2>1. Out \in SUBSET Nat /\ Out # {}
    BY <1>2
  <2>2. PICK m \in Out : \A j \in Out : m <= j
    <3> HIDE DEF Out
    <3> QED
      BY <2>1, LeastElement
  <2>3. \A j \in 0..(m - 1) : j \in met
    BY <2>2, <1>a
  <2> QED
    BY <2>2, <2>3
<1>4. n \in 0..Len(rows) /\ \A j \in 0..(n - 1) : j \in met
  BY <1>3
<1> HIDE DEF n
<1>5. Len(MT!MainPath) = n
  BY <1>1, <1>4
<1>6. k \in 1..n /\ k - 1 \in 0..(n - 1)
  BY <1>5, <1>4
<1>7. MT!MainPath[k] = W[k - 1] /\ k - 1 \in met
  BY <1>1, <1>4, <1>6
<1> QED
  BY <1>7, <1>b

\* A row more, above K if K is a row: numbers and the tree stay sound.
LEMMA Grown ==
  ASSUME TreeTyped, TreeTyped', Numbered, Rooted, Acyclic,
         NEW K, NEW A \in MT!Seqs \cup {0},
         Len(rows') = Len(rows) + 1,
         \A i \in 1..Len(rows) :
           /\ rows'[i].seq = rows[i].seq
           /\ rows'[i].parent = IF rows[i].seq = K THEN head.next ELSE rows[i].parent,
         rows'[Len(rows) + 1].seq = head.next, rows'[Len(rows) + 1].parent = A,
         K \in MT!Seqs => A = MT!BySeq(K).parent,
         head'.next > head.next, head'.head = head.next
  PROVE  Numbered' /\ Rooted' /\ Acyclic'
<1> DEFINE X == head.next
           N == MT!Seqs
<1>a. Len(rows) \in Nat /\ X \in Nat \ {0} /\ head'.next \in Nat
  BY DEF TreeTyped
<1>b. \A i \in 1..Len(rows) : rows[i].seq \in Nat \ {0} /\ rows[i].parent \in Nat
      /\ rows[i].seq < X
  BY Columns DEF TreeTyped, Numbered
<1>1. X \notin N /\ 0 \notin N
  BY <1>a, <1>b DEF MT!Seqs
<1>2. MT!Seqs' = N \cup {X}
  <2>1. \A s \in N : s \in MT!Seqs'
    BY <1>a DEF MT!Seqs
  <2>2. X \in MT!Seqs'
    BY <1>a DEF MT!Seqs
  <2>3. ASSUME NEW s \in MT!Seqs' PROVE s \in N \cup {X}
    <3>1. PICK i \in 1..(Len(rows) + 1) : rows'[i].seq = s
      BY DEF MT!Seqs
    <3>2. CASE i = Len(rows) + 1
      BY <3>1, <3>2
    <3>3. CASE i \in 1..Len(rows)
      BY <3>1, <3>3 DEF MT!Seqs
    <3> QED
      BY <3>2, <3>3, <1>a
  <2> QED
    BY <2>1, <2>2, <2>3
<1>c. \A i \in 1..Len(rows') : i \in 1..Len(rows) \/ i = Len(rows) + 1
  BY <1>a
<1>d. Len(rows') \in Nat /\ \A i \in 1..Len(rows) : i \in 1..Len(rows') /\ i # Len(rows) + 1
  BY <1>a
<1>3. Numbered'
  <2>1. ASSUME NEW i \in 1..Len(rows'), NEW j \in 1..Len(rows'), rows'[i].seq = rows'[j].seq
        PROVE  i = j
    <3>1. CASE i \in 1..Len(rows) /\ j \in 1..Len(rows)
      BY <2>1, <3>1 DEF Numbered
    <3>2. CASE i = Len(rows) + 1 /\ j \in 1..Len(rows)
      BY <2>1, <3>2, <1>b, <1>a
    <3>3. CASE j = Len(rows) + 1 /\ i \in 1..Len(rows)
      BY <2>1, <3>3, <1>b, <1>a
    <3> QED
      BY <3>1, <3>2, <3>3, <1>c
  <2>2. ASSUME NEW i \in 1..Len(rows') PROVE rows'[i].seq < head'.next
    <3>1. CASE i \in 1..Len(rows)
      BY <3>1, <1>a, <1>b
    <3>2. CASE i = Len(rows) + 1
      BY <3>2, <1>a
    <3> QED
      BY <3>1, <3>2, <1>c
  <2> QED
    BY <2>1, <2>2 DEF Numbered
<1>4. Rooted'
  <2>1. ASSUME NEW i \in 1..Len(rows') PROVE rows'[i].parent \in N \cup {X, 0}
    BY <1>c DEF Rooted
  <2> QED
    BY <2>1, <1>2 DEF Rooted
<1>5. Acyclic'
  <2> DEFINE p == [s \in N |-> At(rows, s).parent]
             q == [s \in N \cup {X} |-> At(rows', s).parent]
  <2>1. \A i \in 1..Len(rows) : At(rows, rows[i].seq) = rows[i]
    BY OnlyRow DEF TreeTyped, Numbered
  <2>2. \A i \in 1..Len(rows') : At(rows', rows'[i].seq) = rows'[i]
    <3>1. rows' \in Seq(RowType)
          /\ \A k, l \in 1..Len(rows') : rows'[k].seq = rows'[l].seq => k = l
      BY <1>3 DEF TreeTyped, Numbered
    <3> QED
      BY <3>1, OnlyRow
  <2>b. /\ \A s : MT!BySeq(s) = At(rows, s)
        /\ \A s : MT!BySeq(s)' = At(rows', s)
    BY DEF MT!BySeq, At
  <2>3. \A i \in 1..Len(rows) :
          p[rows[i].seq] = rows[i].parent /\ q[rows[i].seq] = rows'[i].parent
    <3> TAKE i \in 1..Len(rows)
    <3>1. rows[i].seq \in N
      BY DEF MT!Seqs
    <3>2. i \in 1..Len(rows') /\ rows'[i].seq = rows[i].seq
      BY <1>d
    <3>3. At(rows', rows[i].seq) = rows'[i]
      BY <2>2, <3>2
    <3> QED
      BY <3>1, <3>3, <2>1
  <2>4. q[X] = A
    <3>1. Len(rows) + 1 \in 1..Len(rows')
      BY <1>a
    <3>2. At(rows', X) = rows'[Len(rows) + 1]
      BY <2>2, <3>1
    <3> QED
      BY <3>2
  <2>5. \A s \in N : \E i \in 1..Len(rows) : rows[i].seq = s
    BY DEF MT!Seqs
  <2>6. \A S \in (SUBSET N) \ {{}} : \E s \in S : p[s] \notin S
    BY <2>b DEF Acyclic
  <2>k. K \in N => A = p[K]
    BY <2>b
  <2>q. \A s \in N \cup {X} : q[s] = At(rows', s).parent
    OBVIOUS
  <2> HIDE DEF p, q
  <2>7. \A s \in N : p[s] # X
    <3>1. \A i \in 1..Len(rows) : rows[i].parent \in N \cup {0}
      BY DEF Rooted
    <3>2. \A i \in 1..Len(rows) : rows[i].parent # X
      BY <3>1, <1>1, <1>a
    <3> HIDE DEF X, N
    <3> QED
      BY <3>2, <2>3, <2>5
  <2>8. \A s \in N : s # K => q[s] = p[s]
    BY <2>3, <2>5
  <2>9. K \in N => q[K] = X /\ q[X] = p[K]
    BY <2>3, <2>4, <2>5, <2>k
  <2>10. q[X] # X
    BY <2>4, <1>1, <1>a
  <2>11. \A S \in (SUBSET (N \cup {X})) \ {{}} : \E s \in S : q[s] \notin S
    <3> HIDE DEF X, N
    <3> SUFFICES ASSUME NEW S \in (SUBSET (N \cup {X})) \ {{}}
                 PROVE  \E s \in S : q[s] \notin S
      OBVIOUS
    <3>1. CASE S \subseteq N
      <4>1. PICK s \in S : p[s] \notin S
        BY <2>6, <3>1
      <4>2. CASE s # K
        BY <4>1, <4>2, <3>1, <2>8
      <4>3. CASE s = K
        <5>1. q[K] = X /\ X \notin S
          BY <4>3, <3>1, <2>9, <1>1
        <5> QED
          BY <5>1, <4>3
      <4> QED
        BY <4>2, <4>3
    <3>2. CASE X \in S /\ S \ {X} = {}
      <4>1. q[X] \notin S
        BY <3>2, <2>10
      <4> QED
        BY <3>2, <4>1
    <3>3. CASE X \in S /\ S \ {X} # {}
      <4>1. S \ {X} \in (SUBSET N) \ {{}}
        BY <3>3
      <4>2. PICK s \in S \ {X} : p[s] \notin S \ {X}
        BY <2>6, <4>1
      <4>3. s \in N /\ p[s] \notin S
        BY <4>1, <4>2, <2>7
      <4>4. CASE s # K
        BY <4>2, <4>3, <4>4, <2>8
      <4>5. CASE s = K
        BY <4>3, <4>5, <3>3, <2>9
      <4> QED
        BY <4>4, <4>5
    <3> QED
      BY <3>1, <3>2, <3>3
  <2>12. \A S \in (SUBSET MT!Seqs') \ {{}} : \E s \in S : MT!BySeq(s)'.parent \notin S
    <3> HIDE DEF X, N
    <3> QED
      BY <2>11, <2>q, <2>b, <1>2
  <2> QED
    BY <2>12 DEF Acyclic
<1> QED
  BY <1>3, <1>4, <1>5

\* It implies what the runs check.
LEMMA TreeInvImplies == TreeInv => MT!TreeIsSound
<1> SUFFICES ASSUME TreeInv, ~torn PROVE MT!Cardinality(MT!Seqs) = Len(rows) /\ Acyclic
  BY DEF MT!TreeIsSound, Acyclic
<1> DEFINE g == [i \in 1..Len(rows) |-> rows[i].seq]
<1>1. g \in Bijection(1..Len(rows), MT!Seqs)
  <2>1. g \in [1..Len(rows) -> MT!Seqs]
    BY DEF MT!Seqs
  <2>2. \A t \in MT!Seqs : \E i \in 1..Len(rows) : g[i] = t
    BY DEF MT!Seqs
  <2>3. \A i, j \in 1..Len(rows) : g[i] = g[j] => i = j
    BY DEF TreeInv, Numbered
  <2>4. DOMAIN g = 1..Len(rows)
    OBVIOUS
  <2> HIDE DEF g
  <2>5. g \in Injection(1..Len(rows), MT!Seqs)
    BY <2>1, <2>3, <2>4 DEF Injection, IsInjective
  <2>6. g \in Surjection(1..Len(rows), MT!Seqs)
    BY <2>1, <2>2 DEF Surjection
  <2> QED
    BY <2>5, <2>6 DEF Bijection
<1>2. IsFiniteSet(1..Len(rows)) /\ Cardinality(1..Len(rows)) = Len(rows)
  <2>1. Len(rows) \in Nat
    BY DEF TreeInv, TreeTyped
  <2>2. /\ IsFiniteSet(1..Len(rows))
        /\ Cardinality(1..Len(rows)) = IF 1 > Len(rows) THEN 0 ELSE Len(rows) - 1 + 1
    BY <2>1, FS_Interval
  <2> QED
    BY <2>1, <2>2
<1>3. ExistsBijection(1..Len(rows), MT!Seqs)
  BY <1>1 DEF ExistsBijection
<1>4. Cardinality(MT!Seqs) = Len(rows)
  BY <1>2, <1>3, FS_Bijection
<1>5. MT!Cardinality(MT!Seqs) = Cardinality(MT!Seqs)
  BY DEF MT!Cardinality, Cardinality
<1> QED
  BY <1>4, <1>5 DEF TreeInv

\* It holds of no messages.
LEMMA TreeInit == MT!Init => TreeInv
<1> SUFFICES ASSUME MT!Init PROVE TreeInv
  OBVIOUS
<1>1. rows = <<>> /\ head = [head |-> 0, next |-> 1] /\ torn = FALSE /\ 1..Len(rows) = {}
  BY DEF MT!Init
<1>2. TreeTyped
  <2>1. rows \in Seq(RowType)
    BY <1>1
  <2>2. head \in [head : Nat, next : Nat \ {0}]
    BY <1>1
  <2> QED
    BY <2>1, <2>2, <1>1 DEF TreeTyped
<1>3. MT!Seqs = {}
  BY <1>1 DEF MT!Seqs
<1> QED
  BY <1>1, <1>2, <1>3 DEF TreeInv, Numbered, Rooted, Acyclic

\* A message at the tip.
LEMMA TreeAppend == ASSUME TreeInv, MT!AppendMessage PROVE TreeInv'
<1> DEFINE r == MT!Row(head.next, head.head, "main")
<1>1. rows' = Append(rows, r) /\ head' = [head |-> head.next, next |-> head.next + 1]
      /\ torn' = torn
  BY DEF MT!AppendMessage
<1>2. head.head \in Nat /\ head.next \in Nat \ {0} /\ Len(rows) \in Nat
  BY DEF TreeInv, TreeTyped
<1>3. r \in RowType /\ r.seq = head.next /\ r.parent = head.head
  BY <1>2 DEF RowType, MT!Row
<1> HIDE DEF r
<1>4. TreeTyped'
  BY <1>1, <1>2, <1>3 DEF TreeInv, TreeTyped
<1>5. ASSUME ~torn PROVE Numbered' /\ Rooted' /\ Acyclic'
  <2>1. Len(rows') = Len(rows) + 1 /\ rows'[Len(rows) + 1] = r
        /\ \A i \in 1..Len(rows) : rows'[i] = rows[i]
    BY <1>1, <1>3 DEF TreeInv, TreeTyped
  <2>2. \A i \in 1..Len(rows) : rows[i].seq # 0
    BY Columns DEF TreeInv, TreeTyped
  <2>3. 0 \notin MT!Seqs
    BY <2>2 DEF MT!Seqs
  <2>4. TreeTyped /\ Numbered /\ Rooted /\ Acyclic /\ head.head \in MT!Seqs \cup {0}
    BY <1>5 DEF TreeInv, Rooted
  <2>5. head'.next > head.next /\ head'.head = head.next
    BY <1>1, <1>2
  <2>6. \A i \in 1..Len(rows) :
          /\ rows'[i].seq = rows[i].seq
          /\ rows'[i].parent = IF rows[i].seq = 0 THEN head.next ELSE rows[i].parent
    BY <2>1, <2>2
  <2> QED
    BY <1>3, <1>4, <2>1, <2>3, <2>4, <2>5, <2>6, Grown
<1> QED
  BY <1>1, <1>4, <1>5 DEF TreeInv

\* A compaction, broken off or not.
LEMMA TreeCompact ==
  ASSUME TreeInv, NEW keep \in 1..MaxRows, NEW n \in 1..3, MT!Compact(keep, n)
    PROVE TreeInv'
<1> DEFINE K == MT!MainPath[keep]
           r == MT!Row(head.next, MT!Anchor(keep), "compression")
           kept == IF n >= 2 THEN MT!Reparented(K, head.next) ELSE rows
<1>1. /\ rows' = Append(kept, r)
      /\ head' = IF n = 3 THEN [head |-> head.next, next |-> head.next + 1] ELSE head
      /\ torn' = (torn \/ n < 3) /\ keep < Len(MT!MainPath)
  BY DEF MT!Compact
<1>2. head \in [head : Nat, next : Nat \ {0}] /\ head.next \in Nat \ {0} /\ Len(rows) \in Nat
      /\ TreeTyped
  BY DEF TreeInv, TreeTyped
<1>3. K \in MT!Seqs
  <2>1. keep \in Nat \ {0}
    OBVIOUS
  <2> QED
    BY <1>1, <1>2, <2>1, PathInTree
<1>4. \E i \in 1..Len(rows) : MT!BySeq(K) = rows[i]
  <2>1. PICK i0 \in 1..Len(rows) : rows[i0].seq = K
    BY <1>3 DEF MT!Seqs
  <2>2. \E i \in 1..Len(rows) : rows[i].seq = K /\ \A j \in (i + 1)..Len(rows) : rows[j].seq # K
    <3> DEFINE Places == {i2 \in 1..Len(rows) : rows[i2].seq = K}
               Back == {Len(rows) - i2 : i2 \in Places}
    <3>1. Back \in SUBSET Nat /\ Back # {}
      BY <2>1, <1>2
    <3>2. PICK b \in Back : \A c \in Back : b <= c
      <4> HIDE DEF Back
      <4> QED
        BY <3>1, LeastElement
    <3>3. PICK l \in Places : b = Len(rows) - l
      BY <3>2
    <3>4. \A j \in (l + 1)..Len(rows) : rows[j].seq # K
      <4> SUFFICES ASSUME NEW j \in (l + 1)..Len(rows), rows[j].seq = K PROVE FALSE
        OBVIOUS
      <4>1. j \in Places
        BY <3>3, <1>2
      <4>2. b <= Len(rows) - j
        BY <3>2, <4>1
      <4> QED
        BY <4>2, <3>3, <1>2
    <3> QED
      BY <3>3, <3>4
  <2> QED
    BY <2>2 DEF MT!BySeq
<1>5. MT!Anchor(keep) = MT!BySeq(K).parent /\ MT!Anchor(keep) \in Nat
  BY <1>4, <1>2, Columns DEF MT!Anchor, TreeTyped
<1>6. r \in RowType /\ r.seq = head.next /\ r.parent = MT!BySeq(K).parent
  BY <1>2, <1>5 DEF RowType, MT!Row
<1>7. /\ kept \in Seq(RowType) /\ Len(kept) = Len(rows)
      /\ \A i \in 1..Len(rows) :
           /\ kept[i].seq = rows[i].seq
           /\ n >= 2 => kept[i].parent = IF rows[i].seq = K THEN head.next ELSE rows[i].parent
  <2>1. CASE n >= 2
    <3>1. kept = [i \in 1..Len(rows) |->
                    IF rows[i].seq = K THEN [rows[i] EXCEPT !.parent = head.next] ELSE rows[i]]
      BY <2>1 DEF MT!Reparented
    <3>2. \A i \in 1..Len(rows) : rows[i] \in RowType
      BY <1>2, ElementOf DEF TreeTyped
    <3>3. \A i \in 1..Len(rows) :
            LET e == [rows[i] EXCEPT !.parent = head.next]
            IN  e \in RowType /\ e.seq = rows[i].seq /\ e.parent = head.next
      BY <3>2, <1>2 DEF RowType
    <3> HIDE DEF K, kept
    <3>4. \A i \in 1..Len(rows) : kept[i] \in RowType
      BY <3>1, <3>2, <3>3
    <3> QED
      BY <3>1, <3>3, <3>4, <1>2
  <2>2. CASE ~(n >= 2)
    BY <2>2, <1>2 DEF TreeTyped
  <2> QED
    BY <2>1, <2>2
<1> HIDE DEF K, r, kept
<1>8. TreeTyped'
  BY <1>1, <1>2, <1>6, <1>7 DEF TreeTyped
<1>9. ASSUME ~torn, n = 3 PROVE Numbered' /\ Rooted' /\ Acyclic'
  <2>1. Len(rows') = Len(rows) + 1 /\ rows'[Len(rows) + 1] = r
        /\ \A i \in 1..Len(rows) : rows'[i] = kept[i]
    BY <1>1, <1>6, <1>7, <1>2
  <2>2. TreeTyped /\ Numbered /\ Rooted /\ Acyclic
    BY <1>9 DEF TreeInv
  <2>3. MT!BySeq(K).parent \in MT!Seqs \cup {0}
    BY <1>4, <2>2 DEF Rooted
  <2>4. head'.next > head.next /\ head'.head = head.next
    BY <1>1, <1>2, <1>9
  <2>5. \A i \in 1..Len(rows) :
          /\ rows'[i].seq = rows[i].seq
          /\ rows'[i].parent = IF rows[i].seq = K THEN head.next ELSE rows[i].parent
    BY <2>1, <1>7, <1>9
  <2>6. rows'[Len(rows) + 1].seq = head.next /\ rows'[Len(rows) + 1].parent = MT!BySeq(K).parent
    BY <2>1, <1>6
  <2> QED
    BY <1>8, <2>1, <2>2, <2>3, <2>4, <2>5, <2>6, Grown
<1>10. ~torn' => ~torn /\ n = 3
  <2>1. n = 3 \/ n < 3
    OBVIOUS
  <2>2. n < 3 => torn'
    BY <1>1
  <2>3. torn => torn'
    BY <1>1
  <2> QED
    BY <2>1, <2>2, <2>3
<1> QED
  BY <1>10, <1>8, <1>9 DEF TreeInv

\* The tip goes back to a message.
LEMMA TreeBacktrack == ASSUME TreeInv, NEW s \in MT!Seqs, MT!Backtrack(s) PROVE TreeInv'
<1>1. s \in Nat /\ head.next \in Nat \ {0}
  BY Columns DEF TreeInv, TreeTyped, MT!Seqs
<1>2. /\ rows' = rows /\ torn' = torn
      /\ head' = [head |-> s, next |-> 1 + IF s > head.next THEN s ELSE head.next]
  BY DEF MT!Backtrack
<1>3. head'.head = s /\ head'.next \in Nat \ {0} /\ head'.next > head.next
      /\ head' \in [head : Nat, next : Nat \ {0}]
  BY <1>1, <1>2
<1>4. MT!Seqs' = MT!Seqs /\ (Acyclic => Acyclic')
  <2>1. MT!Seqs' = MT!Seqs /\ \A t : MT!BySeq(t)' = MT!BySeq(t)
    BY <1>2 DEF MT!Seqs, MT!BySeq
  <2> QED
    BY <2>1 DEF Acyclic
<1>5. TreeTyped'
  BY <1>2, <1>3 DEF TreeInv, TreeTyped
<1>6. Rooted => Rooted'
  BY <1>2, <1>3, <1>4 DEF Rooted
<1>7. Numbered => Numbered'
  <2>1. \A i \in 1..Len(rows) : rows[i].seq \in Nat
    BY Columns DEF TreeInv, TreeTyped
  <2> QED
    BY <1>1, <1>2, <1>3, <2>1 DEF Numbered
<1> QED
  BY <1>2, <1>4, <1>5, <1>6, <1>7 DEF TreeInv

\* However often a trace is compacted and taken back: its numbers are given once,
\* and the way from every message leads to the root.
THEOREM TreeAlwaysSound == MT!Spec => []TreeIsSound
<1>1. TreeInv /\ [MT!Next]_(MT!vars) => TreeInv'
  <2> SUFFICES ASSUME TreeInv, [MT!Next]_(MT!vars) PROVE TreeInv'
    OBVIOUS
  <2>1. CASE MT!AppendMessage
    BY <2>1, TreeAppend
  <2>2. ASSUME NEW keep \in 1..MaxRows, NEW n \in 1..3, MT!Compact(keep, n) PROVE TreeInv'
    BY <2>2, TreeCompact
  <2>3. ASSUME NEW s \in MT!Seqs, MT!Backtrack(s) PROVE TreeInv'
    BY <2>3, TreeBacktrack
  <2>4. CASE UNCHANGED MT!vars
    <3>1. rows' = rows /\ head' = head /\ torn' = torn
      BY <2>4 DEF MT!vars
    <3>2. MT!Seqs' = MT!Seqs /\ \A t : MT!BySeq(t)' = MT!BySeq(t)
      BY <3>1 DEF MT!Seqs, MT!BySeq
    <3>3. Acyclic' = Acyclic
      BY <3>2 DEF Acyclic
    <3> QED
      BY <3>1, <3>2, <3>3 DEF TreeInv, TreeTyped, Numbered, Rooted
  <2> QED
    BY <2>1, <2>2, <2>3, <2>4 DEF MT!Next
<1>2. TreeInv => TreeIsSound
  BY TreeInvImplies DEF TreeIsSound
<1> QED
  BY TreeInit, <1>1, <1>2, PTL DEF MT!Spec

-----------------------------------------------------------------------------
(* The chat: the inductive invariant.                                      *)

TurnFields == {"pc", "kind", "conv", "trace", "asks", "read", "prompt"}
Stored == [conv : Conversation, role : {"user", "assistant"}, trace : Trace, seq : Nat \ {0},
           parent : Nat, turn : Turn]

\* A turn about to store what rests on what it read, and one whose question is
\* the last message.
Reading(q) == q.pc \in {"ask_commit", "answer_commit"}
HasAsked(q) == q.asks /\ q.pc \in {"history", "model", "answer", "answer_commit"}

HeadShape(h) == DOMAIN h = {"head", "next"} /\ h.head \in Nat /\ h.next = h.head + 1
TurnShape(q) ==
  /\ DOMAIN q = TurnFields
  /\ q.pc # "none" => q.trace \in Trace /\ q.conv \in Conversation
  /\ Reading(q) => HeadShape(q.read)

ChatTyped ==
  /\ DOMAIN turns = Turn /\ \A t \in Turn : TurnShape(turns[t])
  /\ DOMAIN heads = Trace /\ \A r \in Trace : HeadShape(heads[r])
  /\ log \in Seq(Stored) /\ \A i \in 1..Len(log) : turns[log[i].turn].pc # "none"

\* A turn is alone under a trace that was never shared: what it read holds, and
\* what it asked is the last message.
Active(q) == q.pc \notin CH!Ended
AloneOnTrace ==
  \A t, u \in Turn : t # u /\ Active(turns[t]) /\ Active(turns[u])
                      /\ turns[t].trace = turns[u].trace => turns[t].trace \in shared
UpToDate(t) ==
  turns[t].trace \notin shared =>
    /\ Reading(turns[t]) => turns[t].read = heads[turns[t].trace]
    /\ HasAsked(turns[t]) => \E i \in CH!OfTrace(turns[t].trace) :
                                log[i].turn = t /\ log[i].seq = heads[turns[t].trace].head

ChatInv == ChatTyped /\ AloneOnTrace /\ (\A t \in Turn : UpToDate(t)) /\ CH!TraceIsChain

-----------------------------------------------------------------------------
(* The chat: what a step does to the turns.                                *)

\* Only t's turn moves, under the trace and the conversation it began with.
TurnMoves(t) ==
  /\ DOMAIN turns' = Turn /\ DOMAIN turns'[t] = TurnFields
  /\ \A u \in Turn \ {t} : turns'[u] = turns[u]
  /\ turns'[t].trace = turns[t].trace /\ turns'[t].conv = turns[t].conv
  /\ turns'[t].asks = turns[t].asks

\* A turn whose next step is another.
LEMMA TurnGoto ==
  ASSUME ChatTyped, NEW t \in Turn, NEW p, CH!Goto(t, p)
  PROVE  TurnMoves(t) /\ turns'[t].pc = p /\ turns'[t].read = turns[t].read
<1>1. DOMAIN turns = Turn /\ DOMAIN turns[t] = TurnFields
  BY DEF ChatTyped, TurnShape
<1> QED
  BY <1>1 DEF CH!Goto, TurnMoves, TurnFields

\* The turn of a message has begun.
LEMMA StoredTurns ==
  ASSUME ChatTyped
  PROVE  \A i \in 1..Len(log) : log[i] \in Stored /\ log[i].turn \in Turn
                                /\ turns[log[i].turn].pc # "none"
<1>1. \A i \in 1..Len(log) : log[i] \in Stored
  BY DEF ChatTyped
<1> QED
  BY <1>1 DEF Stored, ChatTyped

\* The turns of the messages are those that began, and what they asked stays.
LEMMA ChainSame ==
  ASSUME ChatTyped, CH!TraceIsChain, log' = log, heads' = heads, shared \subseteq shared',
         \A t \in Turn : turns[t].pc # "none" => turns'[t].asks = turns[t].asks
  PROVE  CH!TraceIsChain'
<1>1. \A r : CH!OfTrace(r)' = CH!OfTrace(r)
  BY DEF CH!OfTrace
<1>2. \A i \in 1..Len(log) : turns'[log[i].turn].asks = turns[log[i].turn].asks
  BY StoredTurns
<1>3. \A r : \A i \in CH!OfTrace(r) : i \in 1..Len(log)
  BY DEF CH!OfTrace
<1> QED
  BY <1>1, <1>2, <1>3 DEF CH!TraceIsChain

\* A turn goes on and stores nothing.
LEMMA TurnGoesOn ==
  ASSUME ChatInv, NEW t \in Turn, TurnMoves(t), UNCHANGED <<log, heads, shared>>,
         turns[t].pc # "none", turns'[t].pc # "none",
         Active(turns'[t]) => Active(turns[t]), Reading(turns'[t]) => HeadShape(turns'[t].read),
         Reading(turns'[t]) /\ turns[t].trace \notin shared
           => turns'[t].read = heads[turns[t].trace],
         HasAsked(turns'[t]) => HasAsked(turns[t])
  PROVE  ChatInv'
<1>a. ChatTyped /\ AloneOnTrace /\ CH!TraceIsChain /\ \A u \in Turn : UpToDate(u)
  BY DEF ChatInv
<1>1. TurnShape(turns'[t])
  BY <1>a DEF ChatTyped, TurnShape, TurnMoves
<1>2. \A u \in Turn : TurnShape(turns'[u])
  BY <1>a, <1>1 DEF ChatTyped, TurnMoves
<1>3. \A i \in 1..Len(log) : turns'[log[i].turn].pc # "none"
  BY <1>a, StoredTurns DEF TurnMoves
<1>4. ChatTyped'
  BY <1>a, <1>2, <1>3 DEF ChatTyped, TurnMoves, HeadShape
<1>5. AloneOnTrace'
  <2>1. \A u \in Turn : Active(turns'[u]) => Active(turns[u])
    BY DEF TurnMoves
  <2>2. \A u \in Turn : turns'[u].trace = turns[u].trace
    BY DEF TurnMoves
  <2> QED
    BY <2>1, <2>2, <1>a DEF AloneOnTrace, Active
<1>6. ASSUME NEW u \in Turn PROVE UpToDate(u)'
  <2>1. UpToDate(u)
    BY <1>a
  <2>2. CASE u = t
    BY <2>1, <2>2 DEF UpToDate, TurnMoves, CH!OfTrace, HasAsked, Reading
  <2>3. CASE u # t
    BY <2>1, <2>3 DEF UpToDate, TurnMoves, CH!OfTrace, HasAsked, Reading
  <2> QED
    BY <2>2, <2>3
<1>7. CH!TraceIsChain'
  BY <1>a, ChainSame DEF TurnMoves
<1> QED
  BY <1>4, <1>5, <1>6, <1>7 DEF ChatInv

\* The steps of a turn that store nothing.
LEMMA QuietTurns ==
  ASSUME ChatInv, NEW t \in Turn,
         \/ CH!Look(t) \/ CH!AllocSeq(t) \/ CH!QuestionFails(t) \/ CH!BuildMessages(t)
         \/ (\E answers \in BOOLEAN : CH!RunLoop(t, answers)) \/ CH!AnswerFails(t) \/ CH!End(t)
  PROVE  ChatInv'
<1>a. ChatTyped /\ DOMAIN turns = Turn /\ DOMAIN turns[t] = TurnFields /\ UpToDate(t)
      /\ \A r \in Trace : HeadShape(heads[r])
  BY DEF ChatInv, ChatTyped, TurnShape
<1>1. CASE CH!Look(t)
  <2>1. PICK p \in {"failed", "ask", "history"} : CH!Goto(t, p) /\ (turns[t].asks
        => p # "history")
    BY <1>1 DEF CH!Look
  <2> QED
    BY <1>1, <1>a, <2>1, TurnGoto, TurnGoesOn DEF CH!Look, CH!Ended, Active, Reading, HasAsked,
       TurnMoves
<1>2. CASE CH!AllocSeq(t)
  <2> DEFINE p == IF turns[t].pc = "ask" THEN "ask_commit" ELSE "answer_commit"
             h == heads[turns[t].trace]
  <2>1. turns' = [turns EXCEPT ![t].read = h, ![t].pc = p] /\ turns[t].pc \in {"ask", "answer"}
    BY <1>2 DEF CH!AllocSeq
  <2>2. HeadShape(h)
    BY <1>a, <2>1 DEF ChatTyped, TurnShape
  <2>3. p \in {"ask_commit", "answer_commit"} /\ (p = "answer_commit" => turns[t].pc = "answer")
    BY <2>1
  <2> HIDE DEF p, h
  <2>4. TurnMoves(t) /\ turns'[t].pc = p /\ turns'[t].read = h
    BY <2>1, <1>a DEF TurnMoves, TurnFields
  <2>5. Active(turns[t]) /\ (HasAsked(turns'[t]) => HasAsked(turns[t])) /\ turns'[t].pc # "none"
        /\ turns[t].pc # "none"
    BY <2>1, <2>3, <2>4 DEF Active, CH!Ended, HasAsked, TurnMoves
  <2>6. UNCHANGED <<log, heads, shared>>
    BY <1>2 DEF CH!AllocSeq
  <2> QED
    BY <2>2, <2>4, <2>5, <2>6, TurnGoesOn DEF h
<1>3. CASE CH!QuestionFails(t)
  BY <1>3, <1>a, TurnGoto, TurnGoesOn DEF CH!QuestionFails, CH!Ended, Active, Reading, HasAsked
<1>4. CASE CH!BuildMessages(t)
  <2>1. TurnMoves(t) /\ turns'[t].pc = "model" /\ turns[t].pc = "history"
    BY <1>4, <1>a DEF CH!BuildMessages, TurnMoves, TurnFields
  <2> QED
    BY <1>4, <2>1, TurnGoesOn DEF CH!BuildMessages, CH!Ended, Active, Reading, HasAsked, TurnMoves
<1>5. CASE \E answers \in BOOLEAN : CH!RunLoop(t, answers)
  <2>1. PICK p \in {"answer", "unanswered"} : CH!Goto(t, p)
    BY <1>5 DEF CH!RunLoop
  <2> QED
    BY <1>5, <1>a, <2>1, TurnGoto, TurnGoesOn
    DEF CH!RunLoop, CH!Ended, Active, Reading, HasAsked, TurnMoves
<1>6. CASE CH!AnswerFails(t)
  BY <1>6, <1>a, TurnGoto, TurnGoesOn DEF CH!AnswerFails, CH!Ended, Active, Reading, HasAsked
<1>7. CASE CH!End(t)
  <2>1. PICK p \in {"cancelled", "success", "failed"} : CH!Goto(t, p)
    BY <1>7 DEF CH!End
  <2> QED
    BY <1>7, <1>a, <2>1, TurnGoto, TurnGoesOn DEF CH!End, CH!Ended, Active, Reading, HasAsked
<1> QED
  BY <1>1, <1>2, <1>3, <1>4, <1>5, <1>6, <1>7

\* A turn begins, under a trace that another may be using.
LEMMA BeginKeeps ==
  ASSUME ChatInv, NEW t \in Turn, NEW q, CH!Begin(t, q), DOMAIN q = TurnFields, q.pc = "look",
         q.trace \in Trace, q.conv \in Conversation, UNCHANGED <<log, heads>>
  PROVE  ChatInv'
<1>a. ChatTyped /\ AloneOnTrace /\ CH!TraceIsChain /\ \A u \in Turn : UpToDate(u)
  BY DEF ChatInv
<1>b. turns[t] = CH!NoTurn /\ turns[t].pc = "none" /\ turns' = [turns EXCEPT ![t] = q]
  BY DEF CH!Begin, CH!NoTurn
<1>1. /\ DOMAIN turns' = Turn /\ turns'[t] = q /\ shared \subseteq shared'
      /\ \A u \in Turn \ {t} : turns'[u] = turns[u]
      /\ \A u \in Turn : Active(turns[u]) /\ turns[u].trace = q.trace => q.trace \in shared'
  <2>1. \A u \in Turn : Active(turns[u]) <=> u \in CH!Active
    BY DEF Active, CH!Active
  <2>2. (\E u \in CH!Active : turns[u].trace = q.trace) => shared' = shared \cup {q.trace}
    BY DEF CH!Begin
  <2>3. shared' = shared \cup {q.trace} \/ shared' = shared
    BY DEF CH!Begin
  <2> QED
    BY <2>1, <2>2, <2>3, <1>a, <1>b DEF ChatTyped
<1>2. ~Active(turns[t]) /\ ~Reading(q) /\ ~HasAsked(q) /\ TurnShape(q)
  BY <1>b DEF Active, CH!Ended, Reading, HasAsked, TurnShape
<1>3. ChatTyped'
  <2>1. \A i \in 1..Len(log) : log[i].turn \in Turn \ {t}
    BY <1>a, <1>b, StoredTurns
  <2> QED
    BY <2>1, <1>1, <1>2, <1>a DEF ChatTyped
<1>4. AloneOnTrace'
  BY <1>1, <1>a DEF AloneOnTrace, Active
<1>5. \A u \in Turn : UpToDate(u)'
  BY <1>1, <1>2, <1>a DEF UpToDate, CH!OfTrace
<1>6. CH!TraceIsChain'
  BY <1>1, <1>a, <1>b, ChainSame
<1> QED
  BY <1>3, <1>4, <1>5, <1>6 DEF ChatInv

\* A message of the chat, and a task of the mode "chat", begin a turn.
LEMMA TurnsBegin ==
  ASSUME ChatInv, NEW t \in Turn, NEW c \in Conversation, NEW r \in Trace,
         CH!SendMessage(t, c, r) \/ \E asks \in BOOLEAN : CH!StartTask(t, c, r, asks)
  PROVE  ChatInv'
<1> DEFINE q(kind, asks) == [CH!NoTurn EXCEPT !.pc = "look", !.kind = kind, !.conv = c,
!.trace = r,
                                              !.asks = asks]
<1>1. ASSUME NEW kind, NEW asks
      PROVE  /\ DOMAIN q(kind, asks) = TurnFields /\ q(kind, asks).pc = "look"
             /\ q(kind, asks).trace = r /\ q(kind, asks).conv = c
  BY DEF CH!NoTurn, TurnFields
<1>2. PICK kind, asks : CH!Begin(t, q(kind, asks))
  BY DEF CH!SendMessage, CH!StartTask
<1>3. UNCHANGED <<log, heads>>
  BY DEF CH!SendMessage, CH!StartTask
<1> HIDE DEF q
<1> QED
  BY <1>1, <1>2, <1>3, BeginKeeps

-----------------------------------------------------------------------------
(* The chat: a message is stored.                                          *)

\* What storing does to the messages, and to the tip of the trace.
LEMMA StoreAppends ==
  ASSUME ChatTyped, NEW t \in Turn, Reading(turns[t]), NEW role \in {"user", "assistant"},
         CH!Store(t, role)
  PROVE  /\ log' \in Seq(Stored) /\ Len(log') = Len(log) + 1 /\ Len(log) \in Nat
         /\ \A i \in 1..Len(log) : log'[i] = log[i]
         /\ log'[Len(log) + 1].trace = turns[t].trace /\ log'[Len(log) + 1].turn = t
         /\ log'[Len(log) + 1].seq = turns[t].read.head + 1
         /\ log'[Len(log) + 1].parent = turns[t].read.head
         /\ log'[Len(log) + 1].role = role
         /\ DOMAIN heads' = Trace /\ HeadShape(heads'[turns[t].trace])
         /\ heads'[turns[t].trace].head = turns[t].read.head + 1
         /\ \A r \in Trace \ {turns[t].trace} : heads'[r] = heads[r]
<1> DEFINE read == turns[t].read
           m == [conv |-> turns[t].conv, role |-> role, trace |-> turns[t].trace,
                 seq |-> read.next, parent |-> read.head, turn |-> t]
           h == [head |-> read.next, next |-> read.next + 1]
<1>1. /\ HeadShape(read) /\ turns[t].trace \in Trace /\ turns[t].conv \in Conversation
      /\ DOMAIN heads = Trace /\ log \in Seq(Stored)
  BY DEF ChatTyped, TurnShape, Reading
<1>2. m \in Stored /\ m.trace = turns[t].trace /\ m.turn = t /\ m.seq = read.head + 1
      /\ m.parent = read.head /\ m.role = role
  BY <1>1 DEF Stored, HeadShape
<1>3. HeadShape(h) /\ h.head = read.head + 1
  BY <1>1 DEF HeadShape
<1>4. log' = Append(log, m) /\ heads' = [heads EXCEPT ![turns[t].trace] = h]
  BY DEF CH!Store, CH!Advanced
<1> HIDE DEF read, m, h
<1>5. log' \in Seq(Stored) /\ Len(log') = Len(log) + 1 /\ Len(log) \in Nat
  BY <1>1, <1>2, <1>4
<1>6. log'[Len(log) + 1] = m /\ \A i \in 1..Len(log) : log'[i] = log[i]
  BY <1>1, <1>2, <1>4
<1>7. /\ DOMAIN heads' = Trace /\ heads'[turns[t].trace] = h
      /\ \A r \in Trace \ {turns[t].trace} : heads'[r] = heads[r]
  BY <1>1, <1>4
<1> QED
  BY <1>2, <1>3, <1>5, <1>6, <1>7 DEF read

\* The question or the answer is stored: at the end of its trace, unless another
\* turn shares it.
LEMMA StoreKeeps ==
  ASSUME ChatInv, NEW t \in Turn, CH!AppendQuestion(t) \/ CH!AppendAnswer(t)
  PROVE  ChatInv'
<1> DEFINE r == turns[t].trace
           n == Len(log) + 1
<1>a. ChatTyped /\ AloneOnTrace /\ CH!TraceIsChain /\ \A u \in Turn : UpToDate(u)
  BY DEF ChatInv
<1>b. PICK role \in {"user", "assistant"}, p \in {"history", "failed", "answered"} :
        /\ CH!Store(t, role) /\ CH!Goto(t, p) /\ Reading(turns[t]) /\ shared' = shared
        /\ role = "user" => turns[t].pc = "ask_commit"
        /\ role = "assistant" => p = "answered" /\ turns[t].pc = "answer_commit"
  BY DEF CH!AppendQuestion, CH!AppendAnswer, Reading
<1>c. TurnMoves(t) /\ turns'[t].pc = p
  BY <1>a, <1>b, TurnGoto
<1>d. r \in Trace /\ HeadShape(heads[r]) /\ HeadShape(turns[t].read) /\ Active(turns[t])
  BY <1>a, <1>b DEF ChatTyped, TurnShape, Reading, Active, CH!Ended
<1>e. /\ log' \in Seq(Stored) /\ Len(log') = n /\ Len(log) \in Nat
      /\ \A i \in 1..Len(log) : log'[i] = log[i]
      /\ log'[n].trace = r /\ log'[n].turn = t /\ log'[n].role = role
      /\ log'[n].seq = turns[t].read.head + 1 /\ log'[n].parent = turns[t].read.head
      /\ DOMAIN heads' = Trace /\ HeadShape(heads'[r]) /\ heads'[r].head = turns[t].read.head + 1
      /\ \A s \in Trace \ {r} : heads'[s] = heads[s]
  BY <1>a, <1>b, StoreAppends
<1>f. \A i \in 1..Len(log) : log[i].turn \in Turn /\ turns[log[i].turn].pc # "none"
  BY <1>a, StoredTurns
<1>g. \A s : /\ s # r => CH!OfTrace(s)' = CH!OfTrace(s)
             /\ s = r => CH!OfTrace(s)' = CH!OfTrace(s) \cup {n}
  BY <1>e DEF CH!OfTrace
<1>h. \A s : CH!OfTrace(s) \subseteq 1..Len(log) /\ n \notin CH!OfTrace(s)
             /\ \A i \in CH!OfTrace(s) : i < n
  BY <1>e DEF CH!OfTrace
<1>i. \A u \in Turn : turns'[u].asks = turns[u].asks /\ turns'[u].trace = turns[u].trace
  BY <1>c DEF TurnMoves
<1> HIDE DEF n, r
<1>1. ChatTyped'
  <2>1. TurnShape(turns'[t])
    BY <1>a, <1>b, <1>c DEF ChatTyped, TurnShape, TurnMoves, Reading
  <2>2. \A u \in Turn : TurnShape(turns'[u])
    BY <2>1, <1>a, <1>c DEF ChatTyped, TurnMoves
  <2>3. \A s \in Trace : HeadShape(heads'[s])
    BY <1>a, <1>e DEF ChatTyped
  <2>4. \A i \in 1..Len(log') : turns'[log'[i].turn].pc # "none"
    BY <1>b, <1>c, <1>e, <1>f DEF TurnMoves, n
  <2> QED
    BY <2>2, <2>3, <2>4, <1>c, <1>e DEF ChatTyped, TurnMoves
<1>2. AloneOnTrace'
  <2>1. \A u \in Turn : Active(turns'[u]) => Active(turns[u])
    BY <1>c, <1>d DEF TurnMoves
  <2> QED
    BY <2>1, <1>a, <1>b, <1>i DEF AloneOnTrace, Active
<1>3. ASSUME NEW u \in Turn, turns[u].trace \notin shared, UpToDate(u)
      PROVE  UpToDate(u)'
  <2>1. CASE u = t
    <3>1. CASE p = "history"
      BY <2>1, <3>1, <1>b, <1>c, <1>e, <1>g, <1>i DEF UpToDate, Reading, HasAsked, r, n
    <3>2. CASE p # "history"
      BY <2>1, <3>2, <1>b, <1>c DEF UpToDate, Reading, HasAsked
    <3> QED
      BY <3>1, <3>2
  <2>2. CASE u # t /\ turns[u].trace = r
    <3>1. turns'[u] = turns[u] /\ ~Active(turns[u])
      BY <2>2, <1>3, <1>a, <1>c, <1>d DEF AloneOnTrace, TurnMoves, r
    <3>2. ~Reading(turns[u]) /\ ~HasAsked(turns[u])
      BY <3>1 DEF Reading, HasAsked, Active, CH!Ended
    <3> QED
      BY <3>1, <3>2 DEF UpToDate
  <2>3. CASE u # t /\ turns[u].trace # r
    <3>1. turns'[u] = turns[u]
      BY <2>3, <1>c DEF TurnMoves
    <3>2. CASE Reading(turns[u]) \/ HasAsked(turns[u])
      <4>1. turns[u].trace \in Trace
        BY <3>2, <1>a DEF ChatTyped, TurnShape, Reading, HasAsked
      <4>2. heads'[turns[u].trace] = heads[turns[u].trace]
        BY <4>1, <2>3, <1>e
      <4>3. CH!OfTrace(turns[u].trace)' = CH!OfTrace(turns'[u].trace)
        <5>1. \A i : i \in 1..Len(log') <=> i \in 1..Len(log) \/ i = n
          BY <1>e DEF n
        <5> QED
          BY <5>1, <2>3, <3>1, <1>e DEF CH!OfTrace
      <4>4. \A i \in CH!OfTrace(turns[u].trace) : log'[i] = log[i]
        BY <1>e, <1>h
      <4> QED
        BY <3>1, <4>2, <4>3, <4>4, <1>3 DEF UpToDate
    <3>3. CASE ~Reading(turns[u]) /\ ~HasAsked(turns[u])
      BY <3>1, <3>3 DEF UpToDate
    <3> QED
      BY <3>2, <3>3
  <2> QED
    BY <2>1, <2>2, <2>3
<1>4. \A u \in Turn : UpToDate(u)'
  <2>1. ASSUME NEW u \in Turn, turns[u].trace \in shared PROVE UpToDate(u)'
    BY <2>1, <1>b, <1>i DEF UpToDate
  <2> QED
    BY <2>1, <1>3, <1>a
<1>5. ASSUME NEW s \in Trace \ shared
      PROVE  /\ \A k \in 1..heads'[s].head : \E i \in CH!OfTrace(s)' : log'[i].seq = k
             /\ \A i \in CH!OfTrace(s)' :
                  /\ log'[i].seq \in 1..heads'[s].head /\ log'[i].parent = log'[i].seq - 1
                  /\ \A j \in CH!OfTrace(s)' : j < i => log'[j].seq < log'[i].seq
                  /\ (log'[i].role = "assistant" /\ turns'[log'[i].turn].asks) =>
                       \E j \in CH!OfTrace(s)' : /\ log'[j].seq = log'[i].parent
                                                 /\ log'[j].turn = log'[i].turn
  <2>a. \A i \in CH!OfTrace(s) : /\ log'[i] = log[i]
                                 /\ turns'[log[i].turn].asks = turns[log[i].turn].asks
    BY <1>e, <1>f, <1>h, <1>i
  <2>b. /\ \A k \in 1..heads[s].head : \E i \in CH!OfTrace(s) : log[i].seq = k
        /\ \A i \in CH!OfTrace(s) :
             /\ log[i].seq \in 1..heads[s].head /\ log[i].parent = log[i].seq - 1
             /\ \A j \in CH!OfTrace(s) : j < i => log[j].seq < log[i].seq
             /\ (log[i].role = "assistant" /\ turns[log[i].turn].asks) =>
                  \E j \in CH!OfTrace(s) : /\ log[j].seq = log[i].parent
                                           /\ log[j].turn = log[i].turn
    BY <1>a DEF CH!TraceIsChain
  <2>1. CASE s # r
    <3>1. heads'[s] = heads[s] /\ CH!OfTrace(s)' = CH!OfTrace(s)
      BY <2>1, <1>e, <1>g
    <3> QED
      BY <3>1, <2>a, <2>b
  <2>2. CASE s = r
    <3> DEFINE d == heads[s].head
    <3>1. turns[t].read = heads[s] /\ d \in Nat
      BY <2>2, <1>5, <1>a, <1>b, <1>d DEF UpToDate, HeadShape, r
    <3>2. /\ CH!OfTrace(s)' = CH!OfTrace(s) \cup {n} /\ heads'[s].head = d + 1
          /\ log'[n].seq = d + 1 /\ log'[n].parent = d /\ log'[n].turn = t /\ log'[n].role = role
      BY <2>2, <3>1, <1>e, <1>g
    <3>3. role = "assistant" /\ turns'[t].asks =>
            \E j \in CH!OfTrace(s) : log[j].seq = d /\ log[j].turn = t
      BY <2>2, <1>5, <1>a, <1>b, <1>i DEF UpToDate, HasAsked, r
    <3>4. \A i \in CH!OfTrace(s) : i < n /\ i # n /\ i \in Nat
      BY <1>e, <1>h
    <3>5. n \in Nat
      BY <1>e DEF n
    <3> HIDE DEF d
    <3>6. \A k \in 1..heads'[s].head : \E i \in CH!OfTrace(s)' : log'[i].seq = k
      <4>1. \A k \in 1..(d + 1) : k \in 1..d \/ k = d + 1
        BY <3>1
      <4> QED
        BY <4>1, <2>a, <2>b, <3>2 DEF d
    <3>7. ASSUME NEW i \in CH!OfTrace(s)
          PROVE  /\ log'[i].seq \in 1..heads'[s].head /\ log'[i].parent = log'[i].seq - 1
                 /\ \A j \in CH!OfTrace(s)' : j < i => log'[j].seq < log'[i].seq
                 /\ (log'[i].role = "assistant" /\ turns'[log'[i].turn].asks) =>
                       \E j \in CH!OfTrace(s)' : /\ log'[j].seq = log'[i].parent
                                                 /\ log'[j].turn = log'[i].turn
      <4>1. log[i].seq \in 1..d /\ log[i].seq \in 1..(d + 1)
        BY <2>b, <3>1 DEF d
      <4>2. ~(n < i)
        BY <3>4, <3>5
      <4> QED
        BY <4>1, <4>2, <2>a, <2>b, <3>2
    <3>8. /\ log'[n].seq \in 1..heads'[s].head /\ log'[n].parent = log'[n].seq - 1
          /\ \A j \in CH!OfTrace(s)' : j < n => log'[j].seq < log'[n].seq
          /\ (log'[n].role = "assistant" /\ turns'[log'[n].turn].asks) =>
                \E j \in CH!OfTrace(s)' : /\ log'[j].seq = log'[n].parent
                                          /\ log'[j].turn = log'[n].turn
      <4>1. \A j \in CH!OfTrace(s) : log'[j].seq \in 1..d
        BY <2>a, <2>b DEF d
      <4>2. d + 1 \in 1..(d + 1) /\ d = d + 1 - 1 /\ \A k \in 1..d : k < d + 1
        BY <3>1
      <4>3. ~(n < n)
        BY <3>5
      <4>4. \A j \in CH!OfTrace(s)' : j < n => log'[j].seq < log'[n].seq
        BY <4>1, <4>2, <4>3, <3>2
      <4>5. log'[n].role = "assistant" /\ turns'[t].asks =>
              \E j \in CH!OfTrace(s)' : log'[j].seq = d /\ log'[j].turn = t
        BY <2>a, <3>2, <3>3
      <4>6. (log'[n].role = "assistant" /\ turns'[log'[n].turn].asks) =>
              \E j \in CH!OfTrace(s)' : log'[j].seq = log'[n].parent
                    /\ log'[j].turn = log'[n].turn
        BY <4>5, <3>2
      <4>7. log'[n].seq \in 1..heads'[s].head /\ log'[n].parent = log'[n].seq - 1
        BY <3>1, <3>2
      <4> QED
        BY <4>4, <4>6, <4>7
    <3> QED
      BY <3>2, <3>6, <3>7, <3>8
  <2> QED
    BY <2>1, <2>2
<1>6. CH!TraceIsChain'
  BY <1>5, <1>b DEF CH!TraceIsChain
<1> QED
  BY <1>1, <1>2, <1>4, <1>6 DEF ChatInv

-----------------------------------------------------------------------------
(* The chat: the theorem.                                                  *)

\* A step that touches neither the turns nor the messages.
LEMMA ChatSame == ASSUME ChatInv, UNCHANGED <<log, heads, turns, shared>> PROVE ChatInv'
  <1>1. ChatTyped'
    BY DEF ChatInv, ChatTyped
  <1>2. AloneOnTrace'
    BY DEF ChatInv, AloneOnTrace
  <1>3. (\A t \in Turn : UpToDate(t))'
    BY DEF ChatInv, UpToDate, CH!OfTrace
  <1>4. CH!TraceIsChain'
    BY DEF ChatInv, CH!TraceIsChain, CH!OfTrace
  <1> QED
    BY <1>1, <1>2, <1>3, <1>4 DEF ChatInv

\* There are no turns and no messages at first.
LEMMA ChatInit == CH!Init => ChatInv
<1> SUFFICES ASSUME CH!Init PROVE ChatInv
  OBVIOUS
<1>1. /\ log = <<>> /\ DOMAIN turns = Turn /\ DOMAIN heads = Trace
      /\ \A t \in Turn : DOMAIN turns[t] = TurnFields /\ turns[t].pc = "none"
      /\ \A r \in Trace : HeadShape(heads[r]) /\ heads[r].head = 0
  BY DEF CH!Init, CH!NoTurn, CH!NoHead, TurnFields, HeadShape
<1>2. ChatTyped
  BY <1>1 DEF ChatTyped, TurnShape, Reading
<1>3. AloneOnTrace /\ \A t \in Turn : UpToDate(t)
  BY <1>1 DEF AloneOnTrace, UpToDate, Active, CH!Ended, Reading, HasAsked
<1>4. CH!TraceIsChain
  BY <1>1 DEF CH!TraceIsChain, CH!OfTrace
<1> QED
  BY <1>2, <1>3, <1>4 DEF ChatInv

\* Every step keeps the invariant.
LEMMA ChatStep == ASSUME ChatInv, [CH!Next]_(CH!vars) PROVE ChatInv'
<1>1. ASSUME NEW c \in Conversation,
             CH!CreateConversation(c) \/ CH!UpdateTitle(c) \/ CH!DeleteConversation(c)
      PROVE  ChatInv'
  BY <1>1, ChatSame DEF CH!CreateConversation, CH!UpdateTitle, CH!DeleteConversation
<1>2. ASSUME NEW r \in Trace, CH!CancelTurn(r) PROVE ChatInv'
  BY <1>2, ChatSame DEF CH!CancelTurn
<1>3. ASSUME NEW t \in Turn, CH!Poll(t) PROVE ChatInv'
  BY <1>3, ChatSame DEF CH!Poll
<1>4. CASE UNCHANGED CH!vars
  BY <1>4, ChatSame DEF CH!vars
<1> QED
  BY <1>1, <1>2, <1>3, <1>4, TurnsBegin, QuietTurns, StoreKeeps DEF CH!Next

\* Whatever turns come under a trace one after another, fail or are cancelled:
\* its messages are one chain, and an answer hangs on its question, as long as no
\* two turns shared it at one time (ChatRepository.append_message, run_chat_turn).
THEOREM TraceAlwaysChain == CH!Spec => []TraceIsChain
<1>1. ChatInv /\ [CH!Next]_(CH!vars) => ChatInv'
  BY ChatStep
<1>2. ChatInv => TraceIsChain
  BY DEF ChatInv, TraceIsChain
<1> QED
  BY <1>1, <1>2, ChatInit, PTL DEF CH!Spec

-----------------------------------------------------------------------------
(* The window: the inductive invariant.                                    *)

Message == [role : {"system", "user", "assistant", "tool"}, size : Nat,
            calls : SUBSET (Nat \ {0}), answers : Nat]

\* The run's messages: the calls are numbered from 1 on, each by one message, and
\* every call is answered after it.
Conversing(ms) ==
  /\ ms \in Seq(Message)
  /\ \E n \in Nat : UNION {ms[i].calls : i \in 1..Len(ms)} = 1..n
  /\ \A i, j \in 1..Len(ms) : \A id \in ms[i].calls : id \in ms[j].calls => i = j
  /\ \A i \in 1..Len(ms) : ms[i].role = "tool" =>
       ms[i].calls = {} /\ \E j \in 1..(i - 1) : ms[i].answers \in ms[j].calls
  /\ \A i \in 1..Len(ms) : \A id \in ms[i].calls :
       \E j \in (i + 1)..Len(ms) : ms[j].role = "tool" /\ ms[j].answers = id

\* Every result of p follows its call, and every call of p is answered after it.
Paired(p) ==
  /\ \A i \in 1..Len(p) : p[i].role = "tool" =>
       \E j \in 1..(i - 1) : p[i].answers \in p[j].calls
  /\ \A i \in 1..Len(p) : \A id \in p[i].calls :
       \E j \in (i + 1)..Len(p) : p[j].answers = id

WindowInv == Conversing(messages) /\ CW!TruncationSound

-----------------------------------------------------------------------------
(* Lemmas about sums and choices along a sequence.                         *)

\* What holds of 0 and passes from one number to the next holds up to n.
LEMMA UpTo ==
  ASSUME NEW n \in Nat, NEW S, 0 \in S, \A k \in 1..n : k - 1 \in S => k \in S
  PROVE  \A k \in 0..n : k \in S
<1> DEFINE Out == {k \in 0..n : k \notin S}
<1>1. Out = {}
  <2> SUFFICES ASSUME Out # {} PROVE FALSE
    OBVIOUS
  <2>1. Out \in SUBSET Nat
    OBVIOUS
  <2>2. PICK k \in Out : \A j \in Out : k <= j
    <3> HIDE DEF Out
    <3> QED
      BY <2>1, LeastElement
  <2>3. k \in 1..n /\ k - 1 \in 0..n
    BY <2>2
  <2>4. k - 1 \in S
    BY <2>2, <2>3
  <2> QED
    BY <2>2, <2>3, <2>4
<1> QED
  BY <1>1

\* A function of 0..n made step by step, from v on.
Steps(n, V) == [1..n -> [V -> V]]
Follows(f, n, V, v, nx) ==
  f \in [0..n -> V] /\ f[0] = v /\ \A i \in 1..n : f[i] = nx[i][f[i - 1]]

\* A function given by its value at 0 and from each number to the next exists.
LEMMA Stepwise ==
  ASSUME NEW n \in Nat, NEW V, NEW v \in V, NEW nx \in Steps(n, V)
  PROVE  \E f : Follows(f, n, V, v, nx)
<1>0. nx \in [1..n -> [V -> V]]
  BY DEF Steps
<1> DEFINE Is(m, f) == f[0] = v /\ \A i \in 1..m : f[i] = nx[i][f[i - 1]]
           S        == {m \in 0..n : \E f \in [0..m -> V] : Is(m, f)}
<1>1. 0 \in S
  <2> DEFINE f == [i \in 0..0 |-> v]
  <2>1. f \in [0..0 -> V]
    OBVIOUS
  <2>2. f[0] = v
    OBVIOUS
  <2>3. Is(0, f)
    <3> HIDE DEF f
    <3> QED
      BY <2>2
  <2> HIDE DEF f, Is
  <2> QED
    BY <2>1, <2>3
<1>2. ASSUME NEW k \in 1..n, k - 1 \in S PROVE k \in S
  <2>1. PICK f \in [0..(k - 1) -> V] : Is(k - 1, f)
    <3> HIDE DEF Is
    <3> QED
      BY <1>2
  <2>2. k \in Nat /\ k > 0 /\ k \in 0..n /\ k - 1 \in 0..(k - 1)
    OBVIOUS
  <2>a. PICK b : b = nx[k][f[k - 1]]
    OBVIOUS
  <2>b. b \in V
    BY <1>0, <2>2, <2>a
  <2> DEFINE g == [i \in 0..k |-> IF i < k THEN f[i] ELSE b]
  <2>3. ASSUME NEW i \in 0..k PROVE g[i] \in V
    <3>1. i < k => i \in 0..(k - 1)
      BY <2>2
    <3> QED
      BY <2>b, <3>1
  <2>c. g \in [0..k -> V]
    <3>1. g = [i \in 0..k |-> g[i]]
      OBVIOUS
    <3> HIDE DEF g
    <3> QED
      BY <2>3, <3>1
  <2>4. \A i \in 0..(k - 1) : g[i] = f[i]
    BY <2>2
  <2>5. g[k] = b
    BY <2>2
  <2> HIDE DEF g
  <2>6. g[0] = v
    <3>1. 0 \in 0..(k - 1)
      BY <2>2
    <3> QED
      BY <2>1, <2>4, <3>1
  <2>7. ASSUME NEW i \in 1..k PROVE g[i] = nx[i][g[i - 1]]
    <3>1. i - 1 \in 0..(k - 1) /\ (i # k => i \in 1..(k - 1) /\ i \in 0..(k - 1))
      BY <2>2
    <3>2. CASE i # k
      <4>1. f[i] = nx[i][f[i - 1]]
        BY <2>1, <3>1, <3>2
      <4> QED
        BY <2>4, <3>1, <3>2, <4>1
    <3>3. CASE i = k
      BY <2>4, <2>5, <2>a, <3>1, <3>3
    <3> QED
      BY <3>2, <3>3
  <2>8. Is(k, g)
    BY <2>6, <2>7
  <2> HIDE DEF Is
  <2> QED
    BY <2>2, <2>c, <2>8
<1>3. \A k \in 0..n : k \in S
  <2> HIDE DEF S
  <2> QED
    BY <1>1, <1>2, UpTo
<1>4. n \in S
  <2> HIDE DEF S
  <2> QED
    BY <1>3
<1> QED
  BY <1>4 DEF Follows

\* The sum of a sequence is worked out term by term.
LEMMA TotalStepwise ==
  ASSUME NEW s \in Seq(Nat)
  PROVE  \E f \in [0..Len(s) -> Nat] : /\ CW!Total(s) = f[Len(s)]
                                       /\ f[0] = 0
                                       /\ \A i \in 1..Len(s) : f[i] = f[i - 1] + s[i]
<1> DEFINE n  == Len(s)
           nx == [i \in 1..n |-> [a \in Nat |-> a + s[i]]]
           Is(f) == f = [i \in 0..n |-> IF i = 0 THEN 0 ELSE f[i - 1] + s[i]]
<1>1. n \in Nat /\ \A i \in 1..n : s[i] \in Nat
  OBVIOUS
<1>2. nx \in [1..n -> [Nat -> Nat]]
  <2>1. \A i \in 1..n : [a \in Nat |-> a + s[i]] \in [Nat -> Nat]
    BY <1>1
  <2> QED
    BY <2>1
<1>3. \A a \in Nat, i \in 1..n : nx[i][a] = a + s[i]
  OBVIOUS
<1>4. PICK f \in [0..n -> Nat] : f[0] = 0 /\ \A i \in 1..n : f[i] = nx[i][f[i - 1]]
  <2> HIDE DEF nx, n
  <2>1. nx \in Steps(n, Nat) /\ 0 \in Nat
    BY <1>2 DEF Steps
  <2>2. \E f : Follows(f, n, Nat, 0, nx)
    BY <1>1, <2>1, Stepwise
  <2> QED
    BY <2>2 DEF Follows
<1>5. \A i \in 1..n : i - 1 \in 0..n /\ f[i] = f[i - 1] + s[i]
  <2>1. \A i \in 1..n : i - 1 \in 0..n
    BY <1>1
  <2> HIDE DEF nx, n
  <2>2. \A i \in 1..n : f[i - 1] \in Nat
    BY <2>1
  <2> QED
    BY <1>3, <1>4, <2>1, <2>2
<1>6. Is(f)
  <2> HIDE DEF nx
  <2>1. f = [i \in 0..n |-> f[i]]
    OBVIOUS
  <2>2. \A i \in 0..n : i # 0 => i \in 1..n
    BY <1>1
  <2> HIDE DEF n
  <2>3. \A i \in 0..n : f[i] = IF i = 0 THEN 0 ELSE f[i - 1] + s[i]
    BY <1>4, <1>5, <2>2
  <2> QED
    BY <2>1, <2>3
<1> DEFINE g == CHOOSE h : Is(h)
<1>7. Is(g)
  <2> HIDE DEF Is
  <2> QED
    BY <1>6
<1>8. CW!Total(s) = g[n]
  BY DEF CW!Total
<1>9. \A i \in 0..n : g[i] = IF i = 0 THEN 0 ELSE g[i - 1] + s[i]
  <2> HIDE DEF g
  <2> QED
    BY <1>7
<1> HIDE DEF g, nx
<1>10. g[0] = 0 /\ \A i \in 1..n : g[i] = g[i - 1] + s[i]
  BY <1>1, <1>9
<1>11. \A k \in 0..n : k \in {m \in 0..n : g[m] \in Nat}
  <2> DEFINE S == {m \in 0..n : g[m] \in Nat}
  <2>1. 0 \in S
    BY <1>1, <1>10
  <2>2. ASSUME NEW k \in 1..n, k - 1 \in S PROVE k \in S
    BY <1>1, <1>10, <2>2
  <2>3. \A k \in 0..n : k \in S
    <3> HIDE DEF S, n
    <3> QED
      BY <1>1, <2>1, <2>2, UpTo
  <2> QED
    BY <2>3
<1>12. g \in [0..n -> Nat]
  <2>1. g = [i \in 0..n |-> g[i]]
    <3>1. \E e : g = [i \in 0..n |-> e[i]]
      <4> DEFINE e == [i \in 0..n |-> IF i = 0 THEN 0 ELSE g[i - 1] + s[i]]
      <4>1. g = e
        BY <1>7
      <4>2. e = [i \in 0..n |-> e[i]]
        OBVIOUS
      <4> HIDE DEF e
      <4> QED
        BY <4>1, <4>2
    <3> QED
      BY <3>1
  <2> QED
    BY <1>11, <2>1
<1> QED
  BY <1>8, <1>10, <1>12

\* A sum is a number, and no smaller than any of its terms.
LEMMA TotalType ==
  ASSUME NEW s \in Seq(Nat)
  PROVE  CW!Total(s) \in Nat /\ \A i \in 1..Len(s) : s[i] <= CW!Total(s)
<1>1. PICK f \in [0..Len(s) -> Nat] : /\ CW!Total(s) = f[Len(s)]
                                      /\ f[0] = 0
                                      /\ \A i \in 1..Len(s) : f[i] = f[i - 1] + s[i]
  BY TotalStepwise
<1>2. Len(s) \in Nat /\ \A i \in 1..Len(s) : s[i] \in Nat /\ i \in 0..Len(s)
      /\ i - 1 \in 0..Len(s)
  OBVIOUS
<1> DEFINE n == Len(s)
           S == {m \in 0..n : \A i \in 1..m : s[i] <= f[m]}
<1>3. \A k \in 0..n : k \in S
  <2>1. 0 \in S
    BY <1>1, <1>2
  <2>2. ASSUME NEW k \in 1..n, k - 1 \in S PROVE k \in S
    <3>1. f[k] = f[k - 1] + s[k] /\ f[k] \in Nat /\ f[k - 1] \in Nat /\ s[k] \in Nat
      BY <1>1, <1>2
    <3>2. \A i \in 1..(k - 1) : s[i] <= f[k - 1] /\ s[i] \in Nat
      BY <1>2, <2>2
    <3>3. \A i \in 1..k : i \in 1..(k - 1) \/ i = k
      OBVIOUS
    <3>4. \A i \in 1..(k - 1) : s[i] <= f[k]
      BY <3>1, <3>2
    <3>5. s[k] <= f[k]
      BY <3>1
    <3>6. \A i \in 1..k : s[i] <= f[k]
      BY <3>3, <3>4, <3>5
    <3> QED
      BY <1>2, <3>6
  <2> HIDE DEF S
  <2> QED
    BY <1>2, <2>1, <2>2, UpTo
<1> QED
  BY <1>1, <1>2, <1>3

\* A sum of smaller terms is smaller.
LEMMA TotalMonotone ==
  ASSUME NEW s \in Seq(Nat), NEW t \in Seq(Nat), Len(s) = Len(t),
         \A i \in 1..Len(s) : s[i] <= t[i]
  PROVE  CW!Total(s) <= CW!Total(t)
<1>1. PICK f \in [0..Len(s) -> Nat] : /\ CW!Total(s) = f[Len(s)]
                                      /\ f[0] = 0
                                      /\ \A i \in 1..Len(s) : f[i] = f[i - 1] + s[i]
  BY TotalStepwise
<1>2. PICK g \in [0..Len(t) -> Nat] : /\ CW!Total(t) = g[Len(t)]
                                      /\ g[0] = 0
                                      /\ \A i \in 1..Len(t) : g[i] = g[i - 1] + t[i]
  BY TotalStepwise
<1>3. Len(s) \in Nat /\ \A i \in 1..Len(s) : /\ i \in 0..Len(s) /\ i - 1 \in 0..Len(s)
                                             /\ s[i] \in Nat /\ t[i] \in Nat
  OBVIOUS
<1> DEFINE n == Len(s)
           S == {m \in 0..n : f[m] <= g[m]}
<1>4. \A k \in 0..n : k \in S
  <2>1. 0 \in S
    BY <1>1, <1>2, <1>3
  <2>2. ASSUME NEW k \in 1..n, k - 1 \in S PROVE k \in S
    <3>1. f[k] = f[k - 1] + s[k] /\ g[k] = g[k - 1] + t[k] /\ s[k] <= t[k]
      BY <1>1, <1>2
    <3>2. f[k - 1] <= g[k - 1]
      BY <2>2
    <3>3. f[k - 1] \in Nat /\ g[k - 1] \in Nat /\ s[k] \in Nat /\ t[k] \in Nat
      BY <1>3
    <3> QED
      BY <1>3, <3>1, <3>2, <3>3
  <2> HIDE DEF S
  <2> QED
    BY <1>3, <2>1, <2>2, UpTo
<1> QED
  BY <1>1, <1>2, <1>3, <1>4

\* A longer sum, by a term at the end or at the beginning.
LEMMA TotalAppend ==
  ASSUME NEW s \in Seq(Nat), NEW x \in Nat
  PROVE  CW!Total(Append(s, x)) = CW!Total(s) + x
<1> DEFINE t == Append(s, x)
           n == Len(s)
<1>1. t \in Seq(Nat) /\ n \in Nat /\ Len(t) = n + 1 /\ t[n + 1] = x
  OBVIOUS
<1>a. \A i \in 1..n : /\ i \in 1..(n + 1) /\ t[i] = s[i] /\ s[i] \in Nat
                      /\ i \in 0..n /\ i - 1 \in 0..n
  OBVIOUS
<1> HIDE DEF t
<1>2. PICK f \in [0..n -> Nat] : /\ CW!Total(s) = f[n]
                                 /\ f[0] = 0
                                 /\ \A i \in 1..n : f[i] = f[i - 1] + s[i]
  BY TotalStepwise
<1>3. PICK g \in [0..Len(t) -> Nat] : /\ CW!Total(t) = g[Len(t)]
                                      /\ g[0] = 0
                                      /\ \A i \in 1..Len(t) : g[i] = g[i - 1] + t[i]
  BY <1>1, TotalStepwise
<1> HIDE DEF n
<1> DEFINE S == {m \in 0..n : f[m] = g[m]}
<1>4. \A k \in 0..n : k \in S
  <2>1. 0 \in S
    BY <1>1, <1>2, <1>3
  <2>2. ASSUME NEW k \in 1..n, k - 1 \in S PROVE k \in S
    <3>1. g[k] = g[k - 1] + t[k] /\ f[k] = f[k - 1] + s[k]
      BY <1>1, <1>a, <1>2, <1>3
    <3> QED
      BY <1>a, <2>2, <3>1
  <2> HIDE DEF S
  <2> QED
    BY <1>1, <2>1, <2>2, UpTo
<1>5. f[n] = g[n]
  BY <1>1, <1>4
<1>6. n + 1 \in 1..(n + 1) /\ (n + 1) - 1 = n
  BY <1>1
<1> QED
  BY <1>1, <1>2, <1>3, <1>5, <1>6 DEF t

LEMMA TotalCons ==
  ASSUME NEW s \in Seq(Nat), NEW x \in Nat
  PROVE  CW!Total(<<x>> \o s) = x + CW!Total(s)
<1> DEFINE t == <<x>> \o s
           n == Len(s)
<1>1. t \in Seq(Nat) /\ n \in Nat /\ Len(t) = n + 1 /\ t[1] = x
  OBVIOUS
<1>a. \A i \in 1..n : /\ i + 1 \in 1..(n + 1) /\ t[i + 1] = s[i] /\ s[i] \in Nat
                      /\ i \in 0..n /\ i - 1 \in 0..n /\ (i + 1) - 1 = i /\ (i - 1) + 1 = i
  OBVIOUS
<1> HIDE DEF t
<1>2. PICK f \in [0..n -> Nat] : /\ CW!Total(s) = f[n]
                                 /\ f[0] = 0
                                 /\ \A i \in 1..n : f[i] = f[i - 1] + s[i]
  BY TotalStepwise
<1>3. PICK g \in [0..Len(t) -> Nat] : /\ CW!Total(t) = g[Len(t)]
                                      /\ g[0] = 0
                                      /\ \A i \in 1..Len(t) : g[i] = g[i - 1] + t[i]
  BY <1>1, TotalStepwise
<1> HIDE DEF n
<1>b. \A i \in 0..n : f[i] \in Nat
  BY <1>2
<1> DEFINE S == {m \in 0..n : g[m + 1] = x + f[m]}
<1>4. \A k \in 0..n : k \in S
  <2>1. 0 \in S
    <3>1. 1 \in 1..Len(t) /\ 1 - 1 = 0 /\ 0 + 1 = 1 /\ 0 \in 0..n
      BY <1>1
    <3>2. g[1] = 0 + x /\ f[0] = 0
      BY <1>1, <1>2, <1>3, <3>1
    <3> QED
      BY <3>1, <3>2
  <2>2. ASSUME NEW k \in 1..n, k - 1 \in S PROVE k \in S
    <3>1. g[k + 1] = g[k] + t[k + 1] /\ f[k] = f[k - 1] + s[k]
      BY <1>1, <1>a, <1>2, <1>3
    <3>2. g[k] = x + f[k - 1]
      BY <1>a, <2>2
    <3>3. f[k - 1] \in Nat /\ s[k] \in Nat /\ t[k + 1] = s[k]
      BY <1>a, <1>b
    <3>4. g[k + 1] = x + f[k]
      BY <3>1, <3>2, <3>3
    <3> QED
      BY <1>a, <3>4
  <2> HIDE DEF S
  <2> QED
    BY <1>1, <2>1, <2>2, UpTo
<1>5. g[n + 1] = x + f[n]
  BY <1>1, <1>4
<1> QED
  BY <1>1, <1>2, <1>3, <1>5 DEF t

\* What is chosen is worked out place by place.
LEMMA ChosenStepwise ==
  ASSUME NEW E, NEW ms \in Seq(E), NEW idx
  PROVE  \E f \in [0..Len(ms) -> Seq(E)] :
           /\ CW!Chosen(ms, idx) = f[Len(ms)]
           /\ f[0] = <<>>
           /\ \A i \in 1..Len(ms) :
                f[i] = IF i \in idx THEN Append(f[i - 1], ms[i]) ELSE f[i - 1]
<1> DEFINE n  == Len(ms)
           to(i, a) == IF i \in idx THEN Append(a, ms[i]) ELSE a
           nx == [i \in 1..n |-> [a \in Seq(E) |-> to(i, a)]]
           Is(f) == f = [i \in 0..n |-> IF i = 0 THEN <<>> ELSE to(i, f[i - 1])]
<1>1. n \in Nat /\ (\A i \in 1..n : ms[i] \in E) /\ <<>> \in Seq(E)
  OBVIOUS
<1>a. \A i \in 1..n, a \in Seq(E) : to(i, a) \in Seq(E)
  BY <1>1
<1>2. nx \in [1..n -> [Seq(E) -> Seq(E)]]
  <2> HIDE DEF to
  <2>1. \A i \in 1..n : [a \in Seq(E) |-> to(i, a)] \in [Seq(E) -> Seq(E)]
    BY <1>a
  <2> QED
    BY <2>1
<1>3. \A a \in Seq(E), i \in 1..n : nx[i][a] = to(i, a)
  <2> HIDE DEF to
  <2> QED
    OBVIOUS
<1>4. PICK f \in [0..n -> Seq(E)] : f[0] = <<>> /\ \A i \in 1..n : f[i] = nx[i][f[i - 1]]
  <2> HIDE DEF nx, n
  <2>1. nx \in Steps(n, Seq(E)) /\ <<>> \in Seq(E)
    BY <1>1, <1>2 DEF Steps
  <2>2. \E f : Follows(f, n, Seq(E), <<>>, nx)
    BY <1>1, <2>1, Stepwise
  <2> QED
    BY <2>2 DEF Follows
<1>5. \A i \in 1..n : i - 1 \in 0..n /\ f[i] = to(i, f[i - 1])
  <2>1. \A i \in 1..n : i - 1 \in 0..n
    BY <1>1
  <2> HIDE DEF nx, n, to
  <2>2. \A i \in 1..n : f[i - 1] \in Seq(E)
    BY <2>1
  <2> QED
    BY <1>3, <1>4, <2>1, <2>2
<1>6. Is(f)
  <2> HIDE DEF nx
  <2>1. f = [i \in 0..n |-> f[i]]
    OBVIOUS
  <2>2. \A i \in 0..n : i # 0 => i \in 1..n
    BY <1>1
  <2> HIDE DEF n, to
  <2>3. \A i \in 0..n : f[i] = IF i = 0 THEN <<>> ELSE to(i, f[i - 1])
    BY <1>4, <1>5, <2>2
  <2> QED
    BY <2>1, <2>3
<1> DEFINE g == CHOOSE h : Is(h)
<1>7. Is(g)
  <2> HIDE DEF Is
  <2> QED
    BY <1>6
<1>8. CW!Chosen(ms, idx) = g[n]
  BY DEF CW!Chosen
<1>9. \A i \in 0..n : g[i] = IF i = 0 THEN <<>> ELSE to(i, g[i - 1])
  <2> HIDE DEF g, to
  <2> QED
    BY <1>7
<1> DEFINE e == [i \in 0..n |-> IF i = 0 THEN <<>> ELSE to(i, g[i - 1])]
<1>b. g = e
  <2> HIDE DEF g, to
  <2> QED
    BY <1>7
<1>c. g = [i \in 0..n |-> g[i]]
  <2>1. e = [i \in 0..n |-> e[i]]
    OBVIOUS
  <2> HIDE DEF e, g
  <2> QED
    BY <1>b, <2>1
<1> HIDE DEF g, nx, e
<1>10. g[0] = <<>> /\ \A i \in 1..n : g[i] = to(i, g[i - 1])
  <2>1. 0 \in 0..n /\ \A i \in 1..n : i \in 0..n /\ i # 0
    BY <1>1
  <2> HIDE DEF to, n
  <2> QED
    BY <1>9, <2>1
<1>11. \A k \in 0..n : k \in {m \in 0..n : g[m] \in Seq(E)}
  <2> DEFINE S == {m \in 0..n : g[m] \in Seq(E)}
  <2>1. 0 \in S
    <3>1. 0 \in 0..n
      BY <1>1
    <3> HIDE DEF to, n
    <3> QED
      BY <1>1, <1>10, <3>1
  <2>2. ASSUME NEW k \in 1..n, k - 1 \in S PROVE k \in S
    <3>1. k \in 0..n
      BY <1>1
    <3> HIDE DEF to, n
    <3> QED
      BY <1>a, <1>10, <2>2, <3>1
  <2>3. \A k \in 0..n : k \in S
    <3> HIDE DEF S, n
    <3> QED
      BY <1>1, <2>1, <2>2, UpTo
  <2> QED
    BY <2>3
<1>12. g \in [0..n -> Seq(E)]
  <2> HIDE DEF n
  <2> QED
    BY <1>11, <1>c
<1> QED
  BY <1>8, <1>10, <1>12

\* The places in c of the messages of ms at idx: the order stays, and nothing
\* else is there.
Places(at, ms, idx, c) ==
  /\ at \in [1..Len(ms) -> Nat]
  /\ \A i \in idx : at[i] \in 1..Len(c) /\ c[at[i]] = ms[i]
  /\ \A i, j \in idx : i < j => at[i] < at[j]
  /\ \A m \in 1..Len(c) : \E i \in idx : at[i] = m

\* Each chosen message has its place, and there is nothing else.
LEMMA ChosenOK ==
  ASSUME NEW E, NEW ms \in Seq(E), NEW idx \in SUBSET (1..Len(ms))
  PROVE  /\ CW!Chosen(ms, idx) \in Seq(E)
         /\ \E at : Places(at, ms, idx, CW!Chosen(ms, idx))
<1> DEFINE n == Len(ms)
<1>1. PICK f \in [0..n -> Seq(E)] :
        /\ CW!Chosen(ms, idx) = f[n]
        /\ f[0] = <<>>
        /\ \A i \in 1..n : f[i] = IF i \in idx THEN Append(f[i - 1], ms[i]) ELSE f[i - 1]
  BY ChosenStepwise
<1>2. /\ n \in Nat
      /\ \A i \in 1..n : ms[i] \in E /\ i \in 0..n /\ i - 1 \in 0..n
      /\ \A i \in idx : i \in 1..n
  OBVIOUS
<1> HIDE DEF n
<1>3. \A i \in 0..n : f[i] \in Seq(E) /\ Len(f[i]) \in Nat
  BY <1>1
<1> DEFINE Placed(k) ==
             /\ \A i \in idx : i <= k => /\ Len(f[i]) \in 1..Len(f[k])
                                         /\ f[k][Len(f[i])] = ms[i]
             /\ \A i \in 1..k : Len(f[i]) <= Len(f[k])
             /\ \A i \in 1..k, j \in idx : i < j /\ j <= k => Len(f[i]) < Len(f[j])
             /\ \A m \in 1..Len(f[k]) : \E i \in idx : i <= k /\ Len(f[i]) = m
           S == {k \in 0..n : Placed(k)}
<1>4. \A k \in 0..n : k \in S
  <2>1. 0 \in S
    <3>1. Len(f[0]) = 0 /\ 0 \in 0..n
      BY <1>1, <1>2
    <3>2. \A i \in 1..n : ~ (i <= 0)
      OBVIOUS
    <3>3. Placed(0)
      BY <1>2, <3>1, <3>2
    <3> HIDE DEF Placed
    <3> QED
      BY <3>1, <3>3
  <2>2. ASSUME NEW k \in 1..n, k - 1 \in S PROVE k \in S
    <3> DEFINE p == f[k - 1]
               q == f[k]
    <3>1. k - 1 \in 0..n /\ k \in 0..n /\ p \in Seq(E) /\ q \in Seq(E) /\ Len(p) \in Nat
          /\ ms[k] \in E
      BY <1>2, <1>3
    <3>a. k \in Nat /\ (\A i \in 1..n : i <= k <=> i <= k - 1 \/ i = k)
      BY <1>2
    <3>2. Placed(k - 1)
      BY <2>2
    <3>3. q = IF k \in idx THEN Append(p, ms[k]) ELSE p
      BY <1>1
    <3>4. CASE k \in idx
      <4>1. /\ Len(q) = Len(p) + 1 /\ q[Len(q)] = ms[k]
            /\ \A m \in 1..Len(p) : q[m] = p[m] /\ m \in 1..Len(q)
        BY <3>1, <3>3, <3>4
      <4>2. \A i \in idx : i <= k => Len(f[i]) \in 1..Len(q) /\ q[Len(f[i])] = ms[i]
        <5> SUFFICES ASSUME NEW i \in idx, i <= k
                     PROVE  Len(f[i]) \in 1..Len(q) /\ q[Len(f[i])] = ms[i]
          OBVIOUS
        <5>1. CASE i = k
          BY <3>1, <4>1, <5>1
        <5>2. CASE i <= k - 1
          BY <3>2, <4>1, <5>2
        <5> QED
          BY <1>2, <3>a, <5>1, <5>2
      <4>3. \A i \in 1..k : Len(f[i]) <= Len(q)
        <5> SUFFICES ASSUME NEW i \in 1..k PROVE Len(f[i]) <= Len(q)
          OBVIOUS
        <5>1. CASE i = k
          BY <3>1, <4>1, <5>1
        <5>2. CASE i \in 1..(k - 1)
          <6>1. Len(f[i]) <= Len(p) /\ i \in 0..n
            BY <1>2, <3>2, <5>2
          <6>2. Len(f[i]) \in Nat
            BY <1>3, <6>1
          <6> QED
            BY <3>1, <4>1, <6>1, <6>2
        <5> QED
          BY <3>a, <5>1, <5>2
      <4>4. \A i \in 1..k, j \in idx : i < j /\ j <= k => Len(f[i]) < Len(f[j])
        <5> SUFFICES ASSUME NEW i \in 1..k, NEW j \in idx, i < j, j <= k
                     PROVE  Len(f[i]) < Len(f[j])
          OBVIOUS
        <5>0. i \in 1..(k - 1) /\ i \in 0..n
          BY <1>2, <3>a
        <5>1. CASE j = k
          <6>1. Len(f[i]) <= Len(p) /\ Len(f[i]) \in Nat
            BY <1>3, <3>2, <5>0
          <6> QED
            BY <3>1, <4>1, <5>1, <6>1
        <5>2. CASE j <= k - 1
          BY <3>2, <5>0, <5>2
        <5> QED
          BY <1>2, <3>a, <5>1, <5>2
      <4>5. \A m \in 1..Len(q) : \E i \in idx : i <= k /\ Len(f[i]) = m
        <5> SUFFICES ASSUME NEW m \in 1..Len(q) PROVE \E i \in idx : i <= k /\ Len(f[i]) = m
          OBVIOUS
        <5>1. CASE m = Len(q)
          BY <3>4, <3>a, <5>1
        <5>2. CASE m \in 1..Len(p)
          <6>1. PICK i \in idx : i <= k - 1 /\ Len(f[i]) = m
            BY <3>2, <5>2
          <6> QED
            BY <1>2, <3>a, <6>1
        <5> QED
          BY <3>1, <4>1, <5>1, <5>2
      <4>6. Placed(k)
        BY <4>2, <4>3, <4>4, <4>5
      <4> HIDE DEF Placed
      <4> QED
        BY <3>1, <4>6
    <3>5. CASE k \notin idx
      <4>1. q = p
        BY <3>3, <3>5
      <4>0. \A i \in idx : i <= k => i <= k - 1
        BY <1>2, <3>a, <3>5
      <4>b. \A i \in 1..k : i = k \/ i \in 1..(k - 1)
        BY <3>a
      <4>2. \A i \in idx : i <= k => Len(f[i]) \in 1..Len(q) /\ q[Len(f[i])] = ms[i]
        BY <3>2, <4>0, <4>1
      <4>3. \A i \in 1..k : Len(f[i]) <= Len(q)
        BY <3>1, <3>2, <4>1, <4>b
      <4>4. \A i \in 1..k, j \in idx : i < j /\ j <= k => Len(f[i]) < Len(f[j])
        <5> SUFFICES ASSUME NEW i \in 1..k, NEW j \in idx, i < j, j <= k
                     PROVE  Len(f[i]) < Len(f[j])
          OBVIOUS
        <5>1. i \in 1..(k - 1) /\ j <= k - 1
          BY <1>2, <3>a, <4>0
        <5> QED
          BY <3>2, <5>1
      <4>5. \A m \in 1..Len(q) : \E i \in idx : i <= k /\ Len(f[i]) = m
        <5> SUFFICES ASSUME NEW m \in 1..Len(q) PROVE \E i \in idx : i <= k /\ Len(f[i]) = m
          OBVIOUS
        <5>1. PICK i \in idx : i <= k - 1 /\ Len(f[i]) = m
          BY <3>2, <4>1
        <5> QED
          BY <1>2, <3>a, <5>1
      <4>6. Placed(k)
        BY <4>2, <4>3, <4>4, <4>5
      <4> HIDE DEF Placed
      <4> QED
        BY <3>1, <4>6
    <3> QED
      BY <3>4, <3>5
  <2> HIDE DEF S
  <2> QED
    BY <1>2, <2>1, <2>2, UpTo
<1>a. n \in 0..n
  BY <1>2
<1>5. Placed(n) /\ f[n] \in Seq(E)
  <2>1. n \in S
    <3> HIDE DEF S
    <3> QED
      BY <1>4, <1>a
  <2> HIDE DEF Placed
  <2> QED
    BY <1>3, <1>a, <2>1
<1> DEFINE at == [i \in 1..n |-> Len(f[i])]
<1>6. at \in [1..n -> Nat]
  BY <1>2, <1>3
<1>7. \A i \in idx : at[i] = Len(f[i]) /\ i <= n
  BY <1>2
<1> HIDE DEF at
<1>8. \A i \in idx : at[i] \in 1..Len(f[n]) /\ f[n][at[i]] = ms[i]
  BY <1>5, <1>7
<1>9. \A i, j \in idx : i < j => at[i] < at[j]
  BY <1>2, <1>5, <1>7
<1>10. \A m \in 1..Len(f[n]) : \E i \in idx : at[i] = m
  BY <1>5, <1>7
<1> DEFINE c == CW!Chosen(ms, idx)
<1>11. c = f[n]
  BY <1>1
<1> HIDE DEF Placed, S, c
<1>12. Places(at, ms, idx, c)
  BY <1>6, <1>8, <1>9, <1>10, <1>11 DEF Places, n
<1>13. c \in Seq(E)
  BY <1>5, <1>11
<1> QED
  BY <1>12, <1>13 DEF c

\* What is chosen takes as much as the messages at the places chosen.
LEMMA ChosenSize ==
  ASSUME NEW ms \in Seq(Message), NEW idx
  PROVE  CW!CountMessages(CW!Chosen(ms, idx)) = CW!Tokens(ms, idx)
<1> DEFINE n == Len(ms)
           w == [i \in 1..n |-> IF i \in idx THEN ms[i].size ELSE 0]
           Sizes(s) == [i \in 1..Len(s) |-> s[i].size]
<1>1. PICK f \in [0..n -> Seq(Message)] :
        /\ CW!Chosen(ms, idx) = f[n]
        /\ f[0] = <<>>
        /\ \A i \in 1..n : f[i] = IF i \in idx THEN Append(f[i - 1], ms[i]) ELSE f[i - 1]
  BY ChosenStepwise
<1>0. /\ n \in Nat
      /\ \A i \in 1..n : ms[i] \in Message /\ i \in 0..n /\ i - 1 \in 0..n
  OBVIOUS
<1>2. /\ n \in Nat
      /\ \A i \in 1..n : ms[i] \in Message /\ ms[i].size \in Nat /\ i \in 0..n /\ i - 1 \in 0..n
  <2> HIDE DEF n
  <2> QED
    BY <1>0 DEF Message
<1>3. w \in Seq(Nat) /\ Len(w) = n /\ \A i \in 1..n : w[i] = IF i \in idx THEN ms[i].size ELSE 0
  BY <1>2
<1>a. CW!Tokens(ms, idx) = CW!Total(w)
  BY DEF CW!Tokens
<1>b. \A s : CW!CountMessages(s) = CW!Total(Sizes(s))
  BY DEF CW!CountMessages
<1>c. \A s \in Seq(Message) : Sizes(s) \in Seq(Nat)
  <2> TAKE s \in Seq(Message)
  <2>0. Len(s) \in Nat /\ \A i \in 1..Len(s) : s[i] \in Message
    OBVIOUS
  <2>1. \A i \in 1..Len(s) : s[i].size \in Nat
    BY <2>0 DEF Message
  <2> QED
    BY <2>0, <2>1
<1>d. \A s \in Seq(Message), m \in Message : Sizes(Append(s, m)) = Append(Sizes(s), m.size)
  <2> TAKE s \in Seq(Message), m \in Message
  <2>1. Len(s) \in Nat /\ Len(Append(s, m)) = Len(s) + 1
    OBVIOUS
  <2>2. \A i \in 1..(Len(s) + 1) : Append(s, m)[i] = IF i <= Len(s) THEN s[i] ELSE m
    BY <2>1
  <2>3. Sizes(Append(s,
  m)) = [i \in 1..(Len(s) + 1) |-> IF i <= Len(s) THEN s[i].size ELSE m.size]
    BY <2>1, <2>2
  <2>4. Sizes(s) \in Seq(Nat) /\ Len(Sizes(s)) = Len(s)
    BY <1>c, <2>1
  <2>5. \A i \in 1..Len(s) : Sizes(s)[i] = s[i].size
    OBVIOUS
  <2>6. Append(Sizes(s),
  m.size) = [i \in 1..(Len(s) + 1) |-> IF i <= Len(s) THEN s[i].size ELSE m.size]
    <3> HIDE DEF Sizes
    <3>1. Append(Sizes(s), m.size)
            = [i \in 1..(Len(s) + 1) |-> IF i <= Len(s) THEN Sizes(s)[i] ELSE m.size]
      BY <2>4
    <3>2. \A i \in 1..(Len(s) + 1) : i <= Len(s) => Sizes(s)[i] = s[i].size
      BY <2>1, <2>5
    <3> QED
      BY <3>1, <3>2
  <2> QED
    BY <2>3, <2>6
<1> HIDE DEF Sizes
<1>4. PICK g \in [0..n -> Nat] : /\ CW!Total(w) = g[n]
                                 /\ g[0] = 0
                                 /\ \A i \in 1..n : g[i] = g[i - 1] + w[i]
  <2> HIDE DEF n, w
  <2>1. \E g \in [0..Len(w) -> Nat] : /\ CW!Total(w) = g[Len(w)]
                                      /\ g[0] = 0
                                      /\ \A i \in 1..Len(w) : g[i] = g[i - 1] + w[i]
    BY <1>3, TotalStepwise
  <2> QED
    BY <1>3, <2>1
<1> HIDE DEF n, w
<1>e. \A i \in 0..n : f[i] \in Seq(Message) /\ g[i] \in Nat
  OBVIOUS
<1> DEFINE S == {k \in 0..n : CW!Total(Sizes(f[k])) = g[k]}
<1>5. \A k \in 0..n : k \in S
  <2>1. 0 \in S
    <3>1. Sizes(<<>>) \in Seq(Nat) /\ Len(Sizes(<<>>)) = 0
      BY DEF Sizes
    <3>2. CW!Total(Sizes(<<>>)) = 0
      <4>1. PICK h : /\ CW!Total(Sizes(<<>>)) = h[Len(Sizes(<<>>))]
                     /\ h[0] = 0
        BY <3>1, TotalStepwise
      <4> QED
        BY <3>1, <4>1
    <3> QED
      BY <1>1, <1>2, <1>4, <3>2
  <2>2. ASSUME NEW k \in 1..n, k - 1 \in S PROVE k \in S
    <3>1. k \in 0..n /\ k - 1 \in 0..n /\ ms[k] \in Message /\ ms[k].size \in Nat
      BY <1>2
    <3>2. CW!Total(Sizes(f[k - 1])) = g[k - 1]
      BY <2>2
    <3>3. g[k] = g[k - 1] + w[k]
      BY <1>4
    <3>4. CASE k \in idx
      <4>1. f[k] = Append(f[k - 1], ms[k]) /\ f[k - 1] \in Seq(Message)
        BY <1>1, <1>e, <3>1, <3>4
      <4>2. Sizes(f[k]) = Append(Sizes(f[k - 1]), ms[k].size) /\ Sizes(f[k - 1]) \in Seq(Nat)
        BY <1>c, <1>d, <3>1, <4>1
      <4>3. CW!Total(Sizes(f[k])) = g[k - 1] + ms[k].size
        BY <3>1, <3>2, <4>2, TotalAppend
      <4> QED
        BY <1>3, <3>1, <3>3, <3>4, <4>3
    <3>5. CASE k \notin idx
      <4>1. f[k] = f[k - 1] /\ w[k] = 0 /\ g[k - 1] \in Nat
        BY <1>1, <1>3, <1>e, <3>1, <3>5
      <4> QED
        BY <3>1, <3>2, <3>3, <4>1
    <3> QED
      BY <3>4, <3>5
  <2> HIDE DEF S
  <2> QED
    BY <1>2, <2>1, <2>2, UpTo
<1>6. CW!Total(Sizes(f[n])) = g[n]
  <2>1. n \in 0..n
    BY <1>2
  <2> QED
    BY <1>5, <2>1
<1> QED
  BY <1>1, <1>a, <1>b, <1>4, <1>6 DEF w

-----------------------------------------------------------------------------
(* Lemmas about the cut of the prompt.                                     *)

\* What some messages take is a number.
LEMMA TokensType ==
  ASSUME NEW ms \in Seq(Message), NEW S
  PROVE  CW!Tokens(ms, S) \in Nat /\ \A i \in 1..Len(ms) : i \in S
        => ms[i].size <= CW!Tokens(ms, S)
<1> DEFINE w == [i \in 1..Len(ms) |-> IF i \in S THEN ms[i].size ELSE 0]
<1>1. Len(ms) \in Nat /\ \A i \in 1..Len(ms) : ms[i] \in Message
  OBVIOUS
<1>2. \A i \in 1..Len(ms) : ms[i].size \in Nat
  BY <1>1 DEF Message
<1>3. w \in Seq(Nat) /\ Len(w) = Len(ms) /\ \A i \in 1..Len(ms) : i \in S => w[i] = ms[i].size
  BY <1>1, <1>2
<1>4. CW!Tokens(ms, S) = CW!Total(w)
  BY DEF CW!Tokens
<1> HIDE DEF w
<1> QED
  BY <1>3, <1>4, TotalType

\* What the messages from i on take falls with i, and covers each of them.
LEMMA UsedFalls ==
  ASSUME NEW ms \in Seq(Message), NEW i \in Nat
  PROVE  /\ CW!Used(ms, i) \in Nat
         /\ \A j \in Nat : i <= j => CW!Used(ms, j) <= CW!Used(ms, i)
         /\ \A S : (\A k \in S : k \in 1..Len(ms) /\ i <= k) => CW!Tokens(ms, S) <= CW!Used(ms, i)
<1> DEFINE n == Len(ms)
           u(j) == [k \in 1..n |-> IF k >= j THEN CW!Tokens(ms, CW!Group(ms, k)) ELSE 0]
           w(S) == [k \in 1..n |-> IF k \in S THEN ms[k].size ELSE 0]
<1>0. n \in Nat /\ \A k \in 1..n : ms[k] \in Message
  OBVIOUS
<1>1. \A k \in 1..n : ms[k].size \in Nat
  <2> HIDE DEF n
  <2> QED
    BY <1>0 DEF Message
<1>2. \A k \in 1..n : /\ CW!Tokens(ms, CW!Group(ms, k)) \in Nat
                      /\ ms[k].size <= CW!Tokens(ms, CW!Group(ms, k))
  BY TokensType DEF CW!Group
<1>3. \A j : CW!Used(ms, j) = CW!Total(u(j))
  BY DEF CW!Used
<1>4. \A S : CW!Tokens(ms, S) = CW!Total(w(S))
  BY DEF CW!Tokens
<1> HIDE DEF n
<1>5. \A j : u(j) \in Seq(Nat) /\ Len(u(j)) = n
  BY <1>0, <1>2
<1>6. \A S : w(S) \in Seq(Nat) /\ Len(w(S)) = n
  BY <1>0, <1>1
<1>7. ASSUME NEW j \in Nat, i <= j PROVE CW!Total(u(j)) <= CW!Total(u(i))
  <2>1. \A k \in 1..n : u(j)[k] <= u(i)[k]
    BY <1>0, <1>2, <1>7
  <2> HIDE DEF u
  <2> QED
    BY <1>5, <2>1, TotalMonotone
<1>8. ASSUME NEW S, \A k \in S : k \in 1..n /\ i <= k PROVE CW!Total(w(S)) <= CW!Total(u(i))
  <2>1. \A k \in 1..n : w(S)[k] <= u(i)[k]
    <3> TAKE k \in 1..n
    <3>1. CASE k \in S
      BY <1>0, <1>1, <1>2, <1>8, <3>1
    <3>2. CASE k \notin S
      BY <1>0, <1>2, <3>2
    <3> QED
      BY <3>1, <3>2
  <2> HIDE DEF u, w
  <2> QED
    BY <1>5, <1>6, <2>1, TotalMonotone
<1>9. CW!Total(u(i)) \in Nat
  <2> HIDE DEF u
  <2> QED
    BY <1>5, TotalType
<1> HIDE DEF u, w
<1> QED
  BY <1>3, <1>4, <1>7, <1>8, <1>9 DEF n

\* What is kept is an end of the messages.
LEMMA KeptIsEnd ==
  ASSUME NEW ms \in Seq(Message), NEW budget \in Nat,
         NEW i \in CW!Kept(ms, budget), NEW j \in 1..Len(ms), i <= j
  PROVE  j \in CW!Kept(ms, budget)
<1>1. i \in 1..Len(ms) /\ CW!Used(ms, i) <= budget
  BY DEF CW!Kept
<1>2. i \in Nat /\ j \in Nat
  BY <1>1
<1>3. CW!Used(ms, j) <= CW!Used(ms, i) /\ CW!Used(ms, i) \in Nat /\ CW!Used(ms, j) \in Nat
  BY <1>2, UsedFalls
<1> QED
  BY <1>1, <1>3 DEF CW!Kept

\* What is chosen of what is kept fits the budget.
LEMMA ChosenFits ==
  ASSUME NEW ms \in Seq(Message), NEW budget \in Nat,
         NEW idx \in SUBSET CW!Kept(ms, budget)
  PROVE  CW!CountMessages(CW!Chosen(ms, idx)) <= budget
<1>1. CW!CountMessages(CW!Chosen(ms, idx)) = CW!Tokens(ms, idx) /\ CW!Tokens(ms, idx) \in Nat
  BY ChosenSize, TokensType
<1>2. \A k \in idx : k \in 1..Len(ms) /\ k \in Nat /\ CW!Used(ms, k) <= budget
  BY DEF CW!Kept
<1>3. CASE idx = {}
  <2>1. Len(ms) + 1 \in Nat
    OBVIOUS
  <2> DEFINE w == [k \in 1..Len(ms) |-> IF k \in idx THEN ms[k].size ELSE 0]
             z == [k \in 1..Len(ms) |-> 0]
  <2>2. w = z /\ z \in Seq(Nat) /\ Len(z) = Len(ms) /\ \A k \in 1..Len(ms) : z[k] = 0
    BY <1>3, <2>1
  <2>3. CW!Tokens(ms, idx) = CW!Total(z)
    BY <2>2 DEF CW!Tokens
  <2> HIDE DEF z
  <2>4. PICK f \in [0..Len(z) -> Nat] : /\ CW!Total(z) = f[Len(z)]
                                        /\ f[0] = 0
                                        /\ \A k \in 1..Len(z) : f[k] = f[k - 1] + z[k]
    BY <2>2, TotalStepwise
  <2> DEFINE n == Len(ms)
             S == {k \in 0..n : f[k] = 0}
  <2>5. n \in Nat
    OBVIOUS
  <2>a. \A k \in 1..n : f[k] = f[k - 1] + 0
    BY <2>2, <2>4
  <2>b. f[0] = 0
    BY <2>4
  <2> HIDE DEF n
  <2>6. \A k \in 0..n : k \in S
    <3>1. 0 \in S
      BY <2>5, <2>b
    <3>2. ASSUME NEW k \in 1..n, k - 1 \in S PROVE k \in S
      BY <2>5, <2>a, <3>2
    <3> HIDE DEF S
    <3> QED
      BY <2>5, <3>1, <3>2, UpTo
  <2>7. f[n] = 0
    BY <2>5, <2>6
  <2> QED
    BY <1>1, <2>2, <2>3, <2>4, <2>7 DEF n
<1>4. CASE idx # {}
  <2>1. idx \in SUBSET Nat
    BY <1>2
  <2>2. PICK i \in idx : \A k \in idx : i <= k
    BY <1>4, <2>1, LeastElement
  <2>3. i \in Nat /\ CW!Used(ms, i) <= budget
    BY <1>2
  <2>4. CW!Tokens(ms, idx) <= CW!Used(ms, i) /\ CW!Used(ms, i) \in Nat
    BY <1>2, <2>2, <2>3, UsedFalls
  <2> QED
    BY <1>1, <2>3, <2>4
<1> QED
  BY <1>3, <1>4

\* What is kept of a conversation, less the results without their call, is paired.
LEMMA ChosenPaired ==
  ASSUME NEW ms, Conversing(ms), NEW budget \in Nat
  PROVE  LET kept == CW!Kept(ms, budget)
             idx  == {i \in kept : CW!HasPair(ms, kept, i)}
         IN  Paired(CW!Chosen(ms, idx)) /\ CW!Chosen(ms, idx) \in Seq(Message)
<1> DEFINE kept == CW!Kept(ms, budget)
           idx  == {i \in kept : CW!HasPair(ms, kept, i)}
           c    == CW!Chosen(ms, idx)
<1>1. ms \in Seq(Message) /\ Len(ms) \in Nat
  BY DEF Conversing
<1>2. kept \subseteq 1..Len(ms) /\ idx \subseteq kept
  BY DEF CW!Kept
<1>3. \A i \in kept, j \in 1..Len(ms) : i <= j => j \in kept
  BY <1>1, KeptIsEnd
<1> HIDE DEF kept
<1>4. \A i \in idx : ms[i].role = "tool" => \E j \in kept : ms[i].answers \in ms[j].calls
  BY DEF CW!HasPair
<1>5. \A i \in kept : ms[i].role # "tool" => i \in idx
  BY DEF CW!HasPair
<1>6. \A i, j \in kept : ms[i].answers \in ms[j].calls => i \in idx
  BY DEF CW!HasPair
<1> HIDE DEF idx
<1>7. c \in Seq(Message) /\ \E at : Places(at, ms, idx, c)
  <2>1. idx \in SUBSET (1..Len(ms))
    BY <1>2
  <2> QED
    BY <1>1, <2>1, ChosenOK
<1> HIDE DEF c
<1>8. PICK at :
        /\ at \in [1..Len(ms) -> Nat]
        /\ \A i \in idx : at[i] \in 1..Len(c) /\ c[at[i]] = ms[i]
        /\ \A i, j \in idx : i < j => at[i] < at[j]
        /\ \A m \in 1..Len(c) : \E i \in idx : at[i] = m
  BY <1>7 DEF Places
<1>9. ASSUME NEW m \in 1..Len(c), c[m].role = "tool"
      PROVE  \E l \in 1..(m - 1) : c[m].answers \in c[l].calls
  <2>1. PICK i \in idx : at[i] = m
    BY <1>8
  <2>2. c[m] = ms[i] /\ i \in 1..Len(ms)
    BY <1>2, <1>8, <2>1
  <2>3. PICK j \in kept : ms[i].answers \in ms[j].calls
    BY <1>4, <1>9, <2>2
  <2>4. PICK k \in 1..(i - 1) : ms[i].answers \in ms[k].calls
    BY <1>9, <2>2 DEF Conversing
  <2>5. j \in 1..Len(ms) /\ k \in 1..Len(ms)
    BY <1>1, <1>2, <2>2
  <2>6. j = k
    BY <2>3, <2>4, <2>5 DEF Conversing
  <2>a. ms[j].calls # {}
    BY <2>3
  <2>b. ms[j].role # "tool"
    BY <2>5, <2>a DEF Conversing
  <2>7. j \in idx
    BY <1>5, <2>b
  <2>c. j < i
    BY <1>1, <2>2, <2>4, <2>6
  <2>8. at[j] < at[i] /\ at[j] \in 1..Len(c) /\ c[at[j]] = ms[j]
    BY <1>8, <2>7, <2>c
  <2>9. at[j] \in 1..(m - 1)
    BY <1>7, <2>1, <2>8
  <2> QED
    BY <2>2, <2>3, <2>8, <2>9
<1>10. ASSUME NEW m \in 1..Len(c), NEW id \in c[m].calls
       PROVE  \E l \in (m + 1)..Len(c) : c[l].answers = id
  <2>1. PICK i \in idx : at[i] = m
    BY <1>8
  <2>2. c[m] = ms[i] /\ i \in 1..Len(ms) /\ i \in kept
    BY <1>2, <1>8, <2>1
  <2>3. PICK j \in (i + 1)..Len(ms) : ms[j].role = "tool" /\ ms[j].answers = id
    BY <1>10, <2>2 DEF Conversing
  <2>4. j \in 1..Len(ms) /\ i < j
    BY <1>1, <2>2
  <2>5. j \in kept
    BY <1>1, <1>3, <2>2, <2>4
  <2>6. j \in idx
    BY <1>6, <1>10, <2>2, <2>3, <2>5
  <2>7. at[i] < at[j] /\ at[j] \in 1..Len(c) /\ c[at[j]] = ms[j]
    BY <1>8, <2>4, <2>6
  <2>8. at[j] \in (m + 1)..Len(c)
    BY <1>7, <2>1, <2>7
  <2> QED
    BY <2>3, <2>7, <2>8
<1>11. Paired(c)
  BY <1>9, <1>10 DEF Paired
<1> QED
  BY <1>7, <1>11 DEF c, idx, kept

\* The system prompt before it changes none of that, and takes its own size.
LEMMA HeadPaired ==
  ASSUME NEW p \in Seq(Message), Paired(p)
  PROVE  /\ <<CW!System>> \o p \in Seq(Message)
         /\ Paired(<<CW!System>> \o p)
         /\ CW!CountMessages(<<CW!System>> \o p) = 1 + CW!CountMessages(p)
<1> DEFINE q == <<CW!System>> \o p
           a == [i \in 1..Len(p) |-> p[i].size]
           b == [i \in 1..Len(q) |-> q[i].size]
<1>0. CW!System = [role |-> "system", size |-> 1, calls |-> {}, answers |-> 0]
  BY DEF CW!System, CW!M, CW!Short
<1>1. CW!System \in Message
  BY <1>0 DEF Message
<1>a. Len(p) \in Nat /\ q \in Seq(Message) /\ Len(q) = Len(p) + 1 /\ q[1] = CW!System
  BY <1>1
<1>b. \A i \in 1..Len(p) : i + 1 \in 1..Len(q) /\ q[i + 1] = p[i]
  BY <1>1, <1>a
<1>c. \A i \in 1..Len(q) : i = 1 \/ (i - 1 \in 1..Len(p) /\ q[i] = p[i - 1])
  <2>1. \A i \in 1..Len(q) : i # 1 => i - 1 \in 1..Len(p) /\ (i - 1) + 1 = i
    BY <1>a
  <2> HIDE DEF q
  <2> QED
    BY <1>b, <2>1
<1>2. /\ Len(p) \in Nat /\ q \in Seq(Message) /\ Len(q) = Len(p) + 1 /\ q[1] = CW!System
      /\ \A i \in 1..Len(p) : i + 1 \in 1..Len(q) /\ q[i + 1] = p[i]
      /\ \A i \in 1..Len(q) : i = 1 \/ (i - 1 \in 1..Len(p) /\ q[i] = p[i - 1])
  <2> HIDE DEF q
  <2> QED
    BY <1>a, <1>b, <1>c
<1>3. \A i \in 1..Len(p) : p[i] \in Message
  OBVIOUS
<1>4. \A i \in 1..Len(p) : p[i].size \in Nat
  BY <1>3 DEF Message
<1> HIDE DEF q
<1>5. ASSUME NEW i \in 1..Len(q), q[i].role = "tool"
      PROVE  \E j \in 1..(i - 1) : q[i].answers \in q[j].calls
  <2>1. i # 1
    BY <1>0, <1>2, <1>5
  <2>2. i - 1 \in 1..Len(p) /\ q[i] = p[i - 1]
    BY <1>2, <2>1
  <2>3. PICK j \in 1..((i - 1) - 1) : p[i - 1].answers \in p[j].calls
    BY <1>5, <2>2 DEF Paired
  <2>4. j \in 1..Len(p) /\ j + 1 \in 1..(i - 1)
    BY <1>2, <2>2
  <2> QED
    BY <1>2, <2>2, <2>3, <2>4
<1>6. ASSUME NEW i \in 1..Len(q), NEW id \in q[i].calls
      PROVE  \E j \in (i + 1)..Len(q) : q[j].answers = id
  <2>1. i # 1
    BY <1>0, <1>2
  <2>2. i - 1 \in 1..Len(p) /\ q[i] = p[i - 1]
    BY <1>2, <2>1
  <2>3. PICK j \in ((i - 1) + 1)..Len(p) : p[j].answers = id
    BY <1>6, <2>2 DEF Paired
  <2>4. j \in 1..Len(p) /\ j + 1 \in (i + 1)..Len(q)
    BY <1>2, <2>2
  <2> QED
    BY <1>2, <2>3, <2>4
<1>7. a \in Seq(Nat) /\ Len(a) = Len(p) /\ \A i \in 1..Len(p) : a[i] = p[i].size
  BY <1>2, <1>4
<1>8. b = <<1>> \o a
  <2>1. b = [i \in 1..(Len(p) + 1) |-> IF i = 1 THEN 1 ELSE p[i - 1].size]
    BY <1>0, <1>2
  <2>2. \A i \in 1..(Len(p) + 1) : i # 1 => i - 1 \in 1..Len(p) /\ p[i - 1].size = a[i - 1]
    BY <1>2, <1>7
  <2>3. b = [i \in 1..(Len(p) + 1) |-> IF i = 1 THEN 1 ELSE a[i - 1]]
    BY <2>1, <2>2
  <2> HIDE DEF a, b
  <2>4. <<1>> \o a = [i \in 1..(Len(p) + 1) |-> IF i = 1 THEN 1 ELSE a[i - 1]]
    BY <1>2, <1>7
  <2> QED
    BY <2>3, <2>4
<1>9. CW!Total(b) = 1 + CW!Total(a)
  <2> HIDE DEF a, b
  <2> QED
    BY <1>7, <1>8, TotalCons
<1>10. CW!CountMessages(q) = CW!Total(b) /\ CW!CountMessages(p) = CW!Total(a)
  BY DEF CW!CountMessages
<1>11. Paired(q)
  BY <1>5, <1>6 DEF Paired
<1> HIDE DEF a, b
<1> QED
  BY <1>2, <1>9, <1>10, <1>11 DEF q

\* Folding long results keeps the pairs, and takes no more.
LEMMA FoldedPaired ==
  ASSUME NEW p \in Seq(Message), Paired(p), Long \in Nat, Long > 2
  PROVE  /\ Paired(CW!Collapse(p))
         /\ CW!CountMessages(CW!Collapse(p)) <= CW!CountMessages(p)
         /\ CW!CountMessages(CW!Collapse(p)) \in Nat
<1> DEFINE q == CW!Collapse(p)
           a == [i \in 1..Len(p) |-> p[i].size]
           b == [i \in 1..Len(q) |-> q[i].size]
<1>1. PICK fold \in SUBSET {i \in 1..Len(p) : p[i].role = "tool" /\ p[i].size = Long} :
        q = [i \in 1..Len(p) |-> IF i \in fold THEN [p[i] EXCEPT !.size = CW!Folded] ELSE p[i]]
  BY DEF CW!Collapse
<1> HIDE DEF q
<1>2. Len(p) \in Nat /\ \A i \in 1..Len(p) : p[i] \in Message
  OBVIOUS
<1>3. DOMAIN q = 1..Len(p)
  BY <1>1
<1>4. Len(q) = Len(p)
  BY <1>1, <1>2
<1>5. \A i \in 1..Len(p) : /\ q[i].role = p[i].role /\ q[i].calls = p[i].calls
                           /\ q[i].answers = p[i].answers
                           /\ q[i].size = IF i \in fold THEN 2 ELSE p[i].size
  <2> TAKE i \in 1..Len(p)
  <2>1. p[i] \in Message
    BY <1>2
  <2>2. q[i] = IF i \in fold THEN [p[i] EXCEPT !.size = CW!Folded] ELSE p[i]
    BY <1>1
  <2> QED
    BY <2>1, <2>2 DEF Message, CW!Folded
<1>6. Paired(q)
  <2>1. ASSUME NEW i \in 1..Len(q), q[i].role = "tool"
        PROVE  \E j \in 1..(i - 1) : q[i].answers \in q[j].calls
    <3>1. PICK j \in 1..(i - 1) : p[i].answers \in p[j].calls
      BY <1>4, <1>5, <2>1 DEF Paired
    <3>2. j \in 1..Len(p)
      BY <1>2, <1>4
    <3> QED
      BY <1>4, <1>5, <3>1, <3>2
  <2>2. ASSUME NEW i \in 1..Len(q), NEW id \in q[i].calls
        PROVE  \E j \in (i + 1)..Len(q) : q[j].answers = id
    <3>1. PICK j \in (i + 1)..Len(p) : p[j].answers = id
      BY <1>4, <1>5, <2>2 DEF Paired
    <3>2. j \in 1..Len(p)
      BY <1>2, <1>4
    <3> QED
      BY <1>4, <1>5, <3>1, <3>2
  <2> QED
    BY <2>1, <2>2 DEF Paired
<1>7. \A i \in 1..Len(p) : p[i].size \in Nat
  BY <1>2 DEF Message
<1>8. a \in Seq(Nat) /\ Len(a) = Len(p) /\ \A i \in 1..Len(p) : a[i] = p[i].size
  BY <1>2, <1>7
<1>9. b \in Seq(Nat) /\ Len(b) = Len(p) /\ \A i \in 1..Len(p) : b[i] <= a[i]
  <2>1. \A i \in 1..Len(p) : q[i].size \in Nat /\ q[i].size <= p[i].size
    BY <1>1, <1>5, <1>7
  <2> QED
    BY <1>2, <1>4, <2>1
<1>10. CW!Total(b) <= CW!Total(a) /\ CW!Total(b) \in Nat
  <2> HIDE DEF a, b
  <2> QED
    BY <1>8, <1>9, TotalMonotone, TotalType
<1>11. CW!CountMessages(q) = CW!Total(b) /\ CW!CountMessages(p) = CW!Total(a)
  BY DEF CW!CountMessages
<1> HIDE DEF a, b
<1> QED
  BY <1>6, <1>10, <1>11 DEF q

-----------------------------------------------------------------------------
(* The steps of the window.                                                *)

\* The length of two sequences one after the other.
LEMMA ConcatLength ==
  ASSUME NEW S, NEW s \in Seq(S), NEW t \in Seq(S)
  PROVE  s \o t \in Seq(S) /\ Len(s \o t) = Len(s) + Len(t)
  OBVIOUS

\* A step of the run keeps the conversation whole: the new calls have new numbers,
\* and their results come after them.
LEMMA ConversingGrows ==
  ASSUME Conversing(messages), Long \in Nat,
         NEW n \in Nat, NEW sizes \in [1..n -> {CW!Short, Long}], CW!Observe(sizes)
  PROVE  Conversing(messages')
<1> DEFINE ms == messages
           q  == messages'
           l  == Len(ms)
           a  == CW!M("assistant", CW!Short, {CW!NextId + k - 1 : k \in 1..n}, 0)
           rs == [k \in 1..n |-> CW!M("tool", sizes[k], {}, CW!NextId + k - 1)]
<1>1. ms \in Seq(Message) /\ l \in Nat
  BY DEF Conversing
<1>2. PICK m \in Nat : UNION {ms[i].calls : i \in 1..Len(ms)} = 1..m
  BY DEF Conversing
<1>3. CW!NextId = m + 1
  <2>1. Cardinality(1..m) = m
    BY FS_Interval
  <2>2. CW!Cardinality(1..m) = Cardinality(1..m)
    BY DEF CW!Cardinality, Cardinality
  <2> DEFINE u == UNION {ms[i].calls : i \in 1..Len(ms)}
  <2>3. CW!NextId = 1 + CW!Cardinality(u)
    BY DEF CW!NextId
  <2>4. u = 1..m
    BY <1>2
  <2> HIDE DEF u
  <2> QED
    BY <2>1, <2>2, <2>3, <2>4
<1>4. Len(sizes) = n
  OBVIOUS
<1>5. q = ms \o <<a>> \o rs
  BY <1>4 DEF CW!Observe
<1>a. {CW!NextId + k - 1 : k \in 1..n} = (m + 1)..(m + n)
  <2>1. \A k \in 1..n : CW!NextId + k - 1 = m + k /\ m + k \in (m + 1)..(m + n)
    BY <1>3
  <2>2. \A x \in (m + 1)..(m + n) : x - m \in 1..n /\ x = CW!NextId + (x - m) - 1
    BY <1>3
  <2> DEFINE u == {CW!NextId + k - 1 : k \in 1..n}
             v == (m + 1)..(m + n)
  <2>3. \A x \in u : x \in v
    BY <2>1
  <2>4. \A x \in v : x \in u
    BY <2>2
  <2> HIDE DEF u, v
  <2>5. u = v
    BY <2>3, <2>4
  <2> QED
    BY <2>5 DEF u, v
<1>6. /\ a = [role |-> "assistant", size |-> 1, calls |-> (m + 1)..(m + n), answers |-> 0]
      /\ a \in Message
  <2>1. (m + 1)..(m + n) \in SUBSET (Nat \ {0})
    BY SMT
  <2>2. a = [role |-> "assistant", size |-> 1, calls |-> (m + 1)..(m + n), answers |-> 0]
    BY <1>a DEF CW!M, CW!Short
  <2> DEFINE cs == (m + 1)..(m + n)
  <2> HIDE DEF cs
  <2>3. cs \in SUBSET (Nat \ {0}) /\ 1 \in Nat /\ 0 \in Nat
    BY <2>1 DEF cs
  <2>4. [role |-> "assistant", size |-> 1, calls |-> cs, answers |-> 0] \in Message
    BY <2>3 DEF Message
  <2> QED
    BY <2>2, <2>4 DEF cs
<1>7. ASSUME NEW k \in 1..n
      PROVE  rs[k] \in Message /\ rs[k].role = "tool" /\ rs[k].calls = {} /\ rs[k].answers = m + k
  <2>1. sizes[k] \in Nat
    BY DEF CW!Short
  <2>2. CW!NextId + k - 1 = m + k /\ m + k \in Nat
    BY <1>3
  <2>3. rs[k] = [role |-> "tool", size |-> sizes[k], calls |-> {}, answers |-> m + k]
    BY <2>2 DEF CW!M
  <2> QED
    BY <2>1, <2>2, <2>3 DEF Message
<1>8. rs \in Seq(Message) /\ Len(rs) = n
  <2>1. \A k \in 1..n : rs[k] \in Message
    BY <1>7
  <2> QED
    BY <2>1
<1> HIDE DEF a, rs
<1> DEFINE r == ms \o <<a>> \o rs
<1>9. /\ r \in Seq(Message) /\ Len(r) = l + 1 + n /\ r[l + 1] = a
      /\ \A i \in 1..l : r[i] = ms[i]
      /\ \A k \in 1..n : r[l + 1 + k] = rs[k]
  <2> DEFINE b == ms \o <<a>>
  <2>1. b \in Seq(Message) /\ Len(b) = l + 1 /\ b[l + 1] = a /\ \A i \in 1..l : b[i] = ms[i]
    BY <1>1, <1>6
  <2> HIDE DEF b
  <2>2. b \o rs \in Seq(Message) /\ Len(b \o rs) = l + 1 + n
    <3>1. b \o rs \in Seq(Message) /\ Len(b \o rs) = Len(b) + Len(rs)
      BY <1>8, <2>1, ConcatLength
    <3> QED
      BY <1>1, <1>8, <2>1, <3>1
  <2>3. \A i \in 1..(l + 1) : (b \o rs)[i] = b[i]
    BY <1>1, <1>8, <2>1
  <2>4. \A k \in 1..n : (b \o rs)[l + 1 + k] = rs[k]
    <3> TAKE k \in 1..n
    <3>1. l + 1 + k \in (Len(b) + 1)..(Len(b) + Len(rs)) /\ (l + 1 + k) - Len(b) = k
      BY <1>1, <1>8, <2>1
    <3> QED
      BY <1>1, <1>8, <2>1, <3>1
  <2>5. l + 1 \in 1..(l + 1) /\ \A i \in 1..l : i \in 1..(l + 1)
    BY <1>1
  <2> QED
    BY <2>1, <2>2, <2>3, <2>4, <2>5 DEF b
<1> HIDE DEF r
<1>b. q = r
  BY <1>5 DEF r
<1>c. \A i \in 1..Len(r) : i \in 1..l \/ i = l + 1 \/ (\E k \in 1..n : i = l + 1 + k)
  <2> TAKE i \in 1..Len(r)
  <2>1. i \in 1..l \/ i = l + 1 \/ (i - (l + 1) \in 1..n /\ i = l + 1 + (i - (l + 1)))
    BY <1>1, <1>9
  <2> QED
    BY <2>1
<1>d. \A i \in 1..l : i \in 1..Len(r)
  BY <1>1, <1>9
<1>e. l + 1 \in 1..Len(r) /\ \A k \in 1..n : l + 1 + k \in 1..Len(r)
  BY <1>1, <1>9
<1>10. \A i \in 1..l : ms[i].calls \subseteq 1..m
  BY <1>2
<1>f. /\ \A i \in 1..l : r[i].calls = ms[i].calls /\ r[i].calls \subseteq 1..m
      /\ r[l + 1].calls = (m + 1)..(m + n) /\ r[l + 1].role # "tool"
      /\ \A k \in 1..n : /\ r[l + 1 + k].role = "tool" /\ r[l + 1 + k].calls = {}
                         /\ r[l + 1 + k].answers = m + k
  <2>1. \A i \in 1..l : r[i].calls = ms[i].calls /\ r[i].calls \subseteq 1..m
    BY <1>9, <1>10
  <2>2. r[l + 1].calls = (m + 1)..(m + n) /\ r[l + 1].role # "tool"
    BY <1>6, <1>9
  <2>3. \A k \in 1..n : /\ r[l + 1 + k].role = "tool" /\ r[l + 1 + k].calls = {}
                        /\ r[l + 1 + k].answers = m + k
    BY <1>7, <1>9
  <2> QED
    BY <2>1, <2>2, <2>3
<1>g. \A i \in 1..Len(r) : \A id \in r[i].calls :
        (i \in 1..l /\ id \in 1..m) \/ (i = l + 1 /\ id \in (m + 1)..(m + n))
  <2> TAKE i \in 1..Len(r)
  <2> TAKE id \in r[i].calls
  <2>1. CASE i \in 1..l
    BY <1>f, <2>1
  <2>2. CASE i = l + 1
    BY <1>f, <2>2
  <2>3. CASE \E k \in 1..n : i = l + 1 + k
    BY <1>f, <2>3
  <2> QED
    BY <1>c, <2>1, <2>2, <2>3
<1>11. UNION {r[i].calls : i \in 1..Len(r)} = 1..(m + n)
  <2>1. ASSUME NEW x \in 1..(m + n) PROVE \E i \in 1..Len(r) : x \in r[i].calls
    <3>1. CASE x \in 1..m
      <4>0. x \in UNION {ms[i].calls : i \in 1..Len(ms)}
        BY <1>2, <3>1
      <4>1. PICK i \in 1..l : x \in ms[i].calls
        BY <4>0
      <4> QED
        BY <1>d, <1>f, <4>1
    <3>2. CASE x \in (m + 1)..(m + n)
      BY <1>e, <1>f, <3>2
    <3> QED
      BY <3>1, <3>2
  <2>2. ASSUME NEW i \in 1..Len(r), NEW x \in r[i].calls PROVE x \in 1..(m + n)
    <3>1. x \in 1..m \/ x \in (m + 1)..(m + n)
      BY <1>g
    <3> QED
      BY <3>1
  <2> QED
    BY <2>1, <2>2
<1>12. \A i, j \in 1..Len(r) : \A id \in r[i].calls : id \in r[j].calls => i = j
  <2> SUFFICES ASSUME NEW i \in 1..Len(r), NEW j \in 1..Len(r), NEW id \in r[i].calls,
  id \in r[j].calls
               PROVE  i = j
    OBVIOUS
  <2>1. (i \in 1..l /\ id \in 1..m) \/ (i = l + 1 /\ id \in (m + 1)..(m + n))
    BY <1>g
  <2>2. (j \in 1..l /\ id \in 1..m) \/ (j = l + 1 /\ id \in (m + 1)..(m + n))
    BY <1>g
  <2>3. (i = l + 1 /\ j = l + 1) \/ (i \in 1..l /\ j \in 1..l)
    BY <2>1, <2>2
  <2>4. CASE i \in 1..l /\ j \in 1..l
    <3>1. id \in ms[i].calls /\ id \in ms[j].calls
      BY <1>f, <2>4
    <3> QED
      BY <2>4, <3>1 DEF Conversing
  <2> QED
    BY <2>3, <2>4
<1>13. ASSUME NEW i \in 1..Len(r), r[i].role = "tool"
       PROVE  r[i].calls = {} /\ \E j \in 1..(i - 1) : r[i].answers \in r[j].calls
  <2>1. CASE i \in 1..l
    <3>1. r[i] = ms[i]
      BY <1>9, <2>1
    <3>2. ms[i].calls = {} /\ \E j \in 1..(i - 1) : ms[i].answers \in ms[j].calls
      BY <1>13, <2>1, <3>1 DEF Conversing
    <3>3. \A j \in 1..(i - 1) : j \in 1..l
      BY <1>1, <2>1
    <3> QED
      BY <1>9, <3>1, <3>2, <3>3
  <2>2. CASE \E k \in 1..n : i = l + 1 + k
    <3>1. PICK k \in 1..n : i = l + 1 + k
      BY <2>2
    <3>2. m + k \in (m + 1)..(m + n) /\ l + 1 \in 1..(i - 1)
      BY <1>1, <3>1
    <3> QED
      BY <1>f, <3>1, <3>2
  <2> QED
    BY <1>13, <1>c, <1>f, <2>1, <2>2
<1>14. ASSUME NEW i \in 1..Len(r), NEW id \in r[i].calls
       PROVE  \E j \in (i + 1)..Len(r) : r[j].role = "tool" /\ r[j].answers = id
  <2>1. CASE i \in 1..l /\ id \in 1..m
    <3>1. id \in ms[i].calls
      BY <1>f, <2>1
    <3>2. PICK j \in (i + 1)..l : ms[j].role = "tool" /\ ms[j].answers = id
      BY <2>1, <3>1 DEF Conversing
    <3>3. j \in 1..l /\ j \in (i + 1)..Len(r)
      BY <1>1, <1>9, <2>1
    <3> QED
      BY <1>9, <3>2, <3>3
  <2>2. CASE i = l + 1 /\ id \in (m + 1)..(m + n)
    <3>1. PICK k \in 1..n : id = m + k
      <4>1. id - m \in 1..n /\ id = m + (id - m)
        BY <2>2
      <4> QED
        BY <4>1
    <3>2. l + 1 + k \in (i + 1)..Len(r)
      BY <1>1, <1>9, <2>2
    <3> QED
      BY <1>f, <3>1, <3>2
  <2> QED
    BY <1>g, <2>1, <2>2
<1>15. m + n \in Nat
  OBVIOUS
<1>16. Conversing(r)
  BY <1>9, <1>11, <1>12, <1>13, <1>14, <1>15 DEF Conversing
<1> QED
  BY <1>16, <1>b

\* What _truncate_middle leaves is paired and fits the window.
LEMMA CutIsSound ==
  ASSUME Conversing(messages), Limit \in Nat \ {0}, Long \in Nat, Long > 2, CW!SendTruncated
  PROVE  Paired(sent') /\ CW!CountMessages(sent') <= Limit
<1> DEFINE prompt == CW!Prompt
           budget == Limit - 1
           kept   == IF Limit <= 1 THEN {} ELSE CW!Kept(messages, budget)
           idx    == {i \in kept : CW!HasPair(messages, kept, i)}
           c      == CW!Chosen(messages, idx)
<1>1. messages \in Seq(Message)
  BY DEF Conversing
<1>2. CW!System = [role |-> "system", size |-> 1, calls |-> {}, answers |-> 0]
  BY DEF CW!System, CW!M, CW!Short
<1>3. prompt = <<CW!System>> \o messages
  BY DEF CW!Prompt
<1>4. CW!System \in Message
  BY <1>2 DEF Message
<1>5. Head(prompt) = CW!System /\ Tail(prompt) = messages /\ Head(prompt).size = 1
  <2> HIDE DEF prompt
  <2>1. Head(prompt) = CW!System
    BY <1>1, <1>3, <1>4
  <2>2. Tail(prompt) = messages
    BY <1>1, <1>3, <1>4
  <2> QED
    BY <1>2, <2>1, <2>2
<1>6. CW!TruncateMiddle(prompt, Limit) = <<CW!System>> \o c
  <2> HIDE DEF prompt
  <2> QED
    BY <1>5 DEF CW!TruncateMiddle
<1>7. Paired(c) /\ c \in Seq(Message) /\ CW!CountMessages(c) <= budget
  <2>0. budget \in Nat
    OBVIOUS
  <2>1. CASE Limit <= 1
    <3>1. budget = 0 /\ idx = {}
      BY <2>1
    <3>2. idx \in SUBSET CW!Kept(messages, budget) /\ idx \in SUBSET (1..Len(messages))
      BY <3>1
    <3>3. CW!CountMessages(c) <= budget
      <4> HIDE DEF idx, budget
      <4> QED
        BY <1>1, <2>0, <3>2, ChosenFits
    <3>4. c \in Seq(Message) /\ \E at : Places(at, messages, idx, c)
      <4> HIDE DEF idx
      <4> QED
        BY <1>1, <3>2, ChosenOK
    <3> HIDE DEF c
    <3>5. \A i \in 1..Len(c) : FALSE
      BY <3>1, <3>4 DEF Places
    <3> QED
      BY <3>3, <3>4, <3>5 DEF Paired
  <2>2. CASE ~ (Limit <= 1)
    <3>1. kept = CW!Kept(messages, budget)
      BY <2>2
    <3>2. idx \in SUBSET CW!Kept(messages, budget)
      BY <3>1
    <3>3. CW!CountMessages(c) <= budget
      <4> HIDE DEF idx, budget
      <4> QED
        BY <1>1, <2>0, <3>2, ChosenFits
    <3> HIDE DEF budget
    <3>4. Paired(c) /\ c \in Seq(Message)
      BY <2>0, <3>1, ChosenPaired
    <3> QED
      BY <3>3, <3>4
  <2> QED
    BY <2>1, <2>2
<1> DEFINE p == <<CW!System>> \o c
<1>8. p \in Seq(Message) /\ Paired(p) /\ CW!CountMessages(p) = 1 + CW!CountMessages(c)
  <2> HIDE DEF c
  <2> QED
    BY <1>7, HeadPaired
<1>9. CW!CountMessages(c) \in Nat
  <2> HIDE DEF c
  <2> DEFINE w == [i \in 1..Len(c) |-> c[i].size]
  <2>1. Len(c) \in Nat /\ \A i \in 1..Len(c) : c[i] \in Message
    BY <1>7
  <2>2. \A i \in 1..Len(c) : c[i].size \in Nat
    BY <2>1 DEF Message
  <2>3. w \in Seq(Nat)
    BY <2>1, <2>2
  <2>4. CW!CountMessages(c) = CW!Total(w)
    BY DEF CW!CountMessages
  <2> HIDE DEF w
  <2> QED
    BY <2>3, <2>4, TotalType
<1>10. CW!CountMessages(p) <= Limit /\ CW!CountMessages(p) \in Nat
  <2> HIDE DEF c, p
  <2> QED
    BY <1>7, <1>8, <1>9
<1>11. sent' = CW!Collapse(p)
  <2> HIDE DEF prompt, c
  <2>1. sent' = CW!Collapse(CW!TruncateMiddle(prompt, Limit))
    BY DEF CW!SendTruncated, CW!Send, prompt
  <2> QED
    BY <1>6, <2>1
<1> HIDE DEF p
<1>12. /\ Paired(CW!Collapse(p))
       /\ CW!CountMessages(CW!Collapse(p)) <= CW!CountMessages(p)
       /\ CW!CountMessages(CW!Collapse(p)) \in Nat
  BY <1>8, FoldedPaired
<1> QED
  BY <1>10, <1>11, <1>12

\* The first prompt is not made yet, and the goal is a message without calls.
LEMMA WindowInit == CW!Init => WindowInv
<1> SUFFICES ASSUME CW!Init PROVE WindowInv
  OBVIOUS
<1> DEFINE first == [role |-> "user", size |-> 1, calls |-> {}, answers |-> 0]
<1>1. messages = <<first>> /\ cut = "whole"
  BY DEF CW!Init, CW!M, CW!Short
<1>2. first \in Message /\ first.calls = {} /\ first.role = "user"
  BY DEF Message
<1> HIDE DEF first
<1>3. messages \in Seq(Message) /\ Len(messages) = 1 /\ messages[1] = first
  BY <1>1, <1>2
<1>4. \A i \in 1..Len(messages) : messages[i].calls = {} /\ messages[i].role # "tool"
  BY <1>2, <1>3
<1>5. \E n \in Nat : UNION {messages[i].calls : i \in 1..Len(messages)} = 1..n
  <2>1. UNION {messages[i].calls : i \in 1..Len(messages)} = {}
    BY <1>4
  <2>2. 1..0 = {} /\ 0 \in Nat
    OBVIOUS
  <2> QED
    BY <2>1, <2>2
<1>6. Conversing(messages)
  BY <1>3, <1>4, <1>5 DEF Conversing
<1> QED
  BY <1>1, <1>6 DEF WindowInv, CW!TruncationSound

\* Every step keeps the invariant.
LEMMA WindowStep ==
  ASSUME WindowInv, Limit \in Nat \ {0}, Long \in Nat, Long > 2, [CW!Next]_(CW!vars)
  PROVE  WindowInv'
<1>1. Conversing(messages) /\ CW!TruncationSound
  BY DEF WindowInv
<1>2. CASE \E n \in 0..2 : \E sizes \in [1..n -> {CW!Short, Long}] : CW!Observe(sizes)
  <2>1. PICK n \in 0..2 : \E sizes \in [1..n -> {CW!Short, Long}] : CW!Observe(sizes)
    BY <1>2
  <2>2. PICK sizes \in [1..n -> {CW!Short, Long}] : CW!Observe(sizes)
    BY <2>1
  <2>3. n \in Nat
    OBVIOUS
  <2>4. Conversing(messages')
    BY <1>1, <2>2, <2>3, ConversingGrows
  <2>5. UNCHANGED <<sent, cut>>
    BY <2>2 DEF CW!Observe
  <2>6. CW!TruncationSound'
    BY <1>1, <2>5 DEF CW!TruncationSound, CW!PairsWhole
  <2> QED
    BY <2>4, <2>6 DEF WindowInv
<1>3. CASE CW!SendWhole \/ CW!SendSummarized
  <2>1. UNCHANGED messages /\ cut' # "truncated"
    BY <1>3 DEF CW!SendWhole, CW!SendSummarized, CW!Send
  <2> QED
    BY <1>1, <2>1 DEF WindowInv, CW!TruncationSound
<1>4. CASE CW!SendTruncated
  <2>1. UNCHANGED messages
    BY <1>4 DEF CW!SendTruncated, CW!Send
  <2>2. Paired(sent') /\ CW!CountMessages(sent') <= Limit
    BY <1>1, <1>4, CutIsSound
  <2>3. CW!PairsWhole'
    BY <2>2 DEF Paired, CW!PairsWhole
  <2>4. CW!TruncationSound'
    BY <2>2, <2>3 DEF CW!TruncationSound
  <2> QED
    BY <1>1, <2>1, <2>4 DEF WindowInv
<1>5. CASE UNCHANGED CW!vars
  <2>1. UNCHANGED <<messages, sent, cut>>
    BY <1>5 DEF CW!vars
  <2> QED
    BY <1>1, <2>1 DEF WindowInv, CW!TruncationSound, CW!PairsWhole
<1> QED
  BY <1>2, <1>3, <1>4, <1>5 DEF CW!Next

\* _truncate_middle (manager.py): whatever the sizes and the calls of the steps of a
\* run, a prompt it has cut holds whole pairs of call and result only, and fits
\* the window: for every limit of a token at least, what the system prompt takes.
THEOREM CutAlwaysSound ==
  ASSUME Limit \in Nat \ {0}, Long \in Nat, Long > 2
  PROVE  CW!Spec => []TruncationSound
<1>1. CW!Init => WindowInv
  BY WindowInit
<1>2. WindowInv /\ [CW!Next]_(CW!vars) => WindowInv'
  BY WindowStep
<1>3. WindowInv => TruncationSound
  BY DEF WindowInv, TruncationSound
<1> QED
  BY <1>1, <1>2, <1>3, PTL DEF CW!Spec
=============================================================================
