---------------------------- MODULE PlatformParts ----------------------------
(***************************************************************************)
(* The platform around the agent, with what each part promises: the        *)
(* accounts, the skill store, the log and alert services, and the          *)
(* connection pool. They share no state.                                   *)
(***************************************************************************)
EXTENDS Accounts

CONSTANTS
  Documents, Hub, DirOrder, Slug, Title, Categories, Known, BuiltIn, Tags, Owners,
  MaxSkills, MaxBoots,                                            \* SkillStore
  MaxItems, QueueSize,                                            \* Observability
  Coroutine, MaxSize, MaxPools                                    \* ConnectionPool

VARIABLES
  rows, docs, words, tags, deps, nextSkill, system, personal, registry,
  calls, begun, failed, boots, overlap, torn,                     \* SkillStore
  service, running, stop, queue, worker, held, sent, recent, fate, \* Observability
  pools, default, kind, at, conn, told, txns, pending, broken, table \* ConnectionPool

SK == INSTANCE SkillStore WITH
        files <- docs, nextId <- nextSkill, req <- calls, starts <- begun, faults <- failed
OB == INSTANCE Observability
CP == INSTANCE ConnectionPool WITH pc <- at, reply <- told, begun <- txns

skills   == <<rows, docs, words, tags, deps, nextSkill, system, personal, registry,
              calls, begun, failed, boots, overlap, torn>>
services == <<service, running, stop, queue, worker, held, sent, recent, fate>>
database == <<pools, default, kind, at, conn, told, txns, pending, broken, table>>

\* What the parts promise, as their modules state it: SKILL.md and its row
\* (skill_store/service.py), the registry and its table (endpoints/skills.py), the
\* services' items (infra/observability), and a call's writes (mysql/pool.py).
PrimaryMatches       == SK!PrimaryMatches
RegistryFollowsTable == SK!RegistryFollowsTable
AcceptedIsHeld       == OB!AcceptedIsHeld
CommittedWhole       == CP!CommittedWhole
=============================================================================
