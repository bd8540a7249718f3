----------------------------- MODULE MCPlatform -----------------------------
(***************************************************************************)
(* TLC instance of the accounts, the skill store, the log and alert        *)
(* services, and the connection pool. They do not share state: each        *)
(* behaviour is of one part, the others stand still. Two requests at a     *)
(* time in the first two.                                                  *)
(***************************************************************************)
EXTENDS PlatformParts, TLC

CONSTANTS r1, r2

VARIABLE part                                            \* the part that acts

MCRequests == {r1, r2}

\* Accounts: one administrator at start, and a mail of a domain that is refused.
MCUsers == {"ann", "cyd", "dan"}
MCMails == {"ann@", "cyd@", "dan@", "odd@"}
MCAllowed == MCMails \ {"odd@"}
Form(name, mail, pw) == [name |-> name, mail |-> mail, pw |-> pw]
MCForms == {Form("cyd", "cyd@", "q"), Form("dan", "dan@", "p"), Form("cyd", "odd@", "p")}
Row(name, mail, role, legacy) ==
    [name |-> name, mail |-> mail, role |-> role, pw |-> "p", legacy |-> legacy,
     limit |-> 1, code |-> "none", avatar |-> [p \in {"user", "agent"} |-> FALSE]]
MCFirst == 1 :> Row("ann", "ann@", "admin", TRUE)

\* Skill store: two documents of different names, a directory of two skills that link
\* to each other.
Doc(name, category, keywords, links, blank) ==
    [name |-> name, category |-> category, keywords |-> keywords, links |-> links, blank |-> blank]
MCDocuments == {Doc("alpha", "", {"k"}, {}, FALSE), Doc("beta", "ops", {}, {}, TRUE)}
MCHub == [a |-> [doc |-> Doc("alpha", "", {}, {"b"}, FALSE), extra |-> TRUE],
          b |-> [doc |-> Doc("beta", "", {}, {"a"}, FALSE), extra |-> FALSE]]

MCDirOrder == <<"a", "b">>
MCSlug     == [alpha |-> "a", beta |-> "b"]
MCTitle    == [a |-> "A", b |-> "B"]
MCKnown    == [a |-> "engineering"]

PlatformInit ==
  /\ part \in {"accounts", "skills", "services", "database"}
  /\ Init /\ SK!Init /\ OB!Init /\ CP!Init
  /\ part # "services" => service = "log"
  /\ part # "accounts" => \A c \in Codes : codes[c].status = "unused"

AccountsStep == part = "accounts" /\ Next /\ UNCHANGED <<part, skills, services, database>>
SkillsStep   == part = "skills" /\ SK!Next /\ UNCHANGED <<part, vars, services, database>>
ServicesStep == part = "services" /\ OB!Next /\ UNCHANGED <<part, vars, skills, database>>
DatabaseStep == part = "database" /\ CP!Next /\ UNCHANGED <<part, vars, skills, services>>

PlatformNext == AccountsStep \/ SkillsStep \/ ServicesStep \/ DatabaseStep

PlatformSpec == PlatformInit /\ [][PlatformNext]_<<part, vars, skills, services, database>>

Symmetric == Permutations(MCRequests)
=============================================================================
