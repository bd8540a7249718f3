----------------------------- MODULE SkillStore -----------------------------
(***************************************************************************)
(* The skill store (core/skill_store, api/v1/endpoints/skill_store.py),    *)
(* the system and personal skills (core/skills, endpoints/skills.py), the  *)
(* import of a directory, and the in-memory registry the agents read,      *)
(* which a start of the process fills from the tables.                     *)
(*                                                                         *)
(* Every statement commits by itself and is an action; a request keeps the *)
(* row it read.  A Markdown document is a record of what its parsers find  *)
(* in it: the frontmatter's name, category and keywords, the skills its    *)
(* text links to, and whether a blank line precedes the frontmatter.       *)
(* Listing, searching and the sizes of files are left out. An import runs  *)
(* in a thread with an event loop of its own, over the same pool; here it  *)
(* is a request like the others, whose statements may fail (DbError).      *)
(***************************************************************************)
EXTENDS Naturals, Sequences, FiniteSets

CONSTANTS
    Requests,       \* request handlers that run at the same time
    Documents,      \* Markdown texts that are uploaded
    Hub,            \* the directory that is imported: dir -> [doc, extra]
    DirOrder,       \* every directory name, sorted
    Slug,           \* name in a frontmatter -> directory name
    Title,          \* directory name -> name the loader makes of it
    Categories,     \* slugs in skill_categories
    Known,          \* directory names with a built-in category -> slug
    BuiltIn,        \* names of the skills registered by code
    Tags,
    Owners,         \* accounts with personal skills
    MaxSkills,      \* bound: rows ever inserted, in each of the three tables
    MaxStarts,      \* bound: requests received
    MaxFaults,      \* bound: statements that fail
    MaxBoots        \* bound: starts of the process

VARIABLES
    rows,       \* skill_registry: id -> row, or NoRow
    files,      \* skill_files: id -> [main, extra]
    words,      \* skill_keywords: id -> set
    tags,       \* skill_tags: id -> set
    deps,       \* skill_dependencies: set of <<source, target>>
    nextId,     \* AUTO_INCREMENT of the three tables
    system,     \* system_skills: id -> row
    personal,   \* account_skills: id -> row
    registry,   \* SkillRegistry._skills: name -> what was made of which document
    req, starts, faults, boots,
    overlap,    \* history: skills two uploads of which were under way at once; 0 once
                \* two changes of system skills were, or one ended before the
                \* registry knew of it, until the next start
    torn        \* history: skills whose last upload ended before SKILL.md

store == <<rows, files, words, tags, deps>>
bounds == <<starts, faults, boots>>
history == <<overlap, torn>>
vars == <<rows, files, words, tags, deps, nextId, system, personal, registry,
          req, starts, faults, boots, overlap, torn>>

-----------------------------------------------------------------------------
\* Documents and what the parsers make of them

Ids == 1 .. MaxSkills
Null == [name |-> "none"]
NoRow == [dir |-> "none"]
Dirs == {Slug[n] : n \in DOMAIN Slug}
Names == {d.name : d \in Documents \cup {Hub[h].doc : h \in DOMAIN Hub}}
         \cup {Title[dir] : dir \in Dirs} \cup {"untitled-skill"} \cup BuiltIn

\* A skill of the registry: the document it was made of, and what its content is.
\* Absent and Code have no document.
Skill(doc, content) == [doc |-> doc, content |-> content]
Absent == Skill(Null, "none")
Code == Skill(Null, "code")

\* A skill made of a system skill: the text the request brought beside the document,
\* or the document without its frontmatter (with its guidelines apart); after a
\* start, the document as the row has it.
OfSystem == {"detail", "body", "row"}

\* SkillMarkdownParser strips the text before it looks for the frontmatter;
\* FrontmatterParser, which reads the same text at start, does not.
ParseFrontmatter(doc) == doc
LoaderParses(doc) == ~doc.blank

\* _resolve_dir_name raises when the frontmatter has no name.
HasName(doc) == doc.name # ""
ResolveDirName(doc) == Slug[ParseFrontmatter(doc).name]

\* _infer_category and the lookup of the slug; "none" is a NULL category_id.
InferCategory(dir, doc) ==
    LET slug == IF doc.category # "" THEN doc.category
                ELSE IF dir \in DOMAIN Known THEN Known[dir] ELSE "general"
    IN  IF slug \in Categories THEN slug ELSE "none"

\* extract_personal_fields: a document without a name gets one.
PersonalName(doc) == IF doc.name = "" THEN "untitled-skill" ELSE doc.name

Stored == {id \in Ids : rows[id] # NoRow}
RowsWithDir(dir) == {id \in Ids : rows[id] # NoRow /\ rows[id].dir = dir}
NoFiles == [main |-> Null, extra |-> FALSE]

Idle == [pc |-> "idle", id |-> 0, doc |-> Null, tag |-> "none", name |-> "none",
         words |-> {}, todo |-> <<>>, known |-> {}, left |-> {}, imported |-> FALSE,
         owner |-> "none", detail |-> FALSE]
At(r, pc) == req[r].pc = pc
Goto(r, pc) == req' = [req EXCEPT ![r].pc = pc]
Done(r) == req' = [req EXCEPT ![r] = Idle]
Importing(r) == req[r].todo # <<>>

Receive(r, handler) ==
    /\ At(r, "idle") /\ starts < MaxStarts
    /\ starts' = starts + 1
    /\ req' = [req EXCEPT ![r] = handler]
    /\ UNCHANGED <<faults, boots>>

Init ==
    /\ rows = [id \in Ids |-> NoRow]
    /\ files = [id \in Ids |-> NoFiles]
    /\ words = [id \in Ids |-> {}]
    /\ tags = [id \in Ids |-> {}]
    /\ deps = {}
    /\ nextId = [store |-> 1, system |-> 1, personal |-> 1]
    /\ system = [id \in Ids |-> NoRow]
    /\ personal = [id \in Ids |-> NoRow]
    /\ registry = [n \in Names |-> IF n \in BuiltIn THEN Code ELSE Absent]
    /\ req = [r \in Requests |-> Idle]
    /\ starts = 0 /\ faults = 0 /\ boots = 0
    /\ overlap = {} /\ torn = {}

-----------------------------------------------------------------------------
\* create_skill_from_markdown, for an upload or for an entry of an import

CreateEndpoint(r) ==
    /\ \E doc \in Documents : Receive(r, [Idle EXCEPT !.pc = "find", !.doc = doc])
    /\ UNCHANGED <<store, nextId, system, personal, registry, history>>

\* The end of one entry of the import, or of a request.
NextEntry(r) == IF Importing(r)
                THEN req' = [req EXCEPT ![r].pc = "entry", ![r].todo = Tail(@), ![r].id = 0]
                ELSE Done(r)

\* ValueError: no name, or the directory name is taken.
CreateFind(r) ==
    /\ At(r, "find")
    /\ IF HasName(req[r].doc) /\ RowsWithDir(ResolveDirName(req[r].doc)) = {}
       THEN Goto(r, "insert") ELSE NextEntry(r)
    /\ UNCHANGED <<store, nextId, system, personal, registry, bounds, history>>

\* The INSERT; dir_name is UNIQUE, so a row inserted meanwhile makes it fail.
CreateRow(r) ==
    LET doc == req[r].doc
        dir == ResolveDirName(doc)
    IN  /\ At(r, "insert")
        /\ IF RowsWithDir(dir) # {}
           THEN NextEntry(r) /\ UNCHANGED <<rows, nextId>>
           ELSE /\ nextId.store \in Ids
                /\ rows' = [rows EXCEPT ![nextId.store] =
                     [dir |-> dir, doc |-> doc, status |-> "active",
                      category |-> InferCategory(dir, doc), count |-> 1]]
                /\ nextId' = [nextId EXCEPT !.store = @ + 1]
                /\ req' = [req EXCEPT ![r].pc = "insert_file", ![r].id = nextId.store]
        /\ UNCHANGED <<files, words, tags, deps, system, personal, registry, bounds, history>>

\* The skill is written; an import goes on with the other files.
Written(r) == IF Importing(r) THEN Goto(r, "extra") ELSE Done(r)

\* Mutant of Primary: INSERT IGNORE keeps the first content.
PrimaryOnce(old, doc) == IF old = Null THEN doc ELSE old
Primary(old, doc) == doc

\* SKILL.md is written, or its INSERT fails and the upload ends there.
FileWritten(r) ==
    /\ files' = [files EXCEPT ![req[r].id].main = Primary(@, req[r].doc)]
    /\ torn' = torn \ {req[r].id}
    /\ IF req[r].doc.keywords = {} THEN Written(r) ELSE Goto(r, "words_clear")
FileRefused(r) == NextEntry(r) /\ torn' = torn \cup {req[r].id} /\ UNCHANGED files

\* A new skill's: refused by the foreign key when its row has been deleted, and by
\* the unique one when an update of the skill has written it.
InsertFile(r) ==
    LET id == req[r].id IN
    /\ At(r, "insert_file")
    /\ IF rows[id] = NoRow \/ files[id].main # Null THEN FileRefused(r) ELSE FileWritten(r)
    /\ UNCHANGED <<rows, words, tags, deps, nextId, system, personal, registry, bounds, overlap>>

\* An update's: inserted, or its content replaced (ON DUPLICATE KEY UPDATE).
SaveFile(r) ==
    /\ At(r, "save_file")
    /\ IF rows[req[r].id] = NoRow THEN FileRefused(r) ELSE FileWritten(r)
    /\ UNCHANGED <<rows, words, tags, deps, nextId, system, personal, registry, bounds, overlap>>

\* _set_keywords: the old ones are deleted ...
ClearKeywords(r) ==
    /\ At(r, "words_clear")
    /\ words' = [words EXCEPT ![req[r].id] = {}]
    /\ req' = [req EXCEPT ![r].pc = "words", ![r].words = req[r].doc.keywords]
    /\ UNCHANGED <<rows, files, tags, deps, nextId, system, personal, registry, bounds, history>>

\* ... and the new ones inserted one by one; a failed INSERT is passed over.
AddKeyword(r) ==
    /\ At(r, "words") /\ req[r].words # {}
    /\ \E w \in req[r].words, ok \in BOOLEAN :
          /\ ok \/ rows[req[r].id] = NoRow \/ faults < MaxFaults
          /\ words' = IF ok /\ rows[req[r].id] # NoRow
                      THEN [words EXCEPT ![req[r].id] = @ \cup {w}] ELSE words
          /\ faults' = IF ok \/ rows[req[r].id] = NoRow THEN faults ELSE faults + 1
          /\ req' = [req EXCEPT ![r].words = @ \ {w}]
    /\ UNCHANGED <<rows, files, tags, deps, nextId, system, personal, registry, starts, boots,
                   history>>

KeywordsDone(r) ==
    /\ At(r, "words") /\ req[r].words = {}
    /\ Written(r)
    /\ UNCHANGED <<store, nextId, system, personal, registry, bounds, history>>

-----------------------------------------------------------------------------
\* update_skill_from_markdown and the deletion and tags of a skill

\* An upload that has yet to write SKILL.md; one that has yet to end.
Filing(q) == q.pc \in {"insert_file", "save_file"}
UploadPcs == {"update", "insert_file", "save_file", "words_clear", "words"}
Uploading(id) == {r \in Requests : req[r].id = id /\ req[r].pc \in UploadPcs}

\* get_skill_by_dir; the handler goes on with the id it read.
UpdateEndpoint(r) ==
    \E id \in Ids, doc \in Documents :
       /\ rows[id] # NoRow
       /\ Receive(r, [Idle EXCEPT !.pc = "update", !.id = id, !.doc = doc])
       /\ overlap' = IF Uploading(id) = {} THEN overlap ELSE overlap \cup {id}
       /\ UNCHANGED <<store, nextId, system, personal, registry, torn>>

\* The UPDATE writes everything but dir_name, status and category. The number of
\* rows it changed decides: a text that changes nothing is answered "not found".
UpdateRow(r) ==
    LET id == req[r].id
        changed == rows[id] # NoRow /\ rows[id].doc # req[r].doc
    IN  /\ At(r, "update")
        /\ rows' = IF changed THEN [rows EXCEPT ![id].doc = req[r].doc, ![id].count = 1] ELSE rows
        /\ IF changed THEN Goto(r, "save_file") ELSE Done(r)
        /\ UNCHANGED <<files, words, tags, deps, nextId, system, personal, registry, bounds,
                       history>>

DeleteEndpoint(r) ==
    /\ \E id \in Ids, hard \in BOOLEAN :
          /\ rows[id] # NoRow
          /\ Receive(r, [Idle EXCEPT !.pc = IF hard THEN "delete" ELSE "deprecate", !.id = id])
    /\ UNCHANGED <<store, nextId, system, personal, registry, history>>

\* delete_skill: the foreign keys cascade.
DeleteSkill(r) ==
    LET id == req[r].id IN
    /\ At(r, "delete")
    /\ rows' = [rows EXCEPT ![id] = NoRow]
    /\ files' = [files EXCEPT ![id] = NoFiles]
    /\ words' = [words EXCEPT ![id] = {}]
    /\ tags' = [tags EXCEPT ![id] = {}]
    /\ deps' = {d \in deps : id \notin {d[1], d[2]}}
    /\ Done(r)
    /\ UNCHANGED <<nextId, system, personal, registry, bounds, history>>

SoftDeleteSkill(r) ==
    /\ At(r, "deprecate")
    /\ rows' = IF rows[req[r].id] = NoRow THEN rows
               ELSE [rows EXCEPT ![req[r].id].status = "deprecated"]
    /\ Done(r)
    /\ UNCHANGED <<files, words, tags, deps, nextId, system, personal, registry, bounds, history>>

AddTagEndpoint(r) ==
    /\ \E id \in Ids, t \in Tags :
          rows[id] # NoRow /\ Receive(r, [Idle EXCEPT !.pc = "tag", !.id = id, !.tag = t])
    /\ UNCHANGED <<store, nextId, system, personal, registry, history>>

RemoveTagEndpoint(r) ==
    /\ \E id \in Ids, t \in Tags :
          rows[id] # NoRow /\ Receive(r, [Idle EXCEPT !.pc = "untag", !.id = id, !.tag = t])
    /\ UNCHANGED <<store, nextId, system, personal, registry, history>>

\* add_tag swallows the error of a tag that is there, or of a skill that is not.
AddTag(r) ==
    /\ At(r, "tag")
    /\ tags' = IF rows[req[r].id] = NoRow THEN tags
               ELSE [tags EXCEPT ![req[r].id] = @ \cup {req[r].tag}]
    /\ Done(r)
    /\ UNCHANGED <<rows, files, words, deps, nextId, system, personal, registry, bounds, history>>

RemoveTag(r) ==
    /\ At(r, "untag")
    /\ tags' = [tags EXCEPT ![req[r].id] = @ \ {req[r].tag}]
    /\ Done(r)
    /\ UNCHANGED <<rows, files, words, deps, nextId, system, personal, registry, bounds, history>>

-----------------------------------------------------------------------------
\* SkillImportService.run

InHub(dir) == dir \in DOMAIN Hub

\* The names that exist are only read when nothing is to be overwritten; with
\* overwrite the set stays empty, and every entry is taken for a new one.
ImportEndpoint(r) ==
    /\ \E overwrite \in BOOLEAN :
          Receive(r, [Idle EXCEPT !.pc = "entry",
                         !.todo = Append(SelectSeq(DirOrder, InHub), "end"),
                         !.known = IF overwrite THEN {}
                                   ELSE {rows[id].dir : id \in Stored}])
    /\ UNCHANGED <<store, nextId, system, personal, registry, history>>

\* One directory: skipped when its name is known, imported otherwise.
SkipKnown(r, dir) == dir \in req[r].known
ImportEntry(r) ==
    LET dir == Head(req[r].todo) IN
    /\ At(r, "entry") /\ Len(req[r].todo) > 1
    /\ IF SkipKnown(r, dir)
       THEN req' = [req EXCEPT ![r].todo = Tail(@)]
       ELSE req' = [req EXCEPT ![r].pc = "find", ![r].doc = Hub[dir].doc]
    /\ UNCHANGED <<store, nextId, system, personal, registry, bounds, history>>

\* The other files of the directory; file_count is not brought up to date.
ImportFiles(r) ==
    LET id == req[r].id IN
    /\ At(r, "extra")
    /\ files' = IF rows[id] # NoRow /\ Hub[Head(req[r].todo)].extra
                THEN [files EXCEPT ![id].extra = TRUE] ELSE files
    /\ req' = [req EXCEPT ![r].pc = "entry", ![r].todo = Tail(@), ![r].imported = TRUE,
                            ![r].id = 0]
    /\ UNCHANGED <<rows, words, tags, deps, nextId, system, personal, registry, bounds, history>>

ImportEnd(r) ==
    /\ At(r, "entry") /\ Len(req[r].todo) = 1
    /\ IF req[r].imported
       THEN req' = [req EXCEPT ![r].pc = "resolve", ![r].todo = <<>>,
                               ![r].known = Stored, ![r].left = Stored]
       ELSE Done(r)
    /\ UNCHANGED <<store, nextId, system, personal, registry, bounds, history>>

\* _resolve_dependencies, one skill after the other, among the names it read:
\* delete_skill_dependencies takes the rows that point to the skill as well as
\* those that come from it. The statements for one skill are one action.
LinksOf(r, id) ==
    IF id \notin Stored \/ files[id].main = Null THEN {}
    ELSE {j \in (req[r].known \cap Stored) \ {id} : rows[j].dir \in files[id].main.links}

ForgetLinks(id) == {d \in deps : id \notin {d[1], d[2]}}

ImportResolve(r) ==
    LET left == req[r].left
        id == CHOOSE i \in left : \A j \in left : i <= j
    IN  /\ At(r, "resolve") /\ left # {}
        /\ deps' = ForgetLinks(id) \cup {<<id, j>> : j \in LinksOf(r, id)}
        /\ req' = [req EXCEPT ![r].left = @ \ {id}]
        /\ UNCHANGED <<rows, files, words, tags, nextId, system, personal, registry, bounds,
                       history>>

ImportDone(r) ==
    /\ At(r, "resolve") /\ req[r].left = {}
    /\ Done(r)
    /\ UNCHANGED <<store, nextId, system, personal, registry, bounds, history>>

-----------------------------------------------------------------------------
\* System skills: a table and the registry of the running process

SystemPcs == {"system_insert", "system_register", "system_update", "system_replace",
              "system_delete", "system_unregister"}

Put(reg, name, what) == [reg EXCEPT ![name] = what]     \* SkillRegistry.register

SystemNames(but) == {system[id].name : id \in {i \in Ids \ {but} : system[i] # NoRow}}

\* A second change of the system skills begins while one is under way.
ChangingSystem == {r \in Requests : req[r].pc \in SystemPcs}
NoteSystem == /\ overlap' = IF ChangingSystem = {} THEN overlap ELSE overlap \cup {0}
              /\ UNCHANGED torn

\* What the registry is given: the request's "detail", or else the document's body.
FromRequest(r) == Skill(req[r].doc, IF req[r].detail THEN "detail" ELSE "body")

CreateSystemEndpoint(r) ==
    /\ \E doc \in Documents, detail \in BOOLEAN :
          Receive(r, [Idle EXCEPT !.pc = "system_insert", !.doc = doc, !.detail = detail])
    /\ NoteSystem
    /\ UNCHANGED <<store, nextId, system, personal, registry>>

CreateSystemRow(r) ==
    LET name == PersonalName(req[r].doc) IN
    /\ At(r, "system_insert")
    /\ IF name \in SystemNames(0) THEN Done(r) /\ UNCHANGED <<system, nextId>>
       ELSE /\ nextId.system \in Ids
            /\ system' = [system EXCEPT ![nextId.system] = [name |-> name, doc |-> req[r].doc]]
            /\ nextId' = [nextId EXCEPT !.system = @ + 1]
            /\ req' = [req EXCEPT ![r].pc = "system_register", ![r].name = name]
    /\ UNCHANGED <<store, personal, registry, bounds, history>>

\* After a second read of the row: the new entry takes the place of any skill
\* of that name, one registered by code included.
RegisterSystem(r) ==
    /\ At(r, "system_register")
    /\ registry' = Put(registry, req[r].name, FromRequest(r))
    /\ Done(r)
    /\ UNCHANGED <<store, nextId, system, personal, bounds, history>>

\* The row is read; its name is what the registry will be told to forget.
UpdateSystemEndpoint(r) ==
    /\ \E id \in Ids, doc \in Documents, detail \in BOOLEAN :
          /\ system[id] # NoRow
          /\ Receive(r, [Idle EXCEPT !.pc = "system_update", !.id = id, !.doc = doc,
                                     !.detail = detail, !.name = system[id].name])
    /\ NoteSystem
    /\ UNCHANGED <<store, nextId, system, personal, registry>>

UpdateSystem(r) ==
    LET id == req[r].id
        new == [name |-> PersonalName(req[r].doc), doc |-> req[r].doc]
        written == system[id] \notin {NoRow, new} /\ new.name \notin SystemNames(id)
    IN  /\ At(r, "system_update")
        /\ system' = IF written THEN [system EXCEPT ![id] = new] ELSE system
        /\ IF written THEN Goto(r, "system_replace") ELSE Done(r)
        /\ UNCHANGED <<store, nextId, personal, registry, bounds, history>>

\* Mutant of ReplaceSystem: a skill that was renamed keeps its old name as well.
ReplaceSystemKeeps(r) ==
    /\ At(r, "system_replace")
    /\ registry' = Put(registry, PersonalName(req[r].doc), FromRequest(r))
    /\ Done(r)
    /\ UNCHANGED <<store, nextId, system, personal, bounds, history>>

\* The old name leaves the registry before the new one enters it.
ReplaceSystem(r) ==
    /\ At(r, "system_replace")
    /\ registry' = Put(Put(registry, req[r].name, Absent),
                       PersonalName(req[r].doc), FromRequest(r))
    /\ Done(r)
    /\ UNCHANGED <<store, nextId, system, personal, bounds, history>>

DeleteSystemEndpoint(r) ==
    /\ \E id \in Ids :
          /\ system[id] # NoRow
          /\ Receive(r, [Idle EXCEPT !.pc = "system_delete", !.id = id, !.name = system[id].name])
    /\ NoteSystem
    /\ UNCHANGED <<store, nextId, system, personal, registry>>

DeleteSystem(r) ==
    /\ At(r, "system_delete")
    /\ system' = [system EXCEPT ![req[r].id] = NoRow]
    /\ Goto(r, "system_unregister")
    /\ UNCHANGED <<store, nextId, personal, registry, bounds, history>>

UnregisterSystem(r) ==
    /\ At(r, "system_unregister")
    /\ registry' = Put(registry, req[r].name, Absent)
    /\ Done(r)
    /\ UNCHANGED <<store, nextId, system, personal, bounds, history>>

-----------------------------------------------------------------------------
\* Personal skills: one statement decides, by account and name or by account and id

Mine(owner, id) == personal[id] # NoRow /\ personal[id].owner = owner

CreatePersonal(r) ==
    /\ \E owner \in Owners, doc \in Documents :
          /\ Receive(r, Idle)
          /\ IF \E id \in Ids : Mine(owner, id) /\ personal[id].name = PersonalName(doc)
             THEN UNCHANGED <<personal, nextId>>
             ELSE /\ nextId.personal \in Ids
                  /\ personal' = [personal EXCEPT ![nextId.personal] =
                                    [owner |-> owner, name |-> PersonalName(doc), doc |-> doc]]
                  /\ nextId' = [nextId EXCEPT !.personal = @ + 1]
    /\ UNCHANGED <<store, system, registry, history>>

UpdatePersonalEndpoint(r) ==
    /\ \E owner \in Owners, id \in Ids, doc \in Documents :
          /\ Mine(owner, id)
          /\ Receive(r, [Idle EXCEPT !.pc = "personal_update", !.owner = owner, !.id = id,
                                     !.doc = doc])
    /\ UNCHANGED <<store, nextId, system, personal, registry, history>>

UpdatePersonal(r) ==
    LET q == req[r]
        taken == \E j \in Ids \ {q.id} : /\ Mine(q.owner, j)
                                          /\ personal[j].name = PersonalName(q.doc)
    IN  /\ At(r, "personal_update")
        /\ personal' = IF Mine(q.owner, q.id) /\ ~taken
                       THEN [personal EXCEPT ![q.id].name = PersonalName(q.doc),
                                             ![q.id].doc = q.doc]
                       ELSE personal
        /\ Done(r)
        /\ UNCHANGED <<store, nextId, system, registry, bounds, history>>

DeletePersonal(r) ==
    /\ \E owner \in Owners, id \in Ids :
          /\ Mine(owner, id)
          /\ Receive(r, Idle)
          /\ personal' = [personal EXCEPT ![id] = NoRow]
    /\ UNCHANGED <<store, nextId, system, registry, history>>

-----------------------------------------------------------------------------
\* A statement of a request fails, or was applied and its answer is lost: then the
\* row of a skill is without its SKILL.md, that of a system skill without its entry
\* in the registry. An import counts the error and goes on.
DbError(r) ==
    /\ req[r].pc \notin {"idle", "entry", "words"} /\ faults < MaxFaults
    /\ faults' = faults + 1
    /\ NextEntry(r)
    /\ torn' = IF Filing(req[r]) THEN torn \cup {req[r].id} ELSE torn
    /\ overlap' = IF req[r].pc \in {"system_register", "system_replace", "system_unregister"}
                  THEN overlap \cup {0} ELSE overlap
    /\ UNCHANGED <<store, nextId, system, personal, registry, starts, boots>>

\* The process stops and starts again: requests are lost, the registry holds what
\* code registers, then the active skills of the store (load_all_for_agent,
\* load_from_db_rows), then the system skills, the later over the earlier.
Loadable(id) == /\ rows[id] # NoRow /\ rows[id].status = "active"
                /\ files[id].main # Null /\ LoaderParses(files[id].main)
LoadedName(id) == LET name == files[id].main.name
                  IN  IF name = "" THEN Title[rows[id].dir] ELSE name
Place(id) == CHOOSE k \in DOMAIN DirOrder : DirOrder[k] = rows[id].dir

Boot ==
    /\ boots < MaxBoots
    /\ boots' = boots + 1
    /\ registry' = [n \in Names |->
         LET sys == {id \in Ids : system[id] # NoRow /\ system[id].name = n}
             own == {id \in Ids : Loadable(id) /\ LoadedName(id) = n}
         IN  IF sys # {} THEN Skill(system[CHOOSE id \in sys : TRUE].doc, "row")
             ELSE IF own # {}
                  THEN LET last == CHOOSE id \in own : \A j \in own : Place(j) <= Place(id)
                       IN  Skill(files[last].main, "file")
             ELSE IF n \in BuiltIn THEN Code ELSE Absent]
    /\ req' = [r \in Requests |-> Idle]
    /\ torn' = torn \cup {req[r].id : r \in {q \in Requests : Filing(req[q])}}
    /\ overlap' = overlap \ {0}
    /\ UNCHANGED <<store, nextId, system, personal, starts, faults>>

CreateStep(r) == \/ CreateEndpoint(r) \/ CreateFind(r) \/ CreateRow(r)
                 \/ InsertFile(r) \/ SaveFile(r)
                 \/ ClearKeywords(r) \/ AddKeyword(r) \/ KeywordsDone(r)
SkillStep(r) == \/ UpdateEndpoint(r) \/ UpdateRow(r) \/ DeleteEndpoint(r) \/ DeleteSkill(r)
                \/ SoftDeleteSkill(r) \/ AddTagEndpoint(r) \/ RemoveTagEndpoint(r)
                \/ AddTag(r) \/ RemoveTag(r)
ImportStep(r) == \/ ImportEndpoint(r) \/ ImportEntry(r) \/ ImportFiles(r) \/ ImportEnd(r)
                 \/ ImportResolve(r) \/ ImportDone(r)
SystemStep(r) == \/ CreateSystemEndpoint(r) \/ CreateSystemRow(r) \/ RegisterSystem(r)
                 \/ UpdateSystemEndpoint(r) \/ UpdateSystem(r) \/ ReplaceSystem(r)
                 \/ DeleteSystemEndpoint(r) \/ DeleteSystem(r) \/ UnregisterSystem(r)
PersonalStep(r) == \/ CreatePersonal(r) \/ UpdatePersonalEndpoint(r) \/ UpdatePersonal(r)
                   \/ DeletePersonal(r)

Next == \/ \E r \in Requests : CreateStep(r) \/ SkillStep(r) \/ ImportStep(r)
                               \/ SystemStep(r) \/ PersonalStep(r) \/ DbError(r)
        \/ Boot

Spec == Init /\ [][Next]_vars

-----------------------------------------------------------------------------
\* Properties

\* The agents load a skill's SKILL.md, the search reads the row's text. Once no
\* upload of a skill is under way the two are the same document, across failures and
\* restarts: but for a skill two uploads of which overlapped, and for one whose last
\* upload ended between the two, until an upload of it comes through.
PrimaryMatches ==
    \A id \in Ids \ (overlap \cup torn) :
       rows[id] # NoRow => files[id].main = rows[id].doc \/ Uploading(id) # {}

\* What the agents see of the system skills is what the table holds, both ways: each
\* is there under its name, made of its row's document, and none that was deleted or
\* renamed is left. It holds between two changes, whatever the order of creations,
\* renamings, deletions and starts, unless two changes overlapped since the last
\* start (the code does not order the statement and the registry then) or one ended
\* with its row written.
RegistryFollowsTable ==
    (0 \notin overlap /\ ChangingSystem = {}) =>
       /\ \A id \in Ids : system[id] # NoRow =>
             LET skill == registry[system[id].name]
             IN  skill.doc = system[id].doc /\ skill.content \in OfSystem
       /\ \A n \in Names : registry[n].content \in OfSystem =>
             \E id \in Ids : system[id] # NoRow /\ system[id].name = n

\* _resolve_dependencies: "解析跨 skill 的 Markdown 链接，写入 skill_dependencies".
\* When an import has resolved the links, each link between two stored skills
\* is a dependency.
LinksStored ==
    \A r \in Requests : (At(r, "resolve") /\ req[r].left = {}) =>
       \A i \in req[r].known : \A j \in LinksOf(r, i) : <<i, j>> \in deps
=============================================================================
