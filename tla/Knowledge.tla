------------------------------ MODULE Knowledge -----------------------------
(***************************************************************************)
(* What the assistant knows (application/chat_usecase.go, chat_seed.go,        *)
(* infrastructure/ragindex/loader.go, persistence/chat_repo.go, seedWikiDir of  *)
(* cmd/server/main.go): the wiki, whose files are the source of an index in two  *)
(* tables, and the skills.  An edit writes the index first and then, as best it   *)
(* can, the file; indexing again reads every file and writes both tables.  A text *)
(* is known by the request that brought it, 0 being the one of the image.  Every  *)
(* file can be read; a write may fail.                                       *)
(***************************************************************************)
EXTENDS Classroom

CONSTANTS
  Slugs,       \* wiki documents
  Image,       \* those with a file in the server's image
  StartFiles,  \* the files on the volume at the start, indexed
  SkillIds,    \* ids of chat_skills
  SkillNames,  \* their slugs
  BuiltIn      \* those of SeedBuiltinChatSkills

MdRows == [title : Nat, body : Nat, page : BOOLEAN, front : BOOLEAN]

MetaRows == [title : Nat, page : BOOLEAN]

SkillRows == [name : SkillNames, text : Nat, live : BOOLEAN]

ASSUME KnowledgeAssumption ==
  /\ IsFiniteSet(Slugs) /\ Image \subseteq Slugs
  /\ StartFiles \in [Slugs -> MdRows \cup {None}]
  /\ IsFiniteSet(SkillIds) /\ SkillIds \subseteq Nat \ {0}
  /\ IsFiniteSet(BuiltIn) /\ BuiltIn \subseteq SkillNames
  /\ None \notin MdRows \cup MetaRows \cup SkillRows

VARIABLES
  md,      \* the files; front: with a frontmatter, which holds title and page
  doc,     \* chat_wiki_docs by slug: full-text rows, of which nothing is UNIQUE
  meta,    \* chat_wiki_meta
  skill,   \* chat_skills; deleted rows are not live
  kept,    \* history: the text last written to a file, 0 where there is none
  unsaved  \* history: documents whose last edit could not be written to their file

knowledge == <<md, doc, meta, skill, kept, unsaved>>

MdRow(title, body, page, front) ==
  [title |-> title, body |-> body, page |-> page, front |-> front]

DocRow(title, body) == [title |-> title, body |-> body]

MetaRow(title, page) == [title |-> title, page |-> page]

SkillRow(name, text) == [name |-> name, text |-> text, live |-> TRUE]

-----------------------------------------------------------------------------
(* Indexing *)

\* UpsertDoc deletes what there is and inserts, in a transaction of its own.
Indexed_Again(s, row) == [doc EXCEPT ![s] = Append(@, row)]

Indexed(s, row) == [doc EXCEPT ![s] = <<row>>]

\* What loadFile takes from the file for the tables.
DocOf(file) == DocRow(file.title, file.body)
MetaOf(file) == MetaRow(file.title, file.page)

DocsOf(files) == [s \in Slugs |-> IF files[s] = None THEN <<>> ELSE <<DocOf(files[s])>>]
MetasOf(files) == [s \in Slugs |-> IF files[s] = None THEN None ELSE MetaOf(files[s])]

OnDisk == {s \in Slugs : md[s] # None}

\* Sync lists the rows there are, and then the files.
AdminReindexWiki(r) ==
  /\ Receive(r, "AdminReindexWiki", "wiki:load",
             [todo |-> SetToSeq(OnDisk), seen |-> {},
              existing |-> {s \in Slugs : meta[s] # None}])
  /\ UNCHANGED <<money, active, classroom, knowledge>>

\* A file that is gone by now is left out of what was seen.
WikiLoad(r) ==
  LET t == task[r]  s == Head(t.todo)
  IN  /\ At(r, "wiki:load")
      /\ IF t.todo = <<>> THEN Goto(r, "wiki:undoc")
         ELSE IF md[s] = None THEN GotoWith(r, "wiki:load", [t EXCEPT !.todo = Tail(@)])
         ELSE GotoWith(r, "wiki:doc",
                With(t, [slug |-> s, file |-> md[s], todo |-> Tail(t.todo),
                         seen |-> t.seen \cup {s}]))
      /\ UNCHANGED <<money, active, classroom, knowledge>>

WikiDoc(r) ==
  LET t == task[r]
  IN  /\ At(r, "wiki:doc")
      /\ Goto(r, "wiki:meta")
      /\ doc' = Indexed(t.slug, DocOf(t.file))
      /\ unsaved' = unsaved \ {t.slug}
      /\ UNCHANGED <<money, active, classroom, md, meta, skill, kept>>

WikiMeta(r) ==
  LET t == task[r]
  IN  /\ At(r, "wiki:meta")
      /\ Goto(r, "wiki:load")
      /\ meta' = [meta EXCEPT ![t.slug] = MetaOf(t.file)]
      /\ UNCHANGED <<money, active, classroom, md, doc, skill, kept, unsaved>>

\* What was listed and has no file any more leaves both tables.
WikiUndoc(r) ==
  LET t == task[r]  orphans == t.existing \ t.seen
  IN  /\ At(r, "wiki:undoc")
      /\ IF orphans = {} THEN Return(r) /\ UNCHANGED doc
         ELSE LET s == CHOOSE x \in orphans : TRUE
              IN  /\ GotoWith(r, "wiki:unmeta", With(t, [slug |-> s]))
                  /\ doc' = [doc EXCEPT ![s] = <<>>]
      /\ UNCHANGED <<money, active, classroom, md, meta, skill, kept, unsaved>>

WikiUnmeta(r) ==
  LET t == task[r]
  IN  /\ At(r, "wiki:unmeta")
      /\ GotoWith(r, "wiki:undoc", [t EXCEPT !.seen = @ \cup {t.slug}])
      /\ meta' = [meta EXCEPT ![t.slug] = None]
      /\ UNCHANGED <<money, active, classroom, md, doc, skill, kept, unsaved>>

-----------------------------------------------------------------------------
(* Edits.  task: the document, its new title and text, its row as it was read,  *)
(* and the documents still to be fetched after it.                           *)

EditOf(s, title) == [slug |-> s, title |-> title, body |-> served', page |-> meta[s].page]

\* An empty title keeps the one there is.
AdminUpdateWikiDoc(r) ==
  \E s \in Slugs, titled \in BOOLEAN :
    /\ meta[s] # None
    /\ Receive(r, "AdminUpdateWikiDoc", "edit:doc",
               With([todo |-> <<>>], EditOf(s, IF titled THEN served' ELSE meta[s].title)))
    /\ UNCHANGED <<money, active, classroom, knowledge>>

EditDoc(r) ==
  LET t == task[r]
  IN  /\ At(r, "edit:doc")
      /\ Goto(r, "edit:meta")
      /\ doc' = Indexed(t.slug, DocRow(t.title, t.body))
      /\ UNCHANGED <<money, active, classroom, md, meta, skill, kept, unsaved>>

EditMeta(r) ==
  LET t == task[r]
  IN  /\ At(r, "edit:meta")
      /\ Goto(r, "edit:file")
      /\ meta' = [meta EXCEPT ![t.slug] = MetaRow(t.title, t.page)]
      /\ UNCHANGED <<money, active, classroom, md, doc, skill, kept, unsaved>>

\* composeMarkdown: a frontmatter that is there stays as it is.
Composed(t) ==
  IF md[t.slug] # None /\ md[t.slug].front
    THEN [md[t.slug] EXCEPT !.body = t.body]
    ELSE MdRow(t.title, t.body, FALSE, TRUE)

AfterEdit(r) == IF task[r].todo = <<>> THEN Return(r) ELSE Goto(r, "notion:find")

EditFile(r) ==
  LET t == task[r]
  IN  /\ At(r, "edit:file")
      /\ AfterEdit(r)
      /\ \/ /\ md' = [md EXCEPT ![t.slug] = Composed(t)]
            /\ kept' = [kept EXCEPT ![t.slug] = t.body]
            /\ unsaved' = unsaved \ {t.slug}
         \/ unsaved' = unsaved \cup {t.slug} /\ UNCHANGED <<md, kept>>
      /\ UNCHANGED <<money, active, classroom, doc, meta, skill>>

FetchAll(r, kind, todo) ==
  Receive(r, kind, "notion:find", [todo |-> todo, body |-> served'])

Paged == {s \in Slugs : meta[s] # None /\ meta[s].page}

AdminSyncNotionOne(r) ==
  /\ \E s \in Paged : FetchAll(r, "AdminSyncNotionOne", <<s>>)
  /\ UNCHANGED <<money, active, classroom, knowledge>>

\* All that have a page at Notion, one after the other.
AdminSyncNotionAll(r) ==
  /\ Paged # {}
  /\ FetchAll(r, "AdminSyncNotionAll", SetToSeq(Paged))
  /\ UNCHANGED <<money, active, classroom, knowledge>>

\* FetchPageMarkdown asks Notion, which is external, for the page block by block: it
\* returns all of it, or fails when one of the requests does.
Fetches == BOOLEAN

\* The row is read for the page and the title; a document that cannot be fetched, or
\* has gone, is left as it is.
NotionFind(r) ==
  LET t == task[r]  s == Head(t.todo)  rest == [t EXCEPT !.todo = Tail(@)]
      Skip == IF rest.todo = <<>> THEN Return(r) ELSE GotoWith(r, "notion:find", rest)
      Fetch == GotoWith(r, "notion:fetched", With(rest, [slug |-> s, title |-> meta[s].title]))
  IN  /\ At(r, "notion:find")
      /\ \E fetched \in Fetches :
           IF fetched /\ meta[s] # None /\ meta[s].page THEN Fetch ELSE Skip
      /\ UNCHANGED <<money, active, classroom, knowledge>>

\* AdminUpdateWikiDoc reads the row again.
NotionFetched(r) ==
  LET t == task[r]
  IN  /\ At(r, "notion:fetched")
      /\ IF meta[t.slug] = None THEN AfterEdit(r)
         ELSE GotoWith(r, "edit:doc", With(t, [page |-> meta[t.slug].page]))
      /\ UNCHANGED <<money, active, classroom, knowledge>>

\* Somebody deletes a file on the volume.
OperatorRemoves ==
  \E s \in OnDisk :
    /\ AnswerAtOnce("OperatorRemoves")
    /\ md' = [md EXCEPT ![s] = None]
    /\ kept' = [kept EXCEPT ![s] = 0]
    /\ UNCHANGED <<money, active, classroom, doc, meta, skill, unsaved>>

-----------------------------------------------------------------------------
(* Skills *)

SkillNamed(name) == {i \in SkillIds : skill[i] # None /\ skill[i].live /\ skill[i].name = name}

\* Upsert: FindBySlug, and then Update or Create.
AdminCreateSkill(r) ==
  \E name \in SkillNames :
    LET found == SkillNamed(name)
    IN  /\ Receive(r, "AdminCreateSkill", IF found = {} THEN "skill:insert" ELSE "skill:update",
                   [name |-> name, ids |-> found, text |-> served'])
        /\ UNCHANGED <<money, active, classroom, knowledge>>

\* slug is UNIQUE.
SkillInsert(r) ==
  LET t == task[r]
  IN  /\ At(r, "skill:insert")
      /\ Return(r)
      /\ IF SkillNamed(t.name) # {} THEN UNCHANGED skill
         ELSE \E i \in FreeId(skill) : skill' = [skill EXCEPT ![i] = SkillRow(t.name, t.text)]
      /\ UNCHANGED <<money, active, classroom, md, doc, meta, kept, unsaved>>

\* By id, which may have been deleted; slug stays.
SkillUpdate(r) ==
  LET t == task[r]
  IN  /\ At(r, "skill:update")
      /\ Return(r)
      /\ skill' = [i \in SkillIds |->
           IF i \in t.ids /\ skill[i].live THEN [skill[i] EXCEPT !.text = t.text] ELSE skill[i]]
      /\ UNCHANGED <<money, active, classroom, md, doc, meta, kept, unsaved>>

AdminUpdateSkill ==
  \E i \in SkillIds :
    /\ skill[i] # None /\ skill[i].live
    /\ AnswerAtOnce("AdminUpdateSkill")
    /\ skill' = [skill EXCEPT ![i].text = served']
    /\ UNCHANGED <<money, active, classroom, md, doc, meta, kept, unsaved>>

AdminDeleteSkill ==
  \E i \in SkillIds :
    /\ skill[i] # None /\ skill[i].live
    /\ AnswerAtOnce("AdminDeleteSkill")
    /\ skill' = [skill EXCEPT ![i].live = FALSE]
    /\ UNCHANGED <<money, active, classroom, md, doc, meta, kept, unsaved>>

-----------------------------------------------------------------------------
(* Start *)

ImageFile == MdRow(0, 0, TRUE, TRUE)

Seeded_Overwrites(files) == [s \in Slugs |-> IF s \in Image THEN ImageFile ELSE files[s]]

\* seedWikiDir adds what the volume has not got.
Seeded(files) == [s \in Slugs |-> IF s \in Image /\ files[s] = None THEN ImageFile ELSE files[s]]

\* SeedBuiltinChatSkills writes its texts over whatever they have become.
Refreshed(row) ==
  IF row # None /\ row.live /\ row.name \in BuiltIn THEN [row EXCEPT !.text = 0] ELSE row

SkillSeeds ==
  LET missing == SetToSeq({b \in BuiltIn : SkillNamed(b) = {}})
      free == SetToSeq({i \in SkillIds : skill[i] = None})
  IN  [i \in SkillIds |->
         IF \E n \in DOMAIN missing \cap DOMAIN free : free[n] = i
           THEN SkillRow(missing[CHOOSE n \in DOMAIN free : free[n] = i], 0)
           ELSE Refreshed(skill[i])]

KnowledgeInit ==
  /\ md = Seeded(StartFiles)
  /\ doc = DocsOf(Seeded(StartFiles)) /\ meta = MetasOf(Seeded(StartFiles))
  /\ skill = [i \in SkillIds |->
       IF i <= Cardinality(BuiltIn) THEN SkillRow(SetToSeq(BuiltIn)[i], 0) ELSE None]
  /\ kept = [s \in Slugs |-> IF md[s] = None THEN 0 ELSE md[s].body]
  /\ unsaved = {}

\* Seeding, Sync and the built-in skills, before anybody is served.  Sync finds the
\* rows of files that are gone by their meta row.
KnowledgeRestart ==
  /\ md' = Seeded(md)
  /\ doc' = [s \in Slugs |->
       IF md'[s] = None /\ meta[s] = None THEN doc[s] ELSE DocsOf(md')[s]]
  /\ meta' = MetasOf(md')
  /\ skill' = SkillSeeds
  /\ unsaved' = {}
  /\ UNCHANGED kept

-----------------------------------------------------------------------------
KnowledgeStep(r) ==
  \/ WikiLoad(r) \/ WikiDoc(r) \/ WikiMeta(r) \/ WikiUndoc(r) \/ WikiUnmeta(r)
  \/ EditDoc(r) \/ EditMeta(r) \/ EditFile(r) \/ NotionFind(r) \/ NotionFetched(r)
  \/ SkillInsert(r) \/ SkillUpdate(r)

ReindexRequest(r) == AdminReindexWiki(r)

WikiRequest(r) == AdminUpdateWikiDoc(r)

NotionRequest(r) == AdminSyncNotionOne(r) \/ AdminSyncNotionAll(r)

SkillRequest(r) == AdminCreateSkill(r) \/ AdminUpdateSkill \/ AdminDeleteSkill

KnowledgeNext ==
  \/ OperatorRemoves
  \/ \E r \in Requests :
       \/ KnowledgeStep(r)
       \/ ReindexRequest(r) \/ WikiRequest(r) \/ NotionRequest(r) \/ SkillRequest(r)
=============================================================================
