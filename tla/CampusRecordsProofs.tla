------------------------- MODULE CampusRecordsProofs -------------------------
(***************************************************************************)
(* Theorems about the rows of the campus that follow something kept        *)
(* elsewhere, for every set of users, documents, services, addresses and   *)
(* requests, any interleaving and any number of restarts: the wiki's index *)
(* and its files, the analytics and the services they count, the mails and *)
(* the addresses they are of, and the milestones and the verdicts on them.  *)
(*                                                                         *)
(* Each part has an invariant of its rows (KnowledgeInv, ServicesInv,      *)
(* MailInv, MilestonesInv), one lemma for the steps of other parts, one    *)
(* for its own handlers and its requests, and one per action.              *)
(* What holds one request at a time rests on Alone: when a handler acts on *)
(* what it has read, nobody has written since, so its task still says what *)
(* is so.                                                                  *)
(***************************************************************************)
EXTENDS HandlersProofs, SumsProofs

-----------------------------------------------------------------------------
(* The wiki and the skills *)

Listing == {"wiki:load", "wiki:doc", "wiki:meta", "wiki:undoc", "wiki:unmeta"}

Editing == {"edit:doc", "edit:meta", "edit:file"}

\* What a handler remembers at its label, whatever interleaves.
KnowledgeTask(p, t) ==
  /\ p \in Listing =>
       /\ {"todo", "seen", "existing"} \subseteq DOMAIN t
       /\ t.todo \in Seq(Slugs) /\ t.existing \subseteq Slugs
  /\ p \in {"wiki:doc", "wiki:meta"} => t.slug \in Slugs /\ t.file \in MdRows
  /\ p = "wiki:unmeta" => t.slug \in Slugs
  /\ p \in Editing \cup {"notion:find", "notion:fetched"} =>
       /\ {"todo", "body"} \subseteq DOMAIN t
       /\ t.todo \in Seq(Slugs) /\ t.body \in Nat
  /\ p \in Editing \cup {"notion:fetched"} =>
       /\ {"slug", "title"} \subseteq DOMAIN t
       /\ t.slug \in Slugs /\ t.title \in Nat
  /\ p \in Editing => t.page \in BOOLEAN
  /\ p = "notion:find" => t.todo # <<>>
  /\ p \in {"skill:insert", "skill:update"} =>
       t.name \in SkillNames /\ t.text \in Nat
  /\ p = "skill:update" => \A i \in SkillIds : i \in t.ids => skill[i] # None

KnowledgeRows ==
  /\ md \in [Slugs -> MdRows \cup {None}]
  /\ doc \in [Slugs -> Seq([title : Nat, body : Nat])]
  /\ meta \in [Slugs -> MetaRows \cup {None}]
  /\ skill \in [SkillIds -> SkillRows \cup {None}]

KeptBooks ==
  /\ kept \in [Slugs -> Nat]
  /\ \A s \in Slugs : Len(doc[s]) <= 1
  /\ \A s \in Slugs : kept[s] = IF md[s] = None THEN 0 ELSE md[s].body
  /\ \A i, j \in SkillIds :
       /\ skill[i] # None /\ skill[i].live /\ skill[j] # None /\ skill[j].live
       /\ skill[i].name = skill[j].name
       => i = j

\* A handler that is at p is in the middle of writing document s.
Midway(p, t, s) == p \in {"wiki:meta", "wiki:unmeta", "edit:meta", "edit:file"} /\ t.slug = s

\* What the index says of a document that nobody is writing, one at a time.
SlugFine(s) ==
  /\ doc[s] # <<>> <=> meta[s] # None
  /\ doc[s] # <<>> =>
       /\ doc[s][1].title = meta[s].title
       /\ s \in unsaved \/ md[s] = None \/ doc[s][1].body = md[s].body
  /\ "OperatorRemoves" \notin workload => (md[s] # None <=> meta[s] # None)

\* What a handler that is alone may rely on besides.
WikiTask(p, t) ==
  /\ p \in {"wiki:load", "wiki:doc", "wiki:meta"} =>
       \A s \in Slugs : md[s] # None => s \in t.seen \/ \E n \in 1 .. Len(t.todo) : t.todo[n] = s
  /\ p \in {"wiki:undoc", "wiki:unmeta"} => \A s \in Slugs : md[s] # None => s \in t.seen
  /\ p \in {"wiki:doc", "wiki:meta"} => md[t.slug] = t.file
  /\ p = "wiki:meta" => doc[t.slug] = <<DocOf(t.file)>> /\ t.slug \notin unsaved
  /\ p = "wiki:unmeta" => md[t.slug] = None /\ doc[t.slug] = <<>>
  /\ p \in Editing =>
       /\ meta[t.slug] # None
       /\ "OperatorRemoves" \notin workload => md[t.slug] # None
  /\ p \in {"edit:meta", "edit:file"} => doc[t.slug] = <<DocRow(t.title, t.body)>>
  /\ p = "edit:file" => meta[t.slug].title = t.title

WikiSerial ==
  /\ \A r \in Requests : WikiTask(pc[r], task[r])
  /\ \A s \in Slugs : (\A r \in Requests : ~Midway(pc[r], task[r], s)) => SlugFine(s)

KnowledgeInv ==
  /\ KnowledgeRows /\ KeptBooks
  /\ \A r \in Requests : KnowledgeTask(pc[r], task[r])
  /\ ~overlapped => WikiSerial

LEMMA KnowledgeFrame ==
  ASSUME Handlers, [Next]_vars
  PROVE  KnowledgeNext \/ Restart \/ (UNCHANGED knowledge /\ Away(KnowledgeLabels))
<1>1. "idle" \notin KnowledgeLabels /\ KnowledgeLabels \cap Shared = {}
  <2>1. /\ "idle" \notin KnowledgeLabels /\ KnowledgeLabels \cap ClassroomLabels = {}
        /\ KnowledgeLabels \cap EnsureThens = {} /\ KnowledgeLabels \cap BankLabels = {}
        /\ KnowledgeLabels \cap GrantsLabels = {}
    BY DEF KnowledgeLabels, ClassroomLabels, EnsureLabels, EnsureThens, BankLabels, GrantsLabels
  <2>2. KnowledgeLabels \cap PostsLabels = {} /\ KnowledgeLabels \cap FilesLabels = {}
    BY DEF KnowledgeLabels, PostsLabels, FilesLabels
  <2>3. KnowledgeLabels \cap MessagesTo = {} /\ KnowledgeLabels \cap HubTo = {}
        /\ KnowledgeLabels \cap {"ensure:select", "dm:insert", "notice:insert"} = {}
    BY DEF KnowledgeLabels, MessagesTo, MessagesLabels, HubTo, HubLabels
  <2>. QED  BY <2>1, <2>2, <2>3 DEF Shared
<1>2. /\ BillingLabels \cap KnowledgeLabels = {} /\ ChatLabels \cap KnowledgeLabels = {}
      /\ DatabasesLabels \cap KnowledgeLabels = {} /\ MailLabels \cap KnowledgeLabels = {}
  BY DEF KnowledgeLabels, BillingLabels, ChatLabels, DatabasesLabels, MailLabels
<1>3. /\ MilestonesLabels \cap KnowledgeLabels = {} /\ ServicesLabels \cap KnowledgeLabels = {}
      /\ AccountsLabels \cap KnowledgeLabels = {} /\ OAuthLabels \cap KnowledgeLabels = {}
  BY DEF KnowledgeLabels, MilestonesLabels, ServicesLabels, AccountsLabels, OAuthLabels
<1>4. KnowledgeNext \/ Restart \/ UNCHANGED knowledge
  BY DEF Next, Quiet, vars, AdmissionNext, admission, HubOnly
<1>5. KnowledgeNext \/ Restart \/ Away(KnowledgeLabels)
  BY <1>1, <1>2, <1>3, AwayFrom
<1>. QED  BY <1>4, <1>5

\* A task with a column written.
LEMMA TaskWritten ==
  ASSUME NEW t, NEW c \in DOMAIN t, NEW v, NEW s, s = [t EXCEPT ![c] = v]
  PROVE  /\ DOMAIN s = DOMAIN t /\ s[c] = v
         /\ \A x \in DOMAIN t : x # c => s[x] = t[x]
OBVIOUS

LEMMA TailHas ==
  ASSUME NEW S, NEW q \in Seq(S), q # <<>>
  PROVE  /\ Head(q) \in S /\ Tail(q) \in Seq(S)
         /\ \A n \in 1 .. Len(q) :
              q[n] = Head(q) \/ \E m \in 1 .. Len(Tail(q)) : Tail(q)[m] = q[n]
<1>1. Head(q) \in S /\ Tail(q) \in Seq(S) /\ Head(q) = q[1] /\ Len(q) \in Nat
  OBVIOUS
<1>2. ASSUME NEW n \in 1 .. Len(q), n # 1
      PROVE  \E m \in 1 .. Len(Tail(q)) : Tail(q)[m] = q[n]
  <2>1. n - 1 \in 1 .. Len(Tail(q)) /\ Tail(q)[n - 1] = q[n]
    BY <1>2
  <2>. QED  BY <2>1
<1>. QED  BY <1>1, <1>2


\* Whoever only reads the skills of another handler's task still can.
LEMMA TaskKept ==
  ASSUME NEW p, NEW t, KnowledgeTask(p, t),
         \A i \in SkillIds : skill[i] # None => skill'[i] # None
  PROVE  KnowledgeTask(p, t)'
BY DEF KnowledgeTask

LEMMA IdleTasks ==
  ASSUME NEW p, NEW t, p \notin KnowledgeLabels
  PROVE  KnowledgeTask(p, t) /\ WikiTask(p, t) /\ \A s : ~Midway(p, t, s)
BY DEF KnowledgeLabels, KnowledgeTask, WikiTask, Midway, Listing, Editing

LEMMA KnowledgeStays ==
  ASSUME KnowledgeInv, overlapped => overlapped', workload' = workload, UNCHANGED knowledge,
         Away(KnowledgeLabels)
  PROVE  KnowledgeInv'
<1>1. UNCHANGED <<md, doc, meta, skill, kept, unsaved>>
  BY DEF knowledge
<1>2. KnowledgeRows' /\ KeptBooks'
  BY <1>1 DEF KnowledgeInv, KnowledgeRows, KeptBooks
<1>3. ASSUME NEW r \in Requests
      PROVE  \/ pc'[r] = pc[r] /\ task'[r] = task[r]
             \/ pc'[r] \notin KnowledgeLabels /\ pc[r] \notin KnowledgeLabels
  BY DEF Away
<1>4. ASSUME NEW r \in Requests PROVE KnowledgeTask(pc[r], task[r])'
  <2>1. CASE pc'[r] = pc[r] /\ task'[r] = task[r]
    BY <1>1, <2>1 DEF KnowledgeInv, KnowledgeTask
  <2>2. CASE pc'[r] \notin KnowledgeLabels
    BY <2>2 DEF KnowledgeTask, KnowledgeLabels, Listing, Editing
  <2>. QED  BY <1>3, <2>1, <2>2
<1>5. ASSUME ~overlapped' PROVE WikiSerial'
  <2>1. WikiSerial
    BY <1>5 DEF KnowledgeInv
  <2>2. ASSUME NEW r \in Requests
        PROVE  /\ WikiTask(pc[r], task[r])'
               /\ \A s \in Slugs : Midway(pc[r], task[r], s)' <=> Midway(pc[r], task[r], s)
    <3>1. CASE pc'[r] = pc[r] /\ task'[r] = task[r]
      BY <1>1, <2>1, <3>1 DEF WikiSerial, WikiTask, Midway
    <3>2. CASE pc'[r] \notin KnowledgeLabels /\ pc[r] \notin KnowledgeLabels
      BY <3>2 DEF WikiTask, Midway, KnowledgeLabels, Editing
    <3>. QED  BY <1>3, <3>1, <3>2
  <2>3. \A s \in Slugs : SlugFine(s) => SlugFine(s)'
    BY <1>1 DEF SlugFine
  <2>. QED  BY <2>1, <2>2, <2>3 DEF WikiSerial
<1>. QED  BY <1>2, <1>4, <1>5 DEF KnowledgeInv

\* A step of one of its handlers has only its own task to answer for.
LEMMA KnowledgeGoes ==
  ASSUME Handlers, Alone, KnowledgeInv, NEW r \in Requests, NEW p, NEW t, pc[r] # "idle",
         GotoWith(r, p, t), (KnowledgeRows /\ KeptBooks /\ KnowledgeTask(p, t))',
         \A i \in SkillIds : skill[i] # None => skill'[i] # None,
         ~overlapped =>
           WikiTask(p, t)' /\ \A s \in Slugs : ~Midway(p, t, s) => SlugFine(s)'
  PROVE  KnowledgeInv'
<1>1. /\ overlapped' = overlapped
      /\ \A q \in Requests : /\ pc'[q] = (IF q = r THEN p ELSE pc[q])
                             /\ task'[q] = (IF q = r THEN t ELSE task[q])
  BY DEF GotoWith, control, Handlers
<1>2. ASSUME NEW q \in Requests PROVE KnowledgeTask(pc[q], task[q])'
  <2>1. CASE q = r
    BY <1>1, <2>1
  <2>2. CASE q # r
    BY <1>1, <2>2 DEF KnowledgeInv, KnowledgeTask
  <2>. QED  BY <2>1, <2>2
<1>3. ASSUME ~overlapped PROVE WikiSerial'
  <2>1. /\ pc'[r] = p /\ task'[r] = t
        /\ \A q \in Requests : q # r => pc'[q] = "idle"
    BY <1>3, OthersIdle
  <2>2. ASSUME NEW q \in Requests PROVE WikiTask(pc[q], task[q])'
    <3>1. CASE q = r
      BY <1>3, <2>1, <3>1
    <3>2. CASE q # r
      BY <2>1, <3>2 DEF WikiTask, Editing
    <3>. QED  BY <3>1, <3>2
  <2>3. \A s \in Slugs : (\A q \in Requests : ~Midway(pc[q], task[q], s)') => ~Midway(p, t, s)
    BY <2>1 DEF Midway
  <2>. QED  BY <1>3, <2>2, <2>3 DEF WikiSerial
<1>. QED  BY <1>1, <1>2, <1>3 DEF KnowledgeInv

\* A request is received when nobody is busy, or overlaps.
LEMMA KnowledgeReceives ==
  ASSUME Handlers, KnowledgeInv, NEW r \in Requests, NEW kind, NEW p, NEW t,
         Receive(r, kind, p, t), UNCHANGED knowledge, KnowledgeTask(p, t),
         AllIdle /\ WikiSerial => WikiTask(p, t) /\ \A s : ~Midway(p, t, s)
  PROVE  KnowledgeInv'
<1>1. UNCHANGED <<md, doc, meta, skill, kept, unsaved>>
  BY DEF knowledge
<1>2. KnowledgeRows' /\ KeptBooks'
  BY <1>1 DEF KnowledgeInv, KnowledgeRows, KeptBooks
<1>3. /\ overlapped' = (overlapped \/ ~AllIdle) /\ workload' = workload
      /\ \A q \in Requests : /\ pc'[q] = (IF q = r THEN p ELSE pc[q])
                             /\ task'[q] = (IF q = r THEN t ELSE task[q])
  BY DEF Receive, Arrives, Handlers
<1>4. ASSUME NEW q \in Requests PROVE KnowledgeTask(pc[q], task[q])'
  <2>1. CASE q = r
    BY <1>1, <1>3, <2>1 DEF KnowledgeTask
  <2>2. CASE q # r
    BY <1>1, <1>3, <2>2 DEF KnowledgeInv, KnowledgeTask
  <2>. QED  BY <2>1, <2>2
<1>5. ASSUME ~overlapped' PROVE WikiSerial'
  <2>1. AllIdle /\ WikiSerial
    BY <1>3, <1>5 DEF KnowledgeInv
  <2>2. WikiTask(p, t)' /\ \A s : ~Midway(p, t, s)
    BY <1>1, <1>3, <2>1 DEF WikiTask
  <2>3. ASSUME NEW q \in Requests PROVE WikiTask(pc[q], task[q])'
    <3>1. CASE q = r
      BY <1>3, <2>2, <3>1
    <3>2. CASE q # r
      BY <1>3, <2>1, <3>2 DEF WikiTask, Editing, AllIdle, Idle
    <3>. QED  BY <3>1, <3>2
  <2>4. \A s \in Slugs : SlugFine(s)
    BY <2>1 DEF WikiSerial, AllIdle, Idle, Midway
  <2>5. \A s \in Slugs : SlugFine(s)'
    BY <1>1, <1>3, <2>4 DEF SlugFine
  <2>. QED  BY <2>3, <2>5 DEF WikiSerial
<1>. QED  BY <1>2, <1>4, <1>5 DEF KnowledgeInv

\* So is one that is answered at once.
LEMMA KnowledgeAnswers ==
  ASSUME KnowledgeInv, NEW kind, AnswerAtOnce(kind), (KnowledgeRows /\ KeptBooks)',
         \A i \in SkillIds : skill[i] # None => skill'[i] # None,
         kind \in workload =>
           \A s \in Slugs : SlugFine(s) => SlugFine(s)'
  PROVE  KnowledgeInv'
<1>1. /\ overlapped' = (overlapped \/ ~AllIdle) /\ workload' = workload /\ UNCHANGED handlers
      /\ kind \in workload
  BY DEF AnswerAtOnce, Arrives, Awaited
<1>2. ASSUME NEW q \in Requests PROVE KnowledgeTask(pc[q], task[q])'
  BY <1>1 DEF handlers, KnowledgeInv, KnowledgeTask
<1>3. ASSUME ~overlapped' PROVE WikiSerial'
  <2>1. AllIdle /\ WikiSerial
    BY <1>1, <1>3 DEF KnowledgeInv
  <2>2. \A q \in Requests : pc'[q] = "idle"
    BY <1>1, <2>1 DEF handlers, AllIdle, Idle
  <2>3. \A s \in Slugs : SlugFine(s)
    BY <2>1 DEF WikiSerial, AllIdle, Idle, Midway
  <2>. QED  BY <1>1, <2>2, <2>3 DEF WikiSerial, WikiTask, Editing
<1>. QED  BY <1>2, <1>3 DEF KnowledgeInv

LEMMA RowsOfDocs ==
  ASSUME KnowledgeRows
  PROVE  /\ \A s \in Slugs : md[s] # None => md[s] \in MdRows
         /\ \A s \in Slugs : meta[s] # None => meta[s] \in MetaRows
         /\ \A f \in MdRows : MetaOf(f) \in MetaRows /\ DocOf(f) \in [title : Nat, body : Nat]
BY DEF KnowledgeRows, MdRows, MetaRows, MetaOf, DocOf, MetaRow, DocRow

\* A row of the index replaced.
LEMMA IndexedRows ==
  ASSUME KnowledgeRows, KeptBooks, NEW s \in Slugs, NEW row \in [title : Nat, body : Nat],
         doc' = Indexed(s, row)
  PROVE  /\ doc' \in [Slugs -> Seq([title : Nat, body : Nat])]
         /\ \A x \in Slugs : Len(doc'[x]) <= 1
         /\ doc'[s] = <<row>> /\ doc'[s] # <<>> /\ doc'[s][1] = row
         /\ \A x \in Slugs : x # s => doc'[x] = doc[x]
<1>1. doc \in [Slugs -> Seq([title : Nat, body : Nat])] /\ \A x \in Slugs : Len(doc[x]) <= 1
  BY DEF KnowledgeRows, KeptBooks
<1>2. /\ <<row>> \in Seq([title : Nat, body : Nat]) /\ Len(<<row>>) = 1
      /\ <<row>> # <<>> /\ <<row>>[1] = row
  OBVIOUS
<1>3. doc'[s] = <<row>> /\ \A x \in Slugs : x # s => doc'[x] = doc[x]
  BY <1>1 DEF Indexed
<1>4. doc' \in [Slugs -> Seq([title : Nat, body : Nat])]
  BY <1>1, <1>2 DEF Indexed
<1>5. ASSUME NEW x \in Slugs PROVE Len(doc'[x]) <= 1
  <2>1. CASE x = s
    <3>1. Len(doc'[x]) = 1
      BY <1>2, <1>3, <2>1
    <3>. QED  BY <3>1
  <2>2. CASE x # s
    BY <1>1, <1>3, <2>2
  <2>. QED  BY <2>1, <2>2
<1>6. doc'[s] # <<>> /\ doc'[s][1] = row
  BY <1>2, <1>3
<1>. QED  BY <1>3, <1>4, <1>5, <1>6

LEMMA ReindexKeeps ==
  ASSUME Handlers, KnowledgeInv, NEW r \in Requests, AdminReindexWiki(r)
  PROVE  KnowledgeInv'
<1>1. /\ Receive(r, "AdminReindexWiki", "wiki:load",
                 [todo |-> SetToSeq(OnDisk), seen |-> {},
                  existing |-> {s \in Slugs : meta[s] # None}])
      /\ UNCHANGED knowledge
  BY DEF AdminReindexWiki
<1>2. PICK q, e : q = SetToSeq(OnDisk) /\ e = {s \in Slugs : meta[s] # None}
  OBVIOUS
<1>3. PICK t : t = [todo |-> q, seen |-> {}, existing |-> e]
  OBVIOUS
<1>4. IsFiniteSet(OnDisk) /\ OnDisk \subseteq Slugs
  BY KnowledgeAssumption, FS_Subset DEF OnDisk
<1>5. /\ q \in Seq(OnDisk) /\ \A s \in OnDisk : \E n \in 1 .. Len(q) : q[n] = s
  BY <1>2, <1>4, SetToSeqIs
<1>6. q \in Seq(Slugs) /\ e \subseteq Slugs
  BY <1>2, <1>4, <1>5
<1>7. KnowledgeTask("wiki:load", t)
  BY <1>3, <1>6 DEF KnowledgeTask, Listing, Editing
<1>8. WikiTask("wiki:load", t)
  <2>1. t.todo = q
    BY <1>3
  <2>2. \A s \in Slugs : md[s] # None => \E n \in 1 .. Len(q) : q[n] = s
    BY <1>5 DEF OnDisk
  <2>. QED  BY <2>1, <2>2 DEF WikiTask, Editing
<1>9. \A s : ~Midway("wiki:load", t, s)
  BY DEF Midway
<1>10. Receive(r, "AdminReindexWiki", "wiki:load", t)
  BY <1>1, <1>2, <1>3
<1>. QED  BY <1>1, <1>7, <1>8, <1>9, <1>10, KnowledgeReceives

LEMMA WikiLoadKeeps ==
  ASSUME Handlers, Alone, KnowledgeInv, NEW r \in Requests, WikiLoad(r)
  PROVE  KnowledgeInv'
<1>1. PICK t : t = task[r]
  OBVIOUS
<1>2. pc[r] = "wiki:load" /\ UNCHANGED <<md, doc, meta, skill, kept, unsaved>>
  BY DEF WikiLoad, At, knowledge
<1>3. KnowledgeTask("wiki:load", t) /\ (~overlapped => WikiTask("wiki:load", t))
  BY <1>1, <1>2 DEF KnowledgeInv, WikiSerial
<1>4. (KnowledgeRows /\ KeptBooks)'
  BY <1>2 DEF KnowledgeInv, KnowledgeRows, KeptBooks
<1>5. ~overlapped => \A s \in Slugs : SlugFine(s)
  <2>1. ~overlapped => \A q \in Requests : q # r => pc[q] = "idle"
    BY <1>2 DEF Alone, Idle
  <2>. QED  BY <1>2, <2>1 DEF KnowledgeInv, WikiSerial, Midway
<1>6. ASSUME NEW p, NEW s, GotoWith(r, p, s) PROVE ~overlapped => \A x \in Slugs : SlugFine(x)'
  <2>1. workload' = workload
    BY <1>6 DEF GotoWith, control
  <2>. QED  BY <1>2, <1>5, <2>1 DEF SlugFine
<1>7. CASE t.todo = <<>>
  <2>1. GotoWith(r, "wiki:undoc", t)
    BY <1>1, <1>7 DEF WikiLoad, Goto
  <2>2. KnowledgeTask("wiki:undoc", t)'
    BY <1>2, <1>3 DEF KnowledgeTask, Listing, Editing
  <2>3. ~overlapped => WikiTask("wiki:undoc", t)'
    BY <1>2, <1>3, <1>7 DEF WikiTask, Editing
  <2>. QED  BY <1>2, <1>4, <1>6, <2>1, <2>2, <2>3, KnowledgeGoes
<1>8. CASE t.todo # <<>>
  <2>1. PICK s : s = Head(t.todo)
    OBVIOUS
  <2>2. /\ s \in Slugs /\ Tail(t.todo) \in Seq(Slugs)
        /\ \A n \in 1 .. Len(t.todo) :
             t.todo[n] = s \/ \E m \in 1 .. Len(Tail(t.todo)) : Tail(t.todo)[m] = t.todo[n]
    BY <1>3, <1>8, <2>1, TailHas DEF KnowledgeTask, Listing
  <2>3. CASE md[s] = None
    <3>1. PICK new : new = [t EXCEPT !.todo = Tail(t.todo)]
      OBVIOUS
    <3>2. GotoWith(r, "wiki:load", new)
      BY <1>1, <1>8, <2>1, <2>3, <3>1 DEF WikiLoad
    <3>3. /\ new.todo = Tail(t.todo) /\ new.seen = t.seen /\ new.existing = t.existing
          /\ DOMAIN new = DOMAIN t
      BY <1>3, <3>1, TaskWritten DEF KnowledgeTask, Listing
    <3>4. KnowledgeTask("wiki:load", new)'
      BY <1>3, <2>2, <3>3 DEF KnowledgeTask, Listing, Editing
    <3>5. ~overlapped => WikiTask("wiki:load", new)'
      BY <1>2, <1>3, <2>2, <2>3, <3>3 DEF WikiTask, Editing
    <3>. QED  BY <1>2, <1>4, <1>6, <3>2, <3>4, <3>5, KnowledgeGoes
  <2>4. CASE md[s] # None
    <3>1. PICK file, rest, seen : file = md[s] /\ rest = Tail(t.todo) /\ seen = t.seen \cup {s}
      OBVIOUS
    <3> DEFINE g == [slug |-> s, file |-> file, todo |-> rest, seen |-> seen]
               new == With(t, g)
    <3>2. GotoWith(r, "wiki:doc", new)
      BY <1>1, <1>8, <2>1, <2>4, <3>1 DEF WikiLoad
    <3>3. /\ new.slug = s /\ new.file = file /\ new.todo = rest /\ new.seen = seen
          /\ {"todo", "seen", "existing"} \subseteq DOMAIN new
          /\ new.existing = t.existing
      <4>1. /\ DOMAIN g = {"slug", "file", "todo", "seen"}
            /\ g["slug"] = s /\ g["file"] = file /\ g["todo"] = rest /\ g["seen"] = seen
        OBVIOUS
      <4>2. "existing" \in DOMAIN t \ DOMAIN g
        BY <1>3, <4>1 DEF KnowledgeTask, Listing
      <4> HIDE DEF g
      <4>3. /\ DOMAIN new = DOMAIN t \cup DOMAIN g
            /\ \A x \in DOMAIN g : new[x] = g[x]
            /\ \A x \in DOMAIN t \ DOMAIN g : new[x] = t[x]
        BY WithNew, Zenon
      <4> HIDE DEF new
      <4>. QED  BY <4>1, <4>2, <4>3
    <3> HIDE DEF new
    <3>4. file \in MdRows
      BY <2>2, <2>4, <3>1, RowsOfDocs DEF KnowledgeInv
    <3>5. KnowledgeTask("wiki:doc", new)'
      BY <1>3, <2>2, <3>1, <3>3, <3>4 DEF KnowledgeTask, Listing, Editing
    <3>6. ~overlapped => WikiTask("wiki:doc", new)'
      BY <1>2, <1>3, <2>2, <3>1, <3>3 DEF WikiTask, Editing
    <3>. QED  BY <1>2, <1>4, <1>6, <3>2, <3>5, <3>6, KnowledgeGoes
  <2>. QED  BY <2>3, <2>4
<1>. QED  BY <1>7, <1>8

LEMMA WikiDocKeeps ==
  ASSUME Handlers, Alone, KnowledgeInv, NEW r \in Requests, WikiDoc(r)
  PROVE  KnowledgeInv'
<1>1. PICK t : t = task[r]
  OBVIOUS
<1>2. PICK s, row : s = t.slug /\ row = DocOf(t.file)
  OBVIOUS
<1>3. /\ pc[r] = "wiki:doc" /\ GotoWith(r, "wiki:meta", t) /\ UNCHANGED <<md, meta, skill, kept>>
      /\ doc' = Indexed(s, row) /\ unsaved' = unsaved \ {s}
  BY <1>1, <1>2 DEF WikiDoc, At, Goto
<1>4. KnowledgeTask("wiki:doc", t) /\ KnowledgeRows /\ KeptBooks
  BY <1>1, <1>3 DEF KnowledgeInv
<1>5. s \in Slugs /\ t.file \in MdRows /\ row \in [title : Nat, body : Nat]
  BY <1>2, <1>4, RowsOfDocs DEF KnowledgeTask
<1>6. /\ doc' \in [Slugs -> Seq([title : Nat, body : Nat])]
      /\ \A x \in Slugs : Len(doc'[x]) <= 1
      /\ doc'[s] = <<row>> /\ \A x \in Slugs : x # s => doc'[x] = doc[x]
  BY <1>3, <1>4, <1>5, IndexedRows
<1>7. (KnowledgeRows /\ KeptBooks)'
  BY <1>3, <1>4, <1>6 DEF KnowledgeRows, KeptBooks
<1>8. KnowledgeTask("wiki:meta", t)'
  BY <1>3, <1>4 DEF KnowledgeTask, Listing, Editing
<1>9. ASSUME ~overlapped
      PROVE  WikiTask("wiki:meta", t)' /\ \A x \in Slugs : ~Midway("wiki:meta", t, x) => SlugFine(x)'
  <2>1. WikiTask("wiki:doc", t) /\ \A x \in Slugs : SlugFine(x)
    <3>1. \A q \in Requests : q # r => pc[q] = "idle"
      BY <1>3, <1>9 DEF Alone, Idle
    <3>. QED  BY <1>1, <1>3, <1>9, <3>1 DEF KnowledgeInv, WikiSerial, Midway
  <2>2. WikiTask("wiki:meta", t)'
    BY <1>2, <1>3, <1>5, <1>6, <2>1 DEF WikiTask, Editing
  <2>3. workload' = workload
    BY <1>3 DEF GotoWith, control
  <2>4. \A x \in Slugs : x # s => SlugFine(x)'
    BY <1>3, <1>6, <2>1, <2>3 DEF SlugFine
  <2>. QED  BY <1>2, <2>2, <2>4 DEF Midway
<1>. QED  BY <1>3, <1>7, <1>8, <1>9, KnowledgeGoes

LEMMA WikiMetaKeeps ==
  ASSUME Handlers, Alone, KnowledgeInv, NEW r \in Requests, WikiMeta(r)
  PROVE  KnowledgeInv'
<1>1. PICK t : t = task[r]
  OBVIOUS
<1>2. PICK s, row : s = t.slug /\ row = MetaOf(t.file)
  OBVIOUS
<1>3. /\ pc[r] = "wiki:meta" /\ GotoWith(r, "wiki:load", t)
      /\ UNCHANGED <<md, doc, skill, kept, unsaved>> /\ meta' = [meta EXCEPT ![s] = row]
  BY <1>1, <1>2 DEF WikiMeta, At, Goto
<1>4. KnowledgeTask("wiki:meta", t) /\ KnowledgeRows /\ KeptBooks
  BY <1>1, <1>3 DEF KnowledgeInv
<1>5. s \in Slugs /\ t.file \in MdRows /\ row \in MetaRows
  BY <1>2, <1>4, RowsOfDocs DEF KnowledgeTask
<1>6. /\ meta' \in [Slugs -> MetaRows \cup {None}]
      /\ meta'[s] = row /\ \A x \in Slugs : x # s => meta'[x] = meta[x]
  BY <1>3, <1>4, <1>5 DEF KnowledgeRows
<1>7. (KnowledgeRows /\ KeptBooks)'
  BY <1>3, <1>4, <1>6 DEF KnowledgeRows, KeptBooks
<1>8. KnowledgeTask("wiki:load", t)'
  BY <1>3, <1>4 DEF KnowledgeTask, Listing, Editing
<1>9. ASSUME ~overlapped
      PROVE  WikiTask("wiki:load", t)' /\ \A x \in Slugs : SlugFine(x)'
  <2>1. WikiTask("wiki:meta", t) /\ \A x \in Slugs : x # s => SlugFine(x)
    <3>1. \A q \in Requests : q # r => pc[q] = "idle"
      BY <1>3, <1>9 DEF Alone, Idle
    <3>. QED  BY <1>1, <1>2, <1>3, <1>9, <3>1 DEF KnowledgeInv, WikiSerial, Midway
  <2>2. WikiTask("wiki:load", t)'
    BY <1>3, <2>1 DEF WikiTask, Editing
  <2>3. workload' = workload
    BY <1>3 DEF GotoWith, control
  <2>4. \A x \in Slugs : x # s => SlugFine(x)'
    BY <1>3, <1>6, <2>1, <2>3 DEF SlugFine
  <2>5. SlugFine(s)'
    <3>1. doc[s] = <<DocOf(t.file)>> /\ md[s] = t.file /\ md[s] # None /\ row # None
      BY <1>2, <1>5, <2>1, KnowledgeAssumption DEF WikiTask
    <3>2. /\ doc[s] # <<>> /\ doc[s][1].title = row.title
          /\ doc[s][1].body = md[s].body
      BY <1>2, <3>1 DEF DocOf, MetaOf, DocRow, MetaRow
    <3>. QED  BY <1>3, <1>6, <3>1, <3>2 DEF SlugFine
  <2>. QED  BY <2>2, <2>4, <2>5
<1>. QED  BY <1>3, <1>7, <1>8, <1>9, KnowledgeGoes

LEMMA WikiUndocKeeps ==
  ASSUME Handlers, Alone, KnowledgeInv, NEW r \in Requests, WikiUndoc(r)
  PROVE  KnowledgeInv'
<1>1. PICK t, orphans : t = task[r] /\ orphans = t.existing \ t.seen
  OBVIOUS
<1>2. pc[r] = "wiki:undoc" /\ UNCHANGED <<md, meta, skill, kept, unsaved>>
  BY DEF WikiUndoc, At
<1>3. KnowledgeTask("wiki:undoc", t) /\ KnowledgeRows /\ KeptBooks
  BY <1>1, <1>2 DEF KnowledgeInv
<1>4. ASSUME ~overlapped
      PROVE  WikiTask("wiki:undoc", t) /\ \A x \in Slugs : SlugFine(x)
  <2>1. \A q \in Requests : q # r => pc[q] = "idle"
    BY <1>2, <1>4 DEF Alone, Idle
  <2>. QED  BY <1>1, <1>2, <1>4, <2>1 DEF KnowledgeInv, WikiSerial, Midway
<1>5. CASE orphans = {}
  <2>1. GotoWith(r, "idle", None) /\ doc' = doc
    BY <1>1, <1>5 DEF WikiUndoc, Return
  <2>2. (KnowledgeRows /\ KeptBooks)'
    BY <1>2, <1>3, <2>1 DEF KnowledgeRows, KeptBooks
  <2>3. KnowledgeTask("idle", None)' /\ WikiTask("idle", None)'
    BY DEF KnowledgeTask, WikiTask, Listing, Editing
  <2>4. ~overlapped => \A x \in Slugs : SlugFine(x)'
    BY <1>2, <1>4, <2>1 DEF SlugFine, GotoWith, control
  <2>. QED  BY <1>2, <2>1, <2>2, <2>3, <2>4, KnowledgeGoes
<1>6. CASE orphans # {}
  <2>1. PICK s : s = CHOOSE x \in orphans : TRUE
    OBVIOUS
  <2>2. s \in orphans
    BY <1>6, <2>1
  <2> DEFINE g == [slug |-> s]  new == With(t, g)
  <2>3. GotoWith(r, "wiki:unmeta", new) /\ doc' = [doc EXCEPT ![s] = <<>>]
    BY <1>1, <1>6, <2>1 DEF WikiUndoc
  <2>4. s \in Slugs /\ s \notin t.seen
    BY <1>1, <1>3, <2>2 DEF KnowledgeTask, Listing
  <2>5. /\ new.slug = s /\ {"todo", "seen", "existing"} \subseteq DOMAIN new
        /\ new.todo = t.todo /\ new.seen = t.seen /\ new.existing = t.existing
    <3>1. DOMAIN g = {"slug"} /\ g["slug"] = s
      OBVIOUS
    <3>2. {"todo", "seen", "existing"} \subseteq DOMAIN t \ DOMAIN g
      BY <1>3, <3>1 DEF KnowledgeTask, Listing
    <3> HIDE DEF g
    <3>3. /\ DOMAIN new = DOMAIN t \cup DOMAIN g
          /\ \A x \in DOMAIN g : new[x] = g[x]
          /\ \A x \in DOMAIN t \ DOMAIN g : new[x] = t[x]
      BY WithNew, Zenon
    <3> HIDE DEF new
    <3>. QED  BY <3>1, <3>2, <3>3
  <2> HIDE DEF new
  <2>6. /\ doc' \in [Slugs -> Seq([title : Nat, body : Nat])]
        /\ doc'[s] = <<>> /\ \A x \in Slugs : x # s => doc'[x] = doc[x]
        /\ \A x \in Slugs : Len(doc'[x]) <= 1
    BY <1>3, <2>3, <2>4 DEF KnowledgeRows, KeptBooks
  <2>7. (KnowledgeRows /\ KeptBooks)'
    BY <1>2, <1>3, <2>6 DEF KnowledgeRows, KeptBooks
  <2>8. KnowledgeTask("wiki:unmeta", new)'
    BY <1>3, <2>4, <2>5 DEF KnowledgeTask, Listing, Editing
  <2>9. ASSUME ~overlapped
        PROVE  /\ WikiTask("wiki:unmeta", new)'
               /\ \A x \in Slugs : ~Midway("wiki:unmeta", new, x) => SlugFine(x)'
    <3>1. WikiTask("wiki:unmeta", new)'
      BY <1>2, <1>4, <2>4, <2>5, <2>6, <2>9 DEF WikiTask, Editing
    <3>2. workload' = workload
      BY <2>3 DEF GotoWith, control
    <3>3. \A x \in Slugs : x # s => SlugFine(x)'
      BY <1>2, <1>4, <2>6, <2>9, <3>2 DEF SlugFine
    <3>. QED  BY <2>5, <3>1, <3>3 DEF Midway
  <2>. QED  BY <1>2, <2>3, <2>7, <2>8, <2>9, KnowledgeGoes
<1>. QED  BY <1>5, <1>6

LEMMA WikiUnmetaKeeps ==
  ASSUME Handlers, Alone, KnowledgeInv, NEW r \in Requests, WikiUnmeta(r)
  PROVE  KnowledgeInv'
<1>1. PICK t, s : t = task[r] /\ s = t.slug
  OBVIOUS
<1>2. PICK seen : seen = t.seen \cup {s}
  OBVIOUS
<1>3. PICK new : new = [t EXCEPT !.seen = seen]
  OBVIOUS
<1>4. /\ pc[r] = "wiki:unmeta" /\ GotoWith(r, "wiki:undoc", new)
      /\ UNCHANGED <<md, doc, skill, kept, unsaved>> /\ meta' = [meta EXCEPT ![s] = None]
  BY <1>1, <1>2, <1>3 DEF WikiUnmeta, At
<1>5. KnowledgeTask("wiki:unmeta", t) /\ KnowledgeRows /\ KeptBooks
  BY <1>1, <1>4 DEF KnowledgeInv
<1>6. s \in Slugs
  BY <1>1, <1>5 DEF KnowledgeTask
<1>7. /\ DOMAIN new = DOMAIN t /\ new.seen = seen
      /\ new.todo = t.todo /\ new.existing = t.existing
  BY <1>3, <1>5, TaskWritten DEF KnowledgeTask, Listing
<1>8. /\ meta' \in [Slugs -> MetaRows \cup {None}]
      /\ meta'[s] = None /\ \A x \in Slugs : x # s => meta'[x] = meta[x]
  BY <1>4, <1>5, <1>6 DEF KnowledgeRows
<1>9. (KnowledgeRows /\ KeptBooks)'
  BY <1>4, <1>5, <1>8 DEF KnowledgeRows, KeptBooks
<1>10. KnowledgeTask("wiki:undoc", new)'
  BY <1>5, <1>7 DEF KnowledgeTask, Listing, Editing
<1>11. ASSUME ~overlapped
       PROVE  WikiTask("wiki:undoc", new)' /\ \A x \in Slugs : SlugFine(x)'
  <2>1. WikiTask("wiki:unmeta", t) /\ \A x \in Slugs : x # s => SlugFine(x)
    <3>1. \A q \in Requests : q # r => pc[q] = "idle"
      BY <1>4, <1>11 DEF Alone, Idle
    <3>. QED  BY <1>1, <1>4, <1>11, <3>1 DEF KnowledgeInv, WikiSerial, Midway
  <2>2. WikiTask("wiki:undoc", new)'
    BY <1>2, <1>4, <1>7, <2>1 DEF WikiTask, Editing
  <2>3. workload' = workload
    BY <1>4 DEF GotoWith, control
  <2>4. \A x \in Slugs : x # s => SlugFine(x)'
    BY <1>4, <1>8, <2>1, <2>3 DEF SlugFine
  <2>5. SlugFine(s)'
    BY <1>1, <1>4, <1>8, <2>1 DEF SlugFine, WikiTask
  <2>. QED  BY <2>2, <2>4, <2>5
<1>. QED  BY <1>4, <1>9, <1>10, <1>11, KnowledgeGoes

\* The edit of a document: index, second table, file.
LEMMA UpdateWikiDocKeeps ==
  ASSUME Handlers, Alone, Alone', KnowledgeInv, NEW r \in Requests, AdminUpdateWikiDoc(r)
  PROVE  KnowledgeInv'
<1>1. PICK s \in Slugs, titled \in BOOLEAN :
        /\ meta[s] # None
        /\ Receive(r, "AdminUpdateWikiDoc", "edit:doc",
                   With([todo |-> <<>>], EditOf(s, IF titled THEN served' ELSE meta[s].title)))
  BY Zenon DEF AdminUpdateWikiDoc
<1>2. UNCHANGED knowledge
  BY DEF AdminUpdateWikiDoc
<1>3. PICK title, body, page :
        /\ title = (IF titled THEN served' ELSE meta[s].title) /\ body = served'
        /\ page = meta[s].page
  OBVIOUS
<1>4. PICK g : g = [slug |-> s, title |-> title, body |-> body, page |-> page]
  OBVIOUS
<1>5. PICK f, t : f = [todo |-> <<>>] /\ t = With(f, g)
  OBVIOUS
<1>6. EditOf(s, title) = g
  BY <1>3, <1>4 DEF EditOf
<1>7. Receive(r, "AdminUpdateWikiDoc", "edit:doc", t)
  BY <1>1, <1>3, <1>5, <1>6
<1>8. /\ {"todo", "body", "slug", "title"} \subseteq DOMAIN t
      /\ t.todo = <<>> /\ t.slug = s /\ t.title = title /\ t.body = body /\ t.page = page
  <2>1. /\ DOMAIN g = {"slug", "title", "body", "page"}
        /\ g["slug"] = s /\ g["title"] = title /\ g["body"] = body /\ g["page"] = page
    BY <1>4
  <2>2. DOMAIN f = {"todo"} /\ f["todo"] = <<>>
    BY <1>5
  <2>3. /\ DOMAIN t = DOMAIN f \cup DOMAIN g
        /\ \A x \in DOMAIN g : t[x] = g[x]
        /\ \A x \in DOMAIN f \ DOMAIN g : t[x] = f[x]
    <3>1. /\ DOMAIN With(f, g) = DOMAIN f \cup DOMAIN g
          /\ \A x \in DOMAIN g : With(f, g)[x] = g[x]
          /\ \A x \in DOMAIN f \ DOMAIN g : With(f, g)[x] = f[x]
      BY WithNew, Zenon
    <3>2. t = With(f, g)
      BY <1>5
    <3>. QED  BY <3>1, <3>2
  <2>. QED  BY <2>1, <2>2, <2>3
<1>9. meta[s] \in MetaRows
  BY <1>1, RowsOfDocs DEF KnowledgeInv
<1>10. title \in Nat /\ body \in Nat /\ page \in BOOLEAN
  BY <1>3, <1>9 DEF Alone, MetaRows
<1>11. KnowledgeTask("edit:doc", t)
  BY <1>8, <1>10 DEF KnowledgeTask, Listing, Editing
<1>12. AllIdle /\ WikiSerial => WikiTask("edit:doc", t) /\ \A x : ~Midway("edit:doc", t, x)
  <2>1. AllIdle /\ WikiSerial => SlugFine(s)
    BY DEF WikiSerial, AllIdle, Idle, Midway
  <2>. QED  BY <1>1, <1>8, <2>1 DEF WikiTask, Editing, Midway, SlugFine
<1>. QED  BY <1>2, <1>7, <1>11, <1>12, KnowledgeReceives

LEMMA EditDocKeeps ==
  ASSUME Handlers, Alone, KnowledgeInv, NEW r \in Requests, EditDoc(r)
  PROVE  KnowledgeInv'
<1>1. PICK t : t = task[r]
  OBVIOUS
<1>2. PICK s, row : s = t.slug /\ row = DocRow(t.title, t.body)
  OBVIOUS
<1>3. /\ pc[r] = "edit:doc" /\ GotoWith(r, "edit:meta", t)
      /\ UNCHANGED <<md, meta, skill, kept, unsaved>> /\ doc' = Indexed(s, row)
  BY <1>1, <1>2 DEF EditDoc, At, Goto
<1>4. KnowledgeTask("edit:doc", t) /\ KnowledgeRows /\ KeptBooks
  BY <1>1, <1>3 DEF KnowledgeInv
<1>5. s \in Slugs /\ row \in [title : Nat, body : Nat]
  BY <1>2, <1>4 DEF KnowledgeTask, Editing, DocRow
<1>6. /\ doc' \in [Slugs -> Seq([title : Nat, body : Nat])]
      /\ \A x \in Slugs : Len(doc'[x]) <= 1
      /\ doc'[s] = <<row>> /\ \A x \in Slugs : x # s => doc'[x] = doc[x]
  BY <1>3, <1>4, <1>5, IndexedRows
<1>7. (KnowledgeRows /\ KeptBooks)'
  BY <1>3, <1>4, <1>6 DEF KnowledgeRows, KeptBooks
<1>8. KnowledgeTask("edit:meta", t)'
  BY <1>3, <1>4 DEF KnowledgeTask, Listing, Editing
<1>9. ASSUME ~overlapped
      PROVE  WikiTask("edit:meta", t)' /\ \A x \in Slugs : ~Midway("edit:meta", t, x) => SlugFine(x)'
  <2>1. WikiTask("edit:doc", t) /\ \A x \in Slugs : SlugFine(x)
    <3>1. \A q \in Requests : q # r => pc[q] = "idle"
      BY <1>3, <1>9 DEF Alone, Idle
    <3>. QED  BY <1>1, <1>3, <1>9, <3>1 DEF KnowledgeInv, WikiSerial, Midway
  <2>2. workload' = workload
    BY <1>3 DEF GotoWith, control
  <2>3. WikiTask("edit:meta", t)'
    BY <1>2, <1>3, <1>5, <1>6, <2>1, <2>2 DEF WikiTask, Editing
  <2>4. \A x \in Slugs : x # s => SlugFine(x)'
    BY <1>3, <1>6, <2>1, <2>2 DEF SlugFine
  <2>. QED  BY <1>2, <2>3, <2>4 DEF Midway
<1>. QED  BY <1>3, <1>7, <1>8, <1>9, KnowledgeGoes

LEMMA EditMetaKeeps ==
  ASSUME Handlers, Alone, KnowledgeInv, NEW r \in Requests, EditMeta(r)
  PROVE  KnowledgeInv'
<1>1. PICK t : t = task[r]
  OBVIOUS
<1>2. PICK s, row : s = t.slug /\ row = MetaRow(t.title, t.page)
  OBVIOUS
<1>3. /\ pc[r] = "edit:meta" /\ GotoWith(r, "edit:file", t)
      /\ UNCHANGED <<md, doc, skill, kept, unsaved>> /\ meta' = [meta EXCEPT ![s] = row]
  BY <1>1, <1>2 DEF EditMeta, At, Goto
<1>4. KnowledgeTask("edit:meta", t) /\ KnowledgeRows /\ KeptBooks
  BY <1>1, <1>3 DEF KnowledgeInv
<1>5. s \in Slugs /\ row \in MetaRows /\ row.title = t.title
  BY <1>2, <1>4 DEF KnowledgeTask, Editing, MetaRow, MetaRows
<1>6. /\ meta' \in [Slugs -> MetaRows \cup {None}]
      /\ meta'[s] = row /\ \A x \in Slugs : x # s => meta'[x] = meta[x]
  BY <1>3, <1>4, <1>5 DEF KnowledgeRows
<1>7. (KnowledgeRows /\ KeptBooks)'
  BY <1>3, <1>4, <1>6 DEF KnowledgeRows, KeptBooks
<1>8. KnowledgeTask("edit:file", t)'
  BY <1>3, <1>4 DEF KnowledgeTask, Listing, Editing
<1>9. ASSUME ~overlapped
      PROVE  WikiTask("edit:file", t)' /\ \A x \in Slugs : ~Midway("edit:file", t, x) => SlugFine(x)'
  <2>1. WikiTask("edit:meta", t) /\ \A x \in Slugs : x # s => SlugFine(x)
    <3>1. \A q \in Requests : q # r => pc[q] = "idle"
      BY <1>3, <1>9 DEF Alone, Idle
    <3>. QED  BY <1>1, <1>2, <1>3, <1>9, <3>1 DEF KnowledgeInv, WikiSerial, Midway
  <2>2. workload' = workload /\ row # None
    BY <1>3, <1>5, KnowledgeAssumption DEF GotoWith, control
  <2>3. WikiTask("edit:file", t)'
    BY <1>2, <1>3, <1>5, <1>6, <2>1, <2>2 DEF WikiTask, Editing
  <2>4. \A x \in Slugs : x # s => SlugFine(x)'
    BY <1>3, <1>6, <2>1, <2>2 DEF SlugFine
  <2>. QED  BY <1>2, <2>3, <2>4 DEF Midway
<1>. QED  BY <1>3, <1>7, <1>8, <1>9, KnowledgeGoes

\* What is written to the file has the text of the edit.
LEMMA ComposedRow ==
  ASSUME KnowledgeRows, NEW t, t.slug \in Slugs, t.title \in Nat, t.body \in Nat
  PROVE  Composed(t) \in MdRows /\ Composed(t).body = t.body
<1>1. CASE md[t.slug] # None /\ md[t.slug].front
  <2>1. md[t.slug] \in MdRows
    BY <1>1 DEF KnowledgeRows
  <2>2. Composed(t) = [md[t.slug] EXCEPT !.body = t.body]
    BY <1>1 DEF Composed
  <2>. QED  BY <2>1, <2>2 DEF MdRows
<1>2. CASE ~(md[t.slug] # None /\ md[t.slug].front)
  <2>1. Composed(t) = MdRow(t.title, t.body, FALSE, TRUE)
    BY <1>2 DEF Composed
  <2>. QED  BY <2>1 DEF MdRow, MdRows
<1>. QED  BY <1>1, <1>2

\* After an edit a handler answers, or goes on to the next page.
LEMMA AfterEditTask ==
  ASSUME NEW r \in Requests, NEW t, t = task[r], AfterEdit(r),
         t.todo \in Seq(Slugs), t.body \in Nat, {"todo", "body"} \subseteq DOMAIN t
  PROVE  \E p, new : /\ GotoWith(r, p, new) /\ p \in {"idle", "notion:find"}
                     /\ KnowledgeTask(p, new)' /\ WikiTask(p, new)'
                     /\ \A x : ~Midway(p, new, x)
<1>1. CASE t.todo = <<>>
  <2>1. GotoWith(r, "idle", None)
    BY <1>1 DEF AfterEdit, Return
  <2>2. KnowledgeTask("idle", None)' /\ WikiTask("idle", None)' /\ \A x : ~Midway("idle", None, x)
    BY DEF KnowledgeTask, WikiTask, Listing, Editing, Midway
  <2>. QED  BY <2>1, <2>2
<1>2. CASE t.todo # <<>>
  <2>1. GotoWith(r, "notion:find", t)
    BY <1>2 DEF AfterEdit, Goto
  <2>2. /\ KnowledgeTask("notion:find", t)' /\ WikiTask("notion:find", t)'
        /\ \A x : ~Midway("notion:find", t, x)
    BY <1>2 DEF KnowledgeTask, WikiTask, Listing, Editing, Midway
  <2>. QED  BY <2>1, <2>2
<1>. QED  BY <1>1, <1>2

LEMMA EditFileKeeps ==
  ASSUME Handlers, Alone, KnowledgeInv, NEW r \in Requests, EditFile(r)
  PROVE  KnowledgeInv'
<1>1. PICK t : t = task[r]
  OBVIOUS
<1>2. PICK s, row : s = t.slug /\ row = Composed(t)
  OBVIOUS
<1>3. /\ pc[r] = "edit:file" /\ AfterEdit(r) /\ UNCHANGED <<doc, meta, skill>>
      /\ \/ /\ md' = [md EXCEPT ![s] = row] /\ kept' = [kept EXCEPT ![s] = t.body]
            /\ unsaved' = unsaved \ {s}
         \/ unsaved' = unsaved \cup {s} /\ UNCHANGED <<md, kept>>
  BY <1>1, <1>2 DEF EditFile, At
<1>4. KnowledgeTask("edit:file", t) /\ KnowledgeRows /\ KeptBooks
  BY <1>1, <1>3 DEF KnowledgeInv
<1>5. s \in Slugs /\ row \in MdRows /\ row.body = t.body /\ row # None /\ t.body \in Nat
  BY <1>2, <1>4, ComposedRow, KnowledgeAssumption DEF KnowledgeTask, Editing
<1>6. /\ md' \in [Slugs -> MdRows \cup {None}] /\ kept' \in [Slugs -> Nat]
      /\ \/ md'[s] = row /\ kept'[s] = t.body /\ s \notin unsaved'
         \/ md'[s] = md[s] /\ kept'[s] = kept[s] /\ s \in unsaved'
      /\ \A x \in Slugs : x # s => /\ md'[x] = md[x] /\ kept'[x] = kept[x]
                                   /\ (x \in unsaved' <=> x \in unsaved)
  <2>1. md \in [Slugs -> MdRows \cup {None}] /\ kept \in [Slugs -> Nat]
    BY <1>4 DEF KnowledgeRows, KeptBooks
  <2>. QED  BY <1>3, <1>5, <2>1
<1>7. (KnowledgeRows /\ KeptBooks)'
  <2>1. \A x \in Slugs : kept'[x] = IF md'[x] = None THEN 0 ELSE md'[x].body
    BY <1>4, <1>5, <1>6 DEF KeptBooks
  <2>. QED  BY <1>3, <1>4, <1>6, <2>1 DEF KnowledgeRows, KeptBooks
<1>8. PICK p, new : /\ GotoWith(r, p, new)
                    /\ KnowledgeTask(p, new)' /\ WikiTask(p, new)'
                    /\ \A x : ~Midway(p, new, x)
  BY <1>1, <1>3, <1>4, AfterEditTask, Zenon DEF KnowledgeTask, Editing
<1>9. ASSUME ~overlapped PROVE \A x \in Slugs : SlugFine(x)'
  <2>1. WikiTask("edit:file", t) /\ \A x \in Slugs : x # s => SlugFine(x)
    <3>1. \A q \in Requests : q # r => pc[q] = "idle"
      BY <1>3, <1>9 DEF Alone, Idle
    <3>. QED  BY <1>1, <1>2, <1>3, <1>9, <3>1 DEF KnowledgeInv, WikiSerial, Midway
  <2>2. workload' = workload
    BY <1>8 DEF GotoWith, control
  <2>3. \A x \in Slugs : x # s => SlugFine(x)'
    BY <1>3, <1>6, <2>1, <2>2 DEF SlugFine
  <2>4. /\ doc[s] = <<DocRow(t.title, t.body)>> /\ meta[s] # None /\ meta[s].title = t.title
        /\ "OperatorRemoves" \notin workload => md[s] # None
    BY <1>2, <2>1 DEF WikiTask, Editing
  <2>5. doc[s] # <<>> /\ doc[s][1].title = t.title /\ doc[s][1].body = t.body
    BY <2>4 DEF DocRow
  <2>6. SlugFine(s)'
    BY <1>3, <1>5, <1>6, <2>2, <2>4, <2>5 DEF SlugFine
  <2>. QED  BY <2>3, <2>6
<1>. QED  BY <1>3, <1>7, <1>8, <1>9, KnowledgeGoes

\* A step that writes nothing, of a handler that is not in the middle of writing.
LEMMA KnowledgePasses ==
  ASSUME Handlers, Alone, KnowledgeInv, NEW r \in Requests, NEW p, NEW t, pc[r] # "idle",
         GotoWith(r, p, t), UNCHANGED knowledge, KnowledgeTask(p, t),
         \A s \in Slugs : ~Midway(pc[r], task[r], s), ~overlapped => WikiTask(p, t)
  PROVE  KnowledgeInv'
<1>1. UNCHANGED <<md, doc, meta, skill, kept, unsaved>> /\ workload' = workload
  BY DEF knowledge, GotoWith, control
<1>2. (KnowledgeRows /\ KeptBooks)'
  BY <1>1 DEF KnowledgeInv, KnowledgeRows, KeptBooks
<1>3. KnowledgeTask(p, t)' /\ (~overlapped => WikiTask(p, t)')
  BY <1>1 DEF KnowledgeTask, WikiTask
<1>4. ASSUME ~overlapped PROVE \A s \in Slugs : SlugFine(s)'
  <2>1. \A q \in Requests : q # r => pc[q] = "idle"
    BY <1>4 DEF Alone, Idle
  <2>2. \A s \in Slugs : SlugFine(s)
    BY <1>4, <2>1 DEF KnowledgeInv, WikiSerial, Midway
  <2>. QED  BY <1>1, <2>2 DEF SlugFine
<1>. QED  BY <1>1, <1>2, <1>3, <1>4, KnowledgeGoes

LEMMA NotionSyncKeeps ==
  ASSUME Handlers, Alone, Alone', KnowledgeInv, NEW r \in Requests, NotionRequest(r)
  PROVE  KnowledgeInv'
<1>1. PICK kind, q : /\ Receive(r, kind, "notion:find", [todo |-> q, body |-> served'])
                     /\ q \in Seq(Slugs) /\ q # <<>>
  <2>1. CASE AdminSyncNotionOne(r)
    <3>1. PICK s \in Paged : FetchAll(r, "AdminSyncNotionOne", <<s>>)
      BY <2>1 DEF AdminSyncNotionOne
    <3>2. <<s>> \in Seq(Slugs) /\ <<s>> # <<>>
      BY DEF Paged
    <3>. QED  BY <3>1, <3>2 DEF FetchAll
  <2>2. CASE AdminSyncNotionAll(r)
    <3>1. FetchAll(r, "AdminSyncNotionAll", SetToSeq(Paged)) /\ Paged # {}
      BY <2>2 DEF AdminSyncNotionAll
    <3>2. IsFiniteSet(Paged) /\ Paged \subseteq Slugs
      BY KnowledgeAssumption, FS_Subset DEF Paged
    <3>3. /\ SetToSeq(Paged) \in Seq(Paged)
          /\ \A x \in Paged : \E n \in 1 .. Cardinality(Paged) : SetToSeq(Paged)[n] = x
          /\ Len(SetToSeq(Paged)) = Cardinality(Paged)
      BY <3>2, SetToSeqIs
    <3>4. PICK q : q = SetToSeq(Paged)
      OBVIOUS
    <3>5. q \in Seq(Slugs) /\ q # <<>>
      <4>1. q \in Seq(Slugs)
        BY <3>2, <3>3, <3>4
      <4>2. PICK x \in Paged, n \in 1 .. Len(q) : q[n] = x
        BY <3>1, <3>3, <3>4
      <4>. QED  BY <4>1, <4>2
    <3>. QED  BY <3>1, <3>4, <3>5 DEF FetchAll
  <2>. QED  BY <2>1, <2>2 DEF NotionRequest
<1>2. UNCHANGED knowledge
  BY DEF NotionRequest, AdminSyncNotionOne, AdminSyncNotionAll
<1>3. PICK body, t : body = served' /\ t = [todo |-> q, body |-> body]
  OBVIOUS
<1>4. Receive(r, kind, "notion:find", t) /\ body \in Nat
  BY <1>1, <1>3 DEF Alone
<1>5. KnowledgeTask("notion:find", t)
  BY <1>1, <1>3, <1>4 DEF KnowledgeTask, Listing, Editing
<1>6. WikiTask("notion:find", t) /\ \A s : ~Midway("notion:find", t, s)
  BY DEF WikiTask, Editing, Midway
<1>. QED  BY <1>2, <1>4, <1>5, <1>6, KnowledgeReceives

LEMMA NotionFindKeeps ==
  ASSUME Handlers, Alone, KnowledgeInv, NEW r \in Requests, NotionFind(r)
  PROVE  KnowledgeInv'
<1>1. PICK t : t = task[r]
  OBVIOUS
<1>2. PICK s, rest : s = Head(t.todo) /\ rest = [t EXCEPT !.todo = Tail(t.todo)]
  OBVIOUS
<1>3. /\ pc[r] = "notion:find" /\ UNCHANGED knowledge
      /\ \/ rest.todo = <<>> /\ Return(r)
         \/ rest.todo # <<>> /\ GotoWith(r, "notion:find", rest)
         \/ /\ meta[s] # None
            /\ GotoWith(r, "notion:fetched", With(rest, [slug |-> s, title |-> meta[s].title]))
  BY <1>1, <1>2 DEF NotionFind, At
<1>4. KnowledgeTask("notion:find", t) /\ KnowledgeRows
  BY <1>1, <1>3 DEF KnowledgeInv
<1>5. /\ {"todo", "body"} \subseteq DOMAIN t /\ t.body \in Nat
      /\ s \in Slugs /\ Tail(t.todo) \in Seq(Slugs)
  BY <1>2, <1>4, TailHas DEF KnowledgeTask
<1>6. rest.todo = Tail(t.todo) /\ rest.body = t.body /\ DOMAIN rest = DOMAIN t
  BY <1>2, <1>5, TaskWritten
<1>7. \A x \in Slugs : ~Midway(pc[r], task[r], x)
  BY <1>3 DEF Midway
<1>8. CASE Return(r)
  <2>1. GotoWith(r, "idle", None)
    BY <1>8 DEF Return
  <2>2. KnowledgeTask("idle", None) /\ WikiTask("idle", None)
    BY DEF KnowledgeTask, WikiTask, Listing, Editing
  <2>. QED  BY <1>3, <1>7, <2>1, <2>2, KnowledgePasses
<1>9. CASE rest.todo # <<>> /\ GotoWith(r, "notion:find", rest)
  <2>1. KnowledgeTask("notion:find", rest) /\ WikiTask("notion:find", rest)
    BY <1>5, <1>6, <1>9 DEF KnowledgeTask, WikiTask, Listing, Editing
  <2>. QED  BY <1>3, <1>7, <1>9, <2>1, KnowledgePasses
<1>10. CASE /\ meta[s] # None
            /\ GotoWith(r, "notion:fetched", With(rest, [slug |-> s, title |-> meta[s].title]))
  <2>1. PICK title : title = meta[s].title
    OBVIOUS
  <2>2. PICK g : g = [slug |-> s, title |-> title]
    OBVIOUS
  <2>3. PICK new : new = With(rest, g)
    OBVIOUS
  <2>4. title \in Nat
    BY <1>4, <1>5, <1>10, <2>1, RowsOfDocs DEF MetaRows
  <2>5. DOMAIN g = {"slug", "title"} /\ g["slug"] = s /\ g["title"] = title
    BY <2>2
  <2>6. /\ DOMAIN With(rest, g) = DOMAIN rest \cup DOMAIN g
        /\ \A x \in DOMAIN g : With(rest, g)[x] = g[x]
        /\ \A x \in DOMAIN rest \ DOMAIN g : With(rest, g)[x] = rest[x]
    BY WithNew, Zenon
  <2>7. /\ {"todo", "body", "slug", "title"} \subseteq DOMAIN new
        /\ new.todo = rest.todo /\ new.body = rest.body /\ new.slug = s /\ new.title = title
    BY <1>5, <1>6, <2>3, <2>5, <2>6
  <2>8. KnowledgeTask("notion:fetched", new) /\ WikiTask("notion:fetched", new)
    BY <1>5, <1>6, <2>4, <2>7 DEF KnowledgeTask, WikiTask, Listing, Editing
  <2>9. GotoWith(r, "notion:fetched", new)
    BY <1>10, <2>1, <2>2, <2>3
  <2>. QED  BY <1>3, <1>7, <2>8, <2>9, KnowledgePasses
<1>. QED  BY <1>3, <1>8, <1>9, <1>10

LEMMA NotionFetchedKeeps ==
  ASSUME Handlers, Alone, KnowledgeInv, NEW r \in Requests, NotionFetched(r)
  PROVE  KnowledgeInv'
<1>1. PICK t : t = task[r]
  OBVIOUS
<1>2. PICK s : s = t.slug
  OBVIOUS
<1>3. /\ pc[r] = "notion:fetched" /\ UNCHANGED knowledge
      /\ \/ AfterEdit(r)
         \/ /\ meta[s] # None
            /\ GotoWith(r, "edit:doc", With(t, [page |-> meta[s].page]))
  BY <1>1, <1>2 DEF NotionFetched, At
<1>4. KnowledgeTask("notion:fetched", t) /\ KnowledgeRows
  BY <1>1, <1>3 DEF KnowledgeInv
<1>5. \A x \in Slugs : ~Midway(pc[r], task[r], x)
  BY <1>3 DEF Midway
<1>6. CASE AfterEdit(r)
  <2>1. CASE t.todo = <<>>
    <3>1. GotoWith(r, "idle", None)
      BY <1>1, <1>6, <2>1 DEF AfterEdit, Return
    <3>2. KnowledgeTask("idle", None) /\ WikiTask("idle", None)
      BY DEF KnowledgeTask, WikiTask, Listing, Editing
    <3>. QED  BY <1>3, <1>5, <3>1, <3>2, KnowledgePasses
  <2>2. CASE t.todo # <<>>
    <3>1. GotoWith(r, "notion:find", t)
      BY <1>1, <1>6, <2>2 DEF AfterEdit, Goto
    <3>2. KnowledgeTask("notion:find", t) /\ WikiTask("notion:find", t)
      BY <1>4, <2>2 DEF KnowledgeTask, WikiTask, Listing, Editing
    <3>. QED  BY <1>3, <1>5, <3>1, <3>2, KnowledgePasses
  <2>. QED  BY <2>1, <2>2
<1>7. CASE meta[s] # None /\ GotoWith(r, "edit:doc", With(t, [page |-> meta[s].page]))
  <2>1. PICK page : page = meta[s].page
    OBVIOUS
  <2>2. PICK g : g = [page |-> page]
    OBVIOUS
  <2>3. PICK new : new = With(t, g)
    OBVIOUS
  <2>4. s \in Slugs /\ page \in BOOLEAN
    BY <1>2, <1>4, <1>7, <2>1, RowsOfDocs DEF MetaRows, KnowledgeTask
  <2>5. DOMAIN g = {"page"} /\ g["page"] = page
    BY <2>2
  <2>6. /\ DOMAIN With(t, g) = DOMAIN t \cup DOMAIN g
        /\ \A x \in DOMAIN g : With(t, g)[x] = g[x]
        /\ \A x \in DOMAIN t \ DOMAIN g : With(t, g)[x] = t[x]
    BY WithNew, Zenon
  <2>7. /\ {"todo", "body", "slug", "title"} \subseteq DOMAIN t
        /\ t.todo \in Seq(Slugs) /\ t.body \in Nat /\ t.title \in Nat
    BY <1>4 DEF KnowledgeTask
  <2>8. /\ {"todo", "body", "slug", "title"} \subseteq DOMAIN new /\ new.todo = t.todo
        /\ new.body = t.body /\ new.slug = s /\ new.title = t.title /\ new.page = page
    BY <1>2, <2>3, <2>5, <2>6, <2>7
  <2>9. KnowledgeTask("edit:doc", new)
    BY <2>4, <2>7, <2>8 DEF KnowledgeTask, Listing, Editing
  <2>10. ASSUME ~overlapped PROVE WikiTask("edit:doc", new)
    <3>1. \A q \in Requests : q # r => pc[q] = "idle"
      BY <1>3, <2>10 DEF Alone, Idle
    <3>2. SlugFine(s)
      BY <1>3, <2>4, <2>10, <3>1 DEF KnowledgeInv, WikiSerial, Midway
    <3>. QED  BY <1>7, <2>8, <3>2 DEF WikiTask, Editing, SlugFine
  <2>11. GotoWith(r, "edit:doc", new)
    BY <1>7, <2>1, <2>2, <2>3
  <2>. QED  BY <1>3, <1>5, <2>9, <2>10, <2>11, KnowledgePasses
<1>. QED  BY <1>3, <1>6, <1>7

LEMMA OperatorRemovesKeeps ==
  ASSUME KnowledgeInv, OperatorRemoves
  PROVE  KnowledgeInv'
<1>1. PICK s \in OnDisk : /\ AnswerAtOnce("OperatorRemoves")
                          /\ md' = [md EXCEPT ![s] = None] /\ kept' = [kept EXCEPT ![s] = 0]
                          /\ UNCHANGED <<doc, meta, skill, unsaved>>
  BY DEF OperatorRemoves
<1>2. KnowledgeRows /\ KeptBooks /\ s \in Slugs
  BY <1>1 DEF KnowledgeInv, OnDisk
<1>3. /\ md' \in [Slugs -> MdRows \cup {None}] /\ kept' \in [Slugs -> Nat]
      /\ md'[s] = None /\ kept'[s] = 0
      /\ \A x \in Slugs : x # s => md'[x] = md[x] /\ kept'[x] = kept[x]
  BY <1>1, <1>2 DEF KnowledgeRows, KeptBooks
<1>4. (KnowledgeRows /\ KeptBooks)'
  BY <1>1, <1>2, <1>3 DEF KnowledgeRows, KeptBooks
<1>5. ASSUME "OperatorRemoves" \in workload PROVE \A x \in Slugs : SlugFine(x) => SlugFine(x)'
  <2>1. workload' = workload
    BY <1>1 DEF AnswerAtOnce, Arrives
  <2>2. \A x \in Slugs : md'[x] = None \/ md'[x] = md[x]
    BY <1>3
  <2>. QED  BY <1>1, <1>5, <2>1, <2>2 DEF SlugFine
<1>. QED  BY <1>1, <1>4, <1>5, KnowledgeAnswers

LEMMA NoneIsNoRow ==
  /\ \A row \in MdRows : row # None
  /\ \A row \in MetaRows : row # None
  /\ \A row \in SkillRows : row # None
BY KnowledgeAssumption

\* A step of the skills leaves the documents alone.
LEMMA SkillsOnly ==
  ASSUME Handlers, Alone, KnowledgeInv, NEW r \in Requests, NEW p, NEW t,
         pc[r] \in {"skill:insert", "skill:update"}, GotoWith(r, p, t), p = "idle",
         UNCHANGED <<md, doc, meta, kept, unsaved>>,
         skill' \in [SkillIds -> SkillRows \cup {None}],
         \A i \in SkillIds : skill[i] # None => skill'[i] # None,
         \A i, j \in SkillIds :
           /\ skill'[i] # None /\ skill'[i].live /\ skill'[j] # None /\ skill'[j].live
           /\ skill'[i].name = skill'[j].name
           => i = j
  PROVE  KnowledgeInv'
<1>1. (KnowledgeRows /\ KeptBooks)'
  BY DEF KnowledgeInv, KnowledgeRows, KeptBooks
<1>2. KnowledgeTask(p, t)' /\ WikiTask(p, t)' /\ pc[r] # "idle"
  BY DEF KnowledgeTask, WikiTask, Listing, Editing
<1>3. ASSUME ~overlapped PROVE \A s \in Slugs : SlugFine(s)'
  <2>1. \A q \in Requests : q # r => pc[q] = "idle"
    BY <1>2, <1>3 DEF Alone, Idle
  <2>2. \A s \in Slugs : SlugFine(s)
    BY <1>3, <2>1 DEF KnowledgeInv, WikiSerial, Midway
  <2>3. workload' = workload
    BY DEF GotoWith, control
  <2>. QED  BY <2>2, <2>3 DEF SlugFine
<1>. QED  BY <1>1, <1>2, <1>3, KnowledgeGoes

LEMMA SkillInsertKeeps ==
  ASSUME Handlers, Alone, KnowledgeInv, NEW r \in Requests, SkillInsert(r)
  PROVE  KnowledgeInv'
<1>1. PICK t : t = task[r]
  OBVIOUS
<1>2. /\ pc[r] = "skill:insert" /\ GotoWith(r, "idle", None)
      /\ UNCHANGED <<md, doc, meta, kept, unsaved>>
      /\ \/ UNCHANGED skill
         \/ /\ SkillNamed(t.name) = {}
            /\ \E i \in FreeId(skill) : skill' = [skill EXCEPT ![i] = SkillRow(t.name, t.text)]
  BY <1>1 DEF SkillInsert, At, Return
<1>3. KnowledgeTask("skill:insert", t) /\ KnowledgeRows /\ KeptBooks
  BY <1>1, <1>2 DEF KnowledgeInv
<1>4. skill \in [SkillIds -> SkillRows \cup {None}] /\ t.name \in SkillNames /\ t.text \in Nat
  BY <1>3 DEF KnowledgeTask, KnowledgeRows
<1>5. CASE UNCHANGED skill
  BY <1>2, <1>3, <1>4, <1>5, SkillsOnly DEF KeptBooks
<1>6. ASSUME NEW i \in FreeId(skill), SkillNamed(t.name) = {},
             skill' = [skill EXCEPT ![i] = SkillRow(t.name, t.text)]
      PROVE  KnowledgeInv'
  <2>1. i \in SkillIds /\ skill[i] = None
    BY <1>4, FreeIdIsFree
  <2>2. PICK row : row = SkillRow(t.name, t.text)
    OBVIOUS
  <2>3. row \in SkillRows /\ row # None /\ row.name = t.name
    <3>1. row \in SkillRows /\ row.name = t.name
      BY <1>4, <2>2 DEF SkillRow, SkillRows
    <3>. QED  BY <3>1, NoneIsNoRow
  <2>4. /\ skill' \in [SkillIds -> SkillRows \cup {None}]
        /\ skill'[i] = row /\ \A j \in SkillIds : j # i => skill'[j] = skill[j]
    BY <1>4, <1>6, <2>1, <2>2, <2>3
  <2>5. \A j \in SkillIds : skill[j] # None /\ skill[j].live => skill[j].name # t.name
    BY <1>6 DEF SkillNamed
  <2>6. ASSUME NEW j \in SkillIds, NEW k \in SkillIds,
               skill'[j] # None, skill'[j].live, skill'[k] # None, skill'[k].live,
               skill'[j].name = skill'[k].name
        PROVE  j = k
    BY <1>3, <2>3, <2>4, <2>5, <2>6 DEF KeptBooks
  <2>7. \A j \in SkillIds : skill[j] # None => skill'[j] # None
    BY <2>1, <2>4
  <2>. QED  BY <1>2, <2>4, <2>6, <2>7, SkillsOnly
<1>. QED  BY <1>2, <1>5, <1>6

\* Rows whose text is written keep the name, and whether they are live.
LEMMA TextsWritten ==
  ASSUME KnowledgeInv, NEW new \in [SkillIds -> SkillRows \cup {None}],
         \A i \in SkillIds :
           /\ new[i] # None <=> skill[i] # None
           /\ skill[i] # None => new[i].name = skill[i].name /\ (new[i].live => skill[i].live)
  PROVE  /\ \A i \in SkillIds : skill[i] # None => new[i] # None
         /\ \A i, j \in SkillIds :
              /\ new[i] # None /\ new[i].live /\ new[j] # None /\ new[j].live
              /\ new[i].name = new[j].name
              => i = j
BY DEF KnowledgeInv, KeptBooks

LEMMA SkillUpdateKeeps ==
  ASSUME Handlers, Alone, KnowledgeInv, NEW r \in Requests, SkillUpdate(r)
  PROVE  KnowledgeInv'
<1>1. PICK t : t = task[r]
  OBVIOUS
<1>2. /\ pc[r] = "skill:update" /\ GotoWith(r, "idle", None)
      /\ UNCHANGED <<md, doc, meta, kept, unsaved>>
      /\ skill' = [i \in SkillIds |->
           IF i \in t.ids /\ skill[i].live THEN [skill[i] EXCEPT !.text = t.text] ELSE skill[i]]
  BY <1>1 DEF SkillUpdate, At, Return
<1>3. KnowledgeTask("skill:update", t) /\ KnowledgeRows
  BY <1>1, <1>2 DEF KnowledgeInv
<1>4. /\ skill \in [SkillIds -> SkillRows \cup {None}] /\ t.text \in Nat
      /\ \A i \in SkillIds : i \in t.ids => skill[i] # None
  BY <1>3 DEF KnowledgeTask, KnowledgeRows
<1>5. ASSUME NEW i \in SkillIds
      PROVE  /\ skill'[i] \in SkillRows \cup {None} /\ (skill'[i] # None <=> skill[i] # None)
             /\ skill[i] # None =>
                  skill'[i].name = skill[i].name /\ (skill'[i].live => skill[i].live)
  <2>1. CASE i \in t.ids /\ skill[i].live
    <3>1. skill[i] \in SkillRows /\ skill'[i] = [skill[i] EXCEPT !.text = t.text]
      BY <1>2, <1>4, <2>1
    <3>2. /\ skill'[i] \in SkillRows
          /\ skill'[i].name = skill[i].name /\ skill'[i].live = skill[i].live
      BY <1>4, <3>1 DEF SkillRows
    <3>. QED  BY <3>1, <3>2, NoneIsNoRow
  <2>2. CASE ~(i \in t.ids /\ skill[i].live)
    <3>1. skill'[i] = skill[i]
      BY <1>2, <2>2
    <3>. QED  BY <1>4, <3>1
  <2>. QED  BY <2>1, <2>2
<1>6. skill' \in [SkillIds -> SkillRows \cup {None}]
  BY <1>2, <1>5
<1>7. /\ \A i \in SkillIds : skill[i] # None => skill'[i] # None
      /\ \A i, j \in SkillIds :
           /\ skill'[i] # None /\ skill'[i].live /\ skill'[j] # None /\ skill'[j].live
           /\ skill'[i].name = skill'[j].name
           => i = j
  BY <1>5, <1>6, TextsWritten
<1>. QED  BY <1>2, <1>6, <1>7, SkillsOnly

LEMMA AdminSkillKeeps ==
  ASSUME KnowledgeInv, Alone', AdminUpdateSkill \/ AdminDeleteSkill
  PROVE  KnowledgeInv'
<1>1. PICK kind : \E i \in SkillIds :
        /\ AnswerAtOnce(kind) /\ skill[i] # None
        /\ \/ skill' = [skill EXCEPT ![i].text = served']
           \/ skill' = [skill EXCEPT ![i].live = FALSE]
  <2>1. CASE AdminUpdateSkill
    <3>1. PICK i \in SkillIds : /\ AnswerAtOnce("AdminUpdateSkill") /\ skill[i] # None
                               /\ skill' = [skill EXCEPT ![i].text = served']
      BY <2>1 DEF AdminUpdateSkill
    <3>. QED  BY <3>1
  <2>2. CASE AdminDeleteSkill
    <3>1. PICK i \in SkillIds : /\ AnswerAtOnce("AdminDeleteSkill") /\ skill[i] # None
                               /\ skill' = [skill EXCEPT ![i].live = FALSE]
      BY <2>2 DEF AdminDeleteSkill
    <3>. QED  BY <3>1
  <2>. QED  BY <2>1, <2>2
<1>0. PICK i \in SkillIds :
        /\ AnswerAtOnce(kind) /\ skill[i] # None
        /\ \/ skill' = [skill EXCEPT ![i].text = served']
           \/ skill' = [skill EXCEPT ![i].live = FALSE]
  BY <1>1
<1>2. UNCHANGED <<md, doc, meta, kept, unsaved>>
  BY DEF AdminUpdateSkill, AdminDeleteSkill
<1>3. skill \in [SkillIds -> SkillRows \cup {None}] /\ served' \in Nat
  BY DEF KnowledgeInv, KnowledgeRows, Alone
<1>4. PICK row : /\ skill' = [skill EXCEPT ![i] = row]
                 /\ \/ row = [skill[i] EXCEPT !.text = served']
                    \/ row = [skill[i] EXCEPT !.live = FALSE]
  BY <1>0, <1>3
<1>5. skill[i] \in SkillRows
  BY <1>0, <1>3
<1>6. row \in SkillRows /\ row # None /\ row.name = skill[i].name /\ (row.live => skill[i].live)
  BY <1>3, <1>4, <1>5, NoneIsNoRow DEF SkillRows
<1>7. /\ skill' \in [SkillIds -> SkillRows \cup {None}]
      /\ skill'[i] = row /\ \A j \in SkillIds : j # i => skill'[j] = skill[j]
  BY <1>3, <1>4, <1>6
<1>8. \A j \in SkillIds :
        /\ skill'[j] # None <=> skill[j] # None
        /\ skill[j] # None => skill'[j].name = skill[j].name /\ (skill'[j].live => skill[j].live)
  BY <1>0, <1>6, <1>7
<1>9. /\ \A j \in SkillIds : skill[j] # None => skill'[j] # None
      /\ \A j, k \in SkillIds :
           /\ skill'[j] # None /\ skill'[j].live /\ skill'[k] # None /\ skill'[k].live
           /\ skill'[j].name = skill'[k].name
           => j = k
  BY <1>7, <1>8, TextsWritten
<1>10. (KnowledgeRows /\ KeptBooks)'
  BY <1>2, <1>7, <1>9 DEF KnowledgeInv, KnowledgeRows, KeptBooks
<1>11. kind \in workload => \A s \in Slugs : SlugFine(s) => SlugFine(s)'
  BY <1>0, <1>2 DEF SlugFine, AnswerAtOnce, Arrives
<1>. QED  BY <1>0, <1>9, <1>10, <1>11, KnowledgeAnswers

LEMMA AdminCreateSkillKeeps ==
  ASSUME Handlers, Alone, Alone', KnowledgeInv, NEW r \in Requests, AdminCreateSkill(r)
  PROVE  KnowledgeInv'
<1>1. PICK name \in SkillNames :
        Receive(r, "AdminCreateSkill",
                IF SkillNamed(name) = {} THEN "skill:insert" ELSE "skill:update",
                [name |-> name, ids |-> SkillNamed(name), text |-> served'])
  BY DEF AdminCreateSkill
<1>2. PICK p, ids, text : /\ p = (IF SkillNamed(name) = {} THEN "skill:insert" ELSE "skill:update")
                          /\ ids = SkillNamed(name) /\ text = served'
  OBVIOUS
<1>3. PICK t : t = [name |-> name, ids |-> ids, text |-> text]
  OBVIOUS
<1>4. Receive(r, "AdminCreateSkill", p, t) /\ UNCHANGED knowledge
  BY <1>1, <1>2, <1>3 DEF AdminCreateSkill
<1>5. /\ text \in Nat /\ p \in {"skill:insert", "skill:update"}
      /\ \A i \in SkillIds : i \in ids => skill[i] # None
  BY <1>2 DEF Alone, SkillNamed
<1>6. KnowledgeTask(p, t)
  BY <1>3, <1>5 DEF KnowledgeTask, Listing, Editing
<1>7. WikiTask(p, t) /\ \A s : ~Midway(p, t, s)
  BY <1>5 DEF WikiTask, Editing, Midway
<1>. QED  BY <1>4, <1>6, <1>7, KnowledgeReceives

\* The index that is made from the files.
LEMMA IndexOfFiles ==
  ASSUME NEW volume \in [Slugs -> MdRows \cup {None}]
  PROVE  /\ DocsOf(volume) \in [Slugs -> Seq([title : Nat, body : Nat])]
         /\ MetasOf(volume) \in [Slugs -> MetaRows \cup {None}]
         /\ \A s \in Slugs :
              /\ Len(DocsOf(volume)[s]) <= 1
              /\ volume[s] = None => DocsOf(volume)[s] = <<>> /\ MetasOf(volume)[s] = None
              /\ volume[s] # None =>
                   /\ DocsOf(volume)[s] # <<>> /\ MetasOf(volume)[s] # None
                   /\ DocsOf(volume)[s][1].title = MetasOf(volume)[s].title
                   /\ DocsOf(volume)[s][1].body = volume[s].body
<1>1. ASSUME NEW s \in Slugs, volume[s] = None
      PROVE  DocsOf(volume)[s] = <<>> /\ MetasOf(volume)[s] = None
  BY <1>1 DEF DocsOf, MetasOf
<1>2. ASSUME NEW s \in Slugs, volume[s] # None
      PROVE  /\ DocsOf(volume)[s] \in Seq([title : Nat, body : Nat])
             /\ Len(DocsOf(volume)[s]) = 1 /\ DocsOf(volume)[s] # <<>>
             /\ MetasOf(volume)[s] \in MetaRows /\ MetasOf(volume)[s] # None
             /\ DocsOf(volume)[s][1].title = MetasOf(volume)[s].title
             /\ DocsOf(volume)[s][1].body = volume[s].body
  <2>1. PICK f : f = volume[s]
    OBVIOUS
  <2>2. f \in MdRows
    BY <1>2, <2>1
  <2>3. PICK d, m : d = DocOf(f) /\ m = MetaOf(f)
    OBVIOUS
  <2>4. /\ d \in [title : Nat, body : Nat] /\ d.title = f.title /\ d.body = f.body
        /\ m \in MetaRows /\ m.title = f.title
    BY <2>2, <2>3 DEF DocOf, MetaOf, DocRow, MetaRow, MdRows, MetaRows
  <2>5. DocsOf(volume)[s] = <<d>> /\ MetasOf(volume)[s] = m
    BY <1>2, <2>1, <2>3 DEF DocsOf, MetasOf
  <2>6. m # None
    BY <2>4, NoneIsNoRow
  <2>7. /\ <<d>> \in Seq([title : Nat, body : Nat]) /\ Len(<<d>>) = 1
        /\ <<d>> # <<>> /\ <<d>>[1] = d
    BY <2>4
  <2>. QED  BY <2>1, <2>4, <2>5, <2>6, <2>7
<1>3. /\ DOMAIN DocsOf(volume) = Slugs /\ DOMAIN MetasOf(volume) = Slugs
      /\ DocsOf(volume) = [s \in Slugs |-> DocsOf(volume)[s]]
      /\ MetasOf(volume) = [s \in Slugs |-> MetasOf(volume)[s]]
  BY DEF DocsOf, MetasOf
<1>4. \A s \in Slugs : Len(DocsOf(volume)[s]) <= 1
  <2>1. ASSUME NEW s \in Slugs PROVE Len(DocsOf(volume)[s]) <= 1
    <3>1. CASE volume[s] = None
      <4>1. DocsOf(volume)[s] = <<>> /\ Len(<<>>) = 0
        BY <1>1, <3>1
      <4>. QED  BY <4>1
    <3>2. CASE volume[s] # None
      <4>1. Len(DocsOf(volume)[s]) = 1
        BY <1>2, <3>2
      <4>. QED  BY <4>1
    <3>. QED  BY <3>1, <3>2
  <2>. QED  BY <2>1
<1>5. ASSUME NEW s \in Slugs
      PROVE  /\ DocsOf(volume)[s] \in Seq([title : Nat, body : Nat])
             /\ MetasOf(volume)[s] \in MetaRows \cup {None}
  <2>1. CASE volume[s] = None
    <3>1. <<>> \in Seq([title : Nat, body : Nat])
      OBVIOUS
    <3>. QED  BY <1>1, <2>1, <3>1
  <2>2. CASE volume[s] # None
    BY <1>2, <2>2
  <2>. QED  BY <2>1, <2>2
<1>. QED  BY <1>1, <1>2, <1>3, <1>4, <1>5

LEMMA SeededFiles ==
  ASSUME NEW volume \in [Slugs -> MdRows \cup {None}]
  PROVE  /\ Seeded(volume) \in [Slugs -> MdRows \cup {None}]
         /\ \A s \in Slugs :
              \/ Seeded(volume)[s] = volume[s]
              \/ volume[s] = None /\ Seeded(volume)[s] # None /\ Seeded(volume)[s].body = 0
<1>1. ImageFile \in MdRows /\ ImageFile.body = 0 /\ ImageFile # None
  <2>1. ImageFile \in MdRows /\ ImageFile.body = 0
    BY DEF ImageFile, MdRow, MdRows
  <2>. QED  BY <2>1, NoneIsNoRow
<1>. QED  BY <1>1 DEF Seeded

\* The skills of the image come back under free ids, unless somebody has made their like.
LEMMA SeedsKeep ==
  ASSUME KnowledgeInv
  PROVE  /\ SkillSeeds \in [SkillIds -> SkillRows \cup {None}]
         /\ \A i, j \in SkillIds :
              /\ SkillSeeds[i] # None /\ SkillSeeds[i].live
              /\ SkillSeeds[j] # None /\ SkillSeeds[j].live
              /\ SkillSeeds[i].name = SkillSeeds[j].name
              => i = j
<1>1. PICK B, F : B = {b \in BuiltIn : SkillNamed(b) = {}} /\ F = {i \in SkillIds : skill[i] = None}
  OBVIOUS
<1>2. IsFiniteSet(B) /\ IsFiniteSet(F) /\ B \subseteq SkillNames
  BY <1>1, KnowledgeAssumption, FS_Subset
<1>3. PICK missing, free : missing = SetToSeq(B) /\ free = SetToSeq(F)
  OBVIOUS
<1>4. PICK b, f : b = Cardinality(B) /\ f = Cardinality(F)
  OBVIOUS
<1>5. /\ b \in Nat /\ missing \in [1 .. b -> B]
      /\ \A m, n \in 1 .. b : missing[m] = missing[n] => m = n
      /\ f \in Nat /\ free \in [1 .. f -> F]
      /\ \A m, n \in 1 .. f : free[m] = free[n] => m = n
  BY <1>2, <1>3, <1>4, SetToSeqIs
<1>6. DOMAIN missing = 1 .. b /\ DOMAIN free = 1 .. f
  BY <1>5
<1> DEFINE new == SkillSeeds
<1>7. new = [i \in SkillIds |->
         IF \E n \in DOMAIN missing \cap DOMAIN free : free[n] = i
           THEN SkillRow(missing[CHOOSE n \in DOMAIN free : free[n] = i], 0)
           ELSE Refreshed(skill[i])]
  BY <1>1, <1>3 DEF SkillSeeds
<1>8. ASSUME NEW i \in SkillIds
      PROVE  \/ \E n \in 1 .. b : /\ n \in 1 .. f /\ free[n] = i
                                  /\ new[i] = SkillRow(missing[n], 0)
             \/ new[i] = Refreshed(skill[i])
  <2>1. CASE \E n \in DOMAIN missing \cap DOMAIN free : free[n] = i
    <3>1. PICK n \in 1 .. b : n \in 1 .. f /\ free[n] = i
      BY <1>6, <2>1
    <3>2. PICK m : m = CHOOSE x \in DOMAIN free : free[x] = i
      OBVIOUS
    <3>3. m \in DOMAIN free /\ free[m] = i
      BY <1>6, <3>1, <3>2
    <3>4. m = n
      BY <1>5, <1>6, <3>1, <3>3
    <3>5. new[i] = SkillRow(missing[m], 0)
      BY <1>7, <2>1, <3>2
    <3>. QED  BY <3>1, <3>4, <3>5
  <2>2. CASE ~\E n \in DOMAIN missing \cap DOMAIN free : free[n] = i
    BY <1>7, <2>2
  <2>. QED  BY <2>1, <2>2
<1>9. skill \in [SkillIds -> SkillRows \cup {None}]
  BY DEF KnowledgeInv, KnowledgeRows
<1>10. ASSUME NEW i \in SkillIds
       PROVE  /\ Refreshed(skill[i]) \in SkillRows \cup {None}
              /\ Refreshed(skill[i]) # None /\ Refreshed(skill[i]).live =>
                   /\ skill[i] # None /\ skill[i].live
                   /\ Refreshed(skill[i]).name = skill[i].name
  <2>1. CASE skill[i] # None /\ skill[i].live /\ skill[i].name \in BuiltIn
    <3>1. skill[i] \in SkillRows /\ Refreshed(skill[i]) = [skill[i] EXCEPT !.text = 0]
      BY <1>9, <2>1 DEF Refreshed
    <3>. QED  BY <2>1, <3>1 DEF SkillRows
  <2>2. CASE ~(skill[i] # None /\ skill[i].live /\ skill[i].name \in BuiltIn)
    <3>1. Refreshed(skill[i]) = skill[i]
      BY <2>2 DEF Refreshed
    <3>. QED  BY <1>9, <3>1
  <2>. QED  BY <2>1, <2>2
<1>11. ASSUME NEW n \in 1 .. b
       PROVE  /\ SkillRow(missing[n], 0) \in SkillRows
              /\ SkillRow(missing[n], 0).name = missing[n]
              /\ \A j \in SkillIds : skill[j] # None /\ skill[j].live => skill[j].name # missing[n]
  <2>1. missing[n] \in B /\ missing[n] \in SkillNames
    BY <1>2, <1>5
  <2>. QED  BY <1>1, <2>1 DEF SkillRow, SkillRows, SkillNamed
<1>12. new \in [SkillIds -> SkillRows \cup {None}]
  <2>1. \A i \in SkillIds : new[i] \in SkillRows \cup {None}
    BY <1>8, <1>10, <1>11
  <2>2. new = [i \in SkillIds |-> new[i]]
    BY <1>7
  <2> HIDE DEF new
  <2>. QED  BY <2>1, <2>2
<1> HIDE DEF new
<1>13. ASSUME NEW i \in SkillIds, NEW j \in SkillIds,
              new[i] # None, new[i].live, new[j] # None, new[j].live,
              new[i].name = new[j].name
       PROVE  i = j
  <2>1. CASE new[i] = Refreshed(skill[i]) /\ new[j] = Refreshed(skill[j])
    BY <1>10, <1>13, <2>1 DEF KnowledgeInv, KeptBooks
  <2>2. ASSUME NEW n \in 1 .. b, free[n] = i, n \in 1 .. f, new[i] = SkillRow(missing[n], 0)
        PROVE  i = j
    <3>1. CASE new[j] = Refreshed(skill[j])
      BY <1>10, <1>11, <1>13, <2>2, <3>1
    <3>2. ASSUME NEW m \in 1 .. b, free[m] = j, new[j] = SkillRow(missing[m], 0)
          PROVE  i = j
      BY <1>5, <1>11, <1>13, <2>2, <3>2
    <3>. QED  BY <1>8, <3>1, <3>2
  <2>3. ASSUME NEW n \in 1 .. b, free[n] = j, new[j] = SkillRow(missing[n], 0),
               new[i] = Refreshed(skill[i])
        PROVE  i = j
    BY <1>10, <1>11, <1>13, <2>3
  <2>. QED  BY <1>8, <2>1, <2>2, <2>3
<1>. QED  BY <1>12, <1>13 DEF new

LEMMA KnowledgeInvInit == Init => KnowledgeInv
<1> SUFFICES ASSUME Init PROVE KnowledgeInv
  OBVIOUS
<1>1. PICK volume : volume = Seeded(StartFiles)
  OBVIOUS
<1>2. /\ md = volume /\ doc = DocsOf(volume) /\ meta = MetasOf(volume)
      /\ kept = [s \in Slugs |-> IF md[s] = None THEN 0 ELSE md[s].body]
      /\ skill = [i \in SkillIds |->
           IF i <= Cardinality(BuiltIn) THEN SkillRow(SetToSeq(BuiltIn)[i], 0) ELSE None]
  BY <1>1 DEF Init, KnowledgeInit
<1>3. volume \in [Slugs -> MdRows \cup {None}]
  BY <1>1, SeededFiles, KnowledgeAssumption
<1>4. PICK b, q : b = Cardinality(BuiltIn) /\ q = SetToSeq(BuiltIn)
  OBVIOUS
<1>5. /\ b \in Nat /\ q \in [1 .. b -> BuiltIn] /\ BuiltIn \subseteq SkillNames
      /\ \A m, n \in 1 .. b : q[m] = q[n] => m = n
  BY <1>4, SetToSeqIs, KnowledgeAssumption
<1>6. ASSUME NEW i \in SkillIds
      PROVE  \/ skill[i] = None
             \/ i \in 1 .. b /\ skill[i] \in SkillRows /\ skill[i].name = q[i]
  <2>1. i \in Nat /\ i # 0
    BY KnowledgeAssumption
  <2>2. CASE i <= b
    <3>1. i \in 1 .. b /\ skill[i] = SkillRow(q[i], 0)
      BY <1>2, <1>4, <1>5, <2>1, <2>2
    <3>2. q[i] \in SkillNames
      BY <1>5, <3>1
    <3>. QED  BY <3>1, <3>2 DEF SkillRow, SkillRows
  <2>3. CASE ~(i <= b)
    BY <1>2, <1>4, <2>3
  <2>. QED  BY <2>2, <2>3
<1>7. skill \in [SkillIds -> SkillRows \cup {None}]
  <2>1. skill = [i \in SkillIds |-> skill[i]]
    BY <1>2
  <2>. QED  BY <1>6, <2>1
<1>8. \A i, j \in SkillIds :
        /\ skill[i] # None /\ skill[i].live /\ skill[j] # None /\ skill[j].live
        /\ skill[i].name = skill[j].name
        => i = j
  BY <1>5, <1>6
<1>9. kept \in [Slugs -> Nat]
  <2>1. \A s \in Slugs : (IF md[s] = None THEN 0 ELSE md[s].body) \in Nat
    BY <1>2, <1>3 DEF MdRows
  <2>. QED  BY <1>2, <2>1
<1>10. KnowledgeRows /\ KeptBooks
  <2>1. \A s \in Slugs : Len(doc[s]) <= 1 /\ kept[s] = IF md[s] = None THEN 0 ELSE md[s].body
    BY <1>2, <1>3, IndexOfFiles
  <2>. QED  BY <1>2, <1>3, <1>7, <1>8, <1>9, <2>1, IndexOfFiles DEF KnowledgeRows, KeptBooks
<1>11. \A r \in Requests : pc[r] = "idle"
  BY DEF Init, ServerInit
<1>12. \A r \in Requests : KnowledgeTask(pc[r], task[r]) /\ WikiTask(pc[r], task[r])
  BY <1>11 DEF KnowledgeTask, WikiTask, Listing, Editing
<1>13. \A s \in Slugs : SlugFine(s)
  BY <1>2, <1>3, IndexOfFiles DEF SlugFine
<1>. QED  BY <1>10, <1>12, <1>13 DEF KnowledgeInv, WikiSerial

LEMMA KnowledgeRestarts ==
  ASSUME KnowledgeInv, Restart
  PROVE  KnowledgeInv'
<1>1. /\ md' = Seeded(md) /\ meta' = MetasOf(md') /\ skill' = SkillSeeds
      /\ doc' = [s \in Slugs |->
           IF md'[s] = None /\ meta[s] = None THEN doc[s] ELSE DocsOf(md')[s]]
      /\ UNCHANGED kept /\ pc' = [r \in Requests |-> "idle"]
      /\ overlapped' = overlapped /\ workload' = workload
  BY DEF Restart, KnowledgeRestart, ServerRestart
<1>2. KnowledgeRows /\ KeptBooks
  BY DEF KnowledgeInv
<1>3. PICK volume : volume = md'
  OBVIOUS
<1>4. /\ volume \in [Slugs -> MdRows \cup {None}]
      /\ \A s \in Slugs : \/ volume[s] = md[s]
                          \/ md[s] = None /\ volume[s] # None /\ volume[s].body = 0
  BY <1>1, <1>2, <1>3, SeededFiles DEF KnowledgeRows
<1>5. /\ DocsOf(volume) \in [Slugs -> Seq([title : Nat, body : Nat])]
      /\ meta' \in [Slugs -> MetaRows \cup {None}]
      /\ \A s \in Slugs :
           /\ Len(DocsOf(volume)[s]) <= 1
           /\ volume[s] = None => DocsOf(volume)[s] = <<>> /\ meta'[s] = None
           /\ volume[s] # None =>
                /\ DocsOf(volume)[s] # <<>> /\ meta'[s] # None
                /\ DocsOf(volume)[s][1].title = meta'[s].title
                /\ DocsOf(volume)[s][1].body = volume[s].body
  BY <1>1, <1>3, <1>4, IndexOfFiles
<1>6. ASSUME NEW s \in Slugs
      PROVE  \/ doc'[s] = doc[s] /\ volume[s] = None /\ meta[s] = None
             \/ doc'[s] = DocsOf(volume)[s] /\ ~(volume[s] = None /\ meta[s] = None)
  BY <1>1, <1>3
<1>7. doc \in [Slugs -> Seq([title : Nat, body : Nat])] /\ \A s \in Slugs : Len(doc[s]) <= 1
  BY <1>2 DEF KnowledgeRows, KeptBooks
<1>8. doc' \in [Slugs -> Seq([title : Nat, body : Nat])] /\ \A s \in Slugs : Len(doc'[s]) <= 1
  <2>1. doc' = [s \in Slugs |-> doc'[s]]
    BY <1>1
  <2>2. ASSUME NEW s \in Slugs
        PROVE  doc'[s] \in Seq([title : Nat, body : Nat]) /\ Len(doc'[s]) <= 1
    BY <1>5, <1>6, <1>7
  <2>. QED  BY <2>1, <2>2
<1>9. (KnowledgeRows /\ KeptBooks)'
  <2>1. \A s \in Slugs : kept'[s] = IF md'[s] = None THEN 0 ELSE md'[s].body
    BY <1>1, <1>2, <1>3, <1>4 DEF KeptBooks
  <2>2. kept' \in [Slugs -> Nat]
    BY <1>1, <1>2 DEF KeptBooks
  <2>3. /\ skill' \in [SkillIds -> SkillRows \cup {None}]
        /\ \A i, j \in SkillIds :
             /\ skill'[i] # None /\ skill'[i].live /\ skill'[j] # None /\ skill'[j].live
             /\ skill'[i].name = skill'[j].name
             => i = j
    BY <1>1, SeedsKeep
  <2>. QED  BY <1>3, <1>4, <1>5, <1>8, <2>1, <2>2, <2>3 DEF KnowledgeRows, KeptBooks
<1>10. ASSUME NEW r \in Requests PROVE (KnowledgeTask(pc[r], task[r]) /\ WikiTask(pc[r], task[r]))'
  BY <1>1 DEF KnowledgeTask, WikiTask, Listing, Editing
<1>11. ASSUME ~overlapped, NEW s \in Slugs PROVE SlugFine(s)'
  <2>1. CASE volume[s] # None
    BY <1>3, <1>5, <1>6, <2>1 DEF SlugFine
  <2>2. CASE volume[s] = None
    <3>1. md[s] = None /\ meta'[s] = None
      BY <1>4, <1>5, <2>2
    <3>2. ASSUME meta[s] = None PROVE doc[s] = <<>>
      <4>1. CASE \A r \in Requests : ~Midway(pc[r], task[r], s)
        BY <1>11, <3>2, <4>1 DEF KnowledgeInv, WikiSerial, SlugFine
      <4>2. ASSUME NEW r \in Requests, Midway(pc[r], task[r], s) PROVE doc[s] = <<>>
        <5>1. /\ WikiTask(pc[r], task[r]) /\ KnowledgeTask(pc[r], task[r]) /\ task[r].slug = s
              /\ pc[r] \in {"wiki:meta", "wiki:unmeta", "edit:meta", "edit:file"}
          BY <1>11, <4>2 DEF KnowledgeInv, WikiSerial, Midway
        <5>2. CASE pc[r] = "wiki:meta"
          <6>1. md[s] = task[r].file /\ task[r].file \in MdRows
            BY <5>1, <5>2 DEF WikiTask, KnowledgeTask
          <6>. QED  BY <3>1, <6>1, NoneIsNoRow
        <5>3. CASE pc[r] = "wiki:unmeta"
          BY <5>1, <5>3 DEF WikiTask
        <5>4. CASE pc[r] \in {"edit:meta", "edit:file"}
          BY <3>2, <5>1, <5>4 DEF WikiTask, Editing
        <5>. QED  BY <5>1, <5>2, <5>3, <5>4
      <4>. QED  BY <4>1, <4>2
    <3>3. doc'[s] = <<>>
      BY <1>5, <1>6, <2>2, <3>2
    <3>. QED  BY <1>3, <2>2, <3>1, <3>3 DEF SlugFine
  <2>. QED  BY <2>1, <2>2
<1>. QED  BY <1>1, <1>9, <1>10, <1>11 DEF KnowledgeInv, WikiSerial

LEMMA KnowledgeInvStep ==
  ASSUME Handlers, Alone, Alone', KnowledgeInv, workload' = workload, overlapped => overlapped',
         [Next]_vars
  PROVE  KnowledgeInv'
<1>1. CASE UNCHANGED knowledge /\ Away(KnowledgeLabels)
  BY <1>1, KnowledgeStays
<1>2. CASE Restart
  BY <1>2, KnowledgeRestarts
<1>3. CASE OperatorRemoves
  BY <1>3, OperatorRemovesKeeps
<1>4. ASSUME NEW r \in Requests,
             \/ KnowledgeStep(r)
             \/ ReindexRequest(r) \/ WikiRequest(r) \/ NotionRequest(r) \/ SkillRequest(r)
      PROVE  KnowledgeInv'
  <2>1. CASE KnowledgeStep(r)
    BY <2>1, WikiLoadKeeps, WikiDocKeeps, WikiMetaKeeps, WikiUndocKeeps, WikiUnmetaKeeps,
       EditDocKeeps, EditMetaKeeps, EditFileKeeps, NotionFindKeeps, NotionFetchedKeeps,
       SkillInsertKeeps, SkillUpdateKeeps DEF KnowledgeStep
  <2>2. CASE ReindexRequest(r) \/ WikiRequest(r) \/ NotionRequest(r)
    BY <2>2, ReindexKeeps, UpdateWikiDocKeeps, NotionSyncKeeps DEF ReindexRequest, WikiRequest
  <2>3. CASE SkillRequest(r)
    BY <2>3, AdminSkillKeeps, AdminCreateSkillKeeps DEF SkillRequest
  <2>. QED  BY <1>4, <2>1, <2>2, <2>3
<1>5. KnowledgeNext \/ Restart \/ (UNCHANGED knowledge /\ Away(KnowledgeLabels))
  BY KnowledgeFrame
<1>. QED  BY <1>1, <1>2, <1>3, <1>4, <1>5, Zenon DEF KnowledgeNext

LEMMA KnowledgeInvFollows ==
  ASSUME KnowledgeInv
  PROVE  WikiFollowsFiles
<1>1. \A s \in Slugs : Len(doc[s]) <= 1 /\ (md[s] # None => md[s].body = kept[s])
  BY DEF KnowledgeInv, KeptBooks
<1>2. ASSUME NEW n \in SkillNames PROVE Cardinality(SkillNamed(n)) <= 1
  <2>1. CASE SkillNamed(n) = {}
    BY <2>1, FS_EmptySet
  <2>2. CASE SkillNamed(n) # {}
    <3>1. PICK i : i \in SkillNamed(n)
      BY <2>2
    <3>2. SkillNamed(n) = {i}
      BY <3>1 DEF SkillNamed, KnowledgeInv, KeptBooks
    <3>3. Cardinality({i}) = 1
      BY FS_Singleton
    <3>. QED  BY <3>2, <3>3
  <2>. QED  BY <2>1, <2>2
<1>3. ASSUME OneByOne /\ AllIdle PROVE \A s \in Slugs : SlugFine(s)
  BY <1>3 DEF OneByOne, AllIdle, Idle, KnowledgeInv, WikiSerial, Midway
<1>. QED  BY <1>1, <1>2, <1>3 DEF WikiFollowsFiles, SlugFine

\* What was written to a file of the wiki survives indexing and restarts, a document is
\* found once and a skill has one row, in any interleaving; one at a time, when nobody is
\* busy, a document is in both tables or in none, with one title, and the index has the
\* text of the file, unless the file is gone or was saved when the index could not be
\* (Reindex, UpdateWikiDoc, NotionSync and the skills' upsert).
THEOREM WikiAlwaysFollowsFiles == Spec => []WikiFollowsFiles
<1> DEFINE Inv == Handlers /\ Alone /\ KnowledgeInv
<1>1. Init => Inv
  BY HandlersInit, AloneInit, KnowledgeInvInit
<1>2. Inv /\ [Next]_vars => Inv'
  BY HandlersStep, AloneStep, KnowledgeInvStep
<1>3. Inv => WikiFollowsFiles
  BY KnowledgeInvFollows
<1>. QED  BY <1>1, <1>2, <1>3, PTL DEF Spec

-----------------------------------------------------------------------------
(* Services and analytics *)

\* A row that says nothing of the address, the site or the access that is not so.
RowFollows(s, row) ==
  /\ row.validation # "unvalidated" => row.checked = row.url
  /\ row.status = "connected" => row.hasSite /\ site[s] = row.url
  /\ row.hasSite => <<OwnerOf[row.firm], s>> \in access

SitesOf(f) == {s \in ServicesOf(f) : service[s].hasSite}

Groups == [firm : Firms, service : ServiceIds, url : Urls, ids : SUBSET ServiceIds]

\* A company's sites, as they are on record.
GroupOK(g) ==
  /\ g.ids = SitesOf(g.firm) /\ g.service \in g.ids /\ g.url = service[g.service].url

Connecting == {"connect:list", "connect:provision", "connect:write"}

\* What a handler that is alone knows of the service it deals with.
ServicesTask(p, t) ==
  /\ p = "service:write" =>
       t.service \in ServiceIds /\ t.row \in ServiceRows /\ RowFollows(t.service, t.row)
  /\ p = "service:check" =>
       /\ t.service \in ServiceIds /\ t.url \in Urls
       /\ LiveService(t.service) => service[t.service].url = t.url
  /\ p \in Connecting =>
       /\ {"user", "service", "url", "firm"} \subseteq DOMAIN t
       /\ t.service \in ServiceIds /\ t.firm \in Firms /\ LiveService(t.service)
       /\ service[t.service].firm = t.firm /\ service[t.service].url = t.url
       /\ t.user = OwnerOf[t.firm]
  /\ p = "connect:provision" => t.ids = GrantIdsFor(t.firm, t.service)
  /\ p = "connect:write" => site[t.service] = t.url /\ <<t.user, t.service>> \in access
  /\ p = "rybbit:next" =>
       t.todo \in Seq(Groups) /\ \A n \in 1 .. Len(t.todo) : GroupOK(t.todo[n])

ServicesSound ==
  /\ service \in [ServiceIds -> ServiceRows \cup {None}]
  /\ site \in [ServiceIds -> Urls \cup {None}]
  /\ \A s \in ServiceIds : LiveService(s) => RowFollows(s, service[s])

ServicesInv ==
  ~overlapped => ServicesSound /\ \A r \in Requests : ServicesTask(pc[r], task[r])

LEMMA ServicesFrame ==
  ASSUME Handlers, [Next]_vars
  PROVE  ServicesNext \/ Restart \/ (UNCHANGED services /\ Away(ServicesLabels))
<1>1. "idle" \notin ServicesLabels /\ ServicesLabels \cap Shared = {}
  <2>1. /\ "idle" \notin ServicesLabels /\ ServicesLabels \cap ClassroomLabels = {}
        /\ ServicesLabels \cap EnsureThens = {} /\ ServicesLabels \cap BankLabels = {}
        /\ ServicesLabels \cap GrantsLabels = {}
    BY DEF ServicesLabels, ClassroomLabels, EnsureLabels, EnsureThens, BankLabels, GrantsLabels
  <2>2. ServicesLabels \cap PostsLabels = {} /\ ServicesLabels \cap FilesLabels = {}
    BY DEF ServicesLabels, PostsLabels, FilesLabels
  <2>3. ServicesLabels \cap MessagesTo = {} /\ ServicesLabels \cap HubTo = {}
        /\ ServicesLabels \cap {"ensure:select", "dm:insert", "notice:insert"} = {}
    BY DEF ServicesLabels, MessagesTo, MessagesLabels, HubTo, HubLabels
  <2>. QED  BY <2>1, <2>2, <2>3 DEF Shared
<1>2. /\ BillingLabels \cap ServicesLabels = {} /\ ChatLabels \cap ServicesLabels = {}
      /\ DatabasesLabels \cap ServicesLabels = {} /\ MailLabels \cap ServicesLabels = {}
  BY DEF ServicesLabels, BillingLabels, ChatLabels, DatabasesLabels, MailLabels
<1>3. /\ MilestonesLabels \cap ServicesLabels = {} /\ OAuthLabels \cap ServicesLabels = {}
      /\ AccountsLabels \cap ServicesLabels = {} /\ KnowledgeLabels \cap ServicesLabels = {}
  BY DEF ServicesLabels, MilestonesLabels, OAuthLabels, AccountsLabels, KnowledgeLabels
<1>4. ServicesNext \/ Restart \/ UNCHANGED services
  BY DEF Next, Quiet, vars, ToolsNext, tools, HubOnly
<1>5. ServicesNext \/ Restart \/ Away(ServicesLabels)
  BY <1>1, <1>2, <1>3, AwayFrom
<1>. QED  BY <1>4, <1>5

LEMMA ServicesStay ==
  ASSUME ServicesInv, overlapped => overlapped', UNCHANGED services, Away(ServicesLabels)
  PROVE  ServicesInv'
<1> SUFFICES ASSUME ~overlapped' PROVE (ServicesSound /\ \A r \in Requests : ServicesTask(pc[r], task[r]))'
  BY DEF ServicesInv
<1>1. UNCHANGED <<service, site, access>> /\ ServicesSound
  BY DEF services, ServicesInv
<1>2. ServicesSound'
  BY <1>1 DEF ServicesSound, RowFollows, LiveService
<1>3. ASSUME NEW r \in Requests PROVE ServicesTask(pc[r], task[r])'
  <2>1. CASE pc'[r] = pc[r] /\ task'[r] = task[r]
    <3>1. ServicesTask(pc[r], task[r])
      BY DEF ServicesInv
    <3>. QED
      BY <1>1, <2>1, <3>1 DEF ServicesTask, RowFollows, LiveService, GrantIdsFor, ServicesOf,
         GroupOK, SitesOf
  <2>2. CASE pc'[r] \notin ServicesLabels
    BY <2>2 DEF ServicesTask, ServicesLabels, Connecting
  <2>. QED  BY <2>1, <2>2 DEF Away
<1>. QED  BY <1>2, <1>3

LEMMA ServicesGoes ==
  ASSUME Handlers, Alone, NEW r \in Requests, NEW p, NEW t, pc[r] # "idle", GotoWith(r, p, t),
         ~overlapped => (ServicesSound /\ ServicesTask(p, t))'
  PROVE  ServicesInv'
<1> SUFFICES ASSUME ~overlapped' PROVE (ServicesSound /\ \A q \in Requests : ServicesTask(pc[q], task[q]))'
  BY DEF ServicesInv
<1>1. ~overlapped
  BY DEF GotoWith, control
<1>2. /\ pc'[r] = p /\ task'[r] = t
      /\ \A q \in Requests : q # r => pc'[q] = "idle"
  BY <1>1, OthersIdle
<1>3. ASSUME NEW q \in Requests PROVE ServicesTask(pc[q], task[q])'
  <2>1. CASE q = r
    BY <1>1, <1>2, <2>1
  <2>2. CASE q # r
    BY <1>2, <2>2 DEF ServicesTask, Connecting
  <2>. QED  BY <2>1, <2>2
<1>. QED  BY <1>1, <1>3

LEMMA ServicesReceives ==
  ASSUME Handlers, ServicesInv, NEW r \in Requests, NEW kind, NEW p, NEW t,
         Receive(r, kind, p, t), UNCHANGED services, ServicesSound => ServicesTask(p, t)
  PROVE  ServicesInv'
<1> SUFFICES ASSUME ~overlapped' PROVE (ServicesSound /\ \A q \in Requests : ServicesTask(pc[q], task[q]))'
  BY DEF ServicesInv
<1>1. /\ ~overlapped /\ AllIdle
      /\ \A q \in Requests : /\ pc'[q] = (IF q = r THEN p ELSE pc[q])
                             /\ task'[q] = (IF q = r THEN t ELSE task[q])
  BY DEF Receive, Arrives, Handlers
<1>2. UNCHANGED <<service, site, access>> /\ ServicesSound
  BY <1>1 DEF services, ServicesInv
<1>3. ServicesSound'
  BY <1>2 DEF ServicesSound, RowFollows, LiveService
<1>4. ServicesTask(p, t)'
  BY <1>2 DEF ServicesTask, RowFollows, LiveService, GrantIdsFor, ServicesOf, GroupOK, SitesOf
<1>5. ASSUME NEW q \in Requests PROVE ServicesTask(pc[q], task[q])'
  <2>1. CASE q = r
    BY <1>1, <1>4, <2>1
  <2>2. CASE q # r
    BY <1>1, <2>2 DEF ServicesTask, Connecting, AllIdle, Idle
  <2>. QED  BY <2>1, <2>2
<1>. QED  BY <1>3, <1>5

LEMMA ServicesAnswers ==
  ASSUME ServicesInv, NEW kind, AnswerAtOnce(kind), ServicesSound => ServicesSound'
  PROVE  ServicesInv'
<1> SUFFICES ASSUME ~overlapped' PROVE (ServicesSound /\ \A q \in Requests : ServicesTask(pc[q], task[q]))'
  BY DEF ServicesInv
<1>1. ~overlapped /\ AllIdle /\ UNCHANGED handlers
  BY DEF AnswerAtOnce, Arrives
<1>2. \A q \in Requests : pc'[q] = "idle"
  BY <1>1 DEF handlers, AllIdle, Idle
<1>. QED  BY <1>1, <1>2 DEF ServicesInv, ServicesTask, Connecting

LEMMA ServiceRowsAre ==
  /\ \A row \in ServiceRows : row # None
  /\ \A f \in Firms, url \in Urls :
       /\ ServiceRow(f, url) \in ServiceRows
       /\ ServiceRow(f, url).validation = "unvalidated"
       /\ ServiceRow(f, url).status = "not_connected" /\ ~ServiceRow(f, url).hasSite
<1>1. \A row \in ServiceRows : row # None
  BY ServicesAssumption
<1>2. ASSUME NEW f \in Firms, NEW url \in Urls
      PROVE  /\ ServiceRow(f, url) \in ServiceRows
             /\ ServiceRow(f, url).validation = "unvalidated"
             /\ ServiceRow(f, url).status = "not_connected" /\ ~ServiceRow(f, url).hasSite
  BY DEF ServiceRow, ServiceRows
<1>. QED  BY <1>1, <1>2

\* One row written with what is so.
LEMMA ServiceWritten ==
  ASSUME ServicesSound, NEW s \in ServiceIds, NEW row \in ServiceRows,
         row.live => RowFollows(s, row),
         service' = [service EXCEPT ![s] = row], UNCHANGED <<site, access>>
  PROVE  ServicesSound'
<1>1. service' \in [ServiceIds -> ServiceRows \cup {None}]
  BY DEF ServicesSound
<1>2. service'[s] = row /\ \A x \in ServiceIds : x # s => service'[x] = service[x]
  BY DEF ServicesSound
<1>3. ASSUME NEW x \in ServiceIds, LiveService(x)' PROVE RowFollows(x, service[x])'
  <2>1. CASE x = s
    BY <1>2, <1>3, <2>1 DEF LiveService, RowFollows
  <2>2. CASE x # s
    BY <1>2, <1>3, <2>2 DEF LiveService, RowFollows, ServicesSound
  <2>. QED  BY <2>1, <2>2
<1>. QED  BY <1>1, <1>3 DEF ServicesSound

\* A site made, or moved, and a user's access to a company's sites replaced by as many.
LEMMA ProvisionFollows ==
  ASSUME ServicesSound, NEW f \in Firms, NEW s \in ServiceIds, NEW u, NEW url \in Urls, NEW ids,
         LiveService(s), service[s].url = url, service[s].firm = f,
         SitesOf(f) \subseteq ids \cup {s}, Provision(u, f, s, url, ids), UNCHANGED service
  PROVE  ServicesSound' /\ site'[s] = url /\ <<u, s>> \in access'
<1>1. PICK firms : firms = {x \in ServiceIds : service[x] # None /\ service[x].firm = f}
  OBVIOUS
<1>2. /\ site' = [site EXCEPT ![s] = url]
      /\ access' = {a \in access : a[1] # u \/ a[2] \notin firms} \cup ({u} \X (ids \cup {s}))
  BY <1>1 DEF Provision
<1>3. site' \in [ServiceIds -> Urls \cup {None}] /\ site'[s] = url
      /\ \A x \in ServiceIds : x # s => site'[x] = site[x]
  BY <1>2 DEF ServicesSound
<1>4. <<u, s>> \in access'
  BY <1>2
<1>5. ASSUME NEW x \in ServiceIds, LiveService(x), service[x].hasSite
      PROVE  <<OwnerOf[service[x].firm], x>> \in access'
  <2>1. PICK o, a : o = OwnerOf[service[x].firm] /\ a = <<o, x>>
    OBVIOUS
  <2>2. a \in access /\ a[1] = o /\ a[2] = x
    BY <1>5, <2>1 DEF ServicesSound, RowFollows
  <2>3. CASE o # u \/ x \notin firms
    BY <1>2, <2>1, <2>2, <2>3
  <2>4. CASE o = u /\ x \in firms
    <3>1. x \in SitesOf(f)
      BY <1>1, <1>5, <2>4 DEF SitesOf, ServicesOf
    <3>2. <<u, x>> \in {u} \X (ids \cup {s})
      BY <3>1
    <3>. QED  BY <1>2, <2>1, <2>4, <3>2
  <2>. QED  BY <2>3, <2>4
<1>6. ASSUME NEW x \in ServiceIds, LiveService(x)' PROVE RowFollows(x, service[x])'
  <2>1. LiveService(x)
    BY <1>6 DEF LiveService
  <2>2. site'[x] = site[x] \/ site'[x] = service[x].url
    BY <1>3
  <2>3. RowFollows(x, service[x])
    BY <2>1 DEF ServicesSound
  <2>. QED  BY <1>5, <2>1, <2>2, <2>3 DEF RowFollows
<1>. QED  BY <1>3, <1>4, <1>6 DEF ServicesSound

LEMMA RowsRead ==
  ASSUME ServicesSound, NEW s \in ServiceIds, LiveService(s)
  PROVE  /\ service[s] \in ServiceRows /\ RowFollows(s, service[s])
         /\ service[s].firm \in Firms /\ service[s].url \in Urls
<1>1. service[s] \in ServiceRows
  BY DEF ServicesSound, LiveService
<1>. QED  BY <1>1 DEF ServicesSound, ServiceRows

LEMMA ServicesInvInit == Init => ServicesInv
<1> SUFFICES ASSUME Init PROVE ServicesSound /\ \A r \in Requests : ServicesTask(pc[r], task[r])
  BY DEF ServicesInv
<1>1. \A r \in Requests : pc[r] = "idle"
  BY DEF Init, ServerInit
<1>2. /\ \/ service = [s \in ServiceIds |-> None]
         \/ service = StartService
      /\ site = [s \in ServiceIds |->
           IF service[s] # None /\ service[s].hasSite THEN service[s].url ELSE None]
      /\ access = {<<OwnerOf[service[s].firm], s>> :
                     s \in {x \in ServiceIds : service[x] # None /\ service[x].hasSite}}
  BY DEF Init, ServicesInit
<1>3. service \in [ServiceIds -> ServiceRows \cup {None}]
  BY <1>2, ServicesAssumption
<1>4. \A s \in ServiceIds : service[s] # None =>
        /\ service[s].validation # "unvalidated" => service[s].checked = service[s].url
        /\ service[s].status = "connected" => service[s].hasSite
  BY <1>2, ServicesAssumption
<1>5. \A s \in ServiceIds : service[s] # None => service[s].url \in Urls
  BY <1>3 DEF ServiceRows
<1>6. site \in [ServiceIds -> Urls \cup {None}]
  BY <1>2, <1>5
<1>7. ASSUME NEW s \in ServiceIds, LiveService(s) PROVE RowFollows(s, service[s])
  BY <1>2, <1>4, <1>7 DEF LiveService, RowFollows
<1>. QED  BY <1>1, <1>3, <1>6, <1>7 DEF ServicesSound, ServicesTask, Connecting

-----------------------------------------------------------------------------

LEMMA CreateServiceKeeps ==
  ASSUME ServicesInv, CreateService
  PROVE  ServicesInv'
<1>1. PICK f \in Firms, url \in Urls, s \in FreeId(service) :
        /\ AnswerAtOnce("CreateService")
        /\ service' = [service EXCEPT ![s] = ServiceRow(f, url)] /\ UNCHANGED <<site, access>>
  BY DEF CreateService
<1>2. ASSUME ServicesSound PROVE ServicesSound'
  <2>1. s \in ServiceIds
    BY <1>2, FreeIdIsFree DEF ServicesSound
  <2>2. PICK row : row = ServiceRow(f, url)
    OBVIOUS
  <2>3. row \in ServiceRows /\ RowFollows(s, row)
    BY <2>2, ServiceRowsAre DEF RowFollows
  <2>. QED  BY <1>1, <1>2, <2>1, <2>2, <2>3, ServiceWritten
<1>. QED  BY <1>1, <1>2, ServicesAnswers

LEMMA MovedFollows ==
  ASSUME NEW s, NEW row \in ServiceRows, RowFollows(s, row), NEW url \in Urls
  PROVE  Moved(row, url) \in ServiceRows /\ RowFollows(s, Moved(row, url))
<1>1. CASE url = row.url
  BY <1>1 DEF Moved
<1>2. CASE url # row.url
  <2>1. PICK new : new = [row EXCEPT !.url = url, !.validation = "unvalidated", !.checked = None,
                             !.status = IF row.status = "connected" THEN "needs_reconnect"
                                        ELSE row.status]
    OBVIOUS
  <2>2. /\ new \in ServiceRows /\ new.validation = "unvalidated" /\ new.status # "connected"
        /\ new.hasSite = row.hasSite /\ new.firm = row.firm
    BY <2>1 DEF ServiceRows
  <2>3. Moved(row, url) = new
    BY <1>2, <2>1 DEF Moved
  <2>. QED  BY <2>2, <2>3 DEF RowFollows
<1>. QED  BY <1>1, <1>2

LEMMA UpdateServiceKeeps ==
  ASSUME Handlers, ServicesInv, NEW r \in Requests, UpdateService(r)
  PROVE  ServicesInv'
<1>1. PICK s \in ServiceIds, url \in Urls :
        /\ LiveService(s) /\ UNCHANGED services
        /\ Receive(r, "UpdateService", "service:write",
                   [service |-> s, row |-> Moved(service[s], url)])
  BY DEF UpdateService
<1>2. PICK row : row = Moved(service[s], url)
  OBVIOUS
<1>3. PICK t : t = [service |-> s, row |-> row]
  OBVIOUS
<1>4. ASSUME ServicesSound PROVE ServicesTask("service:write", t)
  <2>1. row \in ServiceRows /\ RowFollows(s, row)
    BY <1>1, <1>2, <1>4, RowsRead, MovedFollows
  <2>. QED  BY <1>3, <2>1 DEF ServicesTask, Connecting
<1>. QED  BY <1>1, <1>2, <1>3, <1>4, ServicesReceives

\* A handler that writes its result and answers.
LEMMA ServicesDone ==
  ASSUME Handlers, Alone, NEW r \in Requests, pc[r] # "idle", Return(r),
         ~overlapped => ServicesSound'
  PROVE  ServicesInv'
<1>1. GotoWith(r, "idle", None)
  BY DEF Return
<1>2. ServicesTask("idle", None)'
  BY DEF ServicesTask, Connecting
<1>. QED  BY <1>1, <1>2, ServicesGoes

LEMMA ServiceWriteKeeps ==
  ASSUME Handlers, Alone, ServicesInv, NEW r \in Requests, ServiceWrite(r)
  PROVE  ServicesInv'
<1>1. PICK t : t = task[r]
  OBVIOUS
<1>2. /\ pc[r] = "service:write" /\ Return(r) /\ UNCHANGED <<site, access>>
      /\ \/ service' = [service EXCEPT ![t.service] = t.row]
         \/ UNCHANGED service
  BY <1>1 DEF ServiceWrite, At
<1>3. ASSUME ~overlapped PROVE ServicesSound'
  <2>1. /\ ServicesSound /\ t.service \in ServiceIds /\ t.row \in ServiceRows
        /\ RowFollows(t.service, t.row)
    BY <1>1, <1>2, <1>3 DEF ServicesInv, ServicesTask
  <2>2. CASE service' = [service EXCEPT ![t.service] = t.row]
    BY <1>2, <2>1, <2>2, ServiceWritten
  <2>3. CASE UNCHANGED service
    BY <1>2, <2>1, <2>3 DEF ServicesSound, RowFollows, LiveService
  <2>. QED  BY <1>2, <2>2, <2>3
<1>. QED  BY <1>2, <1>3, ServicesDone

LEMMA DeleteServiceKeeps ==
  ASSUME ServicesInv, DeleteService
  PROVE  ServicesInv'
<1>1. PICK s \in ServiceIds :
        /\ LiveService(s) /\ AnswerAtOnce("DeleteService")
        /\ service' = [service EXCEPT ![s].live = FALSE] /\ UNCHANGED <<site, access>>
  BY DEF DeleteService
<1>2. ASSUME ServicesSound PROVE ServicesSound'
  <2>1. PICK row : row = [service[s] EXCEPT !.live = FALSE]
    OBVIOUS
  <2>2. row \in ServiceRows /\ ~row.live
    BY <1>1, <1>2, <2>1, RowsRead DEF ServiceRows
  <2>3. service' = [service EXCEPT ![s] = row]
    BY <1>1, <1>2, <2>1 DEF ServicesSound
  <2>. QED  BY <1>1, <1>2, <2>2, <2>3, ServiceWritten
<1>. QED  BY <1>1, <1>2, ServicesAnswers

LEMMA ValidateServiceKeeps ==
  ASSUME Handlers, ServicesInv, NEW r \in Requests, ValidateService(r)
  PROVE  ServicesInv'
<1>1. PICK s \in ServiceIds :
        /\ LiveService(s) /\ UNCHANGED services
        /\ Receive(r, "ValidateService", "service:check", [service |-> s, url |-> service[s].url])
  BY DEF ValidateService
<1>2. PICK url : url = service[s].url
  OBVIOUS
<1>3. PICK t : t = [service |-> s, url |-> url]
  OBVIOUS
<1>4. ASSUME ServicesSound PROVE ServicesTask("service:check", t)
  <2>1. url \in Urls
    BY <1>1, <1>2, <1>4, RowsRead
  <2>. QED  BY <1>2, <1>3, <2>1 DEF ServicesTask, Connecting
<1>. QED  BY <1>1, <1>2, <1>3, <1>4, ServicesReceives

LEMMA ServiceCheckKeeps ==
  ASSUME Handlers, Alone, ServicesInv, NEW r \in Requests, ServiceCheck(r)
  PROVE  ServicesInv'
<1>1. PICK t : t = task[r]
  OBVIOUS
<1>2. PICK result \in Verdicts :
        /\ pc[r] = "service:check" /\ Return(r) /\ UNCHANGED <<site, access>>
        /\ service' = IF LiveService(t.service) THEN Checked(t.service, result, t.url)
                      ELSE service
  BY <1>1 DEF ServiceCheck, At
<1>3. ASSUME ~overlapped PROVE ServicesSound'
  <2>1. ServicesSound /\ ServicesTask("service:check", t)
    BY <1>1, <1>2, <1>3 DEF ServicesInv
  <2>2. CASE ~LiveService(t.service)
    BY <1>2, <2>1, <2>2 DEF ServicesSound, RowFollows, LiveService
  <2>3. CASE LiveService(t.service)
    <3>1. PICK s : s = t.service
      OBVIOUS
    <3>2. s \in ServiceIds /\ t.url \in Urls /\ service[s].url = t.url /\ LiveService(s)
      BY <2>1, <2>3, <3>1 DEF ServicesTask
    <3>3. service[s] \in ServiceRows /\ RowFollows(s, service[s])
      BY <2>1, <3>2, RowsRead
    <3>4. PICK row : row = [service[s] EXCEPT !.validation = result, !.checked = t.url]
      OBVIOUS
    <3>5. /\ row \in ServiceRows /\ row.checked = t.url /\ row.url = service[s].url
          /\ row.status = service[s].status /\ row.hasSite = service[s].hasSite
          /\ row.firm = service[s].firm
      BY <3>2, <3>3, <3>4 DEF ServiceRows, Verdicts
    <3>6. RowFollows(s, row)
      BY <3>2, <3>3, <3>5 DEF RowFollows
    <3>7. service' = [service EXCEPT ![s] = row]
      BY <1>2, <2>1, <2>3, <3>1, <3>2, <3>4 DEF Checked, ServicesSound
    <3>. QED  BY <1>2, <2>1, <3>2, <3>5, <3>6, <3>7, ServiceWritten
  <2>. QED  BY <2>2, <2>3
<1>. QED  BY <1>2, <1>3, ServicesDone

LEMMA ChecksExpireKeeps ==
  ASSUME ServicesInv, ChecksExpire
  PROVE  ServicesInv'
<1>1. /\ AnswerAtOnce("ChecksExpire") /\ UNCHANGED <<site, access>>
      /\ service' = [s \in ServiceIds |->
           IF LiveService(s) /\ service[s].validation = "valid"
           THEN [service[s] EXCEPT !.validation = "stale"] ELSE service[s]]
  BY DEF ChecksExpire
<1>2. ASSUME ServicesSound PROVE ServicesSound'
  <2>1. ASSUME NEW s \in ServiceIds
        PROVE  /\ service'[s] \in ServiceRows \cup {None}
               /\ LiveService(s)' => RowFollows(s, service[s])'
    <3>1. CASE LiveService(s) /\ service[s].validation = "valid"
      <4>1. PICK row : row = [service[s] EXCEPT !.validation = "stale"]
        OBVIOUS
      <4>2. service[s] \in ServiceRows /\ RowFollows(s, service[s]) /\ service'[s] = row
        BY <1>1, <1>2, <3>1, <4>1, RowsRead
      <4>3. /\ row \in ServiceRows /\ row.checked = service[s].checked
            /\ row.url = service[s].url /\ row.status = service[s].status
            /\ row.hasSite = service[s].hasSite /\ row.firm = service[s].firm
        BY <4>1, <4>2 DEF ServiceRows
      <4>. QED  BY <1>1, <3>1, <4>2, <4>3 DEF RowFollows
    <3>2. CASE ~(LiveService(s) /\ service[s].validation = "valid")
      <4>1. service'[s] = service[s]
        BY <1>1, <3>2
      <4>. QED  BY <1>1, <1>2, <4>1 DEF ServicesSound, LiveService, RowFollows
    <3>. QED  BY <3>1, <3>2
  <2>. QED  BY <1>1, <1>2, <2>1 DEF ServicesSound
<1>. QED  BY <1>1, <1>2, ServicesAnswers

LEMMA ConnectRybbitKeeps ==
  ASSUME Handlers, ServicesInv, NEW r \in Requests, ConnectRybbit(r)
  PROVE  ServicesInv'
<1>1. PICK s \in ServiceIds :
        /\ LiveService(s) /\ UNCHANGED services
        /\ Receive(r, "ConnectRybbit", "connect:list",
                   [user |-> OwnerOf[service[s].firm], service |-> s, url |-> service[s].url,
                    firm |-> service[s].firm])
  BY DEF ConnectRybbit
<1>2. PICK f, url : f = service[s].firm /\ url = service[s].url
  OBVIOUS
<1>3. PICK u : u = OwnerOf[f]
  OBVIOUS
<1>4. PICK t : t = [user |-> u, service |-> s, url |-> url, firm |-> f]
  OBVIOUS
<1>5. ASSUME ServicesSound PROVE ServicesTask("connect:list", t)
  <2>1. f \in Firms
    BY <1>1, <1>2, <1>5, RowsRead
  <2>. QED  BY <1>1, <1>2, <1>3, <1>4, <2>1 DEF ServicesTask, Connecting
<1>6. Receive(r, "ConnectRybbit", "connect:list", t)
  BY <1>1, <1>2, <1>3, <1>4
<1>. QED  BY <1>1, <1>5, <1>6, ServicesReceives

LEMMA ConnectListKeeps ==
  ASSUME Handlers, Alone, ServicesInv, NEW r \in Requests, ConnectList(r)
  PROVE  ServicesInv'
<1>1. PICK t : t = task[r]
  OBVIOUS
<1>2. PICK ids : ids = GrantIdsFor(t.firm, t.service)
  OBVIOUS
<1>3. PICK g : g = [ids |-> ids]
  OBVIOUS
<1>4. PICK new : new = With(t, g)
  OBVIOUS
<1>5. /\ pc[r] = "connect:list" /\ GotoWith(r, "connect:provision", new)
      /\ UNCHANGED <<service, site, access>>
  BY <1>1, <1>2, <1>3, <1>4 DEF ConnectList, At, services
<1>6. ASSUME ~overlapped PROVE (ServicesSound /\ ServicesTask("connect:provision", new))'
  <2>1. ServicesSound /\ ServicesTask("connect:list", t)
    BY <1>1, <1>5, <1>6 DEF ServicesInv
  <2>2. ServicesSound'
    BY <1>5, <2>1 DEF ServicesSound, RowFollows, LiveService
  <2>3. DOMAIN g = {"ids"} /\ g["ids"] = ids
    BY <1>3
  <2>4. /\ DOMAIN With(t, g) = DOMAIN t \cup DOMAIN g
        /\ \A x \in DOMAIN g : With(t, g)[x] = g[x]
        /\ \A x \in DOMAIN t \ DOMAIN g : With(t, g)[x] = t[x]
    BY WithNew, Zenon
  <2>5. {"user", "service", "url", "firm"} \subseteq DOMAIN t
    BY <2>1 DEF ServicesTask, Connecting
  <2>6. /\ {"user", "service", "url", "firm"} \subseteq DOMAIN new
        /\ new.user = t.user /\ new.service = t.service /\ new.url = t.url
        /\ new.firm = t.firm /\ new.ids = ids
    BY <1>4, <2>3, <2>4, <2>5
  <2>7. ServicesTask("connect:provision", new)
    BY <1>2, <2>1, <2>6 DEF ServicesTask, Connecting
  <2>8. ServicesTask("connect:provision", new)'
    BY <1>5, <2>7 DEF ServicesTask, Connecting, LiveService, GrantIdsFor, ServicesOf
  <2>. QED  BY <2>2, <2>8
<1>. QED  BY <1>5, <1>6, ServicesGoes

LEMMA ConnectProvisionKeeps ==
  ASSUME Handlers, Alone, ServicesInv, NEW r \in Requests, ConnectProvision(r)
  PROVE  ServicesInv'
<1>1. PICK t : t = task[r]
  OBVIOUS
<1>2. /\ pc[r] = "connect:provision" /\ UNCHANGED service
      /\ \/ UNCHANGED <<site, access>> /\ Return(r)
         \/ /\ Provision(t.user, t.firm, t.service, t.url, t.ids)
            /\ GotoWith(r, "connect:write", t) \/ Return(r)
  BY <1>1 DEF ConnectProvision, At, Goto
<1>3. ASSUME ~overlapped
      PROVE  /\ ServicesSound
             /\ Provision(t.user, t.firm, t.service, t.url, t.ids) =>
                  (ServicesSound /\ ServicesTask("connect:write", t))'
  <2>1. ServicesSound /\ ServicesTask("connect:provision", t)
    BY <1>1, <1>2, <1>3 DEF ServicesInv
  <2>2. PICK f, s, url, ids : f = t.firm /\ s = t.service /\ url = t.url /\ ids = t.ids
    OBVIOUS
  <2>3. /\ s \in ServiceIds /\ f \in Firms /\ LiveService(s)
        /\ service[s].firm = f /\ service[s].url = url /\ ids = GrantIdsFor(f, s)
    BY <2>1, <2>2 DEF ServicesTask, Connecting
  <2>4. url \in Urls
    BY <2>1, <2>3, RowsRead
  <2>5. SitesOf(f) \subseteq ids \cup {s}
    BY <2>3 DEF SitesOf, GrantIdsFor
  <2>6. ASSUME Provision(t.user, t.firm, t.service, t.url, t.ids)
        PROVE  ServicesSound' /\ site'[s] = url /\ <<t.user, s>> \in access'
    <3>1. Provision(t.user, f, s, url, ids)
      BY <2>2, <2>6
    <3>. QED  BY <1>2, <2>1, <2>3, <2>4, <2>5, <3>1, ProvisionFollows
  <2>7. ASSUME Provision(t.user, t.firm, t.service, t.url, t.ids)
        PROVE  ServicesTask("connect:write", t)'
    BY <1>2, <2>1, <2>2, <2>6, <2>7 DEF ServicesTask, Connecting, LiveService
  <2>. QED  BY <2>1, <2>6, <2>7
<1>4. CASE UNCHANGED <<site, access>> /\ Return(r)
  <2>1. ~overlapped => ServicesSound'
    BY <1>2, <1>3, <1>4 DEF ServicesSound, RowFollows, LiveService
  <2>. QED  BY <1>2, <1>4, <2>1, ServicesDone
<1>5. CASE Provision(t.user, t.firm, t.service, t.url, t.ids) /\ Return(r)
  BY <1>2, <1>3, <1>5, ServicesDone
<1>6. CASE Provision(t.user, t.firm, t.service, t.url, t.ids) /\ GotoWith(r, "connect:write", t)
  BY <1>2, <1>3, <1>6, ServicesGoes
<1>. QED  BY <1>2, <1>4, <1>5, <1>6

LEMMA ConnectWriteKeeps ==
  ASSUME Handlers, Alone, ServicesInv, NEW r \in Requests, ConnectWrite(r)
  PROVE  ServicesInv'
<1>1. PICK t : t = task[r]
  OBVIOUS
<1>2. PICK s : s = t.service
  OBVIOUS
<1>3. /\ pc[r] = "connect:write" /\ Return(r) /\ UNCHANGED <<site, access>>
      /\ service' = IF LiveService(s) THEN Connected(s) ELSE service
  BY <1>1, <1>2 DEF ConnectWrite, At
<1>4. ASSUME ~overlapped PROVE ServicesSound'
  <2>1. ServicesSound /\ ServicesTask("connect:write", t)
    BY <1>1, <1>3, <1>4 DEF ServicesInv
  <2>2. /\ s \in ServiceIds /\ LiveService(s) /\ site[s] = service[s].url
        /\ <<OwnerOf[service[s].firm], s>> \in access
    <3>1. /\ s \in ServiceIds /\ LiveService(s) /\ service[s].firm = t.firm
          /\ service[s].url = t.url /\ t.user = OwnerOf[t.firm] /\ site[s] = t.url
          /\ <<t.user, s>> \in access
      BY <1>2, <2>1 DEF ServicesTask, Connecting
    <3>. QED  BY <3>1
  <2>3. service[s] \in ServiceRows /\ RowFollows(s, service[s])
    BY <2>1, <2>2, RowsRead
  <2>4. PICK row : row = [service[s] EXCEPT !.status = "connected", !.hasSite = TRUE]
    OBVIOUS
  <2>5. /\ row \in ServiceRows /\ row.checked = service[s].checked /\ row.url = service[s].url
        /\ row.validation = service[s].validation /\ row.hasSite
        /\ row.firm = service[s].firm
    BY <2>3, <2>4 DEF ServiceRows
  <2>6. RowFollows(s, row)
    BY <2>2, <2>3, <2>5 DEF RowFollows
  <2>7. service' = [service EXCEPT ![s] = row]
    BY <1>3, <2>1, <2>2, <2>4 DEF Connected, ServicesSound
  <2>. QED  BY <1>3, <2>1, <2>2, <2>5, <2>6, <2>7, ServiceWritten
<1>. QED  BY <1>3, <1>4, ServicesDone

\* The first of a company's sites, with all of them.
GroupOf(f) ==
  LET s == CHOOSE x \in SitesOf(f) : \A y \in SitesOf(f) : x <= y
  IN  [firm |-> f, service |-> s, url |-> service[s].url, ids |-> SitesOf(f)]

LEMMA GroupsOfFirms ==
  ASSUME ServicesSound, NEW f \in Firms, SitesOf(f) # {}
  PROVE  GroupOf(f) \in Groups /\ GroupOK(GroupOf(f))
<1>1. PICK S, s : S = SitesOf(f) /\ s = CHOOSE x \in S : \A y \in S : x <= y
  OBVIOUS
<1>2. S \subseteq ServiceIds /\ S \in SUBSET Nat /\ S # {}
  BY <1>1, ServicesAssumption DEF SitesOf, ServicesOf
<1>3. \E x \in S : \A y \in S : x <= y
  BY <1>2, LeastNatural
<1>4. s \in S
  BY <1>1, <1>3
<1>5. LiveService(s) /\ s \in ServiceIds
  BY <1>1, <1>4 DEF SitesOf, ServicesOf
<1>6. PICK url : url = service[s].url
  OBVIOUS
<1>7. url \in Urls
  BY <1>5, <1>6, RowsRead
<1>8. PICK g : g = [firm |-> f, service |-> s, url |-> url, ids |-> S]
  OBVIOUS
<1>9. GroupOf(f) = g
  BY <1>1, <1>6, <1>8 DEF GroupOf
<1>10. g \in Groups
  BY <1>2, <1>5, <1>7, <1>8 DEF Groups
<1>11. GroupOK(g)
  BY <1>1, <1>4, <1>6, <1>8 DEF GroupOK
<1>. QED  BY <1>9, <1>10, <1>11

LEMMA ReconcileKeeps ==
  ASSUME Handlers, ServicesInv, NEW r \in Requests, AdminReconcileRybbit(r)
  PROVE  ServicesInv'
<1>1. PICK here : here = {f \in Firms : RoomOf[f] = active[Staff] /\ SitesOf(f) # {}}
  OBVIOUS
<1>2. PICK S : S = {GroupOf(f) : f \in here}
  OBVIOUS
<1>3. PICK q : q = SetToSeq(S)
  OBVIOUS
<1>4. PICK t : t = [todo |-> q]
  OBVIOUS
<1>5. Receive(r, "AdminReconcileRybbit", "rybbit:next", t) /\ UNCHANGED services
  <2>1. Receive(r, "AdminReconcileRybbit", "rybbit:next",
          [todo |-> SetToSeq({GroupOf(f) : f \in {x \in Firms : RoomOf[x] = active[Staff] /\ SitesOf(x) # {}}})])
    BY DEF AdminReconcileRybbit, GroupOf, SitesOf
  <2>. QED  BY <1>1, <1>2, <1>3, <1>4, <2>1 DEF AdminReconcileRybbit
<1>6. IsFiniteSet(S)
  <2>1. IsFiniteSet(here)
    BY <1>1, ServicesAssumption, FS_Subset
  <2> DEFINE h == [f \in here |-> GroupOf(f)]
  <2>2. h \in Surjection(here, S)
    BY <1>2 DEF Surjection
  <2> HIDE DEF h
  <2>. QED  BY <2>1, <2>2, FS_Surjection DEF ExistsSurjection
<1>7. ASSUME ServicesSound PROVE ServicesTask("rybbit:next", t)
  <2>1. \A g \in S : g \in Groups /\ GroupOK(g)
    BY <1>1, <1>2, <1>7, GroupsOfFirms
  <2>2. q \in Seq(S) /\ \A n \in 1 .. Len(q) : q[n] \in S
    BY <1>3, <1>6, SetToSeqIs
  <2>3. S \subseteq Groups
    BY <2>1
  <2>4. q \in Seq(Groups) /\ \A n \in 1 .. Len(q) : GroupOK(q[n])
    BY <2>1, <2>2, <2>3
  <2>. QED  BY <1>4, <2>4 DEF ServicesTask, Connecting
<1>. QED  BY <1>5, <1>7, ServicesReceives

LEMMA RybbitNextKeeps ==
  ASSUME Handlers, Alone, ServicesInv, NEW r \in Requests, RybbitNext(r)
  PROVE  ServicesInv'
<1>1. PICK q : q = task[r].todo
  OBVIOUS
<1>2. PICK g, rest : g = Head(q) /\ rest = Tail(q)
  OBVIOUS
<1>3. PICK new : new = [todo |-> rest]
  OBVIOUS
<1>4. /\ pc[r] = "rybbit:next" /\ UNCHANGED service
      /\ \/ q = <<>> /\ Return(r) /\ UNCHANGED <<site, access>>
         \/ /\ q # <<>>
            /\ \/ UNCHANGED <<site, access>>
               \/ Provision(Staff, g.firm, g.service, g.url, g.ids)
            /\ GotoWith(r, "rybbit:next", new) \/ Return(r)
  BY <1>1, <1>2, <1>3 DEF RybbitNext, At
<1>5. ASSUME ~overlapped PROVE ServicesSound'
  <2>1. /\ ServicesSound /\ q \in Seq(Groups)
        /\ \A n \in 1 .. Len(q) : GroupOK(q[n])
    BY <1>1, <1>4, <1>5 DEF ServicesInv, ServicesTask
  <2>2. CASE UNCHANGED <<site, access>>
    BY <1>4, <2>1, <2>2 DEF ServicesSound, RowFollows, LiveService
  <2>3. CASE q # <<>> /\ Provision(Staff, g.firm, g.service, g.url, g.ids)
    <3>1. g \in Groups /\ GroupOK(g)
      <4>1. g \in Groups /\ g = q[1] /\ 1 \in 1 .. Len(q)
        BY <1>2, <2>1, <2>3
      <4>. QED  BY <2>1, <4>1
    <3>2. PICK f, s, url, ids : f = g.firm /\ s = g.service /\ url = g.url /\ ids = g.ids
      OBVIOUS
    <3>3. f \in Firms /\ s \in ServiceIds /\ url \in Urls /\ ids = SitesOf(f) /\ s \in ids
          /\ url = service[s].url
      BY <3>1, <3>2 DEF Groups, GroupOK
    <3>4. LiveService(s) /\ service[s].firm = f
      BY <3>3 DEF SitesOf, ServicesOf
    <3>5. Provision(Staff, f, s, url, ids)
      BY <2>3, <3>2
    <3>. QED  BY <1>4, <2>1, <3>3, <3>4, <3>5, ProvisionFollows
  <2>. QED  BY <1>4, <2>2, <2>3
<1>6. CASE Return(r)
  BY <1>4, <1>5, <1>6, ServicesDone
<1>7. CASE q # <<>> /\ GotoWith(r, "rybbit:next", new)
  <2>1. ASSUME ~overlapped PROVE ServicesTask("rybbit:next", new)'
    <3>1. q \in Seq(Groups) /\ \A n \in 1 .. Len(q) : GroupOK(q[n])
      BY <1>1, <1>4, <2>1 DEF ServicesInv, ServicesTask
    <3>2. rest \in Seq(Groups) /\ \A n \in 1 .. Len(rest) : GroupOK(rest[n])
      <4>1. rest \in Seq(Groups) /\ Len(rest) = Len(q) - 1 /\ Len(q) \in Nat
        BY <1>2, <1>7, <3>1
      <4>2. ASSUME NEW n \in 1 .. Len(rest) PROVE rest[n] = q[n + 1] /\ n + 1 \in 1 .. Len(q)
        BY <1>2, <1>7, <3>1, <4>1
      <4>. QED  BY <3>1, <4>1, <4>2
    <3>3. \A n \in 1 .. Len(rest) : GroupOK(rest[n])'
      BY <1>4, <3>2 DEF GroupOK, SitesOf, ServicesOf, LiveService
    <3>4. new.todo = rest
      BY <1>3
    <3>. QED  BY <3>2, <3>3, <3>4 DEF ServicesTask, Connecting
  <2>. QED  BY <1>4, <1>5, <1>7, <2>1, ServicesGoes
<1>. QED  BY <1>4, <1>6, <1>7

LEMMA ServicesRestarts ==
  ASSUME ServicesInv, Restart
  PROVE  ServicesInv'
<1>1. /\ overlapped' = overlapped /\ UNCHANGED <<service, site, access>>
      /\ \A r \in Requests : pc'[r] = "idle"
  BY DEF Restart, ServerRestart, services
<1>. QED
  BY <1>1 DEF ServicesInv, ServicesSound, RowFollows, LiveService, ServicesTask, Connecting

LEMMA ServicesInvStep ==
  ASSUME Handlers, Alone, ServicesInv, overlapped => overlapped', [Next]_vars
  PROVE  ServicesInv'
<1>1. CASE UNCHANGED services /\ Away(ServicesLabels)
  BY <1>1, ServicesStay
<1>2. CASE Restart
  BY <1>2, ServicesRestarts
<1>3. CASE ChecksExpire
  BY <1>3, ChecksExpireKeeps
<1>4. ASSUME NEW r \in Requests, ServicesStep(r) PROVE ServicesInv'
  BY <1>4, ServiceWriteKeeps, ServiceCheckKeeps, ConnectListKeeps, ConnectProvisionKeeps,
     ConnectWriteKeeps, RybbitNextKeeps DEF ServicesStep
<1>5. ASSUME NEW r \in Requests, ServicesRequest(r) PROVE ServicesInv'
  BY <1>5, CreateServiceKeeps, UpdateServiceKeeps, DeleteServiceKeeps, ValidateServiceKeeps,
     ConnectRybbitKeeps, ReconcileKeeps DEF ServicesRequest
<1>6. ServicesNext \/ Restart \/ (UNCHANGED services /\ Away(ServicesLabels))
  BY ServicesFrame
<1>. QED  BY <1>1, <1>2, <1>3, <1>4, <1>5, <1>6, Zenon DEF ServicesNext

\* One at a time, a check on record is of the address that is registered, a connected
\* service has a site for that address, and a service with a site is one its owner has
\* access to: UpdateService, ValidateService, ConnectRybbit and AdminReconcileRybbit.
THEOREM AnalyticsAlwaysFollow == Spec => []AnalyticsFollow
<1> DEFINE Inv == Handlers /\ Alone /\ ServicesInv
<1>1. Init => Inv
  BY HandlersInit, AloneInit, ServicesInvInit
<1>2. Inv /\ [Next]_vars => Inv'
  BY HandlersStep, AloneStep, ServicesInvStep
<1>3. Inv => AnalyticsFollow
  BY DEF ServicesInv, ServicesSound, RowFollows, AnalyticsFollow, OneByOne
<1>. QED  BY <1>1, <1>2, <1>3, PTL DEF Spec

-----------------------------------------------------------------------------
(* Mail *)

MailsToStore == [address : Addresses, dir : {"in", "out"}, part : Parts]

\* What a handler remembers at its label, whatever interleaves.
MailTask(p, t) ==
  /\ p = "claim:write" =>
       /\ t.owner \in Owners /\ t.part \in Parts
       /\ \A a \in Addresses : a \in t.rows => address[a] # None
  /\ p = "verdict:write" =>
       /\ t.address \in Addresses /\ t.verdict \in {"approved", "rejected"}
       /\ address[t.address] # None
  /\ p \in {"mail:send", "mail:store"} => t \in MailsToStore
  /\ p = "mail:send" => t.dir = "out"

\* The handlers whose mail has been accepted and is not stored yet.
AwaitStore == {r \in Requests : pc[r] = "mail:store" /\ task[r].dir = "out"}

MailRows ==
  /\ address \in [Addresses -> AddressRows \cup {None}]
  /\ emails \in Seq(EmailRows) /\ sent \in Nat
  /\ approvedAs \in [Addresses -> Parts \cup {None}]

MailCounts ==
  /\ Cardinality(OutMails) + Cardinality(AwaitStore) <= sent
  /\ restarts = 0 => Cardinality(OutMails) + Cardinality(AwaitStore) = sent

\* The history knows of every approval, and every mail is of an approved address.
MailSerial ==
  /\ \A a \in Addresses :
       /\ approvedAs[a] # None => address[a] # None
       /\ address[a] # None => (ApprovedAddress(a) <=> approvedAs[a] # None)
       /\ approvedAs[a] # None => approvedAs[a] = address[a].part
  /\ \A i \in DOMAIN emails : emails[i].part = approvedAs[emails[i].address]

\* What a handler that is alone may rely on besides.
MailSerialTask(p, t) ==
  /\ p = "claim:write" => \A a \in Addresses : a \in t.rows => ~ApprovedAddress(a)
  /\ p = "verdict:write" => ~ApprovedAddress(t.address)
  /\ p \in {"mail:send", "mail:store"} => t.part = approvedAs[t.address]

MailInv ==
  /\ MailRows /\ MailCounts
  /\ \A r \in Requests : MailTask(pc[r], task[r])
  /\ ~overlapped => MailSerial /\ \A r \in Requests : MailSerialTask(pc[r], task[r])

LEMMA MailFrame ==
  ASSUME Handlers, [Next]_vars
  PROVE  MailNext \/ Restart \/ (UNCHANGED mail /\ Away(MailLabels))
<1>1. "idle" \notin MailLabels /\ MailLabels \cap Shared = {}
  <2>1. /\ "idle" \notin MailLabels /\ MailLabels \cap ClassroomLabels = {}
        /\ MailLabels \cap EnsureThens = {} /\ MailLabels \cap BankLabels = {}
        /\ MailLabels \cap GrantsLabels = {}
    BY DEF MailLabels, ClassroomLabels, EnsureLabels, EnsureThens, BankLabels, GrantsLabels
  <2>2. MailLabels \cap PostsLabels = {} /\ MailLabels \cap FilesLabels = {}
    BY DEF MailLabels, PostsLabels, FilesLabels
  <2>3. MailLabels \cap MessagesTo = {} /\ MailLabels \cap HubTo = {}
        /\ MailLabels \cap {"ensure:select", "dm:insert", "notice:insert"} = {}
    BY DEF MailLabels, MessagesTo, MessagesLabels, HubTo, HubLabels
  <2>. QED  BY <2>1, <2>2, <2>3 DEF Shared
<1>2. /\ BillingLabels \cap MailLabels = {} /\ ChatLabels \cap MailLabels = {}
      /\ DatabasesLabels \cap MailLabels = {} /\ ServicesLabels \cap MailLabels = {}
  BY DEF MailLabels, BillingLabels, ChatLabels, DatabasesLabels, ServicesLabels
<1>3. /\ MilestonesLabels \cap MailLabels = {} /\ OAuthLabels \cap MailLabels = {}
      /\ AccountsLabels \cap MailLabels = {} /\ KnowledgeLabels \cap MailLabels = {}
  BY DEF MailLabels, MilestonesLabels, OAuthLabels, AccountsLabels, KnowledgeLabels
<1>4. MailNext \/ Restart \/ UNCHANGED mail
  BY DEF Next, Quiet, vars, ToolsNext, tools, HubOnly
<1>5. MailNext \/ Restart \/ Away(MailLabels)
  BY <1>1, <1>2, <1>3, AwayFrom
<1>. QED  BY <1>4, <1>5

LEMMA AwaitStoreFinite ==
  IsFiniteSet(AwaitStore) /\ Cardinality(AwaitStore) \in Nat
BY ServerAssumption, FS_Subset, FS_CardinalityType DEF AwaitStore

LEMMA OutMailsFinite ==
  ASSUME MailRows
  PROVE  IsFiniteSet(OutMails) /\ Cardinality(OutMails) \in Nat
<1>1. DOMAIN emails = 1 .. Len(emails) /\ Len(emails) \in Nat
  BY DEF MailRows
<1>2. IsFiniteSet(1 .. Len(emails))
  BY <1>1, FS_Interval
<1>3. OutMails \subseteq DOMAIN emails
  BY DEF OutMails
<1>4. OutMails \subseteq 1 .. Len(emails)
  BY <1>1, <1>3
<1>. QED  BY <1>2, <1>4, FS_Subset, FS_CardinalityType

LEMMA MailRowsAre ==
  /\ \A row \in AddressRows : row # None
  /\ \A part \in Parts : part # None
  /\ \A o \in Owners, part \in Parts, s \in BOOLEAN :
       /\ AddressRow(o, part, s) \in AddressRows /\ AddressRow(o, part, s).part = part
       /\ AddressRow(o, part, s).status = (IF s THEN "approved" ELSE "pending")
<1>1. (\A row \in AddressRows : row # None) /\ \A part \in Parts : part # None
  BY MailAssumption
<1>2. ASSUME NEW o \in Owners, NEW part \in Parts, NEW s \in BOOLEAN
      PROVE  /\ AddressRow(o, part, s) \in AddressRows /\ AddressRow(o, part, s).part = part
             /\ AddressRow(o, part, s).status = (IF s THEN "approved" ELSE "pending")
  BY DEF AddressRow, AddressRows, Statuses
<1>. QED  BY <1>1, <1>2

LEMMA MailStay ==
  ASSUME Handlers, Handlers', MailInv, Alone, [Next]_vars, overlapped => overlapped', UNCHANGED mail,
         Away(MailLabels)
  PROVE  MailInv'
<1>1. UNCHANGED <<address, shared, emails, sent, approvedAs>>
  BY DEF mail
<1>2. MailRows'
  BY <1>1 DEF MailInv, MailRows
<1>3. ASSUME NEW r \in Requests
      PROVE  \/ pc'[r] = pc[r] /\ task'[r] = task[r]
             \/ pc'[r] \notin MailLabels /\ pc[r] \notin MailLabels
  BY DEF Away
<1>4. ASSUME NEW r \in Requests PROVE MailTask(pc[r], task[r])'
  <2>1. CASE pc'[r] = pc[r] /\ task'[r] = task[r]
    BY <1>1, <2>1 DEF MailInv, MailTask
  <2>2. CASE pc'[r] \notin MailLabels
    BY <2>2 DEF MailTask, MailLabels
  <2>. QED  BY <1>3, <2>1, <2>2
<1>5. AwaitStore' = AwaitStore
  BY <1>3 DEF AwaitStore, MailLabels
<1>6. OutMails' = OutMails
  BY <1>1 DEF OutMails
<1>7. restarts' = 0 => restarts = 0
  BY Unrestarted
<1>8. MailCounts'
  BY <1>1, <1>5, <1>6, <1>7 DEF MailInv, MailCounts
<1>9. ASSUME ~overlapped' PROVE (MailSerial /\ \A r \in Requests : MailSerialTask(pc[r], task[r]))'
  <2>1. MailSerial'
    BY <1>1, <1>9 DEF MailInv, MailSerial, ApprovedAddress
  <2>2. ASSUME NEW r \in Requests PROVE MailSerialTask(pc[r], task[r])'
    <3>1. CASE pc'[r] = pc[r] /\ task'[r] = task[r]
      BY <1>1, <1>9, <3>1 DEF MailInv, MailSerialTask, ApprovedAddress
    <3>2. CASE pc'[r] \notin MailLabels
      BY <3>2 DEF MailSerialTask, MailLabels
    <3>. QED  BY <1>3, <3>1, <3>2
  <2>. QED  BY <2>1, <2>2
<1>. QED  BY <1>2, <1>4, <1>8, <1>9 DEF MailInv

\* A step of one of its handlers has only its own task to answer for.
LEMMA MailGoes ==
  ASSUME Handlers, Alone, MailInv, NEW r \in Requests, NEW p, NEW t, pc[r] # "idle",
         GotoWith(r, p, t), (MailRows /\ MailCounts /\ MailTask(p, t))',
         \A a \in Addresses : address[a] # None => address'[a] # None,
         ~overlapped => (MailSerial /\ MailSerialTask(p, t))'
  PROVE  MailInv'
<1>1. /\ overlapped' = overlapped
      /\ \A q \in Requests : /\ pc'[q] = (IF q = r THEN p ELSE pc[q])
                             /\ task'[q] = (IF q = r THEN t ELSE task[q])
  BY DEF GotoWith, control, Handlers
<1>2. ASSUME NEW q \in Requests PROVE MailTask(pc[q], task[q])'
  <2>1. CASE q = r
    BY <1>1, <2>1
  <2>2. CASE q # r
    BY <1>1, <2>2 DEF MailInv, MailTask
  <2>. QED  BY <2>1, <2>2
<1>3. ASSUME ~overlapped, NEW q \in Requests PROVE MailSerialTask(pc[q], task[q])'
  <2>1. /\ pc'[r] = p /\ task'[r] = t
        /\ \A x \in Requests : x # r => pc'[x] = "idle"
    BY <1>3, OthersIdle
  <2>2. CASE q = r
    BY <1>3, <2>1, <2>2
  <2>3. CASE q # r
    BY <2>1, <2>3 DEF MailSerialTask
  <2>. QED  BY <2>2, <2>3
<1>. QED  BY <1>1, <1>2, <1>3 DEF MailInv

\* A request is received when nobody is busy, or overlaps.
LEMMA MailReceives ==
  ASSUME Handlers, MailInv, NEW r \in Requests, NEW kind, NEW p, NEW t,
         Receive(r, kind, p, t), UNCHANGED mail, MailTask(p, t),
         p = "mail:store" => t.dir = "in", MailSerial => MailSerialTask(p, t)
  PROVE  MailInv'
<1>1. UNCHANGED <<address, shared, emails, sent, approvedAs>>
  BY DEF mail
<1>2. MailRows'
  BY <1>1 DEF MailInv, MailRows
<1>3. /\ overlapped' = (overlapped \/ ~AllIdle) /\ restarts' = restarts /\ pc[r] = "idle"
      /\ \A q \in Requests : /\ pc'[q] = (IF q = r THEN p ELSE pc[q])
                             /\ task'[q] = (IF q = r THEN t ELSE task[q])
  BY DEF Receive, Arrives, Handlers, Idle
<1>4. ASSUME NEW q \in Requests PROVE MailTask(pc[q], task[q])'
  <2>1. CASE q = r
    BY <1>1, <1>3, <2>1 DEF MailTask
  <2>2. CASE q # r
    BY <1>1, <1>3, <2>2 DEF MailInv, MailTask
  <2>. QED  BY <2>1, <2>2
<1>5. AwaitStore' = AwaitStore
  <2>1. ASSUME NEW q \in Requests PROVE q \in AwaitStore' <=> q \in AwaitStore
    BY <1>3 DEF AwaitStore
  <2>. QED  BY <2>1 DEF AwaitStore
<1>6. OutMails' = OutMails
  BY <1>1 DEF OutMails
<1>7. MailCounts'
  BY <1>1, <1>3, <1>5, <1>6 DEF MailInv, MailCounts
<1>8. ASSUME ~overlapped' PROVE (MailSerial /\ \A q \in Requests : MailSerialTask(pc[q], task[q]))'
  <2>1. AllIdle /\ MailSerial
    BY <1>3, <1>8 DEF MailInv
  <2>2. MailSerial' /\ MailSerialTask(p, t)'
    BY <1>1, <2>1 DEF MailSerial, MailSerialTask, ApprovedAddress
  <2>3. ASSUME NEW q \in Requests PROVE MailSerialTask(pc[q], task[q])'
    <3>1. CASE q = r
      BY <1>3, <2>2, <3>1
    <3>2. CASE q # r
      BY <1>3, <2>1, <3>2 DEF MailSerialTask, AllIdle, Idle
    <3>. QED  BY <3>1, <3>2
  <2>. QED  BY <2>2, <2>3
<1>. QED  BY <1>2, <1>4, <1>7, <1>8 DEF MailInv

\* So is one that is answered at once.
LEMMA MailAnswers ==
  ASSUME Handlers, MailInv, NEW kind, AnswerAtOnce(kind), MailRows', OutMails' = OutMails,
         UNCHANGED sent, \A a \in Addresses : address[a] # None => address'[a] # None,
         MailSerial => MailSerial'
  PROVE  MailInv'
<1>1. /\ overlapped' = (overlapped \/ ~AllIdle) /\ restarts' = restarts /\ UNCHANGED handlers
  BY DEF AnswerAtOnce, Arrives
<1>2. AwaitStore' = AwaitStore
  BY <1>1 DEF handlers, AwaitStore
<1>3. MailCounts'
  BY <1>1, <1>2 DEF MailInv, MailCounts
<1>4. ASSUME NEW q \in Requests PROVE MailTask(pc[q], task[q])'
  BY <1>1 DEF handlers, MailInv, MailTask
<1>5. ASSUME ~overlapped' PROVE (MailSerial /\ \A q \in Requests : MailSerialTask(pc[q], task[q]))'
  <2>1. AllIdle /\ MailSerial
    BY <1>1, <1>5 DEF MailInv
  <2>2. \A q \in Requests : pc'[q] = "idle"
    BY <1>1, <2>1 DEF handlers, AllIdle, Idle
  <2>. QED  BY <2>1, <2>2 DEF MailSerialTask
<1>. QED  BY <1>3, <1>4, <1>5 DEF MailInv

LEMMA MailInvInit == Init => MailInv
<1> SUFFICES ASSUME Init PROVE MailInv
  OBVIOUS
<1>1. /\ \/ address = [a \in Addresses |-> None]
         \/ address = StartAddress
      /\ emails = <<>> /\ sent = 0 /\ restarts = 0
      /\ approvedAs = [a \in Addresses |->
           IF address[a] # None /\ ApprovedAddress(a) THEN address[a].part ELSE None]
      /\ \A r \in Requests : pc[r] = "idle"
  BY DEF Init, MailInit, ServerInit
<1>2. address \in [Addresses -> AddressRows \cup {None}]
  BY <1>1, MailAssumption
<1>3. \A a \in Addresses : address[a] # None => address[a].part \in Parts /\ address[a].part # None
  BY <1>2, MailRowsAre DEF AddressRows
<1>4. approvedAs \in [Addresses -> Parts \cup {None}]
  BY <1>1, <1>3
<1>5. emails \in Seq(EmailRows) /\ DOMAIN emails = {} /\ OutMails = {}
  BY <1>1 DEF OutMails
<1>6. AwaitStore = {} /\ Cardinality(OutMails) = 0 /\ Cardinality(AwaitStore) = 0
  BY <1>1, <1>5, FS_EmptySet DEF AwaitStore
<1>7. MailRows /\ MailCounts
  BY <1>1, <1>2, <1>4, <1>5, <1>6 DEF MailRows, MailCounts
<1>8. MailSerial
  BY <1>1, <1>3, <1>5 DEF MailSerial
<1>. QED  BY <1>1, <1>7, <1>8 DEF MailInv, MailTask, MailSerialTask

-----------------------------------------------------------------------------
(* Its requests *)

LEMMA ClaimAddressKeeps ==
  ASSUME Handlers, MailInv, NEW r \in Requests, ClaimAddress(r)
  PROVE  MailInv'
<1>1. PICK o \in Owners, part \in Parts :
        /\ Claimable(o) /\ UNCHANGED mail
        /\ Receive(r, "ClaimAddress", "claim:write",
                   [owner |-> o, part |-> part, rows |-> AddressesOf(o)])
  BY DEF ClaimAddress
<1>2. PICK t : t = [owner |-> o, part |-> part, rows |-> AddressesOf(o)]
  OBVIOUS
<1>3. t.owner = o /\ t.part = part /\ t.rows = AddressesOf(o)
  BY <1>2
<1>4. MailTask("claim:write", t) /\ MailSerialTask("claim:write", t)
  BY <1>1, <1>3 DEF MailTask, MailSerialTask, AddressesOf, KnownAddresses, Claimable
<1>. QED  BY <1>1, <1>2, <1>4, MailReceives

LEMMA JudgeAddressKeeps ==
  ASSUME Handlers, MailInv, NEW r \in Requests, JudgeAddress(r)
  PROVE  MailInv'
<1>1. PICK a \in KnownAddresses, verdict \in {"approved", "rejected"} :
        /\ ~ApprovedAddress(a) /\ UNCHANGED mail
        /\ \E kind : Receive(r, kind, "verdict:write", [address |-> a, verdict |-> verdict])
  BY DEF JudgeAddress
<1>2. PICK t : t = [address |-> a, verdict |-> verdict]
  OBVIOUS
<1>3. t.address = a /\ t.verdict = verdict
  BY <1>2
<1>4. MailTask("verdict:write", t) /\ MailSerialTask("verdict:write", t)
  BY <1>1, <1>3 DEF MailTask, MailSerialTask, KnownAddresses
<1>. QED  BY <1>1, <1>2, <1>4, MailReceives

\* A mail is of the local part under which its address is approved.
LEMMA ApprovedParts ==
  ASSUME MailRows, NEW a \in KnownAddresses, ApprovedAddress(a)
  PROVE  /\ a \in Addresses /\ address[a].part \in Parts
         /\ MailSerial => approvedAs[a] = address[a].part
<1>1. a \in Addresses /\ address[a] \in AddressRows /\ address[a] # None
  BY DEF KnownAddresses, MailRows
<1>. QED  BY <1>1 DEF AddressRows, MailSerial

LEMMA SendKeeps ==
  ASSUME Handlers, MailInv, NEW r \in Requests, Send(r)
  PROVE  MailInv'
<1>1. PICK a \in KnownAddresses :
        /\ ApprovedAddress(a) /\ UNCHANGED mail
        /\ Receive(r, "Send", "mail:send",
                   [address |-> a, dir |-> "out", part |-> address[a].part])
  BY DEF Send
<1>2. PICK t : t = [address |-> a, dir |-> "out", part |-> address[a].part]
  OBVIOUS
<1>3. /\ a \in Addresses /\ address[a].part \in Parts
      /\ MailSerial => approvedAs[a] = address[a].part
  BY <1>1, ApprovedParts DEF MailInv
<1>4. MailTask("mail:send", t)
  BY <1>2, <1>3 DEF MailTask, MailsToStore
<1>5. MailSerial => MailSerialTask("mail:send", t)
  BY <1>2, <1>3 DEF MailSerialTask
<1>. QED  BY <1>1, <1>2, <1>4, <1>5, MailReceives

LEMMA ReceiveInboundKeeps ==
  ASSUME Handlers, MailInv, NEW r \in Requests, ReceiveInbound(r)
  PROVE  MailInv'
<1>1. PICK a \in KnownAddresses :
        /\ ApprovedAddress(a) /\ UNCHANGED mail
        /\ Receive(r, "ReceiveInbound", "mail:store",
                   [address |-> a, dir |-> "in", part |-> address[a].part])
  BY DEF ReceiveInbound
<1>2. PICK t : t = [address |-> a, dir |-> "in", part |-> address[a].part]
  OBVIOUS
<1>3. /\ a \in Addresses /\ address[a].part \in Parts
      /\ MailSerial => approvedAs[a] = address[a].part
  BY <1>1, ApprovedParts DEF MailInv
<1>4. MailTask("mail:store", t) /\ t.dir = "in"
  BY <1>2, <1>3 DEF MailTask, MailsToStore
<1>5. MailSerial => MailSerialTask("mail:store", t)
  BY <1>2, <1>3 DEF MailSerialTask
<1>. QED  BY <1>1, <1>2, <1>4, <1>5, MailReceives

\* No mail is of an address that has not been approved.
LEMMA MailsOfApproved ==
  ASSUME MailRows, MailSerial, NEW i \in DOMAIN emails
  PROVE  /\ emails[i].address \in Addresses /\ approvedAs[emails[i].address] # None
         /\ emails[i].part = approvedAs[emails[i].address]
<1>1. emails[i] \in EmailRows
  BY DEF MailRows
<1>2. emails[i].address \in Addresses /\ emails[i].part \in Parts
  BY <1>1 DEF EmailRows
<1>. QED  BY <1>2, MailRowsAre DEF MailSerial

\* An address gets its first verdict, or a row of its own, approved.
LEMMA ApprovedOnce ==
  ASSUME MailRows, MailSerial, MailRows', NEW a \in Addresses, NEW row \in AddressRows,
         approvedAs[a] = None, address' = [address EXCEPT ![a] = row],
         approvedAs' = [approvedAs EXCEPT ![a] =
           IF row.status = "approved" THEN row.part ELSE @],
         UNCHANGED emails
  PROVE  MailSerial'
<1>1. /\ \A b \in Addresses : address'[b] = (IF b = a THEN row ELSE address[b])
      /\ \A b \in Addresses : approvedAs'[b] =
           (IF b # a THEN approvedAs[b] ELSE IF row.status = "approved" THEN row.part ELSE None)
  BY DEF MailRows
<1>2. row # None /\ row.part # None
  BY MailRowsAre DEF AddressRows
<1>3. ASSUME NEW b \in Addresses
      PROVE  /\ approvedAs'[b] # None => address'[b] # None
             /\ address'[b] # None => (address'[b].status = "approved" <=> approvedAs'[b] # None)
             /\ approvedAs'[b] # None => approvedAs'[b] = address'[b].part
  <2>1. CASE b = a
    BY <1>1, <1>2, <2>1
  <2>2. CASE b # a
    BY <1>1, <2>2 DEF MailSerial, ApprovedAddress
  <2>. QED  BY <2>1, <2>2
<1>4. ASSUME NEW i \in DOMAIN emails
      PROVE  emails[i].part = approvedAs'[emails[i].address]
  BY <1>1, MailsOfApproved
<1>. QED  BY <1>3, <1>4 DEF MailSerial, ApprovedAddress

LEMMA CreateSharedAddressKeeps ==
  ASSUME Handlers, MailInv, CreateSharedAddress
  PROVE  MailInv'
<1>1. PICK part \in Parts, a \in FreeId(address) :
        /\ AnswerAtOnce("CreateSharedAddress")
        /\ address' = [address EXCEPT ![a] = AddressRow(Staff, part, TRUE)]
        /\ approvedAs' = [approvedAs EXCEPT ![a] = part]
        /\ UNCHANGED <<emails, sent>>
  BY DEF CreateSharedAddress
<1>2. a \in Addresses /\ address[a] = None
  BY FreeIdIsFree DEF MailInv, MailRows
<1>3. PICK row : row = AddressRow(Staff, part, TRUE)
  OBVIOUS
<1>4. row \in AddressRows /\ row.part = part /\ row.status = "approved" /\ row # None
  BY <1>3, MailRowsAre, MailAssumption, ClassroomAssumption
<1>5. MailRows'
  BY <1>1, <1>2, <1>3, <1>4 DEF MailInv, MailRows
<1>6. OutMails' = OutMails
  BY <1>1 DEF OutMails
<1>7. \A b \in Addresses : address[b] # None => address'[b] # None
  BY <1>1, <1>3, <1>4 DEF MailInv, MailRows
<1>8. ASSUME MailSerial PROVE MailSerial'
  <2>1. approvedAs[a] = None
    BY <1>2, <1>8 DEF MailSerial
  <2>2. approvedAs' = [approvedAs EXCEPT ![a] = IF row.status = "approved" THEN row.part ELSE @]
    BY <1>1, <1>4
  <2>. QED
    BY <1>1, <1>2, <1>3, <1>4, <1>5, <1>8, <2>1, <2>2, ApprovedOnce DEF MailInv
<1>. QED  BY <1>1, <1>5, <1>6, <1>7, <1>8, MailAnswers

LEMMA ShareAddressKeeps ==
  ASSUME Handlers, MailInv, ShareAddress
  PROVE  MailInv'
<1>1. PICK kind : AnswerAtOnce(kind) /\ UNCHANGED <<address, emails, sent, approvedAs>>
  BY DEF ShareAddress
<1>2. MailRows' /\ OutMails' = OutMails
  BY <1>1 DEF MailInv, MailRows, OutMails
<1>3. MailSerial => MailSerial'
  BY <1>1 DEF MailSerial, ApprovedAddress
<1>. QED  BY <1>1, <1>2, <1>3, MailAnswers

LEMMA GetEmailKeeps ==
  ASSUME Handlers, MailInv, GetEmail
  PROVE  MailInv'
<1>1. PICK i \in DOMAIN emails :
        /\ AnswerAtOnce("GetEmail") /\ emails' = [emails EXCEPT ![i].read = TRUE]
        /\ UNCHANGED <<address, sent, approvedAs>>
  BY DEF GetEmail, WithRead
<1>2. emails \in Seq(EmailRows) /\ emails[i] \in EmailRows
  BY DEF MailInv, MailRows
<1>3. PICK row : row = [emails[i] EXCEPT !.read = TRUE]
  OBVIOUS
<1>4. /\ row \in EmailRows /\ row.address = emails[i].address
      /\ row.dir = emails[i].dir /\ row.part = emails[i].part
  BY <1>2, <1>3 DEF EmailRows
<1>5. emails' = [emails EXCEPT ![i] = row]
  BY <1>1, <1>3
<1>6. /\ emails' \in Seq(EmailRows) /\ DOMAIN emails' = DOMAIN emails
      /\ \A j \in DOMAIN emails : emails'[j] = (IF j = i THEN row ELSE emails[j])
  BY <1>2, <1>4, <1>5
<1>7. MailRows'
  BY <1>1, <1>6 DEF MailInv, MailRows
<1>8. OutMails' = OutMails
  BY <1>4, <1>6 DEF OutMails
<1>9. MailSerial => MailSerial'
  BY <1>1, <1>4, <1>6 DEF MailSerial, ApprovedAddress
<1>. QED  BY <1>1, <1>7, <1>8, <1>9, MailAnswers

-----------------------------------------------------------------------------
(* Its handlers *)

\* Who waits to store a mail, after a step of one.
LEMMA AwaitStoreGoes ==
  ASSUME Handlers, NEW r \in Requests, NEW p, NEW t, GotoWith(r, p, t)
  PROVE  /\ AwaitStore' = (IF p = "mail:store" /\ t.dir = "out" THEN AwaitStore \cup {r}
                           ELSE AwaitStore \ {r})
         /\ restarts' = restarts
<1>1. /\ \A q \in Requests : /\ pc'[q] = (IF q = r THEN p ELSE pc[q])
                             /\ task'[q] = (IF q = r THEN t ELSE task[q])
      /\ restarts' = restarts
  BY OneGoes
<1>2. ASSUME NEW q \in Requests
      PROVE  q \in AwaitStore' <=> IF q = r THEN p = "mail:store" /\ t.dir = "out"
                                   ELSE q \in AwaitStore
  BY <1>1 DEF AwaitStore
<1>3. AwaitStore \subseteq Requests /\ AwaitStore' \subseteq Requests
  BY DEF AwaitStore
<1>4. CASE p = "mail:store" /\ t.dir = "out"
  BY <1>1, <1>2, <1>3, <1>4
<1>5. CASE ~(p = "mail:store" /\ t.dir = "out")
  BY <1>1, <1>2, <1>3, <1>5
<1>. QED  BY <1>4, <1>5

\* A handler that writes an address answers, and no mail has gone.
LEMMA AddressDone ==
  ASSUME Handlers, Alone, MailInv, NEW r \in Requests,
         pc[r] \in {"claim:write", "verdict:write"}, Return(r), MailRows',
         UNCHANGED <<emails, sent>>, \A a \in Addresses : address[a] # None => address'[a] # None,
         ~overlapped => MailSerial'
  PROVE  MailInv'
<1>1. GotoWith(r, "idle", None)
  BY DEF Return
<1>2. AwaitStore' = AwaitStore /\ restarts' = restarts
  BY <1>1, AwaitStoreGoes DEF AwaitStore
<1>3. OutMails' = OutMails
  BY DEF OutMails
<1>4. MailCounts'
  BY <1>2, <1>3 DEF MailInv, MailCounts
<1>5. MailTask("idle", None)' /\ MailSerialTask("idle", None)'
  BY DEF MailTask, MailSerialTask
<1>. QED  BY <1>1, <1>4, <1>5, MailGoes

LEMMA ClaimWriteKeeps ==
  ASSUME Handlers, Alone, MailInv, NEW r \in Requests, ClaimWrite(r)
  PROVE  MailInv'
<1>1. PICK t : t = task[r]
  OBVIOUS
<1>2. /\ pc[r] = "claim:write" /\ Return(r) /\ UNCHANGED <<emails, sent, approvedAs>>
      /\ \/ address' = [a \in Addresses |->
              IF a \in t.rows THEN [address[a] EXCEPT !.part = t.part, !.status = "pending"]
              ELSE address[a]]
         \/ \E a \in FreeId(address) :
              address' = [address EXCEPT ![a] = AddressRow(t.owner, t.part, FALSE)]
         \/ UNCHANGED address
  BY <1>1 DEF ClaimWrite, At
<1>3. /\ t.owner \in Owners /\ t.part \in Parts
      /\ \A a \in Addresses : a \in t.rows => address[a] # None
  BY <1>1, <1>2 DEF MailInv, MailTask
<1>4. address \in [Addresses -> AddressRows \cup {None}] /\ MailRows
  BY DEF MailInv, MailRows
<1>5. ~overlapped => MailSerial /\ \A a \in Addresses : a \in t.rows => ~ApprovedAddress(a)
  BY <1>1, <1>2 DEF MailInv, MailSerialTask
<1>6. CASE address' = [a \in Addresses |->
             IF a \in t.rows THEN [address[a] EXCEPT !.part = t.part, !.status = "pending"]
             ELSE address[a]]
  <2>1. ASSUME NEW a \in Addresses, a \in t.rows
        PROVE  address'[a] \in AddressRows /\ address'[a].status = "pending"
    <3>1. address[a] \in AddressRows
      BY <1>3, <1>4, <2>1
    <3>2. address'[a] = [address[a] EXCEPT !.part = t.part, !.status = "pending"]
      BY <1>6, <2>1
    <3>. QED  BY <1>3, <3>1, <3>2 DEF AddressRows, Statuses
  <2>2. ASSUME NEW a \in Addresses, a \notin t.rows PROVE address'[a] = address[a]
    BY <1>6, <2>2
  <2>3. MailRows'
    <3>1. address' \in [Addresses -> AddressRows \cup {None}]
      BY <1>4, <1>6, <2>1, <2>2
    <3>. QED  BY <1>2, <3>1, <1>4 DEF MailRows
  <2>4. \A a \in Addresses : address[a] # None => address'[a] # None
    BY <2>1, <2>2, MailRowsAre
  <2>5. ASSUME ~overlapped PROVE MailSerial'
    <3>1. ASSUME NEW a \in Addresses
          PROVE  /\ approvedAs[a] # None => address'[a] # None
                 /\ address'[a] # None =>
                      (address'[a].status = "approved" <=> approvedAs[a] # None)
                 /\ approvedAs[a] # None => approvedAs[a] = address'[a].part
      <4>1. CASE a \in t.rows
        <5>1. address[a] # None /\ ~ApprovedAddress(a)
          BY <1>3, <1>5, <2>5, <4>1
        <5>2. approvedAs[a] = None
          BY <1>5, <2>5, <5>1 DEF MailSerial
        <5>. QED  BY <2>1, <4>1, <5>2
      <4>2. CASE a \notin t.rows
        BY <1>5, <2>2, <2>5, <4>2 DEF MailSerial, ApprovedAddress
      <4>. QED  BY <4>1, <4>2
    <3>. QED  BY <1>2, <1>5, <2>5, <3>1 DEF MailSerial, ApprovedAddress
  <2>. QED  BY <1>2, <2>3, <2>4, <2>5, AddressDone
<1>7. CASE \E a \in FreeId(address) :
             address' = [address EXCEPT ![a] = AddressRow(t.owner, t.part, FALSE)]
  <2>1. PICK a \in FreeId(address) :
          address' = [address EXCEPT ![a] = AddressRow(t.owner, t.part, FALSE)]
    BY <1>7
  <2>2. PICK row : row = AddressRow(t.owner, t.part, FALSE)
    OBVIOUS
  <2>3. row \in AddressRows /\ row.status # "approved" /\ row # None
    BY <1>3, <2>2, MailRowsAre
  <2>4. a \in Addresses /\ address[a] = None
    BY <1>4, FreeIdIsFree
  <2>5. MailRows' /\ \A b \in Addresses : address[b] # None => address'[b] # None
    BY <1>2, <1>4, <2>1, <2>2, <2>3, <2>4 DEF MailRows
  <2>6. ASSUME ~overlapped PROVE MailSerial'
    <3>1. approvedAs[a] = None
      BY <1>5, <2>4, <2>6 DEF MailSerial
    <3>2. approvedAs' = [approvedAs EXCEPT ![a] = IF row.status = "approved" THEN row.part ELSE @]
      BY <1>2, <1>4, <2>3 DEF MailRows
    <3>. QED  BY <1>2, <1>4, <1>5, <2>1, <2>2, <2>3, <2>4, <2>5, <2>6, <3>1, <3>2, ApprovedOnce
  <2>. QED  BY <1>2, <2>5, <2>6, AddressDone
<1>8. CASE UNCHANGED address
  BY <1>2, <1>4, <1>5, <1>8, AddressDone DEF MailRows, MailSerial, ApprovedAddress
<1>. QED  BY <1>2, <1>6, <1>7, <1>8

LEMMA VerdictWriteKeeps ==
  ASSUME Handlers, Alone, MailInv, NEW r \in Requests, VerdictWrite(r)
  PROVE  MailInv'
<1>1. PICK t : t = task[r]
  OBVIOUS
<1>2. /\ pc[r] = "verdict:write" /\ Return(r) /\ UNCHANGED <<emails, sent>>
      /\ address' = [address EXCEPT ![t.address].status = t.verdict]
      /\ approvedAs' = [approvedAs EXCEPT ![t.address] =
           IF t.verdict = "approved" THEN address[t.address].part ELSE @]
  BY <1>1 DEF VerdictWrite, At
<1>3. PICK a : a = t.address
  OBVIOUS
<1>4. a \in Addresses /\ t.verdict \in {"approved", "rejected"} /\ address[a] # None
  BY <1>1, <1>2, <1>3 DEF MailInv, MailTask
<1>5. MailRows /\ address[a] \in AddressRows
  BY <1>4 DEF MailInv, MailRows
<1>6. PICK row : row = [address[a] EXCEPT !.status = t.verdict]
  OBVIOUS
<1>7. row \in AddressRows /\ row.status = t.verdict /\ row.part = address[a].part /\ row # None
  BY <1>4, <1>5, <1>6, MailRowsAre DEF AddressRows, Statuses
<1>8. /\ address' = [address EXCEPT ![a] = row]
      /\ approvedAs' = [approvedAs EXCEPT ![a] = IF row.status = "approved" THEN row.part ELSE @]
  BY <1>2, <1>3, <1>6, <1>7
<1>9. row.part \in Parts
  BY <1>7 DEF AddressRows
<1>10. MailRows' /\ \A b \in Addresses : address[b] # None => address'[b] # None
  <2>1. /\ address \in [Addresses -> AddressRows \cup {None}]
        /\ approvedAs \in [Addresses -> Parts \cup {None}]
    BY <1>5 DEF MailRows
  <2>2. address' \in [Addresses -> AddressRows \cup {None}]
    BY <1>4, <1>7, <1>8, <2>1
  <2>3. approvedAs' \in [Addresses -> Parts \cup {None}]
    BY <1>4, <1>8, <1>9, <2>1
  <2>4. ASSUME NEW b \in Addresses, address[b] # None PROVE address'[b] # None
    BY <1>4, <1>7, <1>8, <2>1, <2>4
  <2>. QED  BY <1>2, <1>5, <2>2, <2>3, <2>4 DEF MailRows
<1>11. ASSUME ~overlapped PROVE MailSerial'
  <2>1. MailSerial /\ ~ApprovedAddress(a)
    BY <1>1, <1>2, <1>3, <1>11 DEF MailInv, MailSerialTask
  <2>2. approvedAs[a] = None
    BY <1>4, <2>1 DEF MailSerial
  <2>. QED  BY <1>2, <1>4, <1>5, <1>7, <1>8, <1>10, <2>1, <2>2, ApprovedOnce
<1>. QED  BY <1>2, <1>10, <1>11, AddressDone

LEMMA SendOutKeeps ==
  ASSUME Handlers, Alone, MailInv, NEW r \in Requests, SendOut(r)
  PROVE  MailInv'
<1>1. PICK t : t = task[r]
  OBVIOUS
<1>2. /\ pc[r] = "mail:send" /\ UNCHANGED <<address, emails, approvedAs>>
      /\ \/ GotoWith(r, "mail:store", t) /\ sent' = sent + 1
         \/ GotoWith(r, "idle", None) /\ UNCHANGED sent
  BY <1>1 DEF SendOut, At, Goto, Return
<1>3. t \in MailsToStore /\ t.dir = "out" /\ MailRows /\ MailCounts
  BY <1>1, <1>2 DEF MailInv, MailTask
<1>4. MailRows' /\ OutMails' = OutMails
  BY <1>2, <1>3 DEF MailRows, OutMails
<1>5. ASSUME ~overlapped PROVE MailSerial' /\ t.part = approvedAs[t.address]
  BY <1>1, <1>2, <1>5 DEF MailInv, MailSerial, ApprovedAddress, MailSerialTask
<1>6. r \notin AwaitStore /\ IsFiniteSet(AwaitStore) /\ Cardinality(AwaitStore) \in Nat
  BY <1>2, AwaitStoreFinite DEF AwaitStore
<1>7. Cardinality(OutMails) \in Nat
  BY <1>3, OutMailsFinite
<1>8. CASE GotoWith(r, "mail:store", t) /\ sent' = sent + 1
  <2>1. AwaitStore' = AwaitStore \cup {r} /\ restarts' = restarts
    BY <1>3, <1>8, AwaitStoreGoes
  <2>2. Cardinality(AwaitStore') = Cardinality(AwaitStore) + 1
    BY <1>6, <2>1, FS_AddElement
  <2>3. MailCounts'
    <3>1. PICK m \in Nat : m = Cardinality(OutMails)
      BY <1>7
    <3>2. PICK n \in Nat : n = Cardinality(AwaitStore)
      BY <1>6
    <3>3. Cardinality(OutMails') = m /\ Cardinality(AwaitStore') = n + 1
      BY <1>4, <2>2, <3>1, <3>2
    <3>4. sent \in Nat /\ m + n <= sent /\ (restarts = 0 => m + n = sent)
      BY <1>3, <3>1, <3>2 DEF MailCounts, MailRows
    <3>5. m + (n + 1) <= sent' /\ (restarts = 0 => m + (n + 1) = sent')
      BY <1>8, <3>4
    <3>. QED  BY <2>1, <3>3, <3>5 DEF MailCounts
  <2>4. MailTask("mail:store", t)'
    BY <1>3 DEF MailTask
  <2>5. ~overlapped => MailSerialTask("mail:store", t)'
    BY <1>2, <1>5 DEF MailSerialTask
  <2>. QED  BY <1>2, <1>4, <1>5, <1>8, <2>3, <2>4, <2>5, MailGoes
<1>9. CASE GotoWith(r, "idle", None) /\ UNCHANGED sent
  <2>1. AwaitStore' = AwaitStore /\ restarts' = restarts
    BY <1>6, <1>9, AwaitStoreGoes
  <2>2. MailCounts'
    BY <1>3, <1>4, <1>9, <2>1 DEF MailCounts
  <2>3. MailTask("idle", None)' /\ MailSerialTask("idle", None)'
    BY DEF MailTask, MailSerialTask
  <2>. QED  BY <1>2, <1>4, <1>5, <1>9, <2>2, <2>3, MailGoes
<1>. QED  BY <1>2, <1>8, <1>9

LEMMA MailStoreKeeps ==
  ASSUME Handlers, Alone, MailInv, NEW r \in Requests, MailStore(r)
  PROVE  MailInv'
<1>1. PICK t : t = task[r]
  OBVIOUS
<1>2. PICK row : row = With(t, [read |-> FALSE])
  OBVIOUS
<1>3. /\ pc[r] = "mail:store" /\ GotoWith(r, "idle", None)
      /\ UNCHANGED <<address, sent, approvedAs>> /\ emails' = Append(emails, row)
  BY <1>1, <1>2 DEF MailStore, At, Return
<1>4. t \in MailsToStore /\ MailRows /\ MailCounts
  BY <1>1, <1>3 DEF MailInv, MailTask
<1>5. row = [address |-> t.address, dir |-> t.dir, part |-> t.part, read |-> FALSE]
  <2>1. DOMAIN t = {"address", "dir", "part"}
    BY <1>4 DEF MailsToStore
  <2>2. PICK new : new = [read |-> FALSE]
    OBVIOUS
  <2>3. DOMAIN new = {"read"} /\ new["read"] = FALSE
    BY <2>2
  <2>4. row = [x \in DOMAIN t \cup DOMAIN new |-> IF x \in DOMAIN new THEN new[x] ELSE t[x]]
    BY <1>2, <2>2 DEF With
  <2>5. row = [x \in {"address", "dir", "part", "read"} |-> IF x = "read" THEN FALSE ELSE t[x]]
    BY <2>1, <2>3, <2>4
  <2>. QED  BY <1>4, <2>5 DEF MailsToStore
<1>6. row \in EmailRows /\ row.dir = t.dir /\ row.part = t.part /\ row.address = t.address
  BY <1>4, <1>5 DEF MailsToStore, EmailRows
<1>7. emails \in Seq(EmailRows)
  BY <1>4 DEF MailRows
<1>8. PICK n \in Nat : n = Len(emails)
  BY <1>7
<1>9. /\ emails' \in Seq(EmailRows) /\ DOMAIN emails = 1 .. n /\ DOMAIN emails' = 1 .. n + 1
      /\ \A i \in 1 .. n : emails'[i] = emails[i]
      /\ emails'[n + 1] = row
  BY <1>3, <1>6, <1>7, <1>8
<1>10. MailRows'
  BY <1>3, <1>4, <1>9 DEF MailRows
<1>11. ASSUME ~overlapped PROVE MailSerial'
  <2>1. MailSerial /\ t.part = approvedAs[t.address]
    BY <1>1, <1>3, <1>11 DEF MailInv, MailSerialTask
  <2>2. ASSUME NEW i \in DOMAIN emails' PROVE emails'[i].part = approvedAs[emails'[i].address]
    <3>1. CASE i = n + 1
      BY <1>6, <1>9, <2>1, <3>1
    <3>2. CASE i # n + 1
      <4>1. i \in 1 .. n
        BY <1>8, <1>9, <3>2
      <4>. QED  BY <1>9, <2>1, <4>1 DEF MailSerial
    <3>. QED  BY <3>1, <3>2
  <2>. QED  BY <1>3, <2>1, <2>2 DEF MailSerial, ApprovedAddress
<1>12. AwaitStore' = AwaitStore \ {r} /\ restarts' = restarts
  BY <1>3, AwaitStoreGoes
<1>13. /\ IsFiniteSet(AwaitStore) /\ Cardinality(AwaitStore) \in Nat
       /\ IsFiniteSet(OutMails) /\ Cardinality(OutMails) \in Nat
  BY <1>4, AwaitStoreFinite, OutMailsFinite
<1>16. MailTask("idle", None)' /\ MailSerialTask("idle", None)'
  BY DEF MailTask, MailSerialTask
<1>14. CASE t.dir = "out"
  <2>1. r \in AwaitStore
    BY <1>1, <1>3, <1>14 DEF AwaitStore
  <2>2. Cardinality(AwaitStore') = Cardinality(AwaitStore) - 1
    BY <1>12, <1>13, <2>1, FS_RemoveElement
  <2>3. OutMails' = OutMails \cup {n + 1} /\ n + 1 \notin OutMails
    <3>1. \A i \in 1 .. n : i # n + 1
      BY <1>8
    <3>2. 1 .. n + 1 = (1 .. n) \cup {n + 1}
      BY <1>8
    <3>. QED  BY <1>6, <1>9, <1>14, <3>1, <3>2 DEF OutMails
  <2>4. Cardinality(OutMails') = Cardinality(OutMails) + 1
    BY <1>13, <2>3, FS_AddElement
  <2>5. Cardinality(OutMails') + Cardinality(AwaitStore') =
          Cardinality(OutMails) + Cardinality(AwaitStore)
    BY <1>13, <2>2, <2>4
  <2>6. MailCounts'
    BY <1>3, <1>4, <1>12, <2>5 DEF MailCounts
  <2>. QED  BY <1>3, <1>10, <1>11, <1>16, <2>6, MailGoes
<1>15. CASE t.dir # "out"
  <2>1. AwaitStore' = AwaitStore
    BY <1>1, <1>12, <1>15 DEF AwaitStore
  <2>2. OutMails' = OutMails
    <3>1. 1 .. n + 1 = (1 .. n) \cup {n + 1}
      BY <1>8
    <3>. QED  BY <1>6, <1>9, <1>15, <3>1 DEF OutMails
  <2>3. MailCounts'
    BY <1>3, <1>4, <1>12, <2>1, <2>2 DEF MailCounts
  <2>. QED  BY <1>3, <1>10, <1>11, <1>16, <2>3, MailGoes
<1>. QED  BY <1>14, <1>15

LEMMA MailRestarts ==
  ASSUME MailInv, Alone, Restart
  PROVE  MailInv'
<1>1. /\ overlapped' = overlapped /\ restarts' = restarts + 1
      /\ UNCHANGED <<address, emails, sent, approvedAs>>
      /\ \A r \in Requests : pc'[r] = "idle"
  BY DEF Restart, ServerRestart, mail
<1>2. MailRows /\ MailCounts /\ MailRows'
  BY <1>1 DEF MailInv, MailRows
<1>3. AwaitStore' = {} /\ OutMails' = OutMails
  BY <1>1 DEF AwaitStore, OutMails
<1>4. /\ Cardinality(AwaitStore') = 0 /\ Cardinality(AwaitStore) \in Nat
      /\ Cardinality(OutMails) \in Nat
  BY <1>2, <1>3, FS_EmptySet, AwaitStoreFinite, OutMailsFinite
<1>5. restarts' # 0
  BY <1>1 DEF Alone
<1>6. MailCounts'
  BY <1>1, <1>2, <1>3, <1>4, <1>5 DEF MailCounts, MailRows
<1>. QED
  BY <1>1, <1>2, <1>6 DEF MailInv, MailSerial, ApprovedAddress, MailTask, MailSerialTask

LEMMA MailInvStep ==
  ASSUME Handlers, Handlers', Alone, MailInv, overlapped => overlapped', [Next]_vars
  PROVE  MailInv'
<1>1. CASE UNCHANGED mail /\ Away(MailLabels)
  BY <1>1, MailStay
<1>2. CASE Restart
  BY <1>2, MailRestarts
<1>3. CASE SharedRequest \/ GetEmail
  BY <1>3, CreateSharedAddressKeeps, ShareAddressKeeps, GetEmailKeeps DEF SharedRequest
<1>4. ASSUME NEW r \in Requests, MailStep(r) PROVE MailInv'
  BY <1>4, ClaimWriteKeeps, VerdictWriteKeeps, SendOutKeeps, MailStoreKeeps DEF MailStep
<1>5. ASSUME NEW r \in Requests, ClaimAddress(r) \/ JudgeAddress(r) \/ MailRequest(r)
      PROVE  MailInv'
  BY <1>5, ClaimAddressKeeps, JudgeAddressKeeps, SendKeeps, ReceiveInboundKeeps DEF MailRequest
<1>6. MailNext \/ Restart \/ (UNCHANGED mail /\ Away(MailLabels))
  BY MailFrame
<1>. QED  BY <1>1, <1>2, <1>3, <1>4, <1>5, <1>6, Zenon DEF MailNext

-----------------------------------------------------------------------------
(* Milestones *)

\* The row of a retrospective holds a score of the text it holds, if that is long.
ScoredFor(u) ==
  LET row == milestone[u, "retrospective"]
  IN  row # None /\ row.text \in LongTexts => row.scored = row.text

\* Somebody is about to write it.
Scoring(u) ==
  \E r \in Requests : pc[r] = "essay:score" /\ task[r].row = <<u, "retrospective">>

MilestonesSound ==
  /\ milestone \in [Users \X Types -> MilestoneRows \cup {None}]
  /\ judgedAs \in [Users \X Types -> Texts \cup {None}]
  /\ found \in [Users -> Finds]
  /\ \A m \in Users \X Types :
       /\ milestone[m] = None => judgedAs[m] = None
       /\ milestone[m] # None => (milestone[m].status = "approved" <=> judgedAs[m] # None)
       /\ judgedAs[m] # None => judgedAs[m] = milestone[m].text

MilestonesScored == restarts = 0 => \A u \in Users : ScoredFor(u) \/ Scoring(u)

\* What a handler that is alone knows of the milestone it deals with.
MilestonesTask(p, t) ==
  /\ p = "essay:score" =>
       /\ t.text \in Texts /\ t.row \in Users \X {"retrospective"}
       /\ milestone[t.row] # None /\ milestone[t.row].text = t.text
  /\ p \in {"sync:find", "sync:write"} =>
       t.user \in Users /\ t.found \in Finds /\ t.i \in Nat \ {0}
       /\ t = [user |-> t.user, found |-> t.found, i |-> t.i]
  /\ p = "sync:write" =>
       /\ t.i <= Len(Mvps) /\ t.i <= Len(t.found)
       /\ milestone[t.user, Mvps[t.i]] # None =>
            milestone[t.user, Mvps[t.i]].status # "approved"

MilestonesInv ==
  ~overlapped =>
    MilestonesSound /\ MilestonesScored /\ \A r \in Requests : MilestonesTask(pc[r], task[r])

LEMMA MilestonesFrame ==
  ASSUME Handlers, [Next]_vars
  PROVE  MilestonesNext \/ Restart \/ (UNCHANGED milestones /\ Away(MilestonesLabels))
<1>1. "idle" \notin MilestonesLabels /\ MilestonesLabels \cap Shared = {}
  <2>1. /\ "idle" \notin MilestonesLabels /\ MilestonesLabels \cap ClassroomLabels = {}
        /\ MilestonesLabels \cap EnsureThens = {} /\ MilestonesLabels \cap BankLabels = {}
        /\ MilestonesLabels \cap GrantsLabels = {}
    BY DEF MilestonesLabels, ClassroomLabels, EnsureLabels, EnsureThens, BankLabels, GrantsLabels
  <2>2. MilestonesLabels \cap PostsLabels = {} /\ MilestonesLabels \cap FilesLabels = {}
    BY DEF MilestonesLabels, PostsLabels, FilesLabels
  <2>3. MilestonesLabels \cap MessagesTo = {} /\ MilestonesLabels \cap HubTo = {}
        /\ MilestonesLabels \cap {"ensure:select", "dm:insert", "notice:insert"} = {}
    BY DEF MilestonesLabels, MessagesTo, MessagesLabels, HubTo, HubLabels
  <2>. QED  BY <2>1, <2>2, <2>3 DEF Shared
<1>2. /\ BillingLabels \cap MilestonesLabels = {} /\ ChatLabels \cap MilestonesLabels = {}
      /\ DatabasesLabels \cap MilestonesLabels = {} /\ MailLabels \cap MilestonesLabels = {}
  BY DEF MilestonesLabels, BillingLabels, ChatLabels, DatabasesLabels, MailLabels
<1>3. /\ ServicesLabels \cap MilestonesLabels = {} /\ OAuthLabels \cap MilestonesLabels = {}
      /\ AccountsLabels \cap MilestonesLabels = {} /\ KnowledgeLabels \cap MilestonesLabels = {}
  BY DEF MilestonesLabels, ServicesLabels, OAuthLabels, AccountsLabels, KnowledgeLabels
<1>4. MilestonesNext \/ Restart \/ UNCHANGED milestones
  BY DEF Next, Quiet, vars, ToolsNext, tools, HubOnly
<1>5. MilestonesNext \/ Restart \/ Away(MilestonesLabels)
  BY <1>1, <1>2, <1>3, AwayFrom
<1>. QED  BY <1>4, <1>5

LEMMA MilestonesStay ==
  ASSUME MilestonesInv, Alone, [Next]_vars, overlapped => overlapped', UNCHANGED milestones,
         Away(MilestonesLabels)
  PROVE  MilestonesInv'
<1> SUFFICES ASSUME ~overlapped'
             PROVE (MilestonesSound /\ MilestonesScored
                    /\ \A r \in Requests : MilestonesTask(pc[r], task[r]))'
  BY DEF MilestonesInv
<1>1. UNCHANGED <<milestone, found, judgedAs>> /\ MilestonesSound /\ MilestonesScored
  BY DEF milestones, MilestonesInv
<1>2. MilestonesSound'
  BY <1>1 DEF MilestonesSound
<1>3. ASSUME NEW r \in Requests PROVE MilestonesTask(pc[r], task[r])'
  <2>1. CASE pc'[r] = pc[r] /\ task'[r] = task[r]
    BY <1>1, <2>1 DEF MilestonesInv, MilestonesTask
  <2>2. CASE pc'[r] \notin MilestonesLabels
    BY <2>2 DEF MilestonesTask, MilestonesLabels
  <2>. QED  BY <2>1, <2>2 DEF Away
<1>4. ASSUME NEW u \in Users, Scoring(u) PROVE Scoring(u)'
  <2>1. PICK r \in Requests : pc[r] = "essay:score" /\ task[r].row = <<u, "retrospective">>
    BY <1>4 DEF Scoring
  <2>2. pc'[r] = pc[r] /\ task'[r] = task[r]
    BY <2>1 DEF Away, MilestonesLabels
  <2>. QED  BY <2>1, <2>2 DEF Scoring
<1>5. \A u \in Users : ScoredFor(u)' <=> ScoredFor(u)
  BY <1>1 DEF ScoredFor
<1>6. restarts' = 0 => restarts = 0
  BY Unrestarted
<1>7. MilestonesScored'
  BY <1>1, <1>4, <1>5, <1>6 DEF MilestonesScored
<1>. QED  BY <1>2, <1>3, <1>7

\* A step of one of its handlers, which is alone, has only its own task to answer for.
LEMMA MilestonesGoes ==
  ASSUME Handlers, Alone, NEW r \in Requests, NEW p, NEW t, pc[r] # "idle", GotoWith(r, p, t),
         ~overlapped => (MilestonesSound /\ MilestonesScored /\ MilestonesTask(p, t))'
  PROVE  MilestonesInv'
<1> SUFFICES ASSUME ~overlapped'
             PROVE (MilestonesSound /\ MilestonesScored
                    /\ \A q \in Requests : MilestonesTask(pc[q], task[q]))'
  BY DEF MilestonesInv
<1>1. ~overlapped
  BY DEF GotoWith, control
<1>2. /\ pc'[r] = p /\ task'[r] = t
      /\ \A q \in Requests : q # r => pc'[q] = "idle"
  BY <1>1, OthersIdle
<1>3. ASSUME NEW q \in Requests PROVE MilestonesTask(pc[q], task[q])'
  <2>1. CASE q = r
    BY <1>1, <1>2, <2>1
  <2>2. CASE q # r
    BY <1>2, <2>2 DEF MilestonesTask
  <2>. QED  BY <2>1, <2>2
<1>. QED  BY <1>1, <1>3

\* A request is received when nobody is busy, or overlaps; nobody is scoring then.
LEMMA MilestonesReceives ==
  ASSUME Handlers, MilestonesInv, NEW r \in Requests, NEW kind, NEW p, NEW t,
         Receive(r, kind, p, t),
         MilestonesSound => (MilestonesSound /\ MilestonesTask(p, t))',
         MilestonesSound /\ (restarts = 0 => \A u \in Users : ScoredFor(u))
           => (restarts = 0 => \A u \in Users : ScoredFor(u) \/ Scoring(u))'
  PROVE  MilestonesInv'
<1> SUFFICES ASSUME ~overlapped'
             PROVE (MilestonesSound /\ MilestonesScored
                    /\ \A q \in Requests : MilestonesTask(pc[q], task[q]))'
  BY DEF MilestonesInv
<1>1. /\ ~overlapped /\ AllIdle
      /\ \A q \in Requests : /\ pc'[q] = (IF q = r THEN p ELSE pc[q])
                             /\ task'[q] = (IF q = r THEN t ELSE task[q])
  BY DEF Receive, Arrives, Handlers
<1>2. MilestonesSound /\ MilestonesScored
  BY <1>1 DEF MilestonesInv
<1>3. restarts = 0 => \A u \in Users : ScoredFor(u)
  BY <1>1, <1>2 DEF MilestonesScored, Scoring, AllIdle, Idle
<1>4. ASSUME NEW q \in Requests PROVE MilestonesTask(pc[q], task[q])'
  <2>1. CASE q = r
    BY <1>1, <1>2, <2>1
  <2>2. CASE q # r
    BY <1>1, <2>2 DEF MilestonesTask, AllIdle, Idle
  <2>. QED  BY <2>1, <2>2
<1>. QED  BY <1>2, <1>3, <1>4 DEF MilestonesScored

\* So is one that is answered at once.
LEMMA MilestonesAnswers ==
  ASSUME MilestonesInv, NEW kind, AnswerAtOnce(kind), MilestonesSound => MilestonesSound',
         MilestonesSound => \A u \in Users : ScoredFor(u) => ScoredFor(u)'
  PROVE  MilestonesInv'
<1> SUFFICES ASSUME ~overlapped'
             PROVE (MilestonesSound /\ MilestonesScored
                    /\ \A q \in Requests : MilestonesTask(pc[q], task[q]))'
  BY DEF MilestonesInv
<1>1. ~overlapped /\ AllIdle /\ UNCHANGED handlers /\ restarts' = restarts
  BY DEF AnswerAtOnce, Arrives
<1>2. \A q \in Requests : pc'[q] = "idle"
  BY <1>1 DEF handlers, AllIdle, Idle
<1>3. MilestonesSound /\ (restarts = 0 => \A u \in Users : ScoredFor(u))
  BY <1>1 DEF MilestonesInv, MilestonesScored, Scoring, AllIdle, Idle
<1>. QED  BY <1>1, <1>2, <1>3 DEF MilestonesScored, MilestonesTask

LEMMA MilestonesInvInit == Init => MilestonesInv
<1> SUFFICES ASSUME Init PROVE MilestonesInv
  OBVIOUS
<1>1. /\ milestone = [m \in Users \X Types |-> None]
      /\ found = [u \in Users |-> <<>>]
      /\ judgedAs = [m \in Users \X Types |-> None]
      /\ \A r \in Requests : pc[r] = "idle"
  BY DEF Init, MilestonesInit, ServerInit
<1>2. MilestonesSound
  BY <1>1, MilestonesAssumption DEF MilestonesSound
<1>3. ASSUME NEW u \in Users PROVE ScoredFor(u)
  <2>1. <<u, "retrospective">> \in Users \X Types
    BY DEF Types
  <2>2. milestone[<<u, "retrospective">>] = None
    BY <1>1, <2>1
  <2>. QED  BY <2>2 DEF ScoredFor
<1>. QED  BY <1>1, <1>2, <1>3 DEF MilestonesInv, MilestonesScored, MilestonesTask

LEMMA MilestoneRowsAre ==
  /\ \A row \in MilestoneRows : row # None
  /\ \A text \in Texts : text # None
BY MilestonesAssumption

\* What a student submits, or the page finds, makes a pending row of it.
LEMMA UpsertedIs ==
  ASSUME MilestonesSound, NEW m \in Users \X Types, NEW text \in Texts,
         NEW source \in {"manual", "company", "grant"}
  PROVE  /\ Upserted(m, source, text) \in MilestoneRows
         /\ Upserted(m, source, text).status = "pending"
         /\ Upserted(m, source, text).text = text
<1>1. PICK scored : scored = (IF milestone[m] = None THEN None ELSE milestone[m].scored)
  OBVIOUS
<1>2. milestone[m] \in MilestoneRows \cup {None}
  BY DEF MilestonesSound
<1>3. scored \in Texts \cup {None}
  BY <1>1, <1>2 DEF MilestoneRows
<1>4. Upserted(m, source, text) =
        [source |-> source, text |-> text, status |-> "pending", scored |-> scored]
  BY <1>1 DEF Upserted
<1>. QED  BY <1>3, <1>4 DEF MilestoneRows, Statuses

\* A row is written, with the verdict that goes with it.
LEMMA MilestoneWritten ==
  ASSUME MilestonesSound, NEW m \in Users \X Types, NEW row \in MilestoneRows, NEW x,
         milestone' = [milestone EXCEPT ![m] = row], judgedAs' = [judgedAs EXCEPT ![m] = x],
         x \in {row.text, None}, row.status = "approved" <=> x # None, UNCHANGED found
  PROVE  MilestonesSound'
<1>1. row.text \in Texts
  BY DEF MilestoneRows
<1>2. \A n \in Users \X Types :
        /\ milestone'[n] = (IF n = m THEN row ELSE milestone[n])
        /\ judgedAs'[n] = (IF n = m THEN x ELSE judgedAs[n])
  BY DEF MilestonesSound
<1>3. /\ milestone' \in [Users \X Types -> MilestoneRows \cup {None}]
      /\ judgedAs' \in [Users \X Types -> Texts \cup {None}]
      /\ found' \in [Users -> Finds]
  BY <1>1 DEF MilestonesSound
<1>4. ASSUME NEW n \in Users \X Types
      PROVE  /\ milestone'[n] = None => judgedAs'[n] = None
             /\ milestone'[n] # None =>
                  (milestone'[n].status = "approved" <=> judgedAs'[n] # None)
             /\ judgedAs'[n] # None => judgedAs'[n] = milestone'[n].text
  <2>1. CASE n = m
    BY <1>2, <2>1, MilestoneRowsAre
  <2>2. CASE n # m
    BY <1>2, <2>2 DEF MilestonesSound
  <2>. QED  BY <2>1, <2>2
<1>. QED  BY <1>3, <1>4 DEF MilestonesSound

\* What is written to one row leaves the scores of the others.
LEMMA OtherScores ==
  ASSUME MilestonesSound, NEW m \in Users \X Types, NEW row,
         milestone' = [milestone EXCEPT ![m] = row], NEW u \in Users,
         m # <<u, "retrospective">>
  PROVE  ScoredFor(u)' = ScoredFor(u)
<1>1. <<u, "retrospective">> \in Users \X Types
  BY DEF Types
<1>2. milestone'[<<u, "retrospective">>] = milestone[<<u, "retrospective">>]
  BY <1>1 DEF MilestonesSound
<1>. QED  BY <1>2 DEF ScoredFor

LEMMA SubmitManualKeeps ==
  ASSUME Handlers, MilestonesInv, NEW r \in Requests, SubmitManual(r)
  PROVE  MilestonesInv'
<1>1. PICK u \in Users, type \in Types, text \in Texts :
        /\ IF type = "retrospective" /\ text \in LongTexts
             THEN Receive(r, "SubmitManual", "essay:score", [row |-> <<u, type>>, text |-> text])
             ELSE AnswerAtOnce("SubmitManual")
        /\ milestone' = [milestone EXCEPT ![<<u, type>>] = Upserted(<<u, type>>, "manual", text)]
        /\ judgedAs' = [judgedAs EXCEPT ![<<u, type>>] = None]
        /\ UNCHANGED found
  BY DEF SubmitManual
<1>2. PICK m : m = <<u, type>>
  OBVIOUS
<1>3. PICK row : row = Upserted(m, "manual", text)
  OBVIOUS
<1>4. /\ m \in Users \X Types /\ milestone' = [milestone EXCEPT ![m] = row]
      /\ judgedAs' = [judgedAs EXCEPT ![m] = None]
  BY <1>1, <1>2, <1>3
<1>5. MilestonesSound => row \in MilestoneRows /\ row.status = "pending" /\ row.text = text
  BY <1>3, <1>4, UpsertedIs
<1>6. MilestonesSound => MilestonesSound'
  BY <1>1, <1>4, <1>5, MilestoneWritten
<1>7. MilestonesSound => milestone'[m] = row
  BY <1>4 DEF MilestonesSound
<1>8. ASSUME MilestonesSound, NEW v \in Users, m # <<v, "retrospective">>
      PROVE  ScoredFor(v)' = ScoredFor(v)
  BY <1>4, <1>8, OtherScores
<1>9. CASE type = "retrospective" /\ text \in LongTexts
  <2>1. PICK t : t = [row |-> m, text |-> text]
    OBVIOUS
  <2>2. Receive(r, "SubmitManual", "essay:score", t) /\ t.row = m /\ t.text = text
    BY <1>1, <1>2, <1>9, <2>1
  <2>3. m = <<u, "retrospective">> /\ m \in Users \X {"retrospective"}
    BY <1>2, <1>9
  <2>4. MilestonesSound => MilestonesTask("essay:score", t)'
    BY <1>5, <1>7, <2>2, <2>3, MilestoneRowsAre DEF MilestonesTask
  <2>5. ASSUME restarts = 0 => \A v \in Users : ScoredFor(v), restarts' = 0, MilestonesSound,
               NEW v \in Users
        PROVE  (ScoredFor(v) \/ Scoring(v))'
    <3>1. CASE v = u
      <4>1. pc'[r] = "essay:score" /\ task'[r] = t
        BY <2>2 DEF Receive, Handlers
      <4>. QED  BY <2>2, <2>3, <3>1, <4>1 DEF Scoring
    <3>2. CASE v # u
      <4>1. m # <<v, "retrospective">> /\ restarts = 0
        BY <2>2, <2>3, <2>5, <3>2 DEF Receive, Arrives
      <4>. QED  BY <1>8, <2>5, <4>1
    <3>. QED  BY <3>1, <3>2
  <2>. QED  BY <1>6, <2>2, <2>4, <2>5, MilestonesReceives
<1>10. CASE ~(type = "retrospective" /\ text \in LongTexts)
  <2>1. ASSUME MilestonesSound, NEW v \in Users, ScoredFor(v) PROVE ScoredFor(v)'
    <3>1. CASE m = <<v, "retrospective">>
      <4>1. row.text \notin LongTexts
        BY <1>2, <1>5, <1>10, <2>1, <3>1
      <4>. QED  BY <1>7, <2>1, <3>1, <4>1 DEF ScoredFor
    <3>2. CASE m # <<v, "retrospective">>
      BY <1>8, <2>1, <3>2
    <3>. QED  BY <3>1, <3>2
  <2>. QED  BY <1>1, <1>6, <1>10, <2>1, MilestonesAnswers
<1>. QED  BY <1>9, <1>10

LEMMA JudgeMilestoneKeeps ==
  ASSUME MilestonesInv, JudgeMilestone
  PROVE  MilestonesInv'
<1>1. PICK m \in Users \X Types, verdict \in {"approved", "rejected"} :
        /\ milestone[m] # None /\ \E kind : AnswerAtOnce(kind)
        /\ milestone' = [milestone EXCEPT ![m].status = verdict]
        /\ judgedAs' = [judgedAs EXCEPT ![m] =
             IF verdict = "approved" THEN milestone[m].text ELSE None]
        /\ UNCHANGED found
  <2>1. PICK m \in Users \X Types :
          /\ milestone[m] # None
          /\ \/ /\ AnswerAtOnce("Approve")
                /\ milestone' = [milestone EXCEPT ![m].status = "approved"]
                /\ judgedAs' = [judgedAs EXCEPT ![m] = milestone[m].text]
             \/ /\ AnswerAtOnce("Reject")
                /\ milestone' = [milestone EXCEPT ![m].status = "rejected"]
                /\ judgedAs' = [judgedAs EXCEPT ![m] = None]
          /\ UNCHANGED found
    BY DEF JudgeMilestone
  <2>. QED  BY <2>1
<1>2. PICK row : row = [milestone[m] EXCEPT !.status = verdict]
  OBVIOUS
<1>3. ASSUME MilestonesSound
      PROVE  /\ row \in MilestoneRows /\ row.status = verdict /\ row.text = milestone[m].text
             /\ row.scored = milestone[m].scored /\ row.text # None
  <2>1. milestone[m] \in MilestoneRows
    BY <1>1, <1>3 DEF MilestonesSound
  <2>2. milestone[m].text \in Texts
    BY <2>1 DEF MilestoneRows
  <2>. QED  BY <1>1, <1>2, <2>1, <2>2, MilestoneRowsAre DEF MilestoneRows, Statuses
<1>4. milestone' = [milestone EXCEPT ![m] = row]
  BY <1>1, <1>2
<1>5. PICK x : x = (IF verdict = "approved" THEN milestone[m].text ELSE None)
  OBVIOUS
<1>6. MilestonesSound => MilestonesSound'
  <2>. SUFFICES ASSUME MilestonesSound PROVE MilestonesSound'
    OBVIOUS
  <2>1. x \in {row.text, None} /\ (row.status = "approved" <=> x # None)
    BY <1>1, <1>3, <1>5
  <2>. QED  BY <1>1, <1>3, <1>4, <1>5, <2>1, MilestoneWritten
<1>7. ASSUME MilestonesSound, NEW u \in Users, ScoredFor(u) PROVE ScoredFor(u)'
  <2>1. CASE m = <<u, "retrospective">>
    <3>1. milestone'[m] = row
      BY <1>4, <1>7 DEF MilestonesSound
    <3>. QED  BY <1>1, <1>3, <1>7, <2>1, <3>1 DEF ScoredFor
  <2>2. CASE m # <<u, "retrospective">>
    BY <1>4, <1>7, <2>2, OtherScores
  <2>. QED  BY <2>1, <2>2
<1>. QED  BY <1>1, <1>6, <1>7, MilestonesAnswers

LEMMA FindAddressesKeeps ==
  ASSUME MilestonesInv, FindAddresses
  PROVE  MilestonesInv'
<1>1. PICK u \in Users, list \in Finds :
        /\ AnswerAtOnce("FindAddresses") /\ found' = [found EXCEPT ![u] = list]
        /\ UNCHANGED <<milestone, judgedAs>>
  BY DEF FindAddresses
<1>2. MilestonesSound => MilestonesSound'
  BY <1>1 DEF MilestonesSound
<1>3. \A v \in Users : ScoredFor(v) => ScoredFor(v)'
  BY <1>1 DEF ScoredFor
<1>. QED  BY <1>1, <1>2, <1>3, MilestonesAnswers

LEMMA SyncAutoKeeps ==
  ASSUME Handlers, MilestonesInv, NEW r \in Requests, SyncAuto(r)
  PROVE  MilestonesInv'
<1>1. PICK u \in Users :
        /\ Receive(r, "SyncAuto", "sync:find", [user |-> u, found |-> found[u], i |-> 1])
        /\ UNCHANGED <<milestone, found, judgedAs>>
  BY DEF SyncAuto, milestones
<1>2. PICK list : list = found[u]
  OBVIOUS
<1>3. PICK t : t = [user |-> u, found |-> list, i |-> 1]
  OBVIOUS
<1>4. MilestonesSound => (MilestonesSound /\ MilestonesTask("sync:find", t))'
  <2>. SUFFICES ASSUME MilestonesSound PROVE (MilestonesSound /\ MilestonesTask("sync:find", t))'
    OBVIOUS
  <2>1. list \in Finds
    BY <1>2 DEF MilestonesSound
  <2>2. MilestonesSound'
    BY <1>1 DEF MilestonesSound
  <2>. QED  BY <1>3, <2>1, <2>2 DEF MilestonesTask
<1>5. ASSUME restarts = 0 => \A v \in Users : ScoredFor(v)
      PROVE  (restarts = 0 => \A v \in Users : ScoredFor(v) \/ Scoring(v))'
  BY <1>1, <1>5 DEF ScoredFor, Receive, Arrives
<1>. QED  BY <1>1, <1>2, <1>3, <1>4, <1>5, MilestonesReceives

LEMMA EssayScoreKeeps ==
  ASSUME Handlers, Alone, MilestonesInv, NEW r \in Requests, EssayScore(r)
  PROVE  MilestonesInv'
<1>1. PICK t : t = task[r]
  OBVIOUS
<1>2. /\ pc[r] = "essay:score" /\ GotoWith(r, "idle", None)
      /\ milestone' = [milestone EXCEPT ![t.row].scored = t.text]
      /\ UNCHANGED <<found, judgedAs>>
  BY <1>1 DEF EssayScore, At, Return
<1>3. ASSUME ~overlapped
      PROVE  (MilestonesSound /\ MilestonesScored /\ MilestonesTask("idle", None))'
  <2>1. MilestonesSound /\ MilestonesScored /\ MilestonesTask("essay:score", t)
    BY <1>1, <1>2, <1>3 DEF MilestonesInv
  <2>2. PICK m : m = t.row
    OBVIOUS
  <2>3. /\ t.text \in Texts /\ m \in Users \X {"retrospective"}
        /\ milestone[m] # None /\ milestone[m].text = t.text
    BY <2>1, <2>2 DEF MilestonesTask
  <2>4. PICK u \in Users : m = <<u, "retrospective">>
    BY <2>3
  <2>5. m \in Users \X Types
    BY <2>4 DEF Types
  <2>6. milestone[m] \in MilestoneRows
    BY <2>1, <2>3, <2>5 DEF MilestonesSound
  <2>7. PICK row : row = [milestone[m] EXCEPT !.scored = t.text]
    OBVIOUS
  <2>8. /\ row \in MilestoneRows /\ row.status = milestone[m].status
        /\ row.text = milestone[m].text /\ row.scored = t.text
    BY <2>3, <2>6, <2>7 DEF MilestoneRows
  <2>9. milestone' = [milestone EXCEPT ![m] = row]
    BY <1>2, <2>2, <2>7
  <2>10. MilestonesSound'
    <3>0. PICK x : x = judgedAs[m]
      OBVIOUS
    <3>1. judgedAs' = [judgedAs EXCEPT ![m] = x]
      BY <1>2, <2>1, <2>5, <3>0 DEF MilestonesSound
    <3>2. x \in {row.text, None} /\ (row.status = "approved" <=> x # None)
      BY <2>1, <2>3, <2>5, <2>8, <3>0 DEF MilestonesSound
    <3>3. UNCHANGED found
      BY <1>2
    <3>4. row \in MilestoneRows /\ m \in Users \X Types
      BY <2>5, <2>8
    <3>. QED  BY <2>1, <2>9, <3>1, <3>2, <3>3, <3>4, MilestoneWritten, Zenon
  <2>11. /\ \A q \in Requests : q # r => pc'[q] = pc[q] /\ task'[q] = task[q]
         /\ restarts' = restarts
    BY <1>2, OneGoes
  <2>12. ASSUME restarts' = 0, NEW v \in Users PROVE ScoredFor(v)' \/ Scoring(v)'
    <3>1. CASE v = u
      <4>1. milestone'[m] = row
        BY <2>1, <2>5, <2>9 DEF MilestonesSound
      <4>2. milestone'[v, "retrospective"] = row
        BY <2>4, <3>1, <4>1
      <4>. QED  BY <2>3, <2>8, <4>2 DEF ScoredFor
    <3>2. CASE v # u
      <4>1. m # <<v, "retrospective">>
        BY <2>4, <3>2
      <4>2. ScoredFor(v)' = ScoredFor(v)
        BY <2>1, <2>5, <2>9, <4>1, OtherScores
      <4>3. CASE Scoring(v)
        <5>1. PICK q \in Requests : pc[q] = "essay:score" /\ task[q].row = <<v, "retrospective">>
          BY <4>3 DEF Scoring
        <5>2. q # r
          BY <1>1, <2>2, <4>1, <5>1
        <5>. QED  BY <2>11, <5>1, <5>2 DEF Scoring
      <4>4. CASE ScoredFor(v)
        BY <4>2, <4>4
      <4>. QED  BY <2>1, <2>11, <2>12, <4>3, <4>4 DEF MilestonesScored
    <3>. QED  BY <3>1, <3>2
  <2>. QED  BY <2>10, <2>12 DEF MilestonesScored, MilestonesTask
<1>. QED  BY <1>2, <1>3, MilestonesGoes

\* A step of a page that is opened: it leaves the retrospectives alone.
LEMMA SyncGoes ==
  ASSUME Handlers, Alone, MilestonesInv, NEW r \in Requests, NEW p, NEW t, ~overlapped,
         pc[r] \in {"sync:find", "sync:write"}, GotoWith(r, p, t),
         \A u \in Users : ScoredFor(u)' = ScoredFor(u)
  PROVE  MilestonesScored'
<1>1. /\ \A q \in Requests : q # r => pc'[q] = pc[q] /\ task'[q] = task[q]
      /\ restarts' = restarts
  BY OneGoes
<1>2. \A u \in Users : Scoring(u) => Scoring(u)'
  BY <1>1 DEF Scoring
<1>. QED  BY <1>1, <1>2 DEF MilestonesInv, MilestonesScored

LEMMA NextFind ==
  ASSUME NEW t, t.user \in Users, t.found \in Finds, t.i \in Nat \ {0},
         t = [user |-> t.user, found |-> t.found, i |-> t.i]
  PROVE  MilestonesTask("sync:find", [t EXCEPT !.i = @ + 1])'
<1>1. PICK new : new = [t EXCEPT !.i = @ + 1]
  OBVIOUS
<1>2. new = [user |-> t.user, found |-> t.found, i |-> t.i + 1]
  BY <1>1
<1>. QED  BY <1>1, <1>2 DEF MilestonesTask

LEMMA SyncFindKeeps ==
  ASSUME Handlers, Alone, MilestonesInv, NEW r \in Requests, SyncFind(r)
  PROVE  MilestonesInv'
<1>1. PICK t : t = task[r]
  OBVIOUS
<1>2. /\ pc[r] = "sync:find" /\ UNCHANGED <<milestone, found, judgedAs>>
      /\ \/ GotoWith(r, "idle", None)
         \/ GotoWith(r, "sync:find", [t EXCEPT !.i = @ + 1])
         \/ /\ GotoWith(r, "sync:write", t)
            /\ ~(t.i > Len(Mvps) \/ t.i > Len(t.found))
            /\ ~Untouched(milestone[<<t.user, Mvps[t.i]>>], t.found[t.i])
  BY <1>1 DEF SyncFind, At, Goto, Return, milestones
<1>3. PICK p, new :
        /\ GotoWith(r, p, new)
        /\ \/ p = "idle"
           \/ p = "sync:find" /\ new = [t EXCEPT !.i = @ + 1]
           \/ /\ p = "sync:write" /\ new = t
              /\ ~(t.i > Len(Mvps) \/ t.i > Len(t.found))
              /\ ~Untouched(milestone[<<t.user, Mvps[t.i]>>], t.found[t.i])
  BY <1>2
<1>4. ASSUME ~overlapped
      PROVE  (MilestonesSound /\ MilestonesScored /\ MilestonesTask(p, new))'
  <2>1. /\ MilestonesSound
        /\ t.user \in Users /\ t.found \in Finds /\ t.i \in Nat \ {0}
        /\ t = [user |-> t.user, found |-> t.found, i |-> t.i]
    BY <1>1, <1>2, <1>4 DEF MilestonesInv, MilestonesTask
  <2>2. MilestonesSound'
    BY <1>2, <2>1 DEF MilestonesSound
  <2>3. \A u \in Users : ScoredFor(u)' = ScoredFor(u)
    BY <1>2 DEF ScoredFor
  <2>4. MilestonesScored'
    BY <1>2, <1>3, <1>4, <2>3, SyncGoes
  <2>. SUFFICES MilestonesTask(p, new)'
    BY <2>2, <2>4
  <2>5. CASE p = "idle"
    BY <2>5 DEF MilestonesTask
  <2>6. CASE p = "sync:find" /\ new = [t EXCEPT !.i = @ + 1]
    BY <2>1, <2>6, NextFind
  <2>7. CASE /\ p = "sync:write" /\ new = t
             /\ ~(t.i > Len(Mvps) \/ t.i > Len(t.found))
             /\ ~Untouched(milestone[<<t.user, Mvps[t.i]>>], t.found[t.i])
    <3>1. Len(Mvps) \in Nat /\ Len(t.found) \in Nat
      BY <2>1, MilestonesAssumption
    <3>2. t.i <= Len(Mvps) /\ t.i <= Len(t.found)
      BY <2>1, <2>7, <3>1
    <3>3. milestone[<<t.user, Mvps[t.i]>>] # None =>
            milestone[<<t.user, Mvps[t.i]>>].status # "approved"
      BY <2>7 DEF Untouched
    <3>. QED  BY <1>2, <2>1, <2>7, <3>2, <3>3 DEF MilestonesTask
  <2>. QED  BY <1>3, <2>2, <2>4, <2>5, <2>6, <2>7
<1>. QED  BY <1>2, <1>3, <1>4, MilestonesGoes

LEMMA SyncWriteKeeps ==
  ASSUME Handlers, Alone, MilestonesInv, NEW r \in Requests, SyncWrite(r)
  PROVE  MilestonesInv'
<1>1. PICK t : t = task[r]
  OBVIOUS
<1>2. PICK m : m = <<t.user, Mvps[t.i]>>
  OBVIOUS
<1>3. PICK row : row = Upserted(m, t.found[t.i].source, t.found[t.i].text)
  OBVIOUS
<1>4. PICK new : new = [t EXCEPT !.i = @ + 1]
  OBVIOUS
<1>5. /\ pc[r] = "sync:write" /\ GotoWith(r, "sync:find", new)
      /\ milestone' = [milestone EXCEPT ![m] = row] /\ UNCHANGED <<found, judgedAs>>
  BY <1>1, <1>2, <1>3, <1>4 DEF SyncWrite, At
<1>6. ASSUME ~overlapped
      PROVE  (MilestonesSound /\ MilestonesScored /\ MilestonesTask("sync:find", new))'
  <2>1. /\ MilestonesSound
        /\ t.user \in Users /\ t.found \in Finds /\ t.i \in Nat \ {0}
        /\ t = [user |-> t.user, found |-> t.found, i |-> t.i]
        /\ t.i <= Len(Mvps) /\ t.i <= Len(t.found)
        /\ milestone[m] # None => milestone[m].status # "approved"
    BY <1>1, <1>2, <1>5, <1>6 DEF MilestonesInv, MilestonesTask
  <2>2. t.i \in DOMAIN Mvps /\ Mvps[t.i] \in {"mvp1", "mvp2"}
    <3>1. Mvps \in Seq({"mvp1", "mvp2"}) /\ t.i \in 1 .. Len(Mvps)
      BY <2>1, MilestonesAssumption
    <3>. QED  BY <3>1
  <2>3. m \in Users \X Types /\ \A u \in Users : m # <<u, "retrospective">>
    BY <1>2, <2>1, <2>2 DEF Types
  <2>4. PICK c : c = t.found[t.i]
    OBVIOUS
  <2>5. c.source \in {"manual", "company", "grant"} /\ c.text \in Texts
    <3>1. PICK Found : Found = [source : {"company", "grant"}, text : Texts]
      OBVIOUS
    <3>2. PICK list : list = t.found
      OBVIOUS
    <3>3. list \in Seq(Found)
      BY <2>1, <3>1, <3>2, MilestonesAssumption
    <3>4. PICK i : i = t.i
      OBVIOUS
    <3>5. i \in Nat \ {0} /\ i <= Len(list)
      BY <2>1, <3>2, <3>4
    <3>6. list[i] \in Found
      BY <3>3, <3>5
    <3>. QED  BY <2>4, <3>1, <3>2, <3>4, <3>6
  <2>6. row \in MilestoneRows /\ row.status = "pending"
    BY <1>3, <2>1, <2>3, <2>4, <2>5, UpsertedIs
  <2>7. judgedAs[m] = None
    BY <2>1, <2>3 DEF MilestonesSound
  <2>8. judgedAs' = [judgedAs EXCEPT ![m] = None]
    BY <1>5, <2>1, <2>3, <2>7 DEF MilestonesSound
  <2>9. MilestonesSound'
    BY <1>5, <2>1, <2>3, <2>6, <2>8, MilestoneWritten
  <2>10. \A u \in Users : ScoredFor(u)' = ScoredFor(u)
    BY <1>5, <2>1, <2>3, OtherScores
  <2>11. MilestonesScored'
    BY <1>5, <1>6, <2>10, SyncGoes
  <2>. QED  BY <1>4, <2>1, <2>9, <2>11, NextFind
<1>. QED  BY <1>5, <1>6, MilestonesGoes

LEMMA MilestonesRestarts ==
  ASSUME MilestonesInv, Alone, Restart
  PROVE  MilestonesInv'
<1>1. /\ overlapped' = overlapped /\ restarts' = restarts + 1
      /\ UNCHANGED <<milestone, found, judgedAs>>
      /\ \A r \in Requests : pc'[r] = "idle"
  BY DEF Restart, ServerRestart, milestones
<1>2. restarts' # 0
  BY <1>1 DEF Alone
<1>. QED
  BY <1>1, <1>2 DEF MilestonesInv, MilestonesSound, MilestonesScored, MilestonesTask

LEMMA MilestonesInvStep ==
  ASSUME Handlers, Alone, MilestonesInv, overlapped => overlapped', [Next]_vars
  PROVE  MilestonesInv'
<1>1. CASE UNCHANGED milestones /\ Away(MilestonesLabels)
  BY <1>1, MilestonesStay
<1>2. CASE Restart
  BY <1>2, MilestonesRestarts
<1>3. CASE FindAddresses \/ JudgeMilestone
  BY <1>3, FindAddressesKeeps, JudgeMilestoneKeeps
<1>4. ASSUME NEW r \in Requests, MilestonesStep(r) PROVE MilestonesInv'
  BY <1>4, EssayScoreKeeps, SyncFindKeeps, SyncWriteKeeps DEF MilestonesStep
<1>5. ASSUME NEW r \in Requests, MilestonesRequest(r) PROVE MilestonesInv'
  BY <1>5, SubmitManualKeeps, SyncAutoKeeps DEF MilestonesRequest
<1>6. MilestonesNext \/ Restart \/ (UNCHANGED milestones /\ Away(MilestonesLabels))
  BY MilestonesFrame
<1>. QED  BY <1>1, <1>2, <1>3, <1>4, <1>5, <1>6, Zenon DEF MilestonesNext

\* One at a time, an address that was approved stays approved under its local part and
\* has mail of that part alone, and a milestone is approved exactly when the text it
\* holds was; with no restart a long retrospective that nobody is scoring any more has
\* the score of its own text.  In any interleaving the sender has accepted every mail
\* that went out and is stored, and with no restart every mail it accepted is stored
\* once nobody is busy: ClaimAddress, VerdictWrite, MailStore, Upsert and
\* ScoreAndStoreEssay.
THEOREM VerdictsAlwaysStand == Spec => []VerdictsStand
<1> DEFINE Inv == Handlers /\ Alone /\ MailInv /\ MilestonesInv
<1>1. Init => Inv
  BY HandlersInit, AloneInit, MailInvInit, MilestonesInvInit
<1>2. Inv /\ [Next]_vars => Inv'
  BY HandlersStep, AloneStep, MailInvStep, MilestonesInvStep
<1>3. Inv => VerdictsStand
  <2> SUFFICES ASSUME Inv PROVE VerdictsStand
    OBVIOUS
  <2>1. ASSUME OneByOne
        PROVE  /\ \A a \in Addresses : approvedAs[a] # None =>
                    ApprovedAddress(a) /\ address[a].part = approvedAs[a]
               /\ \A i \in DOMAIN emails : emails[i].part = approvedAs[emails[i].address]
               /\ \A m \in Users \X Types : milestone[m] # None =>
                    /\ milestone[m].status = "approved" <=> judgedAs[m] # None
                    /\ judgedAs[m] # None => judgedAs[m] = milestone[m].text
    BY <2>1 DEF OneByOne, MailInv, MailSerial, MilestonesInv, MilestonesSound
  <2>2. ASSUME Unbroken, AllIdle, NEW u \in Users PROVE ScoredFor(u)
    <3>1. ~Scoring(u)
      BY <2>2 DEF Scoring, AllIdle, Idle
    <3>. QED  BY <2>2, <3>1 DEF Unbroken, MilestonesInv, MilestonesScored
  <2>3. Cardinality(OutMails) <= sent /\ (Settled => Cardinality(OutMails) = sent)
    <3>1. /\ Cardinality(OutMails) \in Nat /\ Cardinality(AwaitStore) \in Nat /\ sent \in Nat
          /\ MailCounts
      BY OutMailsFinite, AwaitStoreFinite DEF MailInv, MailRows
    <3>2. ASSUME Settled PROVE restarts = 0 /\ Cardinality(AwaitStore) = 0
      <4>1. AwaitStore = {}
        BY <3>2 DEF Settled, AwaitStore, AllIdle, Idle
      <4>. QED  BY <3>2, <4>1, FS_EmptySet DEF Settled
    <3>. QED  BY <3>1, <3>2 DEF MailCounts
  <2>. QED  BY <2>1, <2>2, <2>3 DEF VerdictsStand, ScoredFor
<1>. QED  BY <1>1, <1>2, <1>3, PTL DEF Spec

=============================================================================
