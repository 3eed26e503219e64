----------------------------- MODULE ChatProofs -----------------------------
(***************************************************************************)
(* Theorems about the assistant, for every set of users, sessions and       *)
(* requests, any limit on calls of the model, any interleaving and any       *)
(* number of restarts: who holds a place of the semaphore, who has been      *)
(* charged for what, and which stored calls of tools have their results.     *)
(*                                                                         *)
(* The tokens are sums over handlers and sessions (SumsProofs): what a       *)
(* handler owes is part of the sum until it is charged.  A stored call has   *)
(* its result, or a handler that will store it (CallsServed).                *)
(***************************************************************************)
EXTENDS HandlersProofs, SumsProofs

-----------------------------------------------------------------------------
(* The assistant *)

ModelLabels == {"ask:call", "last:call"}

Asked == {"s", "user", "stream", "faq", "hop", "total"}

\* What a handler remembers of its question, and of the answer it stores.
ChatTask(p, t) ==
  p \in ChatLabels =>
    /\ Asked \subseteq DOMAIN t
    /\ t.s \in Sessions /\ session[t.s] # None /\ session[t.s].user = t.user
    /\ t.user \in Users /\ t.total \in Nat
    /\ ~LiveSession(t.s) => cutShort
    /\ p \in {"ask:save", "faq:save"} => t.total = 0
    /\ p = "ask:store" => "calls" \in DOMAIN t /\ t.calls \in Nat
    /\ p = "ask:tool" =>
         {"calls", "of"} \subseteq DOMAIN t /\ t.calls \in Nat \ {0} /\ t.of \in Nat

ChatRows ==
  /\ session \in [Sessions -> SessionRows \cup {None}]
  /\ asked \in [Users -> [tokens : Nat, requests : Nat]]
  /\ spent \in [Users -> Nat]
  /\ cutShort \in BOOLEAN
  /\ workload \in Workloads

\* Tokens that were spent for u and that handler r has yet to charge, and to add
\* to the session.
Owed(p, t, u) == IF p \in ChatLabels /\ t.user = u THEN t.total ELSE 0

Unsaved(p, t, u) == IF p = "ask:usage" THEN 0 ELSE Owed(p, t, u)

OwedFor(u) == [r \in Requests |-> Owed(pc[r], task[r], u)]

UnsavedFor(u) == [r \in Requests |-> Unsaved(pc[r], task[r], u)]

TokensFor(u) ==
  [s \in Sessions |-> IF session[s] # None /\ session[s].user = u THEN session[s].tokens ELSE 0]

Charged ==
  \A u \in Users :
    /\ asked[u].tokens + SumOf(OwedFor(u), Requests) <= spent[u]
    /\ restarts = 0 /\ ~cutShort =>
         /\ asked[u].tokens + SumOf(OwedFor(u), Requests) = spent[u]
         /\ SumOf(TokensFor(u), Sessions) + SumOf(UnsavedFor(u), Requests) = spent[u]

Calling == {r \in Requests : pc[r] = "ask:tool" /\ LiveSession(task[r].s)}

Serves(r, s, i) == r \in Calling /\ task[r].s = s /\ task[r].of = i

\* Of every call that is stored the result is stored, or its handler is about to.
CallsServed ==
  /\ \A s \in Sessions : LiveSession(s) =>
       \A j \in DOMAIN session[s].messages :
         session[s].messages[j].role = "tool" =>
           session[s].messages[j].of \in DOMAIN session[s].messages
  /\ \A r, q \in Calling : task[r].s = task[q].s /\ task[r].of = task[q].of => r = q
  /\ \A r \in Calling :
       LET t == task[r]
           n == session[t.s].messages[t.of].calls
       IN  /\ t.of \in DOMAIN session[t.s].messages
           /\ Cardinality(Answers(t.s, t.of)) + t.calls = n
           /\ OneByOne =>
                /\ Answers(t.s, t.of) = t.of + 1 .. t.of + (n - t.calls)
                /\ Len(session[t.s].messages) = t.of + (n - t.calls)
  /\ \A s \in Sessions : LiveSession(s) =>
       \A i \in DOMAIN session[s].messages : (~\E r \in Calling : Serves(r, s, i)) =>
         LET n == session[s].messages[i].calls
         IN  Cardinality(Answers(s, i)) = n /\ (OneByOne => Answers(s, i) = i + 1 .. i + n)

ChatInv ==
  /\ ChatRows /\ slots = Cardinality(AtModel) /\ Charged
  /\ \A r \in Requests : ChatTask(pc[r], task[r])
  /\ restarts = 0 => CallsServed

LEMMA ChatFrame ==
  ASSUME Handlers, [Next]_vars
  PROVE  ChatNext \/ Restart \/ (UNCHANGED chat /\ Away(ChatLabels))
<1>1. "idle" \notin ChatLabels /\ ChatLabels \cap Shared = {}
  <2>1. /\ "idle" \notin ChatLabels /\ ChatLabels \cap ClassroomLabels = {}
        /\ ChatLabels \cap EnsureThens = {} /\ ChatLabels \cap BankLabels = {}
        /\ ChatLabels \cap GrantsLabels = {}
    BY DEF ChatLabels, ClassroomLabels, EnsureLabels, EnsureThens, BankLabels, GrantsLabels
  <2>2. ChatLabels \cap PostsLabels = {} /\ ChatLabels \cap FilesLabels = {}
    BY DEF ChatLabels, PostsLabels, FilesLabels
  <2>3. ChatLabels \cap MessagesTo = {} /\ ChatLabels \cap HubTo = {}
        /\ ChatLabels \cap {"ensure:select", "dm:insert", "notice:insert"} = {}
    BY DEF ChatLabels, MessagesTo, MessagesLabels, HubTo, HubLabels
  <2>. QED  BY <2>1, <2>2, <2>3 DEF Shared
<1>2. /\ BillingLabels \cap ChatLabels = {} /\ MailLabels \cap ChatLabels = {}
      /\ DatabasesLabels \cap ChatLabels = {} /\ ServicesLabels \cap ChatLabels = {}
  BY DEF ChatLabels, BillingLabels, MailLabels, DatabasesLabels, ServicesLabels
<1>3. /\ MilestonesLabels \cap ChatLabels = {} /\ OAuthLabels \cap ChatLabels = {}
      /\ AccountsLabels \cap ChatLabels = {} /\ KnowledgeLabels \cap ChatLabels = {}
  BY DEF ChatLabels, MilestonesLabels, OAuthLabels, AccountsLabels, KnowledgeLabels
<1>4. ChatNext \/ Restart \/ UNCHANGED chat
  BY DEF Next, Quiet, vars, ToolsNext, tools, HubOnly
<1>5. ChatNext \/ Restart \/ Away(ChatLabels)
  BY <1>1, <1>2, <1>3, AwayFrom
<1>. QED  BY <1>4, <1>5

LEMMA AtModelFinite ==
  IsFiniteSet(AtModel) /\ Cardinality(AtModel) \in Nat
BY ServerAssumption, FS_Subset, FS_CardinalityType DEF AtModel

\* The places that are taken, after a step of handler r.
LEMMA AtModelGoes ==
  ASSUME Handlers, NEW r \in Requests, NEW p, NEW t, GotoWith(r, p, t)
  PROVE  /\ pc[r] \notin ModelLabels /\ p \notin ModelLabels => AtModel' = AtModel
         /\ pc[r] \notin ModelLabels /\ p \in ModelLabels =>
              Cardinality(AtModel') = Cardinality(AtModel) + 1
         /\ pc[r] \in ModelLabels /\ p \notin ModelLabels =>
              Cardinality(AtModel') = Cardinality(AtModel) - 1
<1>1. \A q \in Requests : pc'[q] = (IF q = r THEN p ELSE pc[q])
  BY OneGoes
<1>2. ASSUME NEW q \in Requests
      PROVE  q \in AtModel' <=> IF q = r THEN p \in ModelLabels ELSE q \in AtModel
  BY <1>1 DEF AtModel, ModelLabels
<1>3. AtModel \subseteq Requests /\ AtModel' \subseteq Requests
  BY DEF AtModel
<1>4. r \in AtModel <=> pc[r] \in ModelLabels
  BY DEF AtModel, ModelLabels
<1>5. CASE p \in ModelLabels /\ r \notin AtModel
  <2>1. AtModel' = AtModel \cup {r}
    BY <1>2, <1>3, <1>5
  <2>. QED  BY <1>4, <1>5, <2>1, AtModelFinite, FS_AddElement
<1>6. CASE p \notin ModelLabels
  <2>1. AtModel' = AtModel \ {r}
    BY <1>2, <1>3, <1>6
  <2>2. r \in AtModel => Cardinality(AtModel') = Cardinality(AtModel) - 1
    BY <2>1, AtModelFinite, FS_RemoveElement
  <2>3. r \notin AtModel => AtModel' = AtModel
    BY <2>1
  <2>. QED  BY <1>4, <1>6, <2>2, <2>3
<1>. QED  BY <1>4, <1>5, <1>6

LEMMA OwedIsNat ==
  ASSUME NEW p, NEW t, NEW u, p \in ChatLabels => t.total \in Nat
  PROVE  Owed(p, t, u) \in Nat /\ Unsaved(p, t, u) \in Nat
BY DEF Owed, Unsaved

LEMMA OwedSums ==
  ASSUME \A q \in Requests : ChatTask(pc[q], task[q]), NEW u
  PROVE  /\ \A q \in Requests : OwedFor(u)[q] \in Nat /\ UnsavedFor(u)[q] \in Nat
         /\ SumOf(OwedFor(u), Requests) \in Nat /\ SumOf(UnsavedFor(u), Requests) \in Nat
<1>1. \A q \in Requests : OwedFor(u)[q] \in Nat /\ UnsavedFor(u)[q] \in Nat
  BY OwedIsNat DEF ChatTask, OwedFor, UnsavedFor
<1>. QED  BY <1>1, ServerAssumption, SumIsNat

LEMMA TokensSum ==
  ASSUME ChatRows, NEW u \in Users
  PROVE  /\ \A s \in Sessions : TokensFor(u)[s] \in Nat
         /\ SumOf(TokensFor(u), Sessions) \in Nat
<1>1. \A s \in Sessions : TokensFor(u)[s] \in Nat
  BY DEF ChatRows, TokensFor, SessionRows
<1>. QED  BY <1>1, ChatAssumption, SumIsNat

\* What is owed, after a step of handler r or a request it takes up.
LEMMA OwedGoes ==
  ASSUME Handlers, \A q \in Requests : ChatTask(pc[q], task[q]), NEW r \in Requests, NEW p, NEW t,
         GotoWith(r, p, t) \/ \E kind : Receive(r, kind, p, t),
         p \in ChatLabels => t.total \in Nat, NEW u
  PROVE  /\ SumOf(OwedFor(u), Requests)' =
              SumOf(OwedFor(u), Requests) - Owed(pc[r], task[r], u) + Owed(p, t, u)
         /\ SumOf(UnsavedFor(u), Requests)' =
              SumOf(UnsavedFor(u), Requests) - Unsaved(pc[r], task[r], u) + Unsaved(p, t, u)
<1>1. \A q \in Requests : /\ pc'[q] = (IF q = r THEN p ELSE pc[q])
                          /\ task'[q] = (IF q = r THEN t ELSE task[q])
  BY OneGoes
<1>2. Owed(p, t, u) \in Nat /\ Unsaved(p, t, u) \in Nat
  BY OwedIsNat
<1>3. PICK f, g : f = OwedFor(u) /\ g = OwedFor(u)'
  OBVIOUS
<1>4. PICK x, y : x = UnsavedFor(u) /\ y = UnsavedFor(u)'
  OBVIOUS
<1>5. /\ f[r] = Owed(pc[r], task[r], u) /\ g[r] = Owed(p, t, u)
      /\ \A q \in Requests : q # r => g[q] = f[q]
  BY <1>1, <1>3 DEF OwedFor, Owed
<1>6. /\ x[r] = Unsaved(pc[r], task[r], u) /\ y[r] = Unsaved(p, t, u)
      /\ \A q \in Requests : q # r => y[q] = x[q]
  BY <1>1, <1>4 DEF UnsavedFor, Unsaved, Owed
<1>7. (\A q \in Requests : f[q] \in Int) /\ \A q \in Requests : x[q] \in Int
  BY <1>3, <1>4, OwedSums
<1>8. g[r] \in Int /\ y[r] \in Int
  BY <1>2, <1>5, <1>6
<1>9. IsFiniteSet(Requests)
  BY ServerAssumption
<1>10. SumOf(g, Requests) = SumOf(f, Requests) - f[r] + g[r]
  <2>1. \A q \in Requests : q # r => g[q] = f[q]
    BY <1>5
  <2>. QED  BY <1>7, <1>8, <1>9, <2>1, SumWrite
<1>11. SumOf(y, Requests) = SumOf(x, Requests) - x[r] + y[r]
  <2>1. \A q \in Requests : q # r => y[q] = x[q]
    BY <1>6
  <2>. QED  BY <1>7, <1>8, <1>9, <2>1, SumWrite
<1>12. /\ SumOf(OwedFor(u), Requests)' = SumOf(g, Requests)
       /\ SumOf(UnsavedFor(u), Requests)' = SumOf(y, Requests)
  BY <1>3, <1>4
<1>13. /\ SumOf(OwedFor(u), Requests) = SumOf(f, Requests)
       /\ SumOf(UnsavedFor(u), Requests) = SumOf(x, Requests)
  BY <1>3, <1>4
<1>. QED  BY <1>5, <1>6, <1>10, <1>11, <1>12, <1>13

\* What such a step charges to u, spends for it and adds to its sessions agrees with
\* what is owed.
Accounted(r, p, t, u, saved) ==
  LET d == Owed(p, t, u) - Owed(pc[r], task[r], u)
      e == Unsaved(p, t, u) - Unsaved(pc[r], task[r], u)
  IN  /\ asked'[u].tokens + d - asked[u].tokens <= spent'[u] - spent[u]
      /\ ~cutShort' =>
           /\ asked'[u].tokens + d - asked[u].tokens = spent'[u] - spent[u]
           /\ saved + e = spent'[u] - spent[u]

LEMMA ChargedGoes ==
  ASSUME Handlers, ChatInv, NEW r \in Requests, NEW p, NEW t, GotoWith(r, p, t),
         p \in ChatLabels => t.total \in Nat, ChatRows', cutShort => cutShort',
         \A u \in Users : \E n \in Int :
           /\ SumOf(TokensFor(u), Sessions)' = SumOf(TokensFor(u), Sessions) + n
           /\ Accounted(r, p, t, u, n)
  PROVE  Charged'
<1>1. restarts' = restarts
  BY OneGoes
<1>2. ASSUME NEW u \in Users
      PROVE  /\ asked'[u].tokens + SumOf(OwedFor(u), Requests)' <= spent'[u]
             /\ restarts = 0 /\ ~cutShort' =>
                  /\ asked'[u].tokens + SumOf(OwedFor(u), Requests)' = spent'[u]
                  /\ SumOf(TokensFor(u), Sessions)' + SumOf(UnsavedFor(u), Requests)' = spent'[u]
  <2>1. PICK o, o2, w, w2 : /\ o = SumOf(OwedFor(u), Requests)
                            /\ o2 = SumOf(OwedFor(u), Requests)'
                            /\ w = SumOf(UnsavedFor(u), Requests)
                            /\ w2 = SumOf(UnsavedFor(u), Requests)'
    OBVIOUS
  <2>2. PICK k, k2 : k = SumOf(TokensFor(u), Sessions) /\ k2 = SumOf(TokensFor(u), Sessions)'
    OBVIOUS
  <2>3. PICK a, b : a = Owed(pc[r], task[r], u) /\ b = Owed(p, t, u)
    OBVIOUS
  <2>4. PICK x, y : x = Unsaved(pc[r], task[r], u) /\ y = Unsaved(p, t, u)
    OBVIOUS
  <2>5. o2 = o - a + b /\ w2 = w - x + y
    BY <2>1, <2>3, <2>4, OwedGoes DEF ChatInv
  <2>6. o \in Nat /\ w \in Nat /\ k \in Nat
    BY <2>1, <2>2, OwedSums, TokensSum DEF ChatInv
  <2>7. k2 \in Nat
    <3>1. PICK g : g = TokensFor(u)'
      OBVIOUS
    <3>2. \A s \in Sessions : g[s] \in Nat
      BY <3>1 DEF ChatRows, TokensFor, SessionRows
    <3>. QED  BY <2>2, <3>1, <3>2, ChatAssumption, SumIsNat
  <2>8. a \in Nat /\ b \in Nat /\ x \in Nat /\ y \in Nat
    BY <2>3, <2>4, OwedIsNat DEF ChatInv, ChatTask
  <2>9. /\ asked[u].tokens \in Nat /\ asked'[u].tokens \in Nat
        /\ spent[u] \in Nat /\ spent'[u] \in Nat
    BY DEF ChatInv, ChatRows
  <2>10. /\ asked'[u].tokens + (b - a) - asked[u].tokens <= spent'[u] - spent[u]
         /\ ~cutShort' =>
              /\ asked'[u].tokens + (b - a) - asked[u].tokens = spent'[u] - spent[u]
              /\ k2 - k + (y - x) = spent'[u] - spent[u]
    <3>1. PICK n \in Int : k2 = k + n /\ Accounted(r, p, t, u, n)
      BY <2>2
    <3>2. k2 - k = n
      BY <2>6, <3>1
    <3>. QED  BY <2>3, <2>4, <3>1, <3>2 DEF Accounted
  <2>11. /\ asked[u].tokens + o <= spent[u]
         /\ restarts = 0 /\ ~cutShort =>
              asked[u].tokens + o = spent[u] /\ k + w = spent[u]
    BY <2>1, <2>2 DEF ChatInv, Charged
  <2>12. /\ asked'[u].tokens + o2 <= spent'[u]
         /\ restarts = 0 /\ ~cutShort' =>
              asked'[u].tokens + o2 = spent'[u] /\ k2 + w2 = spent'[u]
    <3>1. PICK c, c2, v, v2 : /\ c = asked[u].tokens /\ c2 = asked'[u].tokens
                              /\ v = spent[u] /\ v2 = spent'[u]
      OBVIOUS
    <3>2. c + (b - a) - c = b - a /\ c \in Nat /\ c2 \in Nat /\ v \in Nat /\ v2 \in Nat
      BY <2>8, <2>9, <3>1
    <3>3. c2 + (b - a) - c <= v2 - v /\ c + o <= v => c2 + o2 <= v2
      BY <2>5, <2>6, <2>8, <3>2
    <3>4. c2 + (b - a) - c = v2 - v /\ c + o = v => c2 + o2 = v2
      BY <2>5, <2>6, <2>8, <3>2
    <3>5. k2 - k + (y - x) = v2 - v /\ k + w = v => k2 + w2 = v2
      BY <2>5, <2>6, <2>7, <2>8, <3>2
    <3>6. cutShort => cutShort'
      OBVIOUS
    <3>. QED  BY <2>10, <2>11, <3>1, <3>3, <3>4, <3>5, <3>6
  <2>. QED  BY <2>1, <2>2, <2>12
<1>. QED  BY <1>1, <1>2 DEF Charged

\* Handlers that are at the tools, and the messages, stay as they are.
LEMMA CallsStay ==
  ASSUME \A q \in Requests : ChatTask(pc[q], task[q]), CallsServed, overlapped => overlapped',
         \A q \in Requests :
           pc[q] = "ask:tool" \/ pc'[q] = "ask:tool" => pc'[q] = pc[q] /\ task'[q] = task[q],
         \A s \in Sessions : LiveSession(s)' =>
           \/ LiveSession(s) /\ session'[s].messages = session[s].messages
           \/ session[s] = None /\ session'[s].messages = <<>>
  PROVE  CallsServed'
<1>1. ASSUME NEW s \in Sessions, LiveSession(s)', session[s] # None
      PROVE  /\ LiveSession(s) /\ session'[s].messages = session[s].messages
             /\ \A i : Answers(s, i)' = Answers(s, i)
  BY <1>1 DEF Answers
<1>2. ASSUME NEW s \in Sessions, LiveSession(s)', session[s] = None
      PROVE  DOMAIN session'[s].messages = {}
  <2>1. session'[s].messages = <<>>
    BY <1>2 DEF LiveSession
  <2>. QED  BY <2>1
<1>3. ASSUME NEW q \in Calling', NEW t, t = task[q]
      PROVE  /\ q \in Calling /\ task'[q] = t
             /\ t.s \in Sessions /\ LiveSession(t.s)' /\ session[t.s] # None
  <2>1. q \in Requests /\ pc[q] = "ask:tool" /\ task'[q] = t
    BY <1>3 DEF Calling
  <2>2. t.s \in Sessions /\ session[t.s] # None
    BY <1>3, <2>1 DEF ChatTask, ChatLabels
  <2>3. LiveSession(t.s)'
    BY <2>1 DEF Calling, LiveSession
  <2>4. LiveSession(t.s)
    BY <1>1, <2>2, <2>3
  <2>. QED  BY <1>3, <2>1, <2>2, <2>3, <2>4 DEF Calling
<1>4. \A s \in Sessions : LiveSession(s)' => \A j \in DOMAIN session'[s].messages :
        session'[s].messages[j].role = "tool" =>
          session'[s].messages[j].of \in DOMAIN session'[s].messages
  <2> SUFFICES ASSUME NEW s \in Sessions, LiveSession(s)', NEW j \in DOMAIN session'[s].messages,
                      session'[s].messages[j].role = "tool"
               PROVE  session'[s].messages[j].of \in DOMAIN session'[s].messages
    OBVIOUS
  <2>1. session[s] # None
    BY <1>2
  <2>. QED  BY <1>1, <2>1 DEF CallsServed
<1>5. \A r, q \in Calling' :
        task'[r].s = task'[q].s /\ task'[r].of = task'[q].of => r = q
  BY <1>3 DEF CallsServed
<1>6. ASSUME NEW q \in Calling', NEW t, t = task'[q], NEW n, n = session'[t.s].messages[t.of].calls
      PROVE  /\ t.of \in DOMAIN session'[t.s].messages
             /\ Cardinality(Answers(t.s, t.of)') + t.calls = n
             /\ OneByOne' =>
                  /\ Answers(t.s, t.of)' = t.of + 1 .. t.of + (n - t.calls)
                  /\ Len(session'[t.s].messages) = t.of + (n - t.calls)
  <2>1. q \in Calling /\ t = task[q] /\ t.s \in Sessions /\ LiveSession(t.s)' /\ session[t.s] # None
    BY <1>3, <1>6
  <2>2. session'[t.s].messages = session[t.s].messages /\ Answers(t.s, t.of)' = Answers(t.s, t.of)
    BY <1>1, <2>1
  <2>. QED  BY <1>6, <2>1, <2>2 DEF CallsServed, OneByOne
<1>7. ASSUME NEW s \in Sessions, LiveSession(s)', NEW i \in DOMAIN session'[s].messages,
             ~\E r \in Calling' : Serves(r, s, i)', NEW n, n = session'[s].messages[i].calls
      PROVE  Cardinality(Answers(s, i)') = n /\ (OneByOne' => Answers(s, i)' = i + 1 .. i + n)
  <2>1. session[s] # None
    BY <1>2, <1>7
  <2>2. /\ LiveSession(s) /\ session'[s].messages = session[s].messages
        /\ Answers(s, i)' = Answers(s, i)
    BY <1>1, <1>7, <2>1
  <2>3. ~\E r \in Calling : Serves(r, s, i)
    <3> SUFFICES ASSUME NEW r \in Calling, Serves(r, s, i)
                 PROVE  FALSE
      OBVIOUS
    <3>1. r \in Requests /\ pc[r] = "ask:tool" /\ task[r].s = s /\ task[r].of = i
      BY DEF Calling, Serves
    <3>2. pc'[r] = "ask:tool" /\ task'[r] = task[r]
      BY <3>1
    <3>3. r \in Calling' /\ Serves(r, s, i)'
      BY <1>7, <3>1, <3>2 DEF Calling, Serves, LiveSession
    <3>. QED  BY <1>7, <3>3
  <2>. QED  BY <1>7, <2>2, <2>3 DEF CallsServed, OneByOne
<1>. QED  BY <1>4, <1>5, <1>6, <1>7 DEF CallsServed

\* What a step of another part leaves.
LEMMA ChatStay ==
  ASSUME Handlers, Handlers', ChatInv, Alone, [Next]_vars, overlapped => overlapped',
         workload' = workload, UNCHANGED chat, Away(ChatLabels)
  PROVE  ChatInv'
<1>1. UNCHANGED <<session, asked, slots, spent, cutShort>>
  BY DEF chat
<1>2. ASSUME NEW q \in Requests
      PROVE  \/ pc'[q] = pc[q] /\ task'[q] = task[q]
             \/ pc'[q] \notin ChatLabels /\ pc[q] \notin ChatLabels
  BY DEF Away
<1>3. ASSUME NEW q \in Requests PROVE ChatTask(pc[q], task[q])'
  <2>1. CASE pc'[q] = pc[q] /\ task'[q] = task[q]
    BY <1>1, <2>1 DEF ChatInv, ChatTask, LiveSession
  <2>2. CASE pc'[q] \notin ChatLabels
    BY <2>2 DEF ChatTask
  <2>. QED  BY <1>2, <2>1, <2>2
<1>4. ChatRows'
  BY <1>1 DEF ChatInv, ChatRows
<1>5. AtModel' = AtModel
  BY <1>2 DEF AtModel, ChatLabels
<1>6. Charged'
  <2>1. ASSUME NEW u \in Users
        PROVE  /\ SumOf(OwedFor(u), Requests)' = SumOf(OwedFor(u), Requests)
               /\ SumOf(UnsavedFor(u), Requests)' = SumOf(UnsavedFor(u), Requests)
               /\ SumOf(TokensFor(u), Sessions)' = SumOf(TokensFor(u), Sessions)
    <3>1. OwedFor(u)' = OwedFor(u)
      BY <1>2 DEF OwedFor, Owed
    <3>2. UnsavedFor(u)' = UnsavedFor(u)
      BY <1>2 DEF UnsavedFor, Unsaved, Owed, ChatLabels
    <3>3. TokensFor(u)' = TokensFor(u)
      BY <1>1 DEF TokensFor
    <3>. QED  BY <3>1, <3>2, <3>3
  <2>2. restarts' = 0 => restarts = 0
    BY Unrestarted
  <2>. QED  BY <1>1, <2>1, <2>2 DEF ChatInv, Charged
<1>7. ASSUME restarts' = 0 PROVE CallsServed'
  <2>1. restarts = 0
    BY <1>7, Unrestarted
  <2>2. \A q \in Requests :
          pc[q] = "ask:tool" \/ pc'[q] = "ask:tool" => pc'[q] = pc[q] /\ task'[q] = task[q]
    BY <1>2 DEF ChatLabels
  <2>3. \A s \in Sessions : LiveSession(s)' =>
          LiveSession(s) /\ session'[s].messages = session[s].messages
    BY <1>1 DEF LiveSession
  <2>. QED  BY <2>1, <2>2, <2>3, CallsStay DEF ChatInv
<1>. QED  BY <1>1, <1>3, <1>4, <1>5, <1>6, <1>7 DEF ChatInv

\* What a step may do to the sessions of others: they stay, and who asks knows when
\* one of them was deleted.
SessionsStay ==
  /\ cutShort => cutShort'
  /\ \A s \in Sessions : session[s] # None =>
       /\ session'[s] # None /\ session'[s].user = session[s].user
       /\ LiveSession(s) => LiveSession(s)' \/ cutShort'

LEMMA TasksStay ==
  ASSUME NEW p, NEW t, ChatTask(p, t), SessionsStay
  PROVE  ChatTask(p, t)'
<1>1. CASE p \in ChatLabels
  <2>1. /\ t.s \in Sessions /\ session[t.s] # None /\ session[t.s].user = t.user
        /\ (~LiveSession(t.s) => cutShort)
    BY <1>1 DEF ChatTask
  <2>2. session'[t.s] # None /\ session'[t.s].user = t.user
    BY <2>1 DEF SessionsStay
  <2>3. ~LiveSession(t.s)' => cutShort'
    BY <2>1 DEF SessionsStay
  <2>. QED  BY <1>1, <2>1, <2>2, <2>3 DEF ChatTask
<1>2. CASE p \notin ChatLabels
  BY <1>2 DEF ChatTask
<1>. QED  BY <1>1, <1>2

\* A step of one of its handlers has only its own task to answer for.
LEMMA ChatGoes ==
  ASSUME Handlers, ChatInv, NEW r \in Requests, NEW p, NEW t, GotoWith(r, p, t),
         ChatRows', Charged', (slots = Cardinality(AtModel))', ChatTask(p, t)', SessionsStay,
         restarts = 0 => CallsServed'
  PROVE  ChatInv'
<1>1. /\ restarts' = restarts
      /\ \A q \in Requests : /\ pc'[q] = (IF q = r THEN p ELSE pc[q])
                             /\ task'[q] = (IF q = r THEN t ELSE task[q])
  BY OneGoes
<1>2. ASSUME NEW q \in Requests PROVE ChatTask(pc[q], task[q])'
  <2>1. CASE q = r
    BY <1>1, <2>1
  <2>2. CASE q # r
    <3>1. PICK x, y : x = pc[q] /\ y = task[q]
      OBVIOUS
    <3>2. ChatTask(x, y)'
      BY <3>1, TasksStay DEF ChatInv
    <3>. QED  BY <1>1, <2>2, <3>1, <3>2
  <2>. QED  BY <2>1, <2>2
<1>. QED  BY <1>1, <1>2 DEF ChatInv

\* Nobody enters or leaves the tools in such a step.
LEMMA CallsGo ==
  ASSUME Handlers, ChatInv, NEW r \in Requests, NEW p, NEW t,
         GotoWith(r, p, t), pc[r] # "ask:tool", p # "ask:tool", restarts = 0,
         \A s \in Sessions : LiveSession(s)' =>
           LiveSession(s) /\ session'[s].messages = session[s].messages
  PROVE  CallsServed'
<1>1. \A q \in Requests :
        pc[q] = "ask:tool" \/ pc'[q] = "ask:tool" => pc'[q] = pc[q] /\ task'[q] = task[q]
  BY OneGoes
<1>2. overlapped => overlapped'
  BY DEF GotoWith, control
<1>. QED  BY <1>1, <1>2, CallsStay DEF ChatInv

Grown(old, m, new, n) ==
  /\ new \in Seq(ChatMessage)
  /\ DOMAIN old = 1 .. n /\ DOMAIN new = 1 .. n + 1 /\ Len(new) = n + 1
  /\ new[n + 1] = m /\ \A i \in 1 .. n : new[i] = old[i]
  /\ \A i : ~(m.role = "tool" /\ m.of = i) => AnswersIn(new, i) = AnswersIn(old, i)
  /\ m.role = "tool" => AnswersIn(new, m.of) = AnswersIn(old, m.of) \cup {n + 1}

LEMMA Appended ==
  ASSUME NEW old \in Seq(ChatMessage), NEW m \in ChatMessage, NEW new, new = Append(old, m),
         NEW n, n = Len(old)
  PROVE  Grown(old, m, new, n)
<1>0. n \in Nat
  OBVIOUS
<1>1. /\ new \in Seq(ChatMessage)
      /\ DOMAIN old = 1 .. n /\ DOMAIN new = 1 .. n + 1 /\ Len(new) = n + 1
      /\ new[n + 1] = m /\ \A i \in 1 .. n : new[i] = old[i]
  BY <1>0
<1>2. 1 .. n + 1 = (1 .. n) \cup {n + 1}
  BY <1>0
<1>3. ASSUME NEW i, ~(m.role = "tool" /\ m.of = i) PROVE AnswersIn(new, i) = AnswersIn(old, i)
  BY <1>1, <1>2, <1>3 DEF AnswersIn
<1>4. ASSUME m.role = "tool" PROVE AnswersIn(new, m.of) = AnswersIn(old, m.of) \cup {n + 1}
  BY <1>1, <1>2, <1>4 DEF AnswersIn
<1>. QED  BY <1>1, <1>3, <1>4 DEF Grown

LEMMA AnswersFinite ==
  ASSUME ChatRows, NEW s \in Sessions, session[s] # None, NEW n, n = Len(session[s].messages), NEW i
  PROVE  /\ n \in Nat /\ session[s].messages \in Seq(ChatMessage)
         /\ Answers(s, i) \subseteq 1 .. n /\ IsFiniteSet(Answers(s, i))
         /\ Cardinality(Answers(s, i)) \in Nat
<1>1. n \in Nat /\ session[s].messages \in Seq(ChatMessage)
  BY DEF ChatRows, SessionRows
<1>2. Answers(s, i) \subseteq 1 .. n
  BY <1>1 DEF Answers, AnswersIn
<1>3. IsFiniteSet(1 .. n)
  BY <1>1, FS_Interval
<1>. QED  BY <1>1, <1>2, <1>3, FS_Subset, FS_CardinalityType

LEMMA Said ==
  ASSUME ChatRows, NEW s \in Sessions, LiveSession(s), NEW m \in ChatMessage, Say(s, m)
  PROVE  /\ session' \in [Sessions -> SessionRows \cup {None}]
         /\ session'[s] = [session[s] EXCEPT !.messages = Append(session[s].messages, m)]
         /\ session'[s].messages = Append(session[s].messages, m)
         /\ \A q \in Sessions : q # s => session'[q] = session[q]
         /\ session[s] # None /\ session'[s] # None
         /\ session'[s].user = session[s].user /\ session'[s].tokens = session[s].tokens
         /\ \A q \in Sessions : LiveSession(q)' <=> LiveSession(q)
<1>1. session[s] # None /\ session[s] \in SessionRows
  BY DEF LiveSession, ChatRows
<1>2. PICK row : row = [session[s] EXCEPT !.messages = Append(session[s].messages, m)]
  OBVIOUS
<1>3. session' = [session EXCEPT ![s] = row]
  BY <1>2 DEF Say, ChatRows
<1>4. Append(session[s].messages, m) \in Seq(ChatMessage)
  BY <1>1 DEF SessionRows
<1>5. /\ row \in SessionRows /\ row.messages = Append(session[s].messages, m)
      /\ row.user = session[s].user /\ row.tokens = session[s].tokens
      /\ row.live = session[s].live
  BY <1>1, <1>2, <1>4 DEF SessionRows
<1>6. row # None
  BY <1>5, ChatAssumption
<1>7. /\ session'[s] = row /\ \A q \in Sessions : q # s => session'[q] = session[q]
      /\ session' \in [Sessions -> SessionRows \cup {None}]
  BY <1>3, <1>5 DEF ChatRows
<1>8. \A q \in Sessions : LiveSession(q)' <=> LiveSession(q)
  BY <1>1, <1>5, <1>6, <1>7 DEF LiveSession
<1>. QED  BY <1>1, <1>2, <1>5, <1>6, <1>7, <1>8

\* What such a statement leaves besides.
LEMMA SaidKeeps ==
  ASSUME ChatRows, NEW s \in Sessions, LiveSession(s), NEW m \in ChatMessage, Say(s, m),
         UNCHANGED <<asked, spent, cutShort>>, workload' = workload
  PROVE  /\ ChatRows' /\ SessionsStay
         /\ \A u \in Users : SumOf(TokensFor(u), Sessions)' = SumOf(TokensFor(u), Sessions)
<1>1. /\ session' \in [Sessions -> SessionRows \cup {None}]
      /\ \A q \in Sessions : q # s => session'[q] = session[q]
      /\ session[s] # None /\ session'[s] # None
      /\ session'[s].user = session[s].user /\ session'[s].tokens = session[s].tokens
      /\ \A q \in Sessions : LiveSession(q)' <=> LiveSession(q)
  BY Said
<1>2. ChatRows'
  BY <1>1 DEF ChatRows
<1>3. SessionsStay
  BY <1>1 DEF SessionsStay
<1>4. ASSUME NEW u \in Users
      PROVE  SumOf(TokensFor(u), Sessions)' = SumOf(TokensFor(u), Sessions)
  <2>1. TokensFor(u)' = TokensFor(u)
    BY <1>1 DEF TokensFor
  <2>. QED  BY <2>1
<1>. QED  BY <1>2, <1>3, <1>4

\* CallsServed, for one session, and the handlers that serve it.
Entries(s) ==
  \A j \in DOMAIN session[s].messages :
    session[s].messages[j].role = "tool" =>
      session[s].messages[j].of \in DOMAIN session[s].messages

InService(t) ==
  LET n == session[t.s].messages[t.of].calls
  IN  /\ t.of \in DOMAIN session[t.s].messages
      /\ Cardinality(Answers(t.s, t.of)) + t.calls = n
      /\ OneByOne =>
           /\ Answers(t.s, t.of) = t.of + 1 .. t.of + (n - t.calls)
           /\ Len(session[t.s].messages) = t.of + (n - t.calls)

Done(s, i) ==
  LET n == session[s].messages[i].calls
  IN  Cardinality(Answers(s, i)) = n /\ (OneByOne => Answers(s, i) = i + 1 .. i + n)

LEMMA CallsServedIs ==
  CallsServed <=>
    /\ \A s \in Sessions : LiveSession(s) => Entries(s)
    /\ \A r, q \in Calling : task[r].s = task[q].s /\ task[r].of = task[q].of => r = q
    /\ \A r \in Calling : InService(task[r])
    /\ \A s \in Sessions : LiveSession(s) =>
         \A i \in DOMAIN session[s].messages :
           (~\E r \in Calling : Serves(r, s, i)) => Done(s, i)
BY DEF CallsServed, Entries, InService, Done

\* Where handlers at the tools are after a statement of r.
LEMMA CallingGoes ==
  ASSUME Handlers, ChatInv, NEW r \in Requests, NEW p, NEW t, GotoWith(r, p, t),
         \A q \in Sessions : LiveSession(q)' <=> LiveSession(q)
  PROVE  /\ \A q \in Requests : q # r => (q \in Calling' <=> q \in Calling) /\ task'[q] = task[q]
         /\ task'[r] = t
         /\ t.s \in Sessions => (r \in Calling' <=> p = "ask:tool" /\ LiveSession(t.s))
         /\ p # "ask:tool" => r \notin Calling'
         /\ Calling \subseteq Requests /\ Calling' \subseteq Requests
<1>1. \A q \in Requests : /\ pc'[q] = (IF q = r THEN p ELSE pc[q])
                          /\ task'[q] = (IF q = r THEN t ELSE task[q])
  BY OneGoes
<1>2. Calling' = {q \in Requests : pc'[q] = "ask:tool" /\ session'[task'[q].s] # None
                                     /\ session'[task'[q].s].live}
  BY DEF Calling, LiveSession
<1>3. ASSUME NEW q \in Requests, q # r PROVE q \in Calling' <=> q \in Calling
  <2>1. CASE pc[q] = "ask:tool"
    <3>1. PICK x : x = task[q].s
      OBVIOUS
    <3>2. x \in Sessions
      BY <2>1, <3>1 DEF ChatInv, ChatTask, ChatLabels
    <3>3. LiveSession(x)' <=> session'[x] # None /\ session'[x].live
      BY DEF LiveSession
    <3>. QED  BY <1>1, <1>2, <1>3, <2>1, <3>1, <3>2, <3>3 DEF Calling
  <2>2. CASE pc[q] # "ask:tool"
    BY <1>1, <1>2, <1>3, <2>2 DEF Calling
  <2>. QED  BY <2>1, <2>2
<1>4. ASSUME t.s \in Sessions PROVE r \in Calling' <=> p = "ask:tool" /\ LiveSession(t.s)
  <2>1. PICK x : x = t.s
    OBVIOUS
  <2>2. LiveSession(x)' <=> session'[x] # None /\ session'[x].live
    BY DEF LiveSession
  <2>. QED  BY <1>1, <1>2, <1>4, <2>1, <2>2
<1>5. p # "ask:tool" => r \notin Calling'
  BY <1>1, <1>2
<1>6. Calling \subseteq Requests /\ Calling' \subseteq Requests
  BY <1>2 DEF Calling
<1>. QED  BY <1>1, <1>3, <1>4, <1>5, <1>6

\* Sessions and messages that a stored message does not concern.
LEMMA SaidOthers ==
  ASSUME ChatRows, CallsServed, NEW s \in Sessions, LiveSession(s), NEW m \in ChatMessage, Say(s, m),
         NEW n, n = Len(session[s].messages), m.role = "tool" => m.of \in 1 .. n
  PROVE  /\ n \in Nat /\ DOMAIN session[s].messages = 1 .. n
         /\ session'[s].messages[n + 1] = m
         /\ DOMAIN session'[s].messages = (1 .. n) \cup {n + 1} /\ Len(session'[s].messages) = n + 1
         /\ \A q \in Sessions : LiveSession(q) => Entries(q)'
         /\ \A i \in 1 .. n : /\ session'[s].messages[i] = session[s].messages[i]
                              /\ ~(m.role = "tool" /\ m.of = i) => Answers(s, i)' = Answers(s, i)
         /\ Answers(s, n + 1)' = {}
         /\ m.role = "tool" => Answers(s, m.of)' = Answers(s, m.of) \cup {n + 1}
         /\ \A q \in Sessions \ {s} : \A i : Answers(q, i)' = Answers(q, i)
<1>1. /\ \A q \in Sessions : q # s => session'[q] = session[q]
      /\ session'[s].messages = Append(session[s].messages, m)
      /\ session[s] # None
  BY Said
<1>2. PICK old, new : old = session[s].messages /\ new = session'[s].messages
  OBVIOUS
<1>3. old \in Seq(ChatMessage) /\ n \in Nat /\ n = Len(old)
  BY <1>1, <1>2, AnswersFinite
<1>4. new = Append(old, m)
  BY <1>1, <1>2
<1>5. /\ new \in Seq(ChatMessage)
      /\ DOMAIN old = 1 .. n /\ DOMAIN new = 1 .. n + 1 /\ Len(new) = n + 1
      /\ new[n + 1] = m /\ \A i \in 1 .. n : new[i] = old[i]
      /\ \A i : ~(m.role = "tool" /\ m.of = i) => AnswersIn(new, i) = AnswersIn(old, i)
      /\ m.role = "tool" => AnswersIn(new, m.of) = AnswersIn(old, m.of) \cup {n + 1}
  <2>1. Grown(old, m, new, n)
    BY <1>3, <1>4, Appended
  <2>. QED  BY <2>1 DEF Grown
<1>6. 1 .. n + 1 = (1 .. n) \cup {n + 1} /\ n + 1 \notin 1 .. n
  BY <1>3
<1>7. \A j \in 1 .. n : old[j].role = "tool" => old[j].of \in 1 .. n
  BY <1>2, <1>5 DEF CallsServed
<1>8. Entries(s)'
  BY <1>2, <1>5, <1>6, <1>7 DEF Entries
<1>9. \A q \in Sessions : LiveSession(q) => Entries(q)'
  <2>1. \A q \in Sessions : LiveSession(q) /\ q # s => Entries(q)'
    BY <1>1 DEF Entries, CallsServed
  <2>. QED  BY <1>8, <2>1
<1>10. AnswersIn(old, n + 1) = {}
  BY <1>5, <1>6, <1>7 DEF AnswersIn
<1>11. AnswersIn(new, n + 1) = {}
  BY <1>5, <1>6, <1>10
<1>12. \A i : Answers(s, i)' = AnswersIn(new, i) /\ Answers(s, i) = AnswersIn(old, i)
  BY <1>2 DEF Answers
<1>13. \A q \in Sessions \ {s} : \A i : Answers(q, i)' = Answers(q, i)
  BY <1>1 DEF Answers
<1>14. \A i \in 1 .. n : ~(m.role = "tool" /\ m.of = i) => Answers(s, i)' = Answers(s, i)
  BY <1>5, <1>12
<1>15. m.role = "tool" => Answers(s, m.of)' = Answers(s, m.of) \cup {n + 1}
  BY <1>5, <1>12
<1>. QED  BY <1>2, <1>3, <1>5, <1>6, <1>9, <1>11, <1>12, <1>13, <1>14, <1>15

\* One at a time, a handler that stores a message is the only one.
LEMMA AloneAtTools ==
  ASSUME Alone, OneByOne, NEW r \in Requests, pc[r] # "idle", NEW q \in Calling
  PROVE  q = r
BY DEF Alone, OneByOne, Calling, Idle

\* The handlers that serve another call, and the calls that are served, stay so.
LEMMA SaidServed ==
  ASSUME Handlers, Alone, ChatInv, CallsServed, NEW r \in Requests, NEW p, NEW t,
         pc[r] # "idle", GotoWith(r, p, t), NEW s \in Sessions, LiveSession(s),
         NEW m \in ChatMessage, Say(s, m),
         NEW n, n = Len(session[s].messages), m.role = "tool" => m.of \in 1 .. n
  PROVE  /\ \A q \in Requests : \A x : q # r /\ q \in Calling' /\ x = task'[q] =>
              /\ q \in Calling /\ task[q] = x
              /\ x.s = s => x.of \in 1 .. n
              /\ ~(m.role = "tool" /\ x.s = s /\ x.of = m.of) => InService(x)'
         /\ \A q \in Sessions : \A i :
              /\ LiveSession(q) /\ i \in DOMAIN session'[q].messages
              /\ ~(q = s /\ (i = n + 1 \/ (m.role = "tool" /\ m.of = i)))
              => i \in DOMAIN session[q].messages /\ (Done(q, i) => Done(q, i)')
<1>1. /\ n \in Nat /\ DOMAIN session[s].messages = 1 .. n
      /\ DOMAIN session'[s].messages = (1 .. n) \cup {n + 1}
      /\ \A i \in 1 .. n : /\ session'[s].messages[i] = session[s].messages[i]
                           /\ ~(m.role = "tool" /\ m.of = i) => Answers(s, i)' = Answers(s, i)
      /\ \A q \in Sessions \ {s} : \A i : Answers(q, i)' = Answers(q, i)
  BY SaidOthers DEF ChatInv
<1>2. /\ \A q \in Sessions : q # s => session'[q] = session[q]
      /\ \A q \in Sessions : LiveSession(q)' <=> LiveSession(q)
  BY Said DEF ChatInv
<1>3. OneByOne' <=> OneByOne
  BY DEF OneByOne, GotoWith, control
<1>4. /\ \A q \in Requests : q # r => (q \in Calling' <=> q \in Calling) /\ task'[q] = task[q]
  BY <1>2, CallingGoes
<1>5. ASSUME NEW q \in Requests, NEW x, q # r, q \in Calling', x = task'[q]
      PROVE  /\ q \in Calling /\ task[q] = x
             /\ x.s = s => x.of \in 1 .. n
             /\ ~(m.role = "tool" /\ x.s = s /\ x.of = m.of) => InService(x)'
  <2>1. q \in Calling /\ task[q] = x
    BY <1>4, <1>5
  <2>2. InService(x) /\ x.s \in Sessions
    BY <2>1, CallsServedIs DEF Calling, ChatInv, ChatTask, ChatLabels
  <2>3. ~OneByOne
    BY <1>5, <2>1, AloneAtTools
  <2>4. x.s = s => x.of \in 1 .. n
    BY <1>1, <2>2 DEF InService
  <2>5. ASSUME ~(m.role = "tool" /\ x.s = s /\ x.of = m.of) PROVE InService(x)'
    <3>1. Answers(x.s, x.of)' = Answers(x.s, x.of)
      BY <1>1, <2>2, <2>4, <2>5
    <3>2. x.s # s => session'[x.s] = session[x.s]
      BY <1>2, <2>2
    <3>3. /\ x.of \in DOMAIN session'[x.s].messages
          /\ session'[x.s].messages[x.of] = session[x.s].messages[x.of]
      <4>1. CASE x.s = s
        BY <1>1, <2>4, <4>1
      <4>2. CASE x.s # s
        BY <2>2, <3>2, <4>2 DEF InService
      <4>. QED  BY <4>1, <4>2
    <3>. QED  BY <1>3, <2>2, <2>3, <3>1, <3>3 DEF InService
  <2>. QED  BY <2>1, <2>4, <2>5
<1>6. ASSUME NEW q \in Sessions, NEW i, LiveSession(q), i \in DOMAIN session'[q].messages,
             ~(q = s /\ (i = n + 1 \/ (m.role = "tool" /\ m.of = i)))
      PROVE  i \in DOMAIN session[q].messages /\ (Done(q, i) => Done(q, i)')
  <2>1. /\ i \in DOMAIN session[q].messages
        /\ session'[q].messages[i] = session[q].messages[i]
        /\ Answers(q, i)' = Answers(q, i)
    <3>1. CASE q = s
      BY <1>1, <1>6, <3>1
    <3>2. CASE q # s
      BY <1>1, <1>2, <1>6, <3>2
    <3>. QED  BY <3>1, <3>2
  <2>. QED  BY <1>3, <2>1 DEF Done
<1>. QED  BY <1>5, <1>6

\* A message without calls that is no answer: a question, or an answer to it.
LEMMA CallsSaid ==
  ASSUME Handlers, Alone, ChatInv, CallsServed, NEW r \in Requests, NEW p, NEW t,
         pc[r] \notin {"idle", "ask:tool"}, p # "ask:tool", GotoWith(r, p, t),
         NEW s \in Sessions, LiveSession(s),
         NEW m \in ChatMessage, Say(s, m), m.role # "tool", m.calls = 0
  PROVE  CallsServed'
<1>1. PICK n : n = Len(session[s].messages)
  OBVIOUS
<1>2. /\ n \in Nat /\ session'[s].messages[n + 1] = m
      /\ \A q \in Sessions : LiveSession(q) => Entries(q)'
      /\ Answers(s, n + 1)' = {}
  BY <1>1, SaidOthers DEF ChatInv
<1>3. \A q \in Sessions : LiveSession(q)' <=> LiveSession(q)
  BY Said DEF ChatInv
<1>4. /\ \A q \in Requests : \A x : q # r /\ q \in Calling' /\ x = task'[q] =>
           q \in Calling /\ task[q] = x /\ InService(x)'
      /\ \A q \in Sessions : \A i :
           LiveSession(q) /\ i \in DOMAIN session'[q].messages /\ ~(q = s /\ i = n + 1)
           => i \in DOMAIN session[q].messages /\ (Done(q, i) => Done(q, i)')
  BY <1>1, SaidServed
<1>5. /\ r \notin Calling' /\ r \notin Calling /\ Calling' \subseteq Requests
      /\ \A q \in Requests : q # r => (q \in Calling' <=> q \in Calling) /\ task'[q] = task[q]
  BY <1>3, CallingGoes DEF Calling
<1>6. \A q, x \in Calling' : task'[q].s = task'[x].s /\ task'[q].of = task'[x].of => q = x
  BY <1>5 DEF CallsServed
<1>7. \A q \in Calling' : InService(task[q])'
  BY <1>4, <1>5
<1>8. ASSUME NEW q \in Sessions, LiveSession(q)', NEW i \in DOMAIN session'[q].messages,
             ~\E x \in Calling' : Serves(x, q, i)'
      PROVE  Done(q, i)'
  <2>1. CASE q = s /\ i = n + 1
    <3>1. Cardinality(Answers(q, i)') = 0 /\ session'[q].messages[i].calls = 0
      BY <1>2, <2>1, FS_EmptySet
    <3>2. i + 1 .. i + 0 = {}
      BY <1>2, <2>1
    <3>. QED  BY <1>2, <2>1, <3>1, <3>2 DEF Done
  <2>2. CASE ~(q = s /\ i = n + 1)
    <3>1. i \in DOMAIN session[q].messages /\ (Done(q, i) => Done(q, i)') /\ LiveSession(q)
      BY <1>3, <1>4, <1>8, <2>2
    <3>2. ~\E x \in Calling : Serves(x, q, i)
      <4> SUFFICES ASSUME NEW x \in Calling, Serves(x, q, i) PROVE FALSE
        OBVIOUS
      <4>1. x \in Requests /\ x # r /\ task[x].s = q /\ task[x].of = i
        BY <1>5 DEF Calling, Serves
      <4>2. x \in Calling' /\ task'[x] = task[x]
        BY <1>5, <4>1
      <4>. QED  BY <1>8, <4>1, <4>2 DEF Serves
    <3>. QED  BY <3>1, <3>2, CallsServedIs
  <2>. QED  BY <2>1, <2>2
<1>9. \A q \in Sessions : LiveSession(q)' => Entries(q)'
  BY <1>2, <1>3
<1>. QED  BY <1>6, <1>7, <1>8, <1>9 DEF CallsServed, Entries, InService, Done

\* A call that is not served by another handler afterwards was not before.
LEMMA NotServed ==
  ASSUME NEW r \in Requests, NEW s, NEW i,
         \A q \in Requests : q # r => (q \in Calling' <=> q \in Calling) /\ task'[q] = task[q],
         ~\E x \in Calling' : Serves(x, s, i)', ~Serves(r, s, i)
  PROVE  ~\E x \in Calling : Serves(x, s, i)
<1> SUFFICES ASSUME NEW x \in Calling, Serves(x, s, i) PROVE FALSE
  OBVIOUS
<1>1. x \in Requests /\ x # r /\ task[x].s = s /\ task[x].of = i
  BY DEF Calling, Serves
<1>2. x \in Calling' /\ task'[x] = task[x]
  BY <1>1
<1>. QED  BY <1>1, <1>2 DEF Serves

\* An answer of the model with calls: its handler goes on to the tools.
LEMMA CallsStored ==
  ASSUME Handlers, Alone, ChatInv, CallsServed, NEW r \in Requests, NEW t,
         pc[r] \notin {"idle", "ask:tool"}, GotoWith(r, "ask:tool", t), t.s \in Sessions,
         LiveSession(t.s), NEW m \in ChatMessage, Say(t.s, m), m.role # "tool", m.calls = t.calls,
         t.of = Len(session[t.s].messages) + 1
  PROVE  CallsServed'
<1>s. PICK s \in Sessions : s = t.s
  OBVIOUS
<1>1. PICK n : /\ s = t.s /\ n = Len(session[s].messages)
               /\ LiveSession(s) /\ Say(s, m)
  BY <1>s
<1>2. /\ n \in Nat /\ session'[s].messages[n + 1] = m
      /\ DOMAIN session'[s].messages = (1 .. n) \cup {n + 1} /\ Len(session'[s].messages) = n + 1
      /\ \A q \in Sessions : LiveSession(q) => Entries(q)'
      /\ Answers(s, n + 1)' = {}
  <2>1. ChatRows /\ s \in Sessions /\ n = Len(session[s].messages) /\ LiveSession(s)
        /\ Say(s, m) /\ (m.role = "tool" => m.of \in 1 .. n)
    BY <1>1 DEF ChatInv
  <2>. QED  BY <2>1, SaidOthers
<1>3. \A q \in Sessions : LiveSession(q)' <=> LiveSession(q)
  BY Said DEF ChatInv
<1>4. /\ \A q \in Requests : \A x : q # r /\ q \in Calling' /\ x = task'[q] =>
           /\ q \in Calling /\ task[q] = x /\ InService(x)'
           /\ x.s = s => x.of \in 1 .. n
      /\ \A q \in Sessions : \A i :
           LiveSession(q) /\ i \in DOMAIN session'[q].messages /\ ~(q = s /\ i = n + 1)
           => i \in DOMAIN session[q].messages /\ (Done(q, i) => Done(q, i)')
  BY <1>1, SaidServed
<1>5. /\ r \in Calling' /\ task'[r] = t /\ Calling' \subseteq Requests /\ r \notin Calling
      /\ \A q \in Requests : q # r => (q \in Calling' <=> q \in Calling) /\ task'[q] = task[q]
  BY <1>1, <1>3, CallingGoes DEF Calling
<1>6. \A q \in Calling' : q # r => ~(task'[q].s = s /\ task'[q].of = n + 1)
  <2>1. n + 1 \notin 1 .. n
    BY <1>2
  <2>. QED  BY <1>4, <1>5, <2>1
<1>7. \A q, x \in Calling' : task'[q].s = task'[x].s /\ task'[q].of = task'[x].of => q = x
  BY <1>1, <1>5, <1>6 DEF CallsServed
<1>8. InService(t)'
  <2>1. Cardinality({}) = 0
    BY FS_EmptySet
  <2>2. /\ t.s = s /\ t.of = n + 1 /\ m.calls \in Nat
        /\ session'[s].messages[n + 1].calls = t.calls
    BY <1>1, <1>2 DEF ChatMessage
  <2>3. t.calls - t.calls = 0 /\ n + 1 + 1 .. n + 1 + 0 = {} /\ n + 1 = n + 1 + 0
    BY <1>2, <2>2
  <2>4. Cardinality(Answers(s, n + 1)') + t.calls = t.calls
    <3>1. Cardinality(Answers(s, n + 1)') = 0
      BY <1>2, <2>1
    <3>2. t.calls \in Nat
      BY <2>2
    <3>. QED  BY <3>1, <3>2
  <2>. QED  BY <1>2, <2>2, <2>3, <2>4 DEF InService
<1>9. \A q \in Calling' : InService(task[q])'
  BY <1>4, <1>5, <1>8
<1>10. ASSUME NEW q \in Sessions, LiveSession(q)', NEW i \in DOMAIN session'[q].messages,
             ~\E x \in Calling' : Serves(x, q, i)'
      PROVE  Done(q, i)'
  <2>1. ~(q = s /\ i = n + 1)
    <3>1. Serves(r, s, n + 1)'
      BY <1>1, <1>5 DEF Serves
    <3>. QED  BY <1>5, <1>10, <3>1
  <2>2. i \in DOMAIN session[q].messages /\ (Done(q, i) => Done(q, i)') /\ LiveSession(q)
    BY <1>3, <1>4, <1>10, <2>1
  <2>3. ~Serves(r, q, i)
    BY <1>5 DEF Serves
  <2>4. ~\E x \in Calling : Serves(x, q, i)
    BY <1>5, <1>10, <2>3, NotServed
  <2>. QED  BY <2>2, <2>4, CallsServedIs
<1>11. \A q \in Sessions : LiveSession(q)' => Entries(q)'
  BY <1>2, <1>3
<1>. QED  BY <1>7, <1>9, <1>10, <1>11 DEF CallsServed, Entries, InService, Done

\* The result of a call of message o.
IsResult(m, o) == m.role = "tool" /\ m.calls = 0 /\ m.of = o

\* The result of a call: the handler has one less to see to, and goes on with the next
\* or, after the last, leaves the tools.
LEMMA CallsAnswered ==
  ASSUME Handlers, Alone, ChatInv, CallsServed, NEW r \in Requests, NEW x, x = task[r],
         pc[r] = "ask:tool", LiveSession(x.s), NEW p, NEW t, GotoWith(r, p, t),
         NEW m \in ChatMessage, Say(x.s, m), IsResult(m, x.of),
         \/ p = "ask:tool" /\ x.calls > 1 /\ t.calls = x.calls - 1 /\ t.s = x.s /\ t.of = x.of
         \/ p # "ask:tool" /\ x.calls = 1
  PROVE  CallsServed'
<1>1. r \in Calling /\ x.s \in Sessions /\ x.calls \in Nat \ {0} /\ x.of \in Nat
  BY DEF Calling, ChatInv, ChatTask, ChatLabels
<1>s. PICK s \in Sessions : s = x.s
  BY <1>1
<1>2. PICK n : /\ s = x.s /\ n = Len(session[s].messages)
               /\ LiveSession(s) /\ Say(s, m)
  BY <1>s
<1>3. PICK o \in Nat : o = x.of
  BY <1>1
<1>4. InService(x)
  BY <1>1, CallsServedIs
<1>5. /\ session[s].messages \in Seq(ChatMessage) /\ n \in Nat
      /\ DOMAIN session[s].messages = 1 .. n
      /\ IsFiniteSet(Answers(s, o)) /\ Cardinality(Answers(s, o)) \in Nat
      /\ Answers(s, o) \subseteq 1 .. n
  <2>1. session[s] # None
    BY <1>2 DEF LiveSession
  <2>. QED  BY <1>2, <2>1, AnswersFinite DEF ChatInv
<1>6. o \in 1 .. n /\ m.of \in 1 .. n /\ m.of = o /\ m.role = "tool"
  BY <1>2, <1>3, <1>4, <1>5 DEF InService, IsResult
<1>7. /\ session'[s].messages[n + 1] = m
      /\ DOMAIN session'[s].messages = (1 .. n) \cup {n + 1} /\ Len(session'[s].messages) = n + 1
      /\ \A q \in Sessions : LiveSession(q) => Entries(q)'
      /\ Answers(s, n + 1)' = {} /\ Answers(s, o)' = Answers(s, o) \cup {n + 1}
      /\ session'[s].messages[o] = session[s].messages[o]
  <2>1. ChatRows /\ s \in Sessions /\ n = Len(session[s].messages) /\ LiveSession(s)
        /\ Say(s, m) /\ m.of \in 1 .. n
    BY <1>2, <1>6 DEF ChatInv
  <2>3. /\ session'[s].messages[n + 1] = m
        /\ DOMAIN session'[s].messages = (1 .. n) \cup {n + 1} /\ Len(session'[s].messages) = n + 1
        /\ \A q \in Sessions : LiveSession(q) => Entries(q)'
        /\ \A i \in 1 .. n : session'[s].messages[i] = session[s].messages[i]
        /\ Answers(s, n + 1)' = {}
    <3>1. m.role = "tool" => m.of \in 1 .. n
      BY <2>1
    <3>2. session'[s].messages[n + 1] = m
      BY <2>1, <3>1, SaidOthers
    <3>3. DOMAIN session'[s].messages = (1 .. n) \cup {n + 1}
      BY <2>1, <3>1, SaidOthers
    <3>4. Len(session'[s].messages) = n + 1
      BY <2>1, <3>1, SaidOthers
    <3>5. \A q \in Sessions : LiveSession(q) => Entries(q)'
      BY <2>1, <3>1, SaidOthers
    <3>6. \A i \in 1 .. n : session'[s].messages[i] = session[s].messages[i]
      BY <2>1, <3>1, SaidOthers
    <3>7. Answers(s, n + 1)' = {}
      BY <2>1, <3>1, SaidOthers
    <3>. QED  BY <3>2, <3>3, <3>4, <3>5, <3>6, <3>7
  <2>4. m.role = "tool" => Answers(s, m.of)' = Answers(s, m.of) \cup {n + 1}
    BY <2>1, SaidOthers
  <2>. QED  BY <1>6, <2>3, <2>4
<1>8. \A q \in Sessions : LiveSession(q)' <=> LiveSession(q)
  BY <1>2, Said DEF ChatInv
<1>9. /\ \A q \in Requests : \A y : q # r /\ q \in Calling' /\ y = task'[q] =>
           /\ q \in Calling /\ task[q] = y
           /\ ~(y.s = s /\ y.of = o) => InService(y)'
      /\ \A q \in Sessions : \A i :
           LiveSession(q) /\ i \in DOMAIN session'[q].messages
             /\ ~(q = s /\ (i = n + 1 \/ i = o))
           => i \in DOMAIN session[q].messages /\ (Done(q, i) => Done(q, i)')
  <2>1. ChatRows /\ s \in Sessions /\ n = Len(session[s].messages) /\ LiveSession(s)
        /\ Say(s, m) /\ m.of \in 1 .. n
    BY <1>2, <1>6 DEF ChatInv
  <2>2. /\ \A q \in Requests : \A y : q # r /\ q \in Calling' /\ y = task'[q] =>
             /\ q \in Calling /\ task[q] = y
             /\ ~(y.s = s /\ y.of = m.of) => InService(y)'
        /\ \A q \in Sessions : \A i :
             /\ LiveSession(q) /\ i \in DOMAIN session'[q].messages
             /\ ~(q = s /\ (i = n + 1 \/ m.of = i))
             => i \in DOMAIN session[q].messages /\ (Done(q, i) => Done(q, i)')
    BY <2>1, SaidServed
  <2>. QED  BY <1>6, <2>2
<1>10. /\ Calling' \subseteq Requests /\ task'[r] = t
       /\ r \in Calling' => p = "ask:tool"
       /\ \A q \in Requests : q # r => (q \in Calling' <=> q \in Calling) /\ task'[q] = task[q]
  BY <1>8, CallingGoes
<1>11. \A q \in Calling' : q # r => ~(task'[q].s = s /\ task'[q].of = o) /\ InService(task[q])'
  <2>1. ASSUME NEW q \in Calling', q # r PROVE ~(task'[q].s = s /\ task'[q].of = o)
    BY <1>1, <1>2, <1>3, <1>10, <2>1 DEF CallsServed
  <2>. QED  BY <1>9, <1>10, <2>1
<1>12. \A q, y \in Calling' : task'[q].s = task'[y].s /\ task'[q].of = task'[y].of => q = y
  <2>1. r \in Calling' => task'[r].s = s /\ task'[r].of = o
    BY <1>2, <1>3, <1>10
  <2>2. \A q, y \in Calling' : q # r /\ y # r /\ task'[q].s = task'[y].s
                                 /\ task'[q].of = task'[y].of => q = y
    BY <1>10 DEF CallsServed
  <2>. QED  BY <1>11, <2>1, <2>2
<1>13. PICK k : k = session[s].messages[o].calls
  OBVIOUS
<1>14. /\ Cardinality(Answers(s, o)) + x.calls = k /\ k \in Nat
       /\ Cardinality(Answers(s, o)') = Cardinality(Answers(s, o)) + 1
       /\ session'[s].messages[o].calls = k
  <2>1. n + 1 \notin Answers(s, o)
    BY <1>5
  <2>2. Cardinality(Answers(s, o)') = Cardinality(Answers(s, o)) + 1
    BY <1>5, <1>7, <2>1, FS_AddElement
  <2>3. Cardinality(Answers(s, o)) + x.calls = k
    BY <1>2, <1>3, <1>4, <1>13 DEF InService
  <2>4. k \in Nat
    <3>1. session[s].messages[o] \in ChatMessage
      BY <1>5, <1>6
    <3>. QED  BY <1>13, <3>1 DEF ChatMessage
  <2>. QED  BY <1>7, <1>13, <2>2, <2>3, <2>4
<1>15. ASSUME OneByOne'
       PROVE  /\ Answers(s, o)' = o + 1 .. o + (k - (x.calls - 1))
              /\ n + 1 = o + (k - (x.calls - 1))
  <2>1. OneByOne
    BY <1>15 DEF OneByOne, GotoWith, control
  <2>2. Answers(s, o) = o + 1 .. o + (k - x.calls) /\ n = o + (k - x.calls)
    BY <1>2, <1>3, <1>4, <1>13, <2>1 DEF InService
  <2>3. n + 1 = o + (k - (x.calls - 1)) /\ o <= n
    BY <1>1, <1>5, <1>6, <1>14, <2>2
  <2>4. o + 1 .. n + 1 = (o + 1 .. n) \cup {n + 1}
    BY <1>5, <2>3
  <2>. QED  BY <1>7, <2>2, <2>3, <2>4
<1>16. \A q \in Calling' : InService(task[q])'
  <2>1. ASSUME r \in Calling' PROVE InService(t)'
    <3>1. t.calls = x.calls - 1 /\ t.s = s /\ t.of = o /\ p = "ask:tool"
      BY <1>2, <1>3, <1>10, <2>1
    <3>2. Cardinality(Answers(s, o)') + t.calls = k
      <4>1. PICK a \in Nat, c \in Nat : a = Cardinality(Answers(s, o)) /\ c = x.calls
        BY <1>1, <1>5
      <4>2. a + c = k /\ Cardinality(Answers(s, o)') = a + 1 /\ t.calls = c - 1
        BY <1>14, <3>1, <4>1
      <4>3. a + 1 + (c - 1) = k
        BY <1>14, <4>2
      <4>. QED  BY <4>2, <4>3
    <3>3. o \in DOMAIN session'[s].messages
      BY <1>6, <1>7
    <3>. QED  BY <1>7, <1>14, <1>15, <3>1, <3>2, <3>3 DEF InService
  <2>. QED  BY <1>10, <1>11, <2>1
<1>17. ASSUME p # "ask:tool" PROVE Done(s, o)'
  <2>1. x.calls = 1 /\ x.calls - 1 = 0 /\ k - 0 = k
    BY <1>14, <1>17
  <2>2. Cardinality(Answers(s, o)') = k
    BY <1>5, <1>14, <2>1
  <2>. QED  BY <1>14, <1>15, <2>1, <2>2 DEF Done
<1>18. Done(s, n + 1)'
  <2>1. Cardinality(Answers(s, n + 1)') = 0 /\ session'[s].messages[n + 1].calls = 0
    BY <1>7, FS_EmptySet DEF IsResult
  <2>2. n + 1 + 1 .. n + 1 + 0 = {}
    BY <1>5
  <2>. QED  BY <1>7, <2>1, <2>2 DEF Done
<1>19. ASSUME NEW q \in Sessions, LiveSession(q)', NEW i \in DOMAIN session'[q].messages,
             ~\E y \in Calling' : Serves(y, q, i)'
      PROVE  Done(q, i)'
  <2>1. CASE q = s /\ i = n + 1
    BY <1>18, <2>1
  <2>2. CASE q = s /\ i = o
    <3>1. p # "ask:tool"
      <4> SUFFICES ASSUME p = "ask:tool" PROVE FALSE
        OBVIOUS
      <4>1. t.s = s /\ t.of = o /\ LiveSession(s)
        BY <1>2, <1>3
      <4>2. r \in Calling'
        BY <1>8, <4>1, CallingGoes
      <4>3. Serves(r, q, i)'
        BY <1>10, <2>2, <4>1, <4>2 DEF Serves
      <4>. QED  BY <1>19, <4>2, <4>3
    <3>. QED  BY <1>17, <2>2, <3>1
  <2>3. CASE ~(q = s /\ (i = n + 1 \/ i = o))
    <3>1. i \in DOMAIN session[q].messages /\ (Done(q, i) => Done(q, i)') /\ LiveSession(q)
      BY <1>8, <1>9, <1>19, <2>3
    <3>2. ~Serves(r, q, i)
      BY <1>2, <1>3, <2>3 DEF Serves
    <3>3. ~\E y \in Calling : Serves(y, q, i)
      BY <1>10, <1>19, <3>2, NotServed
    <3>. QED  BY <3>1, <3>3, CallsServedIs
  <2>. QED  BY <2>1, <2>2, <2>3
<1>20. \A q \in Sessions : LiveSession(q)' => Entries(q)'
  BY <1>7, <1>8
<1>. QED  BY <1>12, <1>16, <1>19, <1>20 DEF CallsServed, Entries, InService, Done

\* With a task, some fields written, the others are as before.
LEMMA TaskWith ==
  ASSUME NEW t, Asked \subseteq DOMAIN t, NEW new, NEW v, v = With(t, new)
  PROVE  /\ Asked \subseteq DOMAIN v
         /\ \A x \in Asked : x \notin DOMAIN new => v[x] = t[x]
         /\ \A x \in DOMAIN new : x \in DOMAIN v /\ v[x] = new[x]
<1>1. /\ DOMAIN With(t, new) = DOMAIN t \cup DOMAIN new
      /\ \A x \in DOMAIN new : With(t, new)[x] = new[x]
      /\ \A x \in DOMAIN t \ DOMAIN new : With(t, new)[x] = t[x]
  BY WithNew, Zenon
<1>. QED  BY <1>1

LEMMA ChatInvInit == Init => ChatInv
<1> SUFFICES ASSUME Init PROVE ChatInv
  OBVIOUS
<1>1. /\ session = StartSession /\ slots = 0 /\ cutShort = FALSE /\ workload \in Workloads
      /\ asked = [u \in Users |-> [tokens |-> 0, requests |-> 0]]
      /\ spent = [u \in Users |-> 0] /\ \A r \in Requests : pc[r] = "idle"
  BY DEF Init, ChatInit, ServerInit
<1>2. ChatRows
  BY <1>1, ChatAssumption DEF ChatRows
<1>3. "idle" \notin ChatLabels
  BY DEF ChatLabels
<1>4. \A r \in Requests : ChatTask(pc[r], task[r])
  BY <1>1, <1>3 DEF ChatTask
<1>5. AtModel = {} /\ Cardinality({}) = 0
  BY <1>1, FS_EmptySet DEF AtModel
<1>6. Charged
  <2>1. ASSUME NEW u \in Users
        PROVE  /\ SumOf(OwedFor(u), Requests) = 0 /\ SumOf(UnsavedFor(u), Requests) = 0
               /\ SumOf(TokensFor(u), Sessions) = 0
    <3>1. \A r \in Requests : OwedFor(u)[r] = 0 /\ UnsavedFor(u)[r] = 0
      BY <1>1, <1>3 DEF OwedFor, UnsavedFor, Owed, Unsaved
    <3>2. \A s \in Sessions : TokensFor(u)[s] = 0
      BY <1>1, ChatAssumption DEF TokensFor
    <3>. QED  BY <3>1, <3>2, SumOfZeroes, ServerAssumption, ChatAssumption
  <2>. QED  BY <1>1, <2>1 DEF Charged
<1>7. Calling = {}
  BY <1>1 DEF Calling
<1>8. CallsServed
  <2>1. ASSUME NEW s \in Sessions, LiveSession(s)
        PROVE  /\ Entries(s) /\ \A i \in DOMAIN session[s].messages : Done(s, i)
    <3>1. StartSession[s] # None /\ session[s].messages = StartSession[s].messages
      BY <1>1, <2>1 DEF LiveSession
    <3>2. PICK old : old = StartSession[s].messages
      OBVIOUS
    <3>3. /\ old \in Seq(ChatMessage)
          /\ \A i \in DOMAIN old : /\ AnswersIn(old, i) = i + 1 .. i + old[i].calls
                                   /\ old[i].role = "tool" => old[i].of \in DOMAIN old
      BY <3>1, <3>2, ChatAssumption DEF SessionRows
    <3>4. ASSUME NEW i \in DOMAIN old PROVE Done(s, i)
      <4>1. i \in Nat /\ old[i] \in ChatMessage
        BY <3>3
      <4>2. PICK n \in Nat : n = old[i].calls
        BY <4>1 DEF ChatMessage
      <4>3. Cardinality(i + 1 .. i + n) = n
        <5>1. i + 1 \in Int /\ i + n \in Int /\ (i + n) - (i + 1) + 1 = n
          BY <4>1
        <5>2. i + 1 > i + n => n = 0
          BY <4>1
        <5>. QED  BY <5>1, <5>2, FS_Interval
      <4>. QED  BY <3>1, <3>2, <3>3, <4>2, <4>3 DEF Done, Answers
    <3>. QED  BY <3>1, <3>2, <3>3, <3>4 DEF Entries
  <2>. QED  BY <1>7, <2>1 DEF CallsServed, Entries, Done
<1>. QED  BY <1>1, <1>2, <1>4, <1>5, <1>6, <1>8 DEF ChatInv

\* A request is answered at once, and leaves the sessions that are being talked in.
LEMMA ChatAnswers ==
  ASSUME Handlers, ChatInv, NEW kind, AnswerAtOnce(kind), ChatRows', SessionsStay,
         UNCHANGED <<asked, slots, spent>>,
         ~cutShort' => \A u \in Users :
           SumOf(TokensFor(u), Sessions)' = SumOf(TokensFor(u), Sessions),
         \A s \in Sessions : LiveSession(s)' =>
           \/ LiveSession(s) /\ session'[s].messages = session[s].messages
           \/ session[s] = None /\ session'[s].messages = <<>>
  PROVE  ChatInv'
<1>1. /\ overlapped' = (overlapped \/ ~AllIdle) /\ restarts' = restarts
      /\ pc' = pc /\ task' = task
  BY DEF AnswerAtOnce, Arrives, handlers
<1>2. AtModel' = AtModel
  BY <1>1 DEF AtModel
<1>3. ASSUME NEW q \in Requests PROVE ChatTask(pc[q], task[q])'
  <2>1. PICK x, y : x = pc[q] /\ y = task[q]
    OBVIOUS
  <2>2. ChatTask(x, y)'
    BY <2>1, TasksStay DEF ChatInv
  <2>. QED  BY <1>1, <2>1, <2>2
<1>4. Charged'
  <2>1. ASSUME NEW u \in Users
        PROVE  /\ SumOf(OwedFor(u), Requests)' = SumOf(OwedFor(u), Requests)
               /\ SumOf(UnsavedFor(u), Requests)' = SumOf(UnsavedFor(u), Requests)
    <3>1. OwedFor(u)' = OwedFor(u) /\ UnsavedFor(u)' = UnsavedFor(u)
      BY <1>1 DEF OwedFor, UnsavedFor, Owed, Unsaved
    <3>. QED  BY <3>1
  <2>2. cutShort => cutShort'
    BY DEF SessionsStay
  <2>. QED  BY <1>1, <2>1, <2>2 DEF ChatInv, Charged
<1>5. restarts' = 0 => CallsServed'
  BY <1>1, CallsStay DEF ChatInv
<1>. QED  BY <1>1, <1>2, <1>3, <1>4, <1>5 DEF ChatInv

LEMMA CreateSessionKeeps ==
  ASSUME Handlers, ChatInv, workload' = workload, CreateSession
  PROVE  ChatInv'
<1>1. PICK u \in Users, s \in FreeId(session) :
        /\ AnswerAtOnce("CreateSession") /\ session' = [session EXCEPT ![s] = SessionRow(u)]
        /\ UNCHANGED <<asked, slots, spent, cutShort>>
  BY DEF CreateSession
<1>2. session \in [Sessions -> SessionRows \cup {None}] /\ ChatRows
  BY DEF ChatInv, ChatRows
<1>3. s \in Sessions /\ session[s] = None
  BY <1>2, FreeIdIsFree
<1>4. PICK row : row = SessionRow(u)
  OBVIOUS
<1>5. /\ row \in SessionRows /\ row # None /\ row.tokens = 0 /\ row.messages = <<>> /\ row.user = u
  <2>1. row \in SessionRows /\ row.tokens = 0 /\ row.messages = <<>> /\ row.user = u
    BY <1>4 DEF SessionRow, SessionRows
  <2>. QED  BY <2>1, ChatAssumption
<1>6. /\ session' \in [Sessions -> SessionRows \cup {None}]
      /\ session'[s] = row /\ \A q \in Sessions : q # s => session'[q] = session[q]
  BY <1>1, <1>2, <1>3, <1>4, <1>5
<1>7. ChatRows'
  BY <1>1, <1>2, <1>6 DEF ChatRows
<1>8. SessionsStay
  BY <1>1, <1>3, <1>6 DEF SessionsStay, LiveSession
<1>9. ASSUME NEW v \in Users
      PROVE  SumOf(TokensFor(v), Sessions)' = SumOf(TokensFor(v), Sessions)
  <2>1. TokensFor(v)' = TokensFor(v)
    BY <1>3, <1>5, <1>6 DEF TokensFor
  <2>. QED  BY <2>1
<1>10. \A q \in Sessions : LiveSession(q)' =>
         \/ LiveSession(q) /\ session'[q].messages = session[q].messages
         \/ session[q] = None /\ session'[q].messages = <<>>
  BY <1>3, <1>5, <1>6 DEF LiveSession
<1>. QED  BY <1>1, <1>7, <1>8, <1>9, <1>10, ChatAnswers

LEMMA DeleteSessionKeeps ==
  ASSUME Handlers, ChatInv, workload' = workload, DeleteSession
  PROVE  ChatInv'
<1>1. PICK s \in Sessions :
        /\ LiveSession(s) /\ AnswerAtOnce("DeleteSession") /\ cutShort' = TRUE
        /\ session' = [session EXCEPT ![s].live = FALSE, ![s].messages = <<>>]
        /\ UNCHANGED <<asked, slots, spent>>
  BY DEF DeleteSession
<1>2. session \in [Sessions -> SessionRows \cup {None}] /\ ChatRows
  BY DEF ChatInv, ChatRows
<1>3. session[s] \in SessionRows /\ session[s] # None
  BY <1>1, <1>2 DEF LiveSession
<1>4. PICK row : row = [session[s] EXCEPT !.live = FALSE, !.messages = <<>>]
  OBVIOUS
<1>5. row \in SessionRows /\ row # None /\ row.live = FALSE /\ row.user = session[s].user
  <2>0. <<>> \in Seq(ChatMessage)
    OBVIOUS
  <2>1. row \in SessionRows /\ row.live = FALSE /\ row.user = session[s].user
    BY <1>3, <1>4, <2>0 DEF SessionRows
  <2>. QED  BY <2>1, ChatAssumption
<1>6. /\ session' \in [Sessions -> SessionRows \cup {None}]
      /\ session'[s] = row /\ \A q \in Sessions : q # s => session'[q] = session[q]
  <2>1. PICK f : f = [session EXCEPT ![s].live = FALSE]
    OBVIOUS
  <2>2. session' = [f EXCEPT ![s].messages = <<>>]
    BY <1>1, <2>1
  <2>3. f = [session EXCEPT ![s] = [session[s] EXCEPT !.live = FALSE]]
    BY <1>2, <2>1
  <2>4. PICK a : a = [session[s] EXCEPT !.live = FALSE]
    OBVIOUS
  <2>5. f[s] = a /\ DOMAIN f = Sessions /\ \A q \in Sessions : q # s => f[q] = session[q]
    BY <1>2, <2>3, <2>4
  <2>6. row = [a EXCEPT !.messages = <<>>]
    BY <1>4, <2>4
  <2>7. session' = [f EXCEPT ![s] = row]
    BY <2>2, <2>5, <2>6
  <2>8. session' = [q \in Sessions |-> IF q = s THEN row ELSE session[q]]
    BY <2>5, <2>7
  <2>. QED  BY <1>2, <1>5, <2>8
<1>7. ChatRows'
  BY <1>1, <1>2, <1>6 DEF ChatRows
<1>8. SessionsStay
  BY <1>1, <1>3, <1>5, <1>6 DEF SessionsStay, LiveSession
<1>9. \A q \in Sessions : LiveSession(q)' =>
         LiveSession(q) /\ session'[q].messages = session[q].messages
  BY <1>5, <1>6 DEF LiveSession
<1>. QED  BY <1>1, <1>7, <1>8, <1>9, ChatAnswers

LEMMA ChatRestarts ==
  ASSUME ChatInv, Alone, Restart, workload' = workload
  PROVE  ChatInv'
<1>1. /\ restarts' = restarts + 1 /\ UNCHANGED <<session, asked, spent, cutShort>>
      /\ slots' = 0 /\ \A r \in Requests : pc'[r] = "idle"
  BY DEF Restart, ServerRestart, ChatRestart
<1>2. restarts' # 0
  BY <1>1 DEF Alone
<1>3. "idle" \notin ChatLabels
  BY DEF ChatLabels
<1>4. ChatRows' /\ \A r \in Requests : ChatTask(pc[r], task[r])'
  BY <1>1, <1>3 DEF ChatInv, ChatRows, ChatTask
<1>5. AtModel' = {} /\ Cardinality({}) = 0
  BY <1>1, FS_EmptySet DEF AtModel
<1>6. ASSUME NEW u \in Users PROVE asked'[u].tokens + SumOf(OwedFor(u), Requests)' <= spent'[u]
  <2>1. SumOf(OwedFor(u), Requests)' = 0
    <3>1. PICK g : g = OwedFor(u)'
      OBVIOUS
    <3>2. \A r \in Requests : g[r] = 0
      BY <1>1, <1>3, <3>1 DEF OwedFor, Owed
    <3>. QED  BY <3>1, <3>2, SumOfZeroes, ServerAssumption
  <2>2. SumOf(OwedFor(u), Requests) \in Nat /\ asked[u].tokens \in Nat /\ spent[u] \in Nat
    BY OwedSums DEF ChatInv, ChatRows
  <2>. QED  BY <1>1, <2>1, <2>2 DEF ChatInv, Charged
<1>. QED  BY <1>1, <1>2, <1>4, <1>5, <1>6 DEF ChatInv, Charged

\* What a task holds of the question is what another holds.
SameAsk(v, t) == Asked \subseteq DOMAIN v /\ v.s = t.s /\ v.user = t.user /\ v.total = t.total

LEMMA AskTaskKept ==
  ASSUME NEW p \in ChatLabels, NEW t, ChatTask(p, t), NEW v, SameAsk(v, t),
         NEW q \in ChatLabels \ {"ask:store", "ask:tool"},
         q \in {"ask:save", "faq:save"} => p \in {"ask:save", "faq:save"}
  PROVE  /\ ChatTask(q, v)
         /\ \A u : Owed(q, v, u) = Owed(p, t, u)
         /\ \A u : p # "ask:usage" /\ q # "ask:usage" => Unsaved(q, v, u) = Unsaved(p, t, u)
BY DEF ChatTask, SameAsk, Owed, Unsaved

LEMMA WithSame ==
  ASSUME NEW t, Asked \subseteq DOMAIN t, NEW new, DOMAIN new \cap {"s", "user", "total"} = {},
         NEW v, v = With(t, new)
  PROVE  SameAsk(v, t)
<1>1. /\ Asked \subseteq DOMAIN v
      /\ \A x \in Asked : x \notin DOMAIN new => v[x] = t[x]
  BY TaskWith
<1>2. v["s"] = t["s"] /\ v["user"] = t["user"] /\ v["total"] = t["total"]
  BY <1>1 DEF Asked
<1>. QED  BY <1>1, <1>2 DEF SameAsk

\* Nothing is charged, and what is owed stays.
LEMMA NothingCharged ==
  ASSUME Handlers, ChatInv, NEW r \in Requests, NEW p, NEW t, p \in ChatLabels => t.total \in Nat,
         NEW u \in Users, UNCHANGED <<asked, spent>>,
         Owed(p, t, u) = Owed(pc[r], task[r], u), Unsaved(p, t, u) = Unsaved(pc[r], task[r], u)
  PROVE  Accounted(r, p, t, u, 0)
<1>1. PICK a, b : a = Owed(p, t, u) /\ b = Unsaved(p, t, u)
  OBVIOUS
<1>2. a \in Nat /\ b \in Nat /\ a - a = 0 /\ b - b = 0
  BY <1>1, OwedIsNat
<1>3. PICK c \in Nat, v \in Nat : c = asked[u].tokens /\ v = spent[u]
  BY DEF ChatInv, ChatRows
<1>4. c + 0 - c = 0 /\ v - v = 0 /\ 0 <= 0 /\ 0 + 0 = 0
  BY <1>3
<1>. QED  BY <1>1, <1>2, <1>3, <1>4 DEF Accounted

\* A handler that gives up charges nothing, and somebody was cut short.
LEMMA GivenUp ==
  ASSUME Handlers, ChatInv, NEW r \in Requests, NEW t, cutShort',
         NEW u \in Users, UNCHANGED <<asked, spent>>
  PROVE  Accounted(r, "idle", t, u, 0)
<1>1. PICK a \in Nat : a = Owed(pc[r], task[r], u)
  BY OwedIsNat DEF ChatInv, ChatTask
<1>2. Owed("idle", t, u) = 0
  BY DEF Owed, ChatLabels
<1>3. PICK c \in Nat, v \in Nat : c = asked[u].tokens /\ v = spent[u]
  BY DEF ChatInv, ChatRows
<1>4. c + (0 - a) - c <= v - v
  BY <1>3
<1>. QED  BY <1>1, <1>2, <1>3, <1>4 DEF Accounted

\* A step that neither enters the tools nor leaves them.
LEMMA CallsLeft ==
  ASSUME Handlers, ChatInv, CallsServed, NEW r \in Requests, NEW p, NEW t, GotoWith(r, p, t),
         r \notin Calling, p # "ask:tool", UNCHANGED session
  PROVE  CallsServed'
<1>1. \A q \in Sessions : LiveSession(q)' <=> LiveSession(q)
  BY DEF LiveSession
<1>2. Calling' = Calling /\ \A q \in Calling : task'[q] = task[q]
  <2>1. /\ \A q \in Requests : q # r => (q \in Calling' <=> q \in Calling) /\ task'[q] = task[q]
        /\ r \notin Calling' /\ Calling \subseteq Requests /\ Calling' \subseteq Requests
    BY <1>1, CallingGoes
  <2>. QED  BY <2>1
<1>3. OneByOne' <=> OneByOne
  BY DEF OneByOne, GotoWith, control
<1>4. \A s, i : Answers(s, i)' = Answers(s, i)
  BY DEF Answers
<1>5. \A s \in Sessions : LiveSession(s)' => Entries(s)'
  BY <1>1 DEF CallsServed, Entries
<1>6. \A q \in Calling' : InService(task[q])'
  <2>1. ASSUME NEW q \in Calling, NEW x, x = task[q] PROVE InService(x)'
    <3>1. InService(x)
      BY <2>1, CallsServedIs
    <3>2. Answers(x.s, x.of)' = Answers(x.s, x.of)
      BY <1>4
    <3>. QED  BY <1>3, <3>1, <3>2 DEF InService
  <2>. QED  BY <1>2, <2>1
<1>7. ASSUME NEW s \in Sessions, LiveSession(s)', NEW i \in DOMAIN session'[s].messages,
             ~\E q \in Calling' : Serves(q, s, i)'
      PROVE  Done(s, i)'
  <2>1. ~\E q \in Calling : Serves(q, s, i)
    BY <1>2, <1>7 DEF Serves
  <2>2. LiveSession(s) /\ i \in DOMAIN session[s].messages
    BY <1>1, <1>7
  <2>3. Done(s, i)
    BY <2>1, <2>2, CallsServedIs
  <2>. QED  BY <1>3, <1>4, <2>3 DEF Done
<1>8. \A x, q \in Calling' : task'[x].s = task'[q].s /\ task'[x].of = task'[q].of => x = q
  BY <1>2 DEF CallsServed
<1>. QED  BY <1>5, <1>6, <1>7, <1>8 DEF CallsServed, Entries, InService, Done

\* A step that leaves the sessions.
LEMMA GoesKeeps ==
  ASSUME Handlers, ChatInv, NEW r \in Requests, NEW p, NEW t, GotoWith(r, p, t),
         r \notin Calling, p # "ask:tool", ChatTask(p, t), UNCHANGED session,
         ChatRows', cutShort => cutShort', \A u \in Users : Accounted(r, p, t, u, 0),
         (slots = Cardinality(AtModel))'
  PROVE  ChatInv'
<1>1. SessionsStay
  BY DEF SessionsStay, LiveSession
<1>2. ChatTask(p, t)'
  BY <1>1, TasksStay
<1>3. p \in ChatLabels => t.total \in Nat
  BY DEF ChatTask
<1>4. \A u \in Users : \E n \in Int :
        /\ SumOf(TokensFor(u), Sessions)' = SumOf(TokensFor(u), Sessions) + n
        /\ Accounted(r, p, t, u, n)
  <2> SUFFICES ASSUME NEW u \in Users
               PROVE  SumOf(TokensFor(u), Sessions)' = SumOf(TokensFor(u), Sessions) + 0
    OBVIOUS
  <2>1. TokensFor(u)' = TokensFor(u)
    BY DEF TokensFor
  <2>2. SumOf(TokensFor(u), Sessions) \in Nat
    BY TokensSum DEF ChatInv
  <2>. QED  BY <2>1, <2>2
<1>5. Charged'
  BY <1>3, <1>4, ChargedGoes
<1>6. restarts = 0 => CallsServed'
  BY CallsLeft DEF ChatInv
<1>. QED  BY <1>1, <1>2, <1>5, <1>6, ChatGoes

\* A step that stores a message.
LEMMA SayKeeps ==
  ASSUME Handlers, ChatInv, NEW r \in Requests, NEW p, NEW t, GotoWith(r, p, t),
         pc[r] \notin ModelLabels, p \notin ModelLabels, ChatTask(p, t), workload' = workload,
         UNCHANGED <<asked, slots, spent, cutShort>>,
         NEW s \in Sessions, LiveSession(s), NEW m \in ChatMessage, Say(s, m),
         \A u \in Users : Accounted(r, p, t, u, 0),
         restarts = 0 => CallsServed'
  PROVE  ChatInv'
<1>1. /\ ChatRows' /\ SessionsStay
      /\ \A u \in Users : SumOf(TokensFor(u), Sessions)' = SumOf(TokensFor(u), Sessions)
  BY SaidKeeps DEF ChatInv
<1>2. ChatTask(p, t)'
  BY <1>1, TasksStay
<1>3. p \in ChatLabels => t.total \in Nat
  BY DEF ChatTask
<1>4. \A u \in Users : \E n \in Int :
        /\ SumOf(TokensFor(u), Sessions)' = SumOf(TokensFor(u), Sessions) + n
        /\ Accounted(r, p, t, u, n)
  <2> SUFFICES ASSUME NEW u \in Users
               PROVE  SumOf(TokensFor(u), Sessions)' = SumOf(TokensFor(u), Sessions) + 0
    OBVIOUS
  <2>2. SumOf(TokensFor(u), Sessions) \in Nat
    BY TokensSum DEF ChatInv
  <2>. QED  BY <1>1, <2>2
<1>5. Charged'
  BY <1>1, <1>3, <1>4, ChargedGoes
<1>6. AtModel' = AtModel
  BY AtModelGoes
<1>. QED  BY <1>1, <1>2, <1>5, <1>6, ChatGoes DEF ChatInv

\* The session of a question was deleted: its handler leaves, whatever it owes.
LEMMA GivesUp ==
  ASSUME Handlers, ChatInv, NEW r \in Requests, pc[r] \in ChatLabels \ ModelLabels, Return(r),
         ~LiveSession(task[r].s), UNCHANGED chat, workload' = workload
  PROVE  ChatInv'
<1>1. GotoWith(r, "idle", None) /\ UNCHANGED <<session, asked, slots, spent, cutShort>>
  BY DEF Return, chat
<1>2. cutShort
  BY DEF ChatInv, ChatTask
<1>3. ChatTask("idle", None)
  BY DEF ChatTask, ChatLabels
<1>4. ChatRows'
  BY <1>1 DEF ChatInv, ChatRows
<1>5. \A u \in Users : Accounted(r, "idle", None, u, 0)
  BY <1>1, <1>2, GivenUp
<1>6. AtModel' = AtModel
  BY <1>1, AtModelGoes DEF ModelLabels
<1>7. r \notin Calling
  BY DEF Calling
<1>. QED  BY <1>1, <1>3, <1>4, <1>5, <1>6, <1>7, GoesKeeps DEF ChatInv

LEMMA MessageIs ==
  ASSUME NEW role \in {"user", "assistant", "tool"}, NEW calls \in Nat, NEW of \in Nat,
         NEW m, m = Message(role, calls, of)
  PROVE  m \in ChatMessage /\ m.role = role /\ m.calls = calls /\ m.of = of
BY DEF Message, ChatMessage

\* A question is stored, or an answer without calls.
LEMMA TextKeeps ==
  ASSUME Handlers, Alone, ChatInv, NEW r \in Requests, NEW p, NEW t, GotoWith(r, p, t),
         pc[r] \in ChatLabels \ {"ask:tool", "ask:call", "last:call"},
         p \notin {"ask:tool", "ask:call", "last:call"}, ChatTask(p, t), workload' = workload,
         UNCHANGED <<asked, slots, spent, cutShort>>,
         NEW s \in Sessions, LiveSession(s), NEW role \in {"user", "assistant"},
         Say(s, Message(role, 0, 0)),
         \A u \in Users : /\ Owed(p, t, u) = Owed(pc[r], task[r], u)
                          /\ Unsaved(p, t, u) = Unsaved(pc[r], task[r], u)
  PROVE  ChatInv'
<1>1. PICK m : m = Message(role, 0, 0)
  OBVIOUS
<1>2. m \in ChatMessage /\ m.role # "tool" /\ m.calls = 0 /\ Say(s, m)
  BY <1>1, MessageIs
<1>3. pc[r] \notin ModelLabels /\ p \notin ModelLabels /\ pc[r] \notin {"idle", "ask:tool"}
  BY DEF ModelLabels, ChatLabels
<1>4. \A u \in Users : Accounted(r, p, t, u, 0)
  <2>1. p \in ChatLabels => t.total \in Nat
    BY DEF ChatTask
  <2>. QED  BY <2>1, NothingCharged
<1>5. ASSUME restarts = 0 PROVE CallsServed'
  <2>1. CallsServed
    BY <1>5 DEF ChatInv
  <2>2. m.role # "tool" /\ m.calls = 0
    BY <1>2
  <2>. QED  BY <1>2, <1>3, <2>1, <2>2, CallsSaid
<1>. QED  BY <1>2, <1>3, <1>4, <1>5, SayKeeps

LEMMA AskSaveKeeps ==
  ASSUME Handlers, Alone, ChatInv, workload' = workload, NEW r \in Requests, AskSave(r)
  PROVE  ChatInv'
<1>1. pc[r] = "ask:save" /\ UNCHANGED <<asked, slots, spent, cutShort>>
  BY DEF AskSave, At
<1>2. PICK t : t = task[r]
  OBVIOUS
<1>3. ChatTask("ask:save", t)
  BY <1>1, <1>2 DEF ChatInv
<1>4. Asked \subseteq DOMAIN t /\ t.s \in Sessions
  BY <1>3 DEF ChatTask, ChatLabels
<1>5. CASE LiveSession(t.s)
  <2>1. PICK q, v : /\ q \in {"faq:save", "ask:history"}
                    /\ v = With(t, [question |-> Len(session[t.s].messages) + 1])
                    /\ GotoWith(r, q, v) /\ Say(t.s, Message("user", 0, 0))
    BY <1>2, <1>5 DEF AskSave
  <2>2. SameAsk(v, t)
    BY <1>4, <2>1, WithSame
  <2>3. /\ ChatTask(q, v)
        /\ \A u : Owed(q, v, u) = Owed("ask:save", t, u)
        /\ \A u : Unsaved(q, v, u) = Unsaved("ask:save", t, u)
    BY <1>3, <2>1, <2>2, AskTaskKept DEF ChatLabels
  <2>. QED  BY <1>1, <1>2, <1>4, <1>5, <2>1, <2>3, TextKeeps DEF ChatLabels
<1>6. CASE ~LiveSession(t.s)
  <2>1. Return(r) /\ UNCHANGED chat
    BY <1>1, <1>2, <1>6 DEF AskSave, chat
  <2>. QED  BY <1>1, <1>2, <1>6, <2>1, GivesUp DEF ChatLabels, ModelLabels
<1>. QED  BY <1>5, <1>6

LEMMA FaqSaveKeeps ==
  ASSUME Handlers, Alone, ChatInv, workload' = workload, NEW r \in Requests, FaqSave(r)
  PROVE  ChatInv'
<1>1. pc[r] = "faq:save" /\ UNCHANGED <<asked, slots, spent, cutShort>> /\ Return(r)
  BY DEF FaqSave, At
<1>2. PICK t : t = task[r]
  OBVIOUS
<1>3. ChatTask("faq:save", t) /\ t.s \in Sessions /\ t.total = 0
  BY <1>1, <1>2 DEF ChatInv, ChatTask, ChatLabels
<1>4. CASE LiveSession(t.s)
  <2>1. Say(t.s, Message("assistant", 0, 0)) /\ GotoWith(r, "idle", None)
    BY <1>1, <1>2, <1>4 DEF FaqSave, Return
  <2>2. /\ ChatTask("idle", None)
        /\ \A u : Owed("idle", None, u) = Owed("faq:save", t, u)
        /\ \A u : Unsaved("idle", None, u) = Unsaved("faq:save", t, u)
    BY <1>3 DEF ChatTask, ChatLabels, Owed, Unsaved
  <2>. QED  BY <1>1, <1>2, <1>3, <1>4, <2>1, <2>2, TextKeeps DEF ChatLabels
<1>5. CASE ~LiveSession(t.s)
  <2>1. UNCHANGED chat
    BY <1>1, <1>2, <1>5 DEF FaqSave, chat
  <2>. QED  BY <1>1, <1>2, <1>5, <2>1, GivesUp DEF ChatLabels, ModelLabels
<1>. QED  BY <1>4, <1>5

LEMMA StreamStoreKeeps ==
  ASSUME Handlers, Alone, ChatInv, workload' = workload, NEW r \in Requests, StreamStore(r)
  PROVE  ChatInv'
<1>1. pc[r] = "last:store" /\ UNCHANGED <<asked, slots, spent, cutShort>>
  BY DEF StreamStore, At
<1>2. PICK t : t = task[r]
  OBVIOUS
<1>3. ChatTask("last:store", t) /\ t.s \in Sessions /\ SameAsk(t, t)
  BY <1>1, <1>2 DEF ChatInv, ChatTask, ChatLabels, SameAsk
<1>4. CASE LiveSession(t.s)
  <2>1. Say(t.s, Message("assistant", 0, 0)) /\ GotoWith(r, "ask:tokens", t)
    BY <1>2, <1>4 DEF StreamStore, Goto
  <2>2. /\ ChatTask("ask:tokens", t)
        /\ \A u : Owed("ask:tokens", t, u) = Owed("last:store", t, u)
        /\ \A u : Unsaved("ask:tokens", t, u) = Unsaved("last:store", t, u)
    BY <1>3, AskTaskKept DEF ChatLabels
  <2>. QED  BY <1>1, <1>2, <1>3, <1>4, <2>1, <2>2, TextKeeps DEF ChatLabels
<1>5. CASE ~LiveSession(t.s)
  <2>1. UNCHANGED chat /\ Return(r)
    BY <1>1, <1>2, <1>5 DEF StreamStore, chat
  <2>. QED  BY <1>1, <1>2, <1>5, <2>1, GivesUp DEF ChatLabels, ModelLabels
<1>. QED  BY <1>4, <1>5

LEMMA AskStoreKeeps ==
  ASSUME Handlers, Alone, ChatInv, workload' = workload, NEW r \in Requests, AskStore(r)
  PROVE  ChatInv'
<1>1. pc[r] = "ask:store" /\ UNCHANGED <<asked, slots, spent, cutShort>>
  BY DEF AskStore, At
<1>2. PICK t : t = task[r]
  OBVIOUS
<1>3. /\ ChatTask("ask:store", t) /\ t.s \in Sessions /\ Asked \subseteq DOMAIN t
      /\ "calls" \in DOMAIN t /\ t.calls \in Nat /\ session[t.s] # None
  BY <1>1, <1>2 DEF ChatInv, ChatTask, ChatLabels
<1>4. PICK n \in Nat : n = Len(session[t.s].messages)
  BY <1>3, AnswersFinite DEF ChatInv
<1>5. PICK v : v = With(t, [of |-> n + 1])
  OBVIOUS
<1>6. SameAsk(v, t) /\ v.of = n + 1 /\ v.calls = t.calls /\ {"calls", "of"} \subseteq DOMAIN v
  <2>1. SameAsk(v, t)
    BY <1>3, <1>5, WithSame
  <2>2. PICK new : new = [of |-> n + 1]
    OBVIOUS
  <2>3. DOMAIN new = {"of"} /\ new["of"] = n + 1
    BY <2>2
  <2>4. /\ DOMAIN With(t, new) = DOMAIN t \cup DOMAIN new
        /\ \A x \in DOMAIN new : With(t, new)[x] = new[x]
        /\ \A x \in DOMAIN t \ DOMAIN new : With(t, new)[x] = t[x]
    BY WithNew, Zenon
  <2>5. v["of"] = n + 1 /\ v["calls"] = t["calls"] /\ {"calls", "of"} \subseteq DOMAIN v
    BY <1>3, <1>5, <2>2, <2>3, <2>4
  <2>. QED  BY <2>1, <2>5
<1>7. CASE LiveSession(t.s) /\ t.calls = 0
  <2>1. Say(t.s, Message("assistant", 0, 0)) /\ GotoWith(r, "ask:tokens", v)
    BY <1>2, <1>4, <1>5, <1>7 DEF AskStore
  <2>2. /\ ChatTask("ask:tokens", v)
        /\ \A u : Owed("ask:tokens", v, u) = Owed("ask:store", t, u)
        /\ \A u : Unsaved("ask:tokens", v, u) = Unsaved("ask:store", t, u)
    BY <1>3, <1>6, AskTaskKept DEF ChatLabels
  <2>. QED  BY <1>1, <1>2, <1>3, <1>7, <2>1, <2>2, TextKeeps DEF ChatLabels
<1>8. CASE LiveSession(t.s) /\ t.calls # 0
  <2>1. PICK m : m = Message("assistant", t.calls, 0)
    OBVIOUS
  <2>2. Say(t.s, m) /\ GotoWith(r, "ask:tool", v)
    BY <1>2, <1>4, <1>5, <1>8, <2>1 DEF AskStore
  <2>3. m \in ChatMessage /\ m.role # "tool" /\ m.calls = t.calls
    BY <1>3, <2>1, MessageIs
  <2>4. /\ ChatTask("ask:tool", v)
        /\ \A u : Owed("ask:tool", v, u) = Owed("ask:store", t, u)
        /\ \A u : Unsaved("ask:tool", v, u) = Unsaved("ask:store", t, u)
    BY <1>3, <1>6, <1>8 DEF ChatLabels, ChatTask, Owed, Unsaved, SameAsk
  <2>5. \A u \in Users : Accounted(r, "ask:tool", v, u, 0)
    <3>1. v.total \in Nat
      BY <2>4 DEF ChatTask, ChatLabels
    <3>. QED  BY <1>1, <1>2, <2>2, <2>4, <3>1, NothingCharged
  <2>6. ASSUME restarts = 0 PROVE CallsServed'
    <3>1. CallsServed /\ v.s \in Sessions /\ LiveSession(v.s) /\ Say(v.s, m)
          /\ m.role # "tool" /\ m.calls = v.calls /\ v.of = Len(session[v.s].messages) + 1
          /\ pc[r] \notin {"idle", "ask:tool"}
      BY <1>1, <1>3, <1>4, <1>6, <1>8, <2>2, <2>3, <2>6 DEF ChatInv, SameAsk
    <3>. QED  BY <2>2, <2>3, <3>1, CallsStored
  <2>. QED  BY <1>1, <1>3, <1>8, <2>2, <2>3, <2>4, <2>5, <2>6, SayKeeps DEF ModelLabels
<1>9. CASE ~LiveSession(t.s)
  <2>1. UNCHANGED chat /\ Return(r)
    BY <1>1, <1>2, <1>9 DEF AskStore, chat
  <2>. QED  BY <1>1, <1>2, <1>9, <2>1, GivesUp DEF ChatLabels, ModelLabels
<1>. QED  BY <1>7, <1>8, <1>9

LEMMA AskToolKeeps ==
  ASSUME Handlers, Alone, ChatInv, workload' = workload, NEW r \in Requests, AskTool(r)
  PROVE  ChatInv'
<1>1. pc[r] = "ask:tool" /\ UNCHANGED <<asked, slots, spent, cutShort>>
  BY DEF AskTool, At
<1>2. PICK t : t = task[r]
  OBVIOUS
<1>3. /\ ChatTask("ask:tool", t) /\ t.s \in Sessions /\ Asked \subseteq DOMAIN t
      /\ {"calls", "of"} \subseteq DOMAIN t /\ t.calls \in Nat \ {0} /\ t.of \in Nat
  BY <1>1, <1>2 DEF ChatInv, ChatTask, ChatLabels
<1>4. CASE ~LiveSession(t.s)
  <2>1. UNCHANGED chat /\ Return(r)
    BY <1>1, <1>2, <1>4 DEF AskTool, chat
  <2>. QED  BY <1>1, <1>2, <1>4, <2>1, GivesUp DEF ChatLabels, ModelLabels
<1>5. CASE LiveSession(t.s)
  <2>1. PICK m : m = RunTool(t)
    OBVIOUS
  <2>2. m \in ChatMessage /\ IsResult(m, t.of) /\ Say(t.s, m)
    <3>1. m = Message("tool", 0, t.of)
      BY <2>1 DEF RunTool
    <3>2. m \in ChatMessage /\ m.role = "tool" /\ m.calls = 0 /\ m.of = t.of
      BY <1>3, <3>1, MessageIs
    <3>. QED  BY <1>2, <1>5, <2>1, <3>2 DEF AskTool, IsResult
  <2>3. PICK q, v :
          /\ GotoWith(r, q, v) /\ SameAsk(v, t) /\ q \in ChatLabels \ ModelLabels
          /\ \/ /\ q = "ask:tool" /\ t.calls > 1 /\ v.calls = t.calls - 1 /\ v.of = t.of
                /\ {"calls", "of"} \subseteq DOMAIN v
             \/ q \in {"ask:wait", "last:wait", "ask:tokens"} /\ t.calls = 1
    <3>1. CASE t.calls > 1
      <4>1. PICK v : v = [t EXCEPT !.calls = @ - 1]
        OBVIOUS
      <4>2. GotoWith(r, "ask:tool", v)
        BY <1>2, <1>5, <3>1, <4>1 DEF AskTool
      <4>3. SameAsk(v, t)
        BY <1>3, <4>1 DEF SameAsk, Asked
      <4>4. v.calls = t.calls - 1 /\ v.of = t.of /\ {"calls", "of"} \subseteq DOMAIN v
        BY <1>3, <4>1
      <4>. QED  BY <3>1, <4>2, <4>3, <4>4 DEF ChatLabels, ModelLabels
    <3>2. CASE ~(t.calls > 1)
      <4>1. PICK v : v = [t EXCEPT !.hop = @ + 1]
        OBVIOUS
      <4>2. GotoWith(r, AfterTools(t), v)
        BY <1>2, <1>5, <3>2, <4>1 DEF AskTool
      <4>3. SameAsk(v, t)
        BY <1>3, <4>1 DEF SameAsk, Asked
      <4>4. AfterTools(t) \in {"ask:wait", "last:wait", "ask:tokens"} /\ t.calls = 1
        BY <1>3, <3>2 DEF AfterTools
      <4>. QED  BY <4>2, <4>3, <4>4 DEF ChatLabels, ModelLabels
    <3>. QED  BY <3>1, <3>2
  <2>4. /\ ChatTask(q, v)
        /\ \A u : Owed(q, v, u) = Owed("ask:tool", t, u)
        /\ \A u : Unsaved(q, v, u) = Unsaved("ask:tool", t, u)
    <3>1. CASE q = "ask:tool"
      <4>1. v.calls \in Nat \ {0} /\ v.of \in Nat
        BY <1>3, <2>3, <3>1
      <4>. QED  BY <1>3, <2>3, <3>1, <4>1 DEF ChatLabels, ChatTask, Owed, Unsaved, SameAsk
    <3>2. CASE q # "ask:tool"
      BY <1>3, <2>3, <3>2, AskTaskKept DEF ChatLabels
    <3>. QED  BY <3>1, <3>2
  <2>5. \A u \in Users : Accounted(r, q, v, u, 0)
    <3>1. q \in ChatLabels => v.total \in Nat
      BY <2>4 DEF ChatTask
    <3>. QED  BY <1>1, <1>2, <2>3, <2>4, <3>1, NothingCharged
  <2>6. ASSUME restarts = 0 PROVE CallsServed'
    <3>1. CallsServed
      BY <2>6 DEF ChatInv
    <3>2. \/ q = "ask:tool" /\ t.calls > 1 /\ v.calls = t.calls - 1 /\ v.s = t.s /\ v.of = t.of
          \/ q # "ask:tool" /\ t.calls = 1
      BY <2>3 DEF SameAsk
    <3>. QED  BY <1>1, <1>2, <1>5, <2>2, <2>3, <3>1, <3>2, CallsAnswered
  <2>7. pc[r] \notin ModelLabels /\ q \notin ModelLabels
    BY <1>1, <2>3 DEF ModelLabels
  <2>. QED  BY <1>1, <1>3, <1>5, <2>2, <2>3, <2>4, <2>5, <2>6, <2>7, SayKeeps
<1>. QED  BY <1>4, <1>5

LEMMA AskHistoryKeeps ==
  ASSUME Handlers, ChatInv, workload' = workload, NEW r \in Requests, AskHistory(r)
  PROVE  ChatInv'
<1>1. PICK t, v : /\ t = task[r] /\ v = With(t, [sent |-> Listable(t.s)])
                  /\ GotoWith(r, "ask:wait", v)
                  /\ pc[r] = "ask:history" /\ UNCHANGED <<session, asked, slots, spent, cutShort>>
  BY DEF AskHistory, At, chat
<1>2. ChatTask("ask:history", t) /\ Asked \subseteq DOMAIN t
  BY <1>1 DEF ChatInv, ChatTask, ChatLabels
<1>3. SameAsk(v, t)
  BY <1>1, <1>2, WithSame
<1>4. /\ ChatTask("ask:wait", v)
      /\ \A u : Owed("ask:wait", v, u) = Owed("ask:history", t, u)
      /\ \A u : Unsaved("ask:wait", v, u) = Unsaved("ask:history", t, u)
  BY <1>2, <1>3, AskTaskKept DEF ChatLabels
<1>5. \A u \in Users : Accounted(r, "ask:wait", v, u, 0)
  <2>1. v.total \in Nat
    BY <1>4 DEF ChatTask, ChatLabels
  <2>. QED  BY <1>1, <1>4, <2>1, NothingCharged
<1>6. AtModel' = AtModel /\ r \notin Calling
  BY <1>1, AtModelGoes DEF ModelLabels, Calling
<1>7. ChatRows'
  BY <1>1 DEF ChatInv, ChatRows
<1>. QED  BY <1>1, <1>4, <1>5, <1>6, <1>7, GoesKeeps DEF ChatInv

LEMMA AskAcquireKeeps ==
  ASSUME Handlers, ChatInv, workload' = workload, NEW r \in Requests, AskAcquire(r)
  PROVE  ChatInv'
<1>p. PICK p \in {"ask:wait", "last:wait"} : p = pc[r]
  BY DEF AskAcquire
<1>1. PICK t : p = pc[r] /\ t = task[r]
  BY <1>p
<1>2. UNCHANGED <<session, asked, spent>> /\ r \notin Calling
  BY <1>1 DEF AskAcquire, Calling
<1>3. ChatTask(p, t)
  BY <1>1 DEF ChatInv
<1>4. CASE slots' = slots + 1 /\ UNCHANGED cutShort
             /\ \E q \in {"ask:call", "last:call"} : GotoWith(r, q, t)
  <2>1. PICK q \in {"ask:call", "last:call"} : GotoWith(r, q, t)
    BY <1>4
  <2>2. /\ ChatTask(q, t) /\ \A u : Owed(q, t, u) = Owed(p, t, u)
        /\ \A u : Unsaved(q, t, u) = Unsaved(p, t, u)
    <3>1. SameAsk(t, t)
      BY <1>3 DEF ChatTask, ChatLabels, SameAsk
    <3>. QED  BY <1>3, <3>1, AskTaskKept DEF ChatLabels
  <2>3. \A u \in Users : Accounted(r, q, t, u, 0)
    <3>1. t.total \in Nat
      BY <1>3 DEF ChatTask, ChatLabels
    <3>. QED  BY <1>1, <1>2, <2>1, <2>2, <3>1, NothingCharged
  <2>4. (slots = Cardinality(AtModel))'
    <3>1. Cardinality(AtModel') = Cardinality(AtModel) + 1
      BY <1>1, <2>1, AtModelGoes DEF ModelLabels
    <3>. QED  BY <1>4, <3>1 DEF ChatInv
  <2>5. ChatRows'
    BY <1>2, <1>4 DEF ChatInv, ChatRows
  <2>. QED  BY <1>2, <1>4, <2>1, <2>2, <2>3, <2>4, <2>5, GoesKeeps
<1>5. CASE Return(r) /\ cutShort' = TRUE /\ UNCHANGED slots
  <2>1. GotoWith(r, "idle", None) /\ ChatTask("idle", None)
    BY <1>5 DEF Return, ChatTask, ChatLabels
  <2>2. \A u \in Users : Accounted(r, "idle", None, u, 0)
    BY <1>2, <1>5, GivenUp
  <2>3. AtModel' = AtModel
    BY <1>1, <2>1, AtModelGoes DEF ModelLabels
  <2>4. ChatRows'
    BY <1>2, <1>5 DEF ChatInv, ChatRows
  <2>. QED  BY <1>2, <1>5, <2>1, <2>2, <2>3, <2>4, GoesKeeps DEF ChatInv
<1>. QED  BY <1>1, <1>4, <1>5 DEF AskAcquire, Goto

LEMMA AskFailsKeeps ==
  ASSUME Handlers, ChatInv, workload' = workload, NEW r \in Requests, AskFails(r)
  PROVE  ChatInv'
<1>1. /\ GotoWith(r, "idle", None) /\ slots' = slots - 1 /\ cutShort' = TRUE
      /\ pc[r] \in ModelLabels /\ UNCHANGED <<session, asked, spent>>
  BY DEF AskFails, AfterFailedCall, Return, ModelLabels
<1>2. ChatTask("idle", None)
  BY DEF ChatTask, ChatLabels
<1>3. \A u \in Users : Accounted(r, "idle", None, u, 0)
  BY <1>1, GivenUp
<1>4. (slots = Cardinality(AtModel))'
  <2>1. Cardinality(AtModel') = Cardinality(AtModel) - 1
    BY <1>1, AtModelGoes DEF ModelLabels
  <2>. QED  BY <1>1, <2>1 DEF ChatInv
<1>5. ChatRows' /\ r \notin Calling
  BY <1>1 DEF ChatInv, ChatRows, Calling, ModelLabels
<1>. QED  BY <1>1, <1>2, <1>3, <1>4, <1>5, GoesKeeps

\* An answer of the model costs a token, which its handler then owes.
LEMMA AnswerKeeps ==
  ASSUME Handlers, ChatInv, workload' = workload, NEW r \in Requests, NEW p, NEW t,
         p = pc[r], t = task[r], p \in ModelLabels,
         NEW q \in ChatLabels \ {"ask:call", "last:call", "ask:tool", "ask:usage"},
         NEW v, GotoWith(r, q, v), ChatTask(q, v),
         v.user = t.user, v.total = t.total + 1, slots' = slots - 1,
         spent' = [spent EXCEPT ![t.user] = @ + 1], UNCHANGED <<session, asked, cutShort>>
  PROVE  ChatInv'
<1>1. ChatTask(p, t) /\ p \in ChatLabels /\ p # "ask:usage" /\ t.user \in Users /\ t.total \in Nat
  BY DEF ChatInv, ChatTask, ChatLabels, ModelLabels
<1>2. spent \in [Users -> Nat] /\ asked \in [Users -> [tokens : Nat, requests : Nat]]
  BY DEF ChatInv, ChatRows
<1>3. ChatRows'
  BY <1>1, <1>2 DEF ChatInv, ChatRows
<1>4. ASSUME NEW u \in Users PROVE Accounted(r, q, v, u, 0)
  <2>1. PICK n \in Nat, c \in Nat, x \in Nat : n = t.total /\ c = asked[u].tokens /\ x = spent[u]
    BY <1>1, <1>2
  <2>2. CASE u = t.user
    <3>1. /\ Owed(p, t, u) = n /\ Unsaved(p, t, u) = n
          /\ Owed(q, v, u) = n + 1 /\ Unsaved(q, v, u) = n + 1
      BY <1>1, <2>1, <2>2 DEF Owed, Unsaved
    <3>2. spent'[u] = x + 1 /\ asked'[u].tokens = c
      BY <1>2, <2>1, <2>2
    <3>3. c + (n + 1 - n) - c = x + 1 - x /\ 0 + (n + 1 - n) = x + 1 - x /\ x + 1 - x <= x + 1 - x
      BY <2>1
    <3>. QED  BY <2>1, <3>1, <3>2, <3>3 DEF Accounted
  <2>3. CASE u # t.user
    <3>1. /\ Owed(p, t, u) = 0 /\ Unsaved(p, t, u) = 0
          /\ Owed(q, v, u) = 0 /\ Unsaved(q, v, u) = 0
      BY <1>1, <2>3 DEF Owed, Unsaved
    <3>2. spent'[u] = x /\ asked'[u].tokens = c
      BY <1>2, <2>1, <2>3
    <3>3. c + (0 - 0) - c = x - x /\ 0 + (0 - 0) = x - x /\ x - x <= x - x
      BY <2>1
    <3>. QED  BY <2>1, <3>1, <3>2, <3>3 DEF Accounted
  <2>. QED  BY <2>2, <2>3
<1>5. (slots = Cardinality(AtModel))'
  <2>1. Cardinality(AtModel') = Cardinality(AtModel) - 1
    BY AtModelGoes DEF ModelLabels
  <2>. QED  BY <2>1 DEF ChatInv
<1>6. r \notin Calling
  BY DEF Calling, ModelLabels
<1>. QED  BY <1>3, <1>4, <1>5, <1>6, GoesKeeps

LEMMA AskAnswerKeeps ==
  ASSUME Handlers, ChatInv, workload' = workload, NEW r \in Requests, AskAnswer(r)
  PROVE  ChatInv'
<1>1. PICK t : t = task[r]
  OBVIOUS
<1>2. PICK reply, v, q :
        /\ reply \in Replies /\ v = With(t, [total |-> t.total + 1, calls |-> reply.calls])
        /\ GotoWith(r, q, v)
        /\ q = (IF v.calls > 0 \/ ~v.stream THEN "ask:store"
                ELSE IF reply.empty THEN "last:wait" ELSE "last:store")
        /\ spent' = [spent EXCEPT ![v.user] = @ + 1]
  BY <1>1 DEF AskAnswer
<1>3. /\ pc[r] = "ask:call" /\ slots' = slots - 1 /\ UNCHANGED <<session, asked, cutShort>>
  BY DEF AskAnswer, At
<1>4. /\ ChatTask("ask:call", t) /\ Asked \subseteq DOMAIN t /\ t.total \in Nat
  BY <1>1, <1>3 DEF ChatInv, ChatTask, ChatLabels
<1>5. reply.calls \in Nat
  <2>1. MaxCalls[workload] \in Nat
    BY ChatAssumption DEF ChatInv, ChatRows
  <2>. QED  BY <1>2, <2>1 DEF Replies
<1>6. /\ Asked \subseteq DOMAIN v /\ "calls" \in DOMAIN v /\ v.calls = reply.calls
      /\ v.s = t.s /\ v.user = t.user /\ v.total = t.total + 1
  <2>1. PICK new : new = [total |-> t.total + 1, calls |-> reply.calls]
    OBVIOUS
  <2>2. DOMAIN new = {"total", "calls"} /\ new["total"] = t.total + 1 /\ new["calls"] = reply.calls
    BY <2>1
  <2>3. /\ Asked \subseteq DOMAIN v
        /\ \A x \in Asked : x \notin DOMAIN new => v[x] = t[x]
        /\ \A x \in DOMAIN new : x \in DOMAIN v /\ v[x] = new[x]
    <3>1. v = With(t, new)
      BY <1>2, <2>1
    <3>. QED  BY <1>4, <3>1, TaskWith
  <2>4. /\ "calls" \in DOMAIN v /\ v["calls"] = reply.calls /\ v["total"] = t.total + 1
        /\ v["s"] = t["s"] /\ v["user"] = t["user"]
    BY <2>2, <2>3 DEF Asked
  <2>. QED  BY <2>3, <2>4
<1>7. q \in {"ask:store", "last:wait", "last:store"}
  BY <1>2
<1>8. ChatTask(q, v)
  BY <1>4, <1>5, <1>6, <1>7 DEF ChatTask, ChatLabels
<1>9. spent' = [spent EXCEPT ![t.user] = @ + 1]
  BY <1>2, <1>6
<1>10. /\ "ask:call" \in ModelLabels
       /\ q \in ChatLabels \ {"ask:call", "last:call", "ask:tool", "ask:usage"}
  BY <1>7 DEF ChatLabels, ModelLabels
<1>11. GotoWith(r, q, v)
  BY <1>2
<1>. QED  BY <1>1, <1>3, <1>6, <1>8, <1>9, <1>10, <1>11, AnswerKeeps

LEMMA StreamEndsKeeps ==
  ASSUME Handlers, ChatInv, workload' = workload, NEW r \in Requests, StreamEnds(r)
  PROVE  ChatInv'
<1>1. PICK t, v : t = task[r] /\ v = [t EXCEPT !.total = t.total + 1] /\ GotoWith(r, "last:store", v)
  BY DEF StreamEnds, AddedUp
<1>2. /\ pc[r] = "last:call" /\ slots' = slots - 1 /\ UNCHANGED <<session, asked, cutShort>>
      /\ spent' = [spent EXCEPT ![t.user] = @ + 1]
  BY <1>1 DEF StreamEnds, StreamReleases, At
<1>3. /\ ChatTask("last:call", t) /\ Asked \subseteq DOMAIN t /\ t.total \in Nat
  BY <1>1, <1>2 DEF ChatInv, ChatTask, ChatLabels
<1>4. /\ Asked \subseteq DOMAIN v /\ v.s = t.s /\ v.user = t.user /\ v.total = t.total + 1
  BY <1>1, <1>3 DEF Asked
<1>5. ChatTask("last:store", v)
  BY <1>3, <1>4 DEF ChatTask, ChatLabels
<1>. QED  BY <1>1, <1>2, <1>4, <1>5, AnswerKeeps DEF ChatLabels, ModelLabels

\* The tokens of an answer are added to its session ...
LEMMA AskTokensKeeps ==
  ASSUME Handlers, ChatInv, workload' = workload, NEW r \in Requests, AskTokens(r)
  PROVE  ChatInv'
<1>1. PICK t, s : t = task[r] /\ s = t.s
  OBVIOUS
<1>2. /\ pc[r] = "ask:tokens" /\ GotoWith(r, "ask:usage", t)
      /\ UNCHANGED <<asked, slots, spent, cutShort>>
      /\ session' = IF LiveSession(s) THEN [session EXCEPT ![s].tokens = @ + t.total] ELSE session
  BY <1>1 DEF AskTokens, At, Goto
<1>3. /\ ChatTask("ask:tokens", t) /\ s \in Sessions /\ session[s] # None /\ t.total \in Nat
      /\ session[s].user = t.user /\ t.user \in Users /\ (~LiveSession(s) => cutShort)
  BY <1>1, <1>2 DEF ChatInv, ChatTask, ChatLabels
<1>4. ChatTask("ask:usage", t) /\ \A u : Owed("ask:usage", t, u) = Owed("ask:tokens", t, u)
  <2>1. SameAsk(t, t)
    BY <1>3 DEF ChatTask, ChatLabels, SameAsk
  <2>. QED  BY <1>3, <2>1, AskTaskKept DEF ChatLabels
<1>5. AtModel' = AtModel
  BY <1>2, AtModelGoes DEF ModelLabels
<1>6. session \in [Sessions -> SessionRows \cup {None}] /\ session[s] \in SessionRows
  BY <1>3 DEF ChatInv, ChatRows
<1>7. CASE ~LiveSession(s)
  <2>1. cutShort /\ cutShort' /\ UNCHANGED session
    BY <1>2, <1>3, <1>7
  <2>2. \A u \in Users : Accounted(r, "ask:usage", t, u, 0)
    <3> SUFFICES ASSUME NEW u \in Users PROVE Accounted(r, "ask:usage", t, u, 0)
      OBVIOUS
    <3>1. PICK a \in Nat, c \in Nat, v \in Nat :
            a = Owed("ask:tokens", t, u) /\ c = asked[u].tokens /\ v = spent[u]
      BY <1>3, OwedIsNat DEF ChatInv, ChatRows
    <3>2. c + (a - a) - c <= v - v
      BY <3>1
    <3>. QED  BY <1>1, <1>2, <1>4, <2>1, <3>1, <3>2 DEF Accounted
  <2>3. ChatRows' /\ r \notin Calling
    BY <1>2, <2>1 DEF ChatInv, ChatRows, Calling
  <2>. QED  BY <1>2, <1>4, <1>5, <2>1, <2>2, <2>3, GoesKeeps DEF ChatInv
<1>8. CASE LiveSession(s)
  <2>1. PICK row : row = [session[s] EXCEPT !.tokens = @ + t.total]
    OBVIOUS
  <2>2. /\ row \in SessionRows /\ row.tokens = session[s].tokens + t.total
        /\ row.messages = session[s].messages /\ row.user = session[s].user
        /\ row.live = session[s].live /\ session[s].tokens \in Nat
    BY <1>3, <1>6, <2>1 DEF SessionRows
  <2>3. session' = [session EXCEPT ![s] = row]
    BY <1>2, <1>6, <1>8, <2>1
  <2>4. /\ session' \in [Sessions -> SessionRows \cup {None}]
        /\ session'[s] = row /\ \A q \in Sessions : q # s => session'[q] = session[q]
    BY <1>3, <1>6, <2>2, <2>3
  <2>5. row # None
    BY <2>2, ChatAssumption
  <2>6. \A q \in Sessions : /\ LiveSession(q)' <=> LiveSession(q)
                            /\ LiveSession(q) => session'[q].messages = session[q].messages
    BY <1>3, <2>2, <2>4, <2>5 DEF LiveSession
  <2>7. SessionsStay
    BY <1>2, <1>3, <2>2, <2>4, <2>5, <2>6 DEF SessionsStay
  <2>8. ChatRows'
    BY <1>2, <2>4 DEF ChatInv, ChatRows
  <2>9. ChatTask("ask:usage", t)'
    BY <1>4, <2>7, TasksStay
  <2>10. ASSUME NEW u \in Users
         PROVE  \E n \in Int :
                  /\ SumOf(TokensFor(u), Sessions)' = SumOf(TokensFor(u), Sessions) + n
                  /\ Accounted(r, "ask:usage", t, u, n)
    <3>1. PICK f, g : f = TokensFor(u) /\ g = TokensFor(u)'
      OBVIOUS
    <3>2. /\ \A q \in Sessions : f[q] \in Int
          /\ \A q \in Sessions : q # s => g[q] = f[q]
      <4>1. \A q \in Sessions : f[q] \in Int
        BY <3>1, TokensSum DEF ChatInv
      <4>. QED  BY <2>4, <3>1, <4>1 DEF TokensFor
    <3>3. PICK n \in Nat : n = (IF t.user = u THEN t.total ELSE 0)
      BY <1>3
    <3>4. g[s] = f[s] + n
      BY <1>3, <2>2, <2>4, <2>5, <3>1, <3>3 DEF TokensFor
    <3>5. SumOf(g, Sessions) = SumOf(f, Sessions) - f[s] + g[s]
      <4>1. g[s] \in Int /\ IsFiniteSet(Sessions)
        BY <1>3, <3>2, <3>4, ChatAssumption
      <4>. QED  BY <1>3, <3>2, <4>1, SumWrite
    <3>6. SumOf(f, Sessions) \in Nat /\ f[s] \in Nat
      BY <1>3, <3>1, TokensSum DEF ChatInv
    <3>7. SumOf(g, Sessions) = SumOf(f, Sessions) + n
      BY <3>4, <3>5, <3>6
    <3>8. Accounted(r, "ask:usage", t, u, n)
      <4>1. PICK c \in Nat, v \in Nat : c = asked[u].tokens /\ v = spent[u]
        BY DEF ChatInv, ChatRows
      <4>2. /\ Owed("ask:tokens", t, u) = n /\ Owed("ask:usage", t, u) = n
            /\ Unsaved("ask:tokens", t, u) = n /\ Unsaved("ask:usage", t, u) = 0
        BY <3>3 DEF Owed, Unsaved, ChatLabels
      <4>3. c + (n - n) - c = v - v /\ n + (0 - n) = v - v /\ v - v <= v - v
        BY <4>1
      <4>. QED  BY <1>1, <1>2, <4>1, <4>2, <4>3 DEF Accounted
    <3>. QED  BY <3>1, <3>7, <3>8
  <2>11. Charged'
    BY <1>2, <1>3, <2>8, <2>10, ChargedGoes
  <2>12. ASSUME restarts = 0 PROVE CallsServed'
    <3>1. pc[r] # "ask:tool" /\ "ask:usage" # "ask:tool"
      BY <1>2
    <3>2. \A q \in Sessions : LiveSession(q)' =>
            LiveSession(q) /\ session'[q].messages = session[q].messages
      BY <2>6
    <3>. QED  BY <1>2, <2>12, <3>1, <3>2, CallsGo
  <2>. QED  BY <1>2, <1>5, <2>7, <2>8, <2>9, <2>11, <2>12, ChatGoes DEF ChatInv
<1>. QED  BY <1>7, <1>8

\* ... and then charged.
LEMMA AskUsageKeeps ==
  ASSUME Handlers, ChatInv, workload' = workload, NEW r \in Requests, AskUsage(r)
  PROVE  ChatInv'
<1>1. PICK t : t = task[r]
  OBVIOUS
<1>2. /\ pc[r] = "ask:usage" /\ GotoWith(r, "idle", None)
      /\ UNCHANGED <<session, slots, spent, cutShort>>
      /\ asked' = [asked EXCEPT ![t.user] =
           [tokens |-> @.tokens + t.total, requests |-> @.requests + 1]]
  BY <1>1 DEF AskUsage, At, Return
<1>3. t.user \in Users /\ t.total \in Nat
  BY <1>1, <1>2 DEF ChatInv, ChatTask, ChatLabels
<1>4. asked \in [Users -> [tokens : Nat, requests : Nat]] /\ spent \in [Users -> Nat]
  BY DEF ChatInv, ChatRows
<1>5. PICK row : row = [tokens |-> asked[t.user].tokens + t.total,
                        requests |-> asked[t.user].requests + 1]
  OBVIOUS
<1>6. row \in [tokens : Nat, requests : Nat] /\ row.tokens = asked[t.user].tokens + t.total
  BY <1>3, <1>4, <1>5
<1>7. asked' = [asked EXCEPT ![t.user] = row]
  BY <1>2, <1>5
<1>8. ChatRows'
  BY <1>2, <1>3, <1>4, <1>6, <1>7 DEF ChatInv, ChatRows
<1>9. ASSUME NEW u \in Users PROVE Accounted(r, "idle", None, u, 0)
  <2>1. PICK n \in Nat, c \in Nat, v \in Nat : /\ n = (IF t.user = u THEN t.total ELSE 0)
                                               /\ c = asked[u].tokens /\ v = spent[u]
    BY <1>3, <1>4
  <2>2. asked'[u].tokens = c + n
    BY <1>3, <1>4, <1>6, <1>7, <2>1
  <2>3. /\ Owed("ask:usage", t, u) = n /\ Unsaved("ask:usage", t, u) = 0
        /\ Owed("idle", None, u) = 0 /\ Unsaved("idle", None, u) = 0
    BY <2>1 DEF Owed, Unsaved, ChatLabels
  <2>4. c + n + (0 - n) - c = v - v /\ 0 + (0 - 0) = v - v /\ v - v <= v - v
    BY <2>1
  <2>. QED  BY <1>1, <1>2, <2>1, <2>2, <2>3, <2>4 DEF Accounted
<1>10. AtModel' = AtModel
  BY <1>2, AtModelGoes DEF ModelLabels
<1>11. ChatTask("idle", None) /\ r \notin Calling
  BY <1>2 DEF ChatTask, ChatLabels, Calling
<1>. QED  BY <1>2, <1>8, <1>9, <1>10, <1>11, GoesKeeps DEF ChatInv

\* A question is taken up.
LEMMA AskKeeps ==
  ASSUME Handlers, ChatInv, workload' = workload, NEW r \in Requests, Ask(r)
  PROVE  ChatInv'
<1>1. PICK s, kind, stream, faq, t :
        /\ s \in Sessions /\ LiveSession(s) /\ Receive(r, kind, "ask:save", t)
        /\ t = [s |-> s, user |-> session[s].user, stream |-> stream, faq |-> faq,
                hop |-> 0, total |-> 0]
  <2>1. PICK s \in Sessions, kind \in {"Ask", "AskStream"} : \E faq \in OnTheList(kind) :
          /\ LiveSession(s)
          /\ Receive(r, kind, "ask:save",
               [s |-> s, user |-> session[s].user, stream |-> kind = "AskStream", faq |-> faq,
                hop |-> 0, total |-> 0])
    BY Zenon DEF Ask
  <2>. QED  BY <2>1, Zenon
<1>2. UNCHANGED <<session, asked, slots, spent, cutShort>>
  BY DEF Ask, chat
<1>3. pc[r] = "idle" /\ overlapped' = (overlapped \/ ~AllIdle)
  BY <1>1 DEF Receive, Idle, Arrives
<1>4. ChatTask("ask:save", t) /\ t.total = 0
  <2>1. session[s] # None /\ session[s].user \in Users
    BY <1>1 DEF LiveSession, ChatInv, ChatRows, SessionRows
  <2>. QED  BY <1>1, <2>1 DEF ChatTask, Asked
<1>5. /\ restarts' = restarts
      /\ \A q \in Requests : /\ pc'[q] = (IF q = r THEN "ask:save" ELSE pc[q])
                             /\ task'[q] = (IF q = r THEN t ELSE task[q])
  <2>1. GotoWith(r, "ask:save", t) \/ \E k : Receive(r, k, "ask:save", t)
    BY <1>1, Zenon
  <2>. QED  BY <2>1, OneGoes
<1>6. SessionsStay
  BY <1>2 DEF SessionsStay, LiveSession
<1>7. ASSUME NEW q \in Requests PROVE ChatTask(pc[q], task[q])'
  <2>1. PICK x, y : x = pc'[q] /\ y = task'[q]
    OBVIOUS
  <2>2. ChatTask(x, y)
    BY <1>4, <1>5, <2>1 DEF ChatInv
  <2>3. ChatTask(x, y)'
    BY <1>6, <2>2, TasksStay
  <2>. QED  BY <2>1, <2>3
<1>8. AtModel' = AtModel
  BY <1>3, <1>5 DEF AtModel
<1>9. ChatRows'
  BY <1>2 DEF ChatInv, ChatRows
<1>10. Charged'
  <2>1. ASSUME NEW u \in Users
        PROVE  /\ SumOf(OwedFor(u), Requests)' = SumOf(OwedFor(u), Requests)
               /\ SumOf(UnsavedFor(u), Requests)' = SumOf(UnsavedFor(u), Requests)
               /\ SumOf(TokensFor(u), Sessions)' = SumOf(TokensFor(u), Sessions)
    <3>1. /\ Owed("idle", task[r], u) = 0 /\ Unsaved("idle", task[r], u) = 0
          /\ Owed("ask:save", t, u) = 0 /\ Unsaved("ask:save", t, u) = 0
      BY <1>4 DEF Owed, Unsaved, ChatLabels
    <3>2. OwedFor(u)' = OwedFor(u)
      <4>1. \A q \in Requests : Owed(pc'[q], task'[q], u) = Owed(pc[q], task[q], u)
        BY <1>3, <1>5, <3>1
      <4>2. OwedFor(u)' = [q \in Requests |-> Owed(pc'[q], task'[q], u)]
        BY DEF OwedFor, Owed
      <4>. QED  BY <4>1, <4>2 DEF OwedFor
    <3>3. UnsavedFor(u)' = UnsavedFor(u)
      <4>1. \A q \in Requests : Unsaved(pc'[q], task'[q], u) = Unsaved(pc[q], task[q], u)
        BY <1>3, <1>5, <3>1
      <4>2. UnsavedFor(u)' = [q \in Requests |-> Unsaved(pc'[q], task'[q], u)]
        BY DEF UnsavedFor, Unsaved, Owed
      <4>. QED  BY <4>1, <4>2 DEF UnsavedFor
    <3>4. TokensFor(u)' = TokensFor(u)
      BY <1>2 DEF TokensFor
    <3>. QED  BY <3>2, <3>3, <3>4
  <2>. QED  BY <1>2, <1>5, <2>1 DEF ChatInv, Charged
<1>11. ASSUME restarts = 0 PROVE CallsServed'
  <2>1. \A q \in Requests :
          pc[q] = "ask:tool" \/ pc'[q] = "ask:tool" => pc'[q] = pc[q] /\ task'[q] = task[q]
    BY <1>3, <1>5
  <2>2. \A q \in Sessions : LiveSession(q)' =>
          LiveSession(q) /\ session'[q].messages = session[q].messages
    BY <1>2 DEF LiveSession
  <2>3. overlapped => overlapped'
    BY <1>3
  <2>. QED  BY <1>11, <2>1, <2>2, <2>3, CallsStay DEF ChatInv
<1>. QED  BY <1>2, <1>5, <1>7, <1>8, <1>9, <1>10, <1>11 DEF ChatInv

LEMMA ChatInvStep ==
  ASSUME Handlers, Handlers', Alone, ChatInv, workload' = workload, overlapped => overlapped',
         [Next]_vars
  PROVE  ChatInv'
<1>1. CASE UNCHANGED chat /\ Away(ChatLabels)
  BY <1>1, ChatStay
<1>2. CASE Restart
  BY <1>2, ChatRestarts
<1>3. CASE CreateSession \/ DeleteSession
  BY <1>3, CreateSessionKeeps, DeleteSessionKeeps
<1>4. ASSUME NEW r \in Requests, Ask(r) PROVE ChatInv'
  BY <1>4, AskKeeps
<1>5. ASSUME NEW r \in Requests, AskSave(r) \/ FaqSave(r) \/ AskHistory(r) \/ AskAcquire(r)
      PROVE  ChatInv'
  BY <1>5, AskSaveKeeps, FaqSaveKeeps, AskHistoryKeeps, AskAcquireKeeps
<1>6. ASSUME NEW r \in Requests, AskFails(r) \/ AskAnswer(r) \/ AskStore(r) \/ AskTool(r)
      PROVE  ChatInv'
  BY <1>6, AskFailsKeeps, AskAnswerKeeps, AskStoreKeeps, AskToolKeeps
<1>7. ASSUME NEW r \in Requests, StreamEnds(r) \/ StreamStore(r) \/ AskTokens(r) \/ AskUsage(r)
      PROVE  ChatInv'
  BY <1>7, StreamEndsKeeps, StreamStoreKeeps, AskTokensKeeps, AskUsageKeeps
<1>8. ChatNext \/ Restart \/ (UNCHANGED chat /\ Away(ChatLabels))
  BY ChatFrame
<1>. QED
  BY <1>1, <1>2, <1>3, <1>4, <1>5, <1>6, <1>7, <1>8, Zenon DEF ChatNext, ChatStep, ChatRequest

\* A place of the semaphore is taken exactly by a call in flight; no user is charged a
\* token the model has not used, and all of them, in sum by session as well, when no
\* call failed and no session was deleted; and every tool call that is stored has its
\* result, for one question at a time right behind it.
THEOREM ChatsAlwaysAddUp == Spec => []ChatsAddUp
<1> DEFINE Inv == Handlers /\ Alone /\ ChatInv
<1>1. Init => Inv
  BY HandlersInit, AloneInit, ChatInvInit
<1>2. Inv /\ [Next]_vars => Inv'
  BY HandlersStep, AloneStep, ChatInvStep
<1>3. Inv => ChatsAddUp
  <2> SUFFICES ASSUME Inv PROVE ChatsAddUp
    OBVIOUS
  <2>1. ASSUME NEW u \in Users PROVE asked[u].tokens <= spent[u]
    <3>1. PICK a \in Nat, b \in Nat, o \in Nat :
            a = asked[u].tokens /\ b = spent[u] /\ o = SumOf(OwedFor(u), Requests)
      BY OwedSums DEF ChatInv, ChatRows
    <3>2. a + o <= b
      BY <3>1 DEF ChatInv, Charged
    <3>. QED  BY <3>1, <3>2
  <2>2. ASSUME Settled, ~cutShort, NEW u \in Users
        PROVE  /\ asked[u].tokens = spent[u]
               /\ spent[u] = SumOf([s \in SessionsOf(u) |-> session[s].tokens], SessionsOf(u))
    <3>1. SumOf(OwedFor(u), Requests) = 0 /\ SumOf(UnsavedFor(u), Requests) = 0
      <4>1. \A r \in Requests : OwedFor(u)[r] = 0 /\ UnsavedFor(u)[r] = 0
        BY <2>2 DEF Settled, AllIdle, Idle, OwedFor, UnsavedFor, Owed, Unsaved, ChatLabels
      <4>. QED  BY <4>1, ServerAssumption, SumOfZeroes
    <3>2. SumOf(TokensFor(u), Sessions) =
            SumOf([s \in SessionsOf(u) |-> session[s].tokens], SessionsOf(u))
      <4>1. PICK f, g, T : /\ f = TokensFor(u) /\ T = SessionsOf(u)
                           /\ g = [s \in SessionsOf(u) |-> session[s].tokens]
        OBVIOUS
      <4>2. /\ \A s \in T : f[s] \in Int /\ g[s] = f[s]
            /\ \A s \in Sessions : s \notin T => f[s] = 0
            /\ T \in SUBSET Sessions
        <5>1. \A s \in Sessions : f[s] \in Int
          BY <4>1, TokensSum DEF ChatInv
        <5>. QED  BY <4>1, <5>1 DEF TokensFor, SessionsOf
      <4>3. SumOf(f, Sessions) = SumOf(g, T)
        BY <4>2, ChatAssumption, SumOfPart
      <4>. QED  BY <4>1, <4>3
    <3>3. PICK a \in Nat, b \in Nat, k \in Nat :
            a = asked[u].tokens /\ b = spent[u] /\ k = SumOf(TokensFor(u), Sessions)
      BY TokensSum DEF ChatInv, ChatRows
    <3>4. a + 0 = b /\ k + 0 = b
      BY <2>2, <3>1, <3>3 DEF ChatInv, Charged, Settled
    <3>. QED  BY <3>2, <3>3, <3>4
  <2>3. ASSUME Settled, NEW s \in Sessions, LiveSession(s), NEW i \in DOMAIN session[s].messages
        PROVE  Done(s, i)
    <3>1. CallsServed /\ Calling = {}
      BY <2>3 DEF Settled, AllIdle, Idle, Calling, ChatInv
    <3>. QED  BY <2>3, <3>1, CallsServedIs
  <2>. QED  BY <2>1, <2>2, <2>3 DEF ChatsAddUp, ChatInv, Done
<1>. QED  BY <1>1, <1>2, <1>3, PTL DEF Spec

=============================================================================
