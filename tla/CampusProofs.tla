----------------------------- MODULE CampusProofs ----------------------------
(***************************************************************************)
(* Theorems about the hub of the WebSocket connections, reset links,       *)
(* authorization codes and tokens, students' databases and uploaded files, *)
(* for every set of users, clients and requests, any interleaving and any  *)
(* number of restarts.                                                     *)
(*                                                                         *)
(* HubInv: the map, the channels and what a handler has read of them on    *)
(* its way from the lookup to the send agree, until a goroutine has        *)
(* panicked. AccountsInv: at most one link of a user is live, and a link   *)
(* that was used has changed the password or a handler is about to.        *)
(* OAuthInv holds while requests come one at a time: a handler between two *)
(* statements knows which code or pair it has read, and nobody else has    *)
(* touched it since. DatabasesInv and FilesInv: what PostgreSQL or the     *)
(* disk holds has a row, or a handler that answers for it: one that will   *)
(* insert the row or drop what it made.                                    *)
(***************************************************************************)
EXTENDS HandlersProofs

-----------------------------------------------------------------------------
(* The map of the hub, the channels, and what those who send have read of them *)

Came == {"open", "broken", "gone"}

HubRows ==
  /\ conn \in [Clients -> {"none", "registering"} \cup Came]
  /\ ~panicked => closed \subseteq Clients
  /\ book \in [Users -> Clients \cup {None}]
  /\ entry \in [Clients -> SUBSET Clients]
  /\ run \in Received \cup {None}

\* A connection is listed in its user's map or closed, from when Run has dealt with it.
MapsAgree ==
  /\ \A u \in Users : book[u] # None => Owner[book[u]] = u
  /\ \A m, c \in Clients : c \in entry[m] =>
       book[Owner[c]] = m /\ c \notin closed /\ conn[c] \in Came
  /\ \A c \in closed : conn[c] \in Came
  /\ \A c \in Clients : conn[c] = "open" /\ c \notin closed /\ (run = None \/ run.c # c) =>
       c \in Listed(Owner[c])

RunFresh ==
  run # None =>
    /\ conn[run.c] \in Came
    /\ run.do = "unregister" => conn[run.c] = "gone"
    /\ run.do = "register" => run.c \notin closed /\ \A m \in Clients : run.c \notin entry[m]

Walking == {"send:next", "send:put", "send:drop"}

\* The map of a user that is walked, and the connection in hand: it has not left the
\* map without being closed.
WalkOK(p, t) ==
  /\ p \in Walking =>
       /\ {"to", "map"} \subseteq DOMAIN t
       /\ t.map \in Clients /\ t.to \in Users /\ Owner[t.map] = t.to
  /\ p \in {"send:put", "send:drop"} =>
       /\ "client" \in DOMAIN t
       /\ t.client \in Clients /\ Owner[t.client] = t.to
       /\ t.client \in closed \/ t.client \in entry[t.map]

HubInv ==
  /\ HubRows
  /\ ~panicked => MapsAgree /\ RunFresh /\ \A r \in Requests : WalkOK(pc[r], task[r])

LEMMA HubInvInit == Init => HubInv
BY HubAssumption DEF Init, ServerInit, HubInit, HubInv, HubRows, MapsAgree, RunFresh, WalkOK,
   Walking, Came

LEMMA HubInvConsistent == HubInv => HubConsistent
<1> SUFFICES ASSUME HubInv, ~panicked PROVE HubConsistent
  BY DEF HubConsistent
<1>1. ASSUME NEW c \in Clients
      PROVE  /\ c \in closed => \A m \in Clients : c \notin entry[m]
             /\ conn[c] = "open" /\ c \notin closed /\ (run = None \/ run.c # c) =>
                  c \in Listed(Owner[c])
  BY DEF HubInv, MapsAgree
<1>2. ASSUME NEW m \in Clients, entry[m] # {}
      PROVE  \E u \in Users : book[u] = m
  <2> PICK c \in Clients : c \in entry[m]
    BY <1>2 DEF HubInv, HubRows
  <2>. QED  BY HubAssumption DEF HubInv, MapsAgree
<1>. QED  BY <1>1, <1>2 DEF HubConsistent

\* A step that leaves the hub alone and takes nobody into a map.
LEMMA HubStays ==
  ASSUME HubInv, UNCHANGED hub,
         \A q \in Requests : \/ pc'[q] = pc[q] /\ task'[q] = task[q]
                             \/ pc'[q] \notin Walking
  PROVE  HubInv'
<1>1. HubRows'
  BY DEF HubInv, HubRows, hub
<1>2. ASSUME ~panicked PROVE (MapsAgree /\ RunFresh)'
  BY <1>2 DEF HubInv, MapsAgree, RunFresh, Listed, hub
<1>3. ASSUME NEW q \in Requests, ~panicked PROVE WalkOK(pc[q], task[q])'
  BY <1>3 DEF HubInv, WalkOK, Walking, hub
<1>. QED  BY <1>1, <1>2, <1>3 DEF HubInv, hub

\* A step of the hub that every handler is out of.
LEMMA WalksGoOn ==
  ASSUME \A r \in Requests : WalkOK(pc[r], task[r]), UNCHANGED handlers,
         \A m, c \in Clients : c \in entry[m] => c \in entry'[m] \/ c \in closed',
         closed \subseteq closed', NEW r \in Requests
  PROVE  WalkOK(pc[r], task[r])'
BY DEF WalkOK, Walking, handlers

\* Connection d leaves the map m of its user and is closed.
LEMMA Leaves ==
  ASSUME HubRows, MapsAgree, NEW m \in Clients, NEW d \in Clients, d \in entry[m],
         closed' = closed \cup {d}, entry' = [entry EXCEPT ![m] = @ \ {d}],
         book' = IF entry[m] \subseteq {d} THEN [book EXCEPT ![Owner[d]] = None] ELSE book,
         UNCHANGED conn, run' = run \/ (run' = None /\ run # None /\ run.c = d)
  PROVE  /\ MapsAgree'
         /\ \A n, c \in Clients : c \in entry[n] => c \in entry'[n] \/ c \in closed'
         /\ \A n \in Clients : entry'[n] \subseteq entry[n]
<1> DEFINE u == Owner[d]
<1>0. u \in Users /\ book[u] = m /\ conn[d] \in Came
  BY HubAssumption DEF MapsAgree
<1>1. /\ entry'[m] = entry[m] \ {d}
      /\ \A n \in Clients \ {m} : entry'[n] = entry[n]
  BY DEF HubRows
<1>2. \A v \in Users \ {u} : book'[v] = book[v]
  BY <1>0 DEF HubRows
<1>3. book'[u] = IF entry[m] \subseteq {d} THEN None ELSE m
  BY <1>0 DEF HubRows
<1>4. \A v \in Users : book'[v] # None => Owner[book'[v]] = v
  BY <1>0, <1>2, <1>3 DEF MapsAgree
<1>5. ASSUME NEW n \in Clients, NEW c \in Clients, c \in entry'[n]
      PROVE  book'[Owner[c]] = n /\ c \notin closed' /\ conn[c] \in Came
  <2>1. c \in entry[n]
    BY <1>1, <1>5
  <2>2. Owner[c] \in Users /\ book[Owner[c]] = n /\ c \notin closed /\ conn[c] \in Came
    BY <2>1, HubAssumption DEF MapsAgree
  <2>3. c # d
    BY <1>0, <1>1, <1>5, <2>2
  <2>4. CASE Owner[c] = u
    BY <1>0, <1>3, <2>1, <2>2, <2>3, <2>4
  <2>5. CASE Owner[c] # u
    BY <1>2, <2>2, <2>3, <2>5
  <2>. QED  BY <2>4, <2>5, <2>2, <2>3
<1>6. ASSUME NEW c \in Clients, conn[c] = "open", c \notin closed', run' = None \/ run'.c # c
      PROVE  c \in Listed(Owner[c])'
  <2>1. c # d /\ c \notin closed
    BY <1>6
  <2>2. c \in Listed(Owner[c])
    BY <1>6, <2>1 DEF MapsAgree
  <2> DEFINE n == book[Owner[c]]
  <2>3. Owner[c] \in Users /\ n # None /\ n \in Clients /\ c \in entry[n]
    BY <2>2, HubAssumption DEF Listed, HubRows
  <2>4. c \in entry'[n]
    BY <1>1, <2>1, <2>3
  <2>5. book'[Owner[c]] = n
    BY <1>5, <2>3, <2>4
  <2>. QED  BY <2>3, <2>4, <2>5 DEF Listed
<1>7. \A c \in closed' : conn[c] \in Came
  BY <1>0 DEF MapsAgree
<1>8. MapsAgree'
  BY <1>4, <1>5, <1>6, <1>7 DEF MapsAgree
<1>9. \A n, c \in Clients : c \in entry[n] => c \in entry'[n] \/ c \in closed'
  BY <1>1
<1>. QED  BY <1>1, <1>8, <1>9

LEMMA RunKeeps ==
  ASSUME HubInv, RunStep
  PROVE  HubInv'
<1>0. UNCHANGED handlers /\ panicked' = panicked
  BY DEF RunStep, RunReceives, RunRegisters, RunUnregisters, server
<1>1. CASE \E c \in Clients : RunReceives(c)
  <2> PICK c \in Clients : RunReceives(c)
    BY <1>1
  <2>1. /\ UNCHANGED <<closed, book, entry>>
        /\ conn'[c] \in Came
        /\ \A d \in Clients \ {c} : conn'[d] = conn[d]
        /\ conn[c] \in {"registering", "broken"}
        /\ conn' \in [Clients -> {"none", "registering"} \cup Came]
    BY DEF RunReceives, HubInv, HubRows, Came
  <2>2. /\ run = None /\ run' \in Received /\ run' # None /\ run'.c = c
        /\ run'.do = "register" => conn[c] = "registering"
        /\ run'.do = "unregister" => conn'[c] = "gone"
    BY HubAssumption DEF RunReceives, Received, HubInv, HubRows
  <2>3. HubRows'
    BY <1>0, <2>1, <2>2 DEF HubInv, HubRows
  <2>4. ASSUME ~panicked PROVE (MapsAgree /\ RunFresh)'
    <3>1. \A d \in Clients : conn[d] \in Came => conn'[d] \in Came
      BY <2>1
    <3>2. ASSUME NEW d \in Clients, conn'[d] = "open", d \notin closed, run'.c # d
          PROVE  d \in Listed(Owner[d])
      BY <2>1, <2>2, <2>4, <3>2 DEF HubInv, MapsAgree
    <3>3. MapsAgree'
      <4>1. /\ \A u \in Users : book'[u] # None => Owner[book'[u]] = u
            /\ \A m, d \in Clients : d \in entry'[m] =>
                 book'[Owner[d]] = m /\ d \notin closed' /\ conn'[d] \in Came
            /\ \A d \in closed' : conn'[d] \in Came
        BY <2>1, <2>4, <3>1 DEF HubInv, HubRows, MapsAgree
      <4>2. \A d \in Clients : Listed(Owner[d])' = Listed(Owner[d])
        BY <2>1 DEF Listed
      <4>3. \A d \in Clients : conn'[d] = "open" /\ d \notin closed' /\ (run' = None \/ run'.c # d)
                              => d \in Listed(Owner[d])'
        BY <2>1, <2>2, <3>2, <4>2
      <4>. QED  BY <4>1, <4>3 DEF MapsAgree
    <3>4. RunFresh'
      BY <2>1, <2>2, <2>4 DEF HubInv, MapsAgree, RunFresh, Came
    <3>. QED  BY <3>3, <3>4
  <2>5. ASSUME ~panicked, NEW r \in Requests PROVE WalkOK(pc[r], task[r])'
    BY <1>0, <2>1, <2>5, WalksGoOn DEF HubInv
  <2>. QED  BY <1>0, <2>3, <2>4, <2>5 DEF HubInv
<1>2. CASE RunRegisters
  <2> DEFINE d == run.c  u == Owner[d]  m == MapFor(d)
  <2>1. /\ run # None /\ run \in Received /\ d \in Clients /\ u \in Users
        /\ run.do = "register"
    BY <1>2, HubAssumption DEF RunRegisters, HubInv, HubRows, Received
  <2>1a. m \in Clients
    BY <2>1 DEF HubInv, HubRows, MapFor
  <2>2. /\ book' = [book EXCEPT ![u] = m]
        /\ entry' = [entry EXCEPT ![m] = @ \cup {d}]
        /\ run' = None /\ UNCHANGED <<conn, closed>>
    BY <1>2 DEF RunRegisters
  <2>3. book[u] = None => m = d
    BY DEF MapFor
  <2>3a. book[u] # None => m = book[u]
    BY DEF MapFor
  <2> HIDE DEF m, u, d
  <2>4. HubRows'
    BY <1>0, <2>1, <2>1a, <2>2 DEF HubInv, HubRows
  <2>5. /\ book'[u] = m /\ \A v \in Users \ {u} : book'[v] = book[v]
        /\ entry'[m] = entry[m] \cup {d} /\ \A n \in Clients \ {m} : entry'[n] = entry[n]
    BY <2>1, <2>1a, <2>2 DEF HubInv, HubRows
  <2>6. ASSUME ~panicked PROVE (MapsAgree /\ RunFresh)'
    <3>1. /\ d \notin closed /\ conn[d] \in Came
      BY <2>1, <2>6 DEF HubInv, RunFresh, d
    <3>2. Owner[m] = u
      BY <2>1, <2>3, <2>3a, <2>6 DEF HubInv, MapsAgree, u
    <3>3. \A v \in Users : book'[v] # None => Owner[book'[v]] = v
      BY <2>5, <2>6, <3>2 DEF HubInv, MapsAgree
    <3>4. ASSUME NEW n \in Clients, NEW c \in Clients, c \in entry'[n]
          PROVE  book'[Owner[c]] = n /\ c \notin closed /\ conn[c] \in Came
      <4>1. CASE c = d /\ n = m
        BY <2>5, <3>1, <4>1 DEF u
      <4>2. CASE c \in entry[n]
        <5>1. book[Owner[c]] = n /\ c \notin closed /\ conn[c] \in Came
          BY <2>6, <4>2 DEF HubInv, MapsAgree
        <5>2. Owner[c] = u => m = n
          BY <5>1, <2>1, <2>3a, HubAssumption
        <5>3. Owner[c] \in Users
          BY HubAssumption
        <5>. QED  BY <5>1, <5>2, <5>3, <2>5
      <4>. QED  BY <2>5, <3>4, <4>1, <4>2
    <3>5. ASSUME NEW c \in Clients, conn[c] = "open", c \notin closed
          PROVE  c \in Listed(Owner[c])'
      <4>0. Owner[c] \in Users
        BY HubAssumption
      <4>1. CASE c = d
        BY <2>1, <2>1a, <2>5, <4>1, HubAssumption DEF Listed, u
      <4>2. CASE c # d
        <5>1. c \in Listed(Owner[c])
          BY <2>6, <3>5, <4>2 DEF HubInv, MapsAgree, d
        <5>2. book[Owner[c]] # None /\ c \in entry[book[Owner[c]]]
          BY <5>1 DEF Listed
        <5>3. book'[Owner[c]] = book[Owner[c]]
          BY <4>0, <5>2, <2>3a, <2>5
        <5>4. book[Owner[c]] \in Clients
          BY <4>0, <5>2 DEF HubInv, HubRows
        <5>. QED  BY <5>2, <5>3, <5>4, <2>5 DEF Listed
      <4>. QED  BY <4>1, <4>2
    <3>. QED
      BY <2>2, <2>6, <3>3, <3>4, <3>5 DEF HubInv, MapsAgree, RunFresh
  <2>7. ASSUME ~panicked, NEW r \in Requests PROVE WalkOK(pc[r], task[r])'
    BY <1>0, <2>1, <2>2, <2>5, <2>7, WalksGoOn DEF HubInv
  <2>. QED  BY <1>0, <2>4, <2>6, <2>7 DEF HubInv
<1>3. CASE RunUnregisters
  <2> DEFINE d == run.c  u == Owner[d]
  <2>1. /\ run # None /\ run \in Received /\ d \in Clients /\ u \in Users
        /\ run.do = "unregister"
    BY <1>3, HubAssumption DEF RunUnregisters, HubInv, HubRows, Received
  <2>2. /\ closed' = CloseListed(d) /\ book' = BookWithout(d) /\ entry' = EntryWithout(d)
        /\ run' = None /\ UNCHANGED conn
    BY <1>3 DEF RunUnregisters
  <2>2a. ~panicked => conn[d] \in Came
    BY <2>1 DEF HubInv, RunFresh
  <2>3. CASE d \notin Listed(u)
    <3>1. UNCHANGED <<closed, book, entry, conn>>
      BY <2>2, <2>3 DEF CloseListed, BookWithout, EntryWithout
    <3>2. HubRows'
      BY <1>0, <2>2, <3>1 DEF HubInv, HubRows
    <3>3. ASSUME ~panicked PROVE (MapsAgree /\ RunFresh)'
      <4>1. conn[d] = "gone"
        BY <2>1, <3>3 DEF HubInv, RunFresh
      <4>. QED  BY <2>2, <3>1, <3>3, <4>1 DEF HubInv, MapsAgree, RunFresh, Listed
    <3>4. ASSUME ~panicked, NEW r \in Requests PROVE WalkOK(pc[r], task[r])'
      BY <1>0, <3>1, <3>4, WalksGoOn DEF HubInv
    <3>. QED  BY <1>0, <3>2, <3>3, <3>4 DEF HubInv
  <2>4. CASE d \in Listed(u)
    <3>1. PICK m \in Clients : m = book[u] /\ d \in entry[m]
      BY <2>1, <2>4 DEF Listed, HubInv, HubRows
    <3>1a. PICK e \in Clients : e = d
      BY <2>1
    <3>1b. Listed(u) = entry[m]
      BY <3>1, HubAssumption DEF Listed
    <3>2. /\ closed' = closed \cup {e}
          /\ entry' = [entry EXCEPT ![m] = @ \ {e}]
          /\ book' = IF entry[m] \subseteq {e} THEN [book EXCEPT ![Owner[e]] = None] ELSE book
      <4>1. entry[m] = {e} <=> entry[m] \subseteq {e}
        BY <3>1, <3>1a
      <4>. QED
        BY <2>2, <2>4, <3>1, <3>1a, <3>1b, <4>1 DEF CloseListed, BookWithout, EntryWithout
    <3>3. HubRows'
      BY <1>0, <2>1, <2>2, <3>1, <3>2, HubAssumption DEF HubInv, HubRows
    <3>3a. e \in entry[m] /\ run.c = e
      BY <3>1, <3>1a
    <3> HIDE DEF u, d
    <3>4. ASSUME ~panicked
          PROVE  /\ MapsAgree'
                 /\ \A n, c \in Clients : c \in entry[n] => c \in entry'[n] \/ c \in closed'
      BY <2>1, <2>2, <3>2, <3>3a, <3>4, Leaves DEF HubInv
    <3>5. ASSUME ~panicked, NEW r \in Requests PROVE WalkOK(pc[r], task[r])'
      BY <1>0, <3>2, <3>4, <3>5, WalksGoOn DEF HubInv
    <3>. QED  BY <1>0, <2>2, <3>3, <3>4, <3>5 DEF HubInv, RunFresh
  <2>. QED  BY <2>3, <2>4
<1>. QED  BY <1>1, <1>2, <1>3 DEF RunStep

\* A handler that does not walk a map.
LEMMA NotWalking ==
  ASSUME NEW p, p \notin Walking, NEW t
  PROVE  WalkOK(p, t)
BY DEF WalkOK, Walking

LEMMA PumpsKeep ==
  ASSUME HubInv,
         Broadcast \/ \E c \in Clients :
                        ServeWS(c) \/ Hangup(c) \/ WritePump(c) \/ WritePumpEnds(c)
  PROVE  HubInv'
<1>1. UNCHANGED <<pc, task, closed, book, entry, run, panicked>>
  BY DEF Broadcast, ServeWS, Hangup, WritePump, WritePumpEnds, AnswerAtOnce, server, handlers
<1>2. /\ conn' \in [Clients -> {"none", "registering"} \cup Came]
      /\ \A c \in Clients : conn[c] \in Came => conn'[c] \in Came
      /\ \A c \in Clients : conn'[c] = "open" => conn[c] = "open"
      /\ \A c \in Clients : conn[c] = "gone" => conn'[c] = "gone"
  BY DEF Broadcast, ServeWS, Hangup, WritePump, WritePumpEnds, HubInv, HubRows, Came
<1>3. HubRows'
  BY <1>1, <1>2 DEF HubInv, HubRows
<1>4. ASSUME ~panicked PROVE MapsAgree'
  <2>1. /\ \A u \in Users : book'[u] # None => Owner[book'[u]] = u
        /\ \A m, d \in Clients : d \in entry'[m] =>
             book'[Owner[d]] = m /\ d \notin closed' /\ conn'[d] \in Came
        /\ \A d \in closed' : conn'[d] \in Came
    BY <1>1, <1>2, <1>4 DEF HubInv, HubRows, MapsAgree
  <2>2. \A d \in Clients : Listed(Owner[d])' = Listed(Owner[d])
    BY <1>1 DEF Listed
  <2>3. \A d \in Clients : conn'[d] = "open" /\ d \notin closed' /\ (run' = None \/ run'.c # d)
                             => d \in Listed(Owner[d])'
    BY <1>1, <1>2, <1>4, <2>2 DEF HubInv, MapsAgree
  <2>. QED  BY <2>1, <2>3 DEF MapsAgree
<1>5. ASSUME ~panicked PROVE RunFresh'
  <2>1. run # None => run.c \in Clients
    BY DEF HubInv, HubRows, Received
  <2>. QED  BY <1>1, <1>2, <1>5, <2>1 DEF HubInv, RunFresh
<1>6. ASSUME ~panicked, NEW r \in Requests PROVE WalkOK(pc[r], task[r])'
  BY <1>1, <1>6 DEF HubInv, WalkOK
<1>. QED  BY <1>1, <1>3, <1>4, <1>5, <1>6 DEF HubInv

\* Only handler r has moved, the maps and the channels have not.
LEMMA StepStays ==
  ASSUME Handlers, HubInv, NEW r \in Requests, NEW p, NEW t, GotoWith(r, p, t),
         UNCHANGED <<conn, closed, book, entry, run, panicked>>,
         ~panicked => WalkOK(p, t)
  PROVE  HubInv'
<1>1. HubRows'
  BY DEF HubInv, HubRows
<1>2. ASSUME ~panicked PROVE (MapsAgree /\ RunFresh)'
  BY <1>2 DEF HubInv, MapsAgree, RunFresh, Listed
<1>3. ASSUME ~panicked, NEW q \in Requests PROVE WalkOK(pc[q], task[q])'
  <2>1. WalkOK(pc[q], task[q]) /\ WalkOK(p, t)
    BY <1>3 DEF HubInv
  <2>2. pc'[q] = (IF q = r THEN p ELSE pc[q]) /\ task'[q] = (IF q = r THEN t ELSE task[q])
    BY DEF GotoWith, Handlers
  <2>. QED  BY <2>1, <2>2 DEF WalkOK
<1>. QED  BY <1>1, <1>2, <1>3 DEF HubInv

LEMMA LookupKeeps ==
  ASSUME Handlers, HubInv, NEW r \in Requests, SendLookup(r)
  PROVE  HubInv'
<1> DEFINE t == task[r]
<1>0. UNCHANGED <<conn, closed, book, entry, run, panicked>> /\ SendTask(t)
  BY DEF SendLookup, hub, At, Handlers, TaskOK, HubLabels
<1>1. \/ t.then = "answer" /\ GotoWith(r, "idle", None)
      \/ t.then # "answer" /\ GotoWith(r, t.then, t.rest)
      \/ GotoWith(r, "send:lookup", [t EXCEPT !.todo = Tail(@)])
      \/ /\ t.todo # <<>> /\ book[Head(t.todo)] # None
         /\ GotoWith(r, "send:next",
                     With(t, [to |-> Head(t.todo), map |-> book[Head(t.todo)], seen |-> {},
                              todo |-> Tail(t.todo)]))
  BY Zenon DEF SendLookup, Return
<1>2. CASE t.then = "answer" /\ GotoWith(r, "idle", None)
  <2>1. "idle" \notin Walking
    BY DEF Walking
  <2>. QED  BY <1>0, <1>2, <2>1, NotWalking, StepStays
<1>3. CASE t.then # "answer" /\ GotoWith(r, t.then, t.rest)
  <2>1. t.then \notin Walking
    BY <1>0, <1>3 DEF Walking, SendTask, After
  <2>2. WalkOK(t.then, t.rest)
    BY <2>1 DEF WalkOK, Walking
  <2>. QED  BY <1>0, <1>3, <2>2, StepStays
<1>4. CASE GotoWith(r, "send:lookup", [t EXCEPT !.todo = Tail(@)])
  <2>1. "send:lookup" \notin Walking
    BY DEF Walking
  <2>. QED  BY <1>0, <1>4, <2>1, NotWalking, StepStays
<1>5. CASE /\ t.todo # <<>> /\ book[Head(t.todo)] # None
           /\ GotoWith(r, "send:next",
                       With(t, [to |-> Head(t.todo), map |-> book[Head(t.todo)], seen |-> {},
                                todo |-> Tail(t.todo)]))
  <2> DEFINE u == Head(t.todo)
             g == [to |-> u, map |-> book[u], seen |-> {}, todo |-> Tail(t.todo)]
             s == With(t, g)
  <2>1. u \in Users /\ book[u] # None
    BY <1>0, <1>5 DEF SendTask
  <2>2. book[u] \in Clients
    BY <2>1 DEF HubInv, HubRows
  <2>3. ~panicked => Owner[book[u]] = u
    BY <2>1 DEF HubInv, MapsAgree
  <2>4. {"to", "map"} \subseteq DOMAIN g /\ g["to"] = u /\ g["map"] = book[u]
    OBVIOUS
  <2>5. GotoWith(r, "send:next", s)
    BY <1>5
  <2> HIDE DEF g, u
  <2>6. DOMAIN s = DOMAIN t \cup DOMAIN g /\ \A x \in DOMAIN g : s[x] = g[x]
    BY WithNew, Zenon
  <2> HIDE DEF s
  <2>7. ~panicked => WalkOK("send:next", s)
    BY <2>1, <2>2, <2>3, <2>4, <2>6 DEF WalkOK
  <2>. QED  BY <1>0, <2>5, <2>7, StepStays
<1>. QED  BY <1>1, <1>2, <1>3, <1>4, <1>5

LEMMA NextKeeps ==
  ASSUME Handlers, HubInv, NEW r \in Requests, SendNext(r)
  PROVE  HubInv'
<1> DEFINE t == task[r]
<1>0. UNCHANGED <<conn, closed, book, entry, run, panicked>> /\ pc[r] = "send:next"
  BY DEF SendNext, hub, At
<1>1. \/ GotoWith(r, "send:lookup", Telling(t.todo, t.then, t.rest))
      \/ \E c \in entry[t.map] :
           GotoWith(r, "send:put", With(t, [client |-> c, seen |-> t.seen \cup {c}]))
  BY DEF SendNext
<1>2. CASE GotoWith(r, "send:lookup", Telling(t.todo, t.then, t.rest))
  <2>1. "send:lookup" \notin Walking
    BY DEF Walking
  <2>. QED  BY <1>0, <1>2, <2>1, NotWalking, StepStays
<1>3. CASE \E c \in entry[t.map] :
             GotoWith(r, "send:put", With(t, [client |-> c, seen |-> t.seen \cup {c}]))
  <2> PICK c \in entry[t.map] :
             GotoWith(r, "send:put", With(t, [client |-> c, seen |-> t.seen \cup {c}]))
    BY <1>3
  <2> DEFINE g == [client |-> c, seen |-> t.seen \cup {c}]  s == With(t, g)
  <2>1. DOMAIN g = {"client", "seen"} /\ g["client"] = c /\ GotoWith(r, "send:put", s)
    OBVIOUS
  <2>2. c \in entry[t.map]
    OBVIOUS
  <2> HIDE DEF g
  <2>3. /\ DOMAIN s = DOMAIN t \cup DOMAIN g
        /\ \A x \in DOMAIN g : s[x] = g[x]
        /\ \A x \in DOMAIN t \ DOMAIN g : s[x] = t[x]
    BY WithNew, Zenon
  <2> HIDE DEF s
  <2>4. ASSUME ~panicked PROVE WalkOK("send:put", s)
    <3>1. /\ {"to", "map"} \subseteq DOMAIN t
          /\ t.map \in Clients /\ t.to \in Users /\ Owner[t.map] = t.to
      BY <1>0, <2>4 DEF HubInv, WalkOK, Walking
    <3>2. c \in Clients
      BY <2>2, <3>1 DEF HubInv, HubRows
    <3>3. book[Owner[c]] = t.map /\ Owner[c] \in Users /\ t.map # None
      BY <2>2, <2>4, <3>1, <3>2, HubAssumption DEF HubInv, MapsAgree
    <3>4. Owner[c] = t.to
      BY <2>4, <3>1, <3>3 DEF HubInv, MapsAgree
    <3>5. /\ {"to", "map", "client"} \subseteq DOMAIN s
          /\ s["to"] = t["to"] /\ s["map"] = t["map"] /\ s["client"] = c
      BY <2>1, <2>3, <3>1
    <3>. QED  BY <2>2, <3>1, <3>2, <3>4, <3>5 DEF WalkOK
  <2>. QED  BY <1>0, <2>1, <2>4, StepStays
<1>. QED  BY <1>1, <1>2, <1>3

LEMMA PutKeeps ==
  ASSUME Handlers, HubInv, NEW r \in Requests, SendPut(r)
  PROVE  HubInv'
<1> DEFINE t == task[r]
<1>0. UNCHANGED <<conn, closed, book, entry, run>> /\ pc[r] = "send:put"
  BY DEF SendPut, At
<1>1. CASE panicked'
  BY <1>0, <1>1 DEF HubInv, HubRows
<1>2. CASE ~panicked'
  <2>1. /\ t.client \notin closed /\ panicked' = panicked
        /\ GotoWith(r, "send:next", t) \/ GotoWith(r, "send:drop", t)
    BY <1>2 DEF SendPut, Goto
  <2>2. ~panicked => WalkOK("send:next", t) /\ WalkOK("send:drop", t)
    BY <1>0 DEF HubInv, WalkOK, Walking
  <2>. QED  BY <1>0, <2>1, <2>2, StepStays
<1>. QED  BY <1>1, <1>2

LEMMA DropKeeps ==
  ASSUME Handlers, HubInv, NEW r \in Requests, SendDrop(r)
  PROVE  HubInv'
<1> DEFINE t == task[r]
<1>0. UNCHANGED <<conn, run>> /\ pc[r] = "send:drop"
      /\ entry' = [entry EXCEPT ![t.map] = @ \ {t.client}]
  BY DEF SendDrop, At
<1>1. CASE t.client \in closed
  <2>1. panicked' /\ UNCHANGED <<closed, book>>
    BY <1>1 DEF SendDrop
  <2>. QED  BY <1>0, <2>1 DEF HubInv, HubRows
<1>2. CASE t.client \notin closed
  <2>1. /\ closed' = closed \cup {t.client} /\ panicked' = panicked
        /\ book' = IF entry[t.map] \subseteq {t.client}
                     THEN [book EXCEPT ![t.to] = None] ELSE book
        /\ GotoWith(r, "send:next", t)
    BY <1>2 DEF SendDrop, Goto
  <2>2. CASE panicked
    BY <1>0, <2>1, <2>2 DEF HubInv, HubRows
  <2>3. CASE ~panicked
    <3>1. /\ {"to", "map"} \subseteq DOMAIN t
          /\ t.map \in Clients /\ t.to \in Users /\ Owner[t.map] = t.to
          /\ t.client \in Clients /\ Owner[t.client] = t.to /\ t.client \in entry[t.map]
      BY <1>0, <1>2, <2>3 DEF HubInv, WalkOK, Walking
    <3>2. PICK m \in Clients, d \in Clients : m = t.map /\ d = t.client
      BY <3>1
    <3>3. /\ closed' = closed \cup {d} /\ entry' = [entry EXCEPT ![m] = @ \ {d}]
          /\ book' = IF entry[m] \subseteq {d} THEN [book EXCEPT ![Owner[d]] = None] ELSE book
          /\ d \in entry[m]
      BY <1>0, <2>1, <3>1, <3>2
    <3>4. /\ MapsAgree'
          /\ \A n, c \in Clients : c \in entry[n] => c \in entry'[n] \/ c \in closed'
          /\ \A n \in Clients : entry'[n] \subseteq entry[n]
      BY <1>0, <2>3, <3>3, Leaves DEF HubInv
    <3>5. HubRows'
      BY <1>0, <2>1, <3>1, <3>3, HubAssumption DEF HubInv, HubRows
    <3>6. RunFresh'
      <4>1. run # None => run.c \in Clients
        BY DEF HubInv, HubRows, Received
      <4>. QED  BY <1>0, <2>3, <3>3, <3>4, <4>1 DEF HubInv, RunFresh
    <3>7. ASSUME NEW q \in Requests PROVE WalkOK(pc[q], task[q])'
      <4>1. WalkOK(pc[q], task[q]) /\ WalkOK("send:next", t)
        BY <1>0, <2>3 DEF HubInv, WalkOK, Walking
      <4>2. /\ pc'[q] = (IF q = r THEN "send:next" ELSE pc[q])
            /\ task'[q] = (IF q = r THEN t ELSE task[q])
        BY <2>1 DEF GotoWith, Handlers
      <4>3. WalkOK(pc'[q], task'[q])
        BY <4>1, <4>2
      <4>. QED  BY <3>3, <3>4, <4>3 DEF WalkOK, Walking
    <3>. QED  BY <3>4, <3>5, <3>6, <3>7 DEF HubInv
  <2>. QED  BY <2>2, <2>3
<1>. QED  BY <1>1, <1>2

LEMMA MessagesLeaveHub ==
  ASSUME MessagesNext
  PROVE  UNCHANGED hub
<1>1. CASE Background
  BY <1>1 DEF Background, PushLookup, SendEmailNotification, Deliver,
              DeleteSubscriptionByEndpoint
<1>2. CASE EndpointExpires \/ ReadRequest \/ NotificationRequest \/ PreferenceRequest
  BY <1>2 DEF EndpointExpires, ReadRequest, MarkAsRead, NotificationRequest, MarkRead,
              MarkAllRead, SubscribePush, UnsubscribePush, PreferenceRequest,
              UpdateEmailPreference
<1>3. ASSUME NEW r \in Requests, MessagesStep(r) PROVE UNCHANGED hub
  BY <1>3 DEF MessagesStep, NoticeInsert, NoticeStart, DmInsert, TellPost, TellNext
<1>4. ASSUME NEW r \in Requests, CreateNotification(r) \/ DmRequest(r) \/ AnnounceRequest(r)
      PROVE  UNCHANGED hub
  BY <1>4 DEF CreateNotification, DmRequest, SendMessage, AnnounceRequest, SendAnnouncement
<1>. QED  BY <1>1, <1>2, <1>3, <1>4 DEF MessagesNext

\* Handlers that move outside the hub.
LEMMA MovedStays ==
  ASSUME HubInv, UNCHANGED hub, NEW from, NEW to, to \cap Walking = {},
         \A q \in Requests : HandlerMoved(q, from, to)
  PROVE  HubInv'
<1>1. \A q \in Requests : \/ pc'[q] = pc[q] /\ task'[q] = task[q]
                          \/ pc'[q] \notin Walking
  BY DEF HandlerMoved, Walking
<1>. QED  BY <1>1, HubStays

LEMMA HubNextKeeps ==
  ASSUME Handlers, HubInv, HubNext
  PROVE  HubInv'
<1>1. CASE RunStep
  BY <1>1, RunKeeps
<1>2. CASE Broadcast \/ \E c \in Clients :
                          ServeWS(c) \/ Hangup(c) \/ WritePump(c) \/ WritePumpEnds(c)
  BY <1>2, PumpsKeep
<1>3. ASSUME NEW r \in Requests, HubStep(r) PROVE HubInv'
  BY <1>3, LookupKeeps, NextKeeps, PutKeeps, DropKeeps DEF HubStep
<1>. QED  BY <1>1, <1>2, <1>3 DEF HubNext

LEMMA HubInvStep ==
  ASSUME Handlers, HubInv, [Next]_vars
  PROVE  HubInv'
<1>1. CASE ClassroomNext /\ UNCHANGED hub
  <2>1. (ClassroomLabels \cup EnsureThens) \cap Walking = {}
    BY DEF ClassroomLabels, EnsureLabels, EnsureThens, Walking
  <2>. QED  BY <1>1, <2>1, ClassroomMoves, MovedStays
<1>2. CASE EarningNext /\ UNCHANGED hub
  <2>1. /\ (BankLabels \cup {"ensure:select"}) \cap Walking = {}
        /\ (GrantsLabels \cup {"ensure:select"}) \cap Walking = {}
    BY DEF BankLabels, GrantsLabels, Walking
  <2>2. /\ (PostsLabels \cup {"ensure:select"}) \cap Walking = {}
        /\ BillingLabels \cap Walking = {}
    BY DEF PostsLabels, BillingLabels, Walking
  <2>3. CASE BankNext
    BY <1>2, <2>1, <2>3, BankMoves, MovedStays
  <2>4. CASE GrantsNext
    BY <1>2, <2>1, <2>4, GrantsMoves, MovedStays
  <2>5. CASE PostsNext
    BY <1>2, <2>2, <2>5, PostsMoves, MovedStays
  <2>6. CASE BillingNext
    BY <1>2, <2>2, <2>6, BillingMoves, MovedStays
  <2>. QED  BY <1>2, <2>3, <2>4, <2>5, <2>6 DEF EarningNext
<1>3. CASE ToolsNext /\ UNCHANGED hub
  <2>1. /\ ChatLabels \cap Walking = {} /\ DatabasesLabels \cap Walking = {}
        /\ MailLabels \cap Walking = {}
    BY DEF ChatLabels, DatabasesLabels, MailLabels, Walking
  <2>2. MilestonesLabels \cap Walking = {} /\ ServicesLabels \cap Walking = {}
    BY DEF MilestonesLabels, ServicesLabels, Walking
  <2>3. CASE ChatNext
    BY <1>3, <2>1, <2>3, ChatMoves, MovedStays
  <2>4. CASE DatabasesNext
    BY <1>3, <2>1, <2>4, DatabasesMoves, MovedStays
  <2>5. CASE MailNext
    BY <1>3, <2>1, <2>5, MailMoves, MovedStays
  <2>6. CASE MilestonesNext
    BY <1>3, <2>2, <2>6, MilestonesMoves, MovedStays
  <2>7. CASE ServicesNext
    BY <1>3, <2>2, <2>7, ServicesMoves, MovedStays
  <2>. QED  BY <1>3, <2>3, <2>4, <2>5, <2>6, <2>7 DEF ToolsNext
<1>4. CASE TalkNext
  <2>1. (FilesLabels \cup {"dm:insert"}) \cap Walking = {} /\ {"notice:insert"} \cap Walking = {}
    BY DEF FilesLabels, Walking
  <2>2. MessagesTo \cap Walking = {}
    BY DEF MessagesTo, MessagesLabels, Walking
  <2>3. CASE FilesNext /\ UNCHANGED hub
    BY <2>1, <2>3, FilesMoves, MovedStays
  <2>4. CASE MessagesNext
    BY <2>2, <2>4, MessagesMoves, MessagesLeaveHub, MovedStays
  <2>5. CASE SuggestionsNext
    <3>1. UNCHANGED hub
      BY <2>5 DEF SuggestionsNext, AdminUpdateProposal, SaveProposal
    <3>. QED  BY <2>1, <2>5, <3>1, SuggestionsMoves, MovedStays
  <2>. QED  BY <1>4, <2>3, <2>4, <2>5 DEF TalkNext
<1>5. CASE AdmissionNext /\ UNCHANGED hub
  <2>1. /\ OAuthLabels \cap Walking = {} /\ AccountsLabels \cap Walking = {}
        /\ KnowledgeLabels \cap Walking = {}
    BY DEF OAuthLabels, AccountsLabels, KnowledgeLabels, Walking
  <2>2. CASE OAuthNext
    BY <1>5, <2>1, <2>2, OAuthMoves, MovedStays
  <2>3. CASE AccountsNext
    BY <1>5, <2>1, <2>3, AccountsMoves, MovedStays
  <2>4. CASE KnowledgeNext
    BY <1>5, <2>1, <2>4, KnowledgeMoves, MovedStays
  <2>. QED  BY <1>5, <2>2, <2>3, <2>4 DEF AdmissionNext
<1>6. CASE HubNext
  BY <1>6, HubNextKeeps
<1>7. CASE StartupNext /\ UNCHANGED hub
  BY <1>7, StartupKeeps, HubStays DEF handlers
<1>8. CASE Restart
  <2>1. HubRows'
    BY <1>8 DEF Restart, HubRestart, HubInv, HubRows, Came
  <2>2. MapsAgree' /\ RunFresh'
    BY <1>8, HubAssumption DEF Restart, HubRestart, HubInv, HubRows, MapsAgree, RunFresh
  <2>3. ASSUME NEW r \in Requests PROVE WalkOK(pc[r], task[r])'
    BY <1>8 DEF Restart, ServerRestart, WalkOK, Walking
  <2>. QED  BY <2>1, <2>2, <2>3 DEF HubInv
<1>9. CASE UNCHANGED vars
  BY <1>9, HubStays DEF vars, server, handlers
<1>. QED
  BY <1>1, <1>2, <1>3, <1>4, <1>5, <1>6, <1>7, <1>8, <1>9 DEF Next, Quiet

\* In any interleaving, and until a goroutine has panicked: a connection is closed exactly
\* when it has left the map, no discarded entry holds one, and a connection that is open
\* and registered is found by SendToUser (Run, removeClient and SendToUser of hub.go).
THEOREM HubAlwaysConsistent == Spec => []HubConsistent
<1>1. Init => Handlers /\ HubInv
  BY HandlersInit, HubInvInit
<1>2. Handlers /\ HubInv /\ [Next]_vars => (Handlers /\ HubInv)'
  BY HandlersStep, HubInvStep
<1>3. Handlers /\ HubInv => HubConsistent
  BY HubInvConsistent
<1>. QED  BY <1>1, <1>2, <1>3, PTL DEF Spec

-----------------------------------------------------------------------------
(* Codes and tokens, and reset links *)

LEMMA OAuthFrame ==
  ASSUME Handlers, [Next]_vars
  PROVE  OAuthNext \/ Restart \/ (UNCHANGED oauth /\ Away(OAuthLabels))
<1>1. "idle" \notin OAuthLabels /\ OAuthLabels \cap Shared = {}
  <2>1. /\ "idle" \notin OAuthLabels /\ OAuthLabels \cap ClassroomLabels = {}
        /\ OAuthLabels \cap EnsureThens = {} /\ OAuthLabels \cap BankLabels = {}
        /\ OAuthLabels \cap GrantsLabels = {}
    BY DEF OAuthLabels, ClassroomLabels, EnsureLabels, EnsureThens, BankLabels, GrantsLabels
  <2>2. OAuthLabels \cap PostsLabels = {} /\ OAuthLabels \cap FilesLabels = {}
    BY DEF OAuthLabels, PostsLabels, FilesLabels
  <2>3. OAuthLabels \cap MessagesTo = {} /\ OAuthLabels \cap HubTo = {}
        /\ OAuthLabels \cap {"ensure:select", "dm:insert", "notice:insert"} = {}
    BY DEF OAuthLabels, MessagesTo, MessagesLabels, HubTo, HubLabels
  <2>. QED  BY <2>1, <2>2, <2>3 DEF Shared
<1>2. /\ BillingLabels \cap OAuthLabels = {} /\ ChatLabels \cap OAuthLabels = {}
      /\ DatabasesLabels \cap OAuthLabels = {} /\ MailLabels \cap OAuthLabels = {}
  BY DEF OAuthLabels, BillingLabels, ChatLabels, DatabasesLabels, MailLabels
<1>3. /\ MilestonesLabels \cap OAuthLabels = {} /\ ServicesLabels \cap OAuthLabels = {}
      /\ AccountsLabels \cap OAuthLabels = {} /\ KnowledgeLabels \cap OAuthLabels = {}
  BY DEF OAuthLabels, MilestonesLabels, ServicesLabels, AccountsLabels, KnowledgeLabels
<1>4. OAuthNext \/ Restart \/ UNCHANGED oauth
  BY DEF Next, Quiet, vars, AdmissionNext, admission, HubOnly
<1>5. OAuthNext \/ Restart \/ Away(OAuthLabels)
  BY <1>1, <1>2, <1>3, AwayFrom
<1>. QED  BY <1>4, <1>5

-----------------------------------------------------------------------------
(* Reset links *)

AccountsTask(p, t) ==
  /\ p = "forgot:save" => t.user \in Users
  /\ p = "forgot:mail" => "reset" \in DOMAIN t /\ t.reset \in Resets
  /\ p = "password:update" =>
       t.by \subseteq Resets /\ \A x \in t.by : reset[x] # None /\ reset[x].used /\ resetBy[x] = 0

\* Handler r is about to write the password for link x.
Writes(r, x) == pc[r] = "password:update" /\ x \in task[r].by

AccountsInv ==
  /\ reset \in [Resets -> ResetRows \cup {None}]
  /\ resetBy \in [Resets -> {0, 1}]
  /\ linked \subseteq Resets
  /\ \A x, y \in Resets :
       /\ reset[x] # None /\ reset[y] # None /\ reset[x].live /\ reset[y].live
       /\ reset[x].user = reset[y].user
       => x = y
  /\ \A x \in Resets : resetBy[x] = 1 => reset[x] # None /\ reset[x].used
  /\ \A x \in wasted :
       /\ x \in Resets /\ reset[x] # None /\ reset[x].used /\ resetBy[x] = 0
       /\ \A r \in Requests : ~Writes(r, x)
  /\ restarts = 0 =>
       \A x \in Resets \ wasted : reset[x] # None /\ reset[x].used /\ resetBy[x] = 0 =>
         \E r \in Requests : Writes(r, x)
  /\ \A r \in Requests : AccountsTask(pc[r], task[r])
  /\ \A r, q \in Requests, x \in Resets : Writes(r, x) /\ Writes(q, x) => r = q

LEMMA AccountsInvInit == Init => AccountsInv
BY DEF Init, ServerInit, AccountsInit, AccountsInv, AccountsTask, Writes

\* A row with a column written.
LEMMA ResetRowUsed ==
  ASSUME NEW row \in ResetRows, NEW new, new = [row EXCEPT !.used = TRUE]
  PROVE  /\ new \in ResetRows /\ new.used
         /\ new.live = row.live /\ new.old = row.old /\ new.user = row.user
BY DEF ResetRows

LEMMA ResetRowDropped ==
  ASSUME NEW row \in ResetRows, NEW new, new = [row EXCEPT !.live = FALSE]
  PROVE  /\ new \in ResetRows /\ ~new.live
         /\ new.used = row.used /\ new.old = row.old /\ new.user = row.user
BY DEF ResetRows

LEMMA ResetRowOld ==
  ASSUME NEW row \in ResetRows, NEW new, new = [row EXCEPT !.old = TRUE]
  PROVE  /\ new \in ResetRows /\ new.old
         /\ new.used = row.used /\ new.live = row.live /\ new.user = row.user
BY DEF ResetRows

LEMMA ResetRowNew ==
  ASSUME NEW u \in Users
  PROVE  /\ ResetRow(u) \in ResetRows /\ ResetRow(u).live /\ ~ResetRow(u).used
         /\ ResetRow(u).user = u
BY DEF ResetRow, ResetRows

LEMMA AccountsStays ==
  ASSUME AccountsInv, UNCHANGED accounts, Away(AccountsLabels), restarts' = 0 => restarts = 0
  PROVE  AccountsInv'
<1>1. \A r \in Requests, x \in Resets : Writes(r, x)' <=> Writes(r, x)
  BY DEF Away, AccountsLabels, Writes
<1>2. \A r \in Requests : AccountsTask(pc[r], task[r])'
  BY DEF Away, AccountsLabels, AccountsInv, AccountsTask, accounts
<1>. QED  BY <1>1, <1>2 DEF AccountsInv, accounts

LEMMA AccountsRests ==
  ASSUME AccountsInv, UNCHANGED <<handlers, restarts>>, \/ UNCHANGED accounts \/ LinksExpire
  PROVE  AccountsInv'
<1>1. \A r \in Requests, x \in Resets : Writes(r, x)' <=> Writes(r, x)
  BY DEF handlers, Writes
<1>2. CASE UNCHANGED accounts
  <2>1. \A r \in Requests : AccountsTask(pc[r], task[r])'
    BY <1>2 DEF handlers, AccountsInv, AccountsTask, accounts
  <2>. QED  BY <1>1, <1>2, <2>1 DEF AccountsInv, accounts
<1>3. CASE LinksExpire
  <2>1. /\ UNCHANGED <<linked, resetBy, wasted>>
        /\ reset' = [x \in Resets |->
             IF reset[x] = None THEN None ELSE [reset[x] EXCEPT !.old = TRUE]]
    BY <1>3 DEF LinksExpire
  <2>2. ASSUME NEW x \in Resets
        PROVE  /\ reset'[x] \in ResetRows \cup {None}
               /\ reset'[x] = None <=> reset[x] = None
               /\ reset[x] # None => /\ reset'[x].used = reset[x].used
                                     /\ reset'[x].live = reset[x].live
                                     /\ reset'[x].user = reset[x].user
    <3>1. CASE reset[x] = None
      BY <2>1, <3>1
    <3>2. CASE reset[x] # None
      <4>1. reset[x] \in ResetRows
        BY <3>2 DEF AccountsInv
      <4>2. reset'[x] = [reset[x] EXCEPT !.old = TRUE]
        BY <2>1, <3>2
      <4>. QED  BY <3>2, <4>1, <4>2, ResetRowOld, AccountsAssumption
    <3>. QED  BY <3>1, <3>2
  <2>3. reset' \in [Resets -> ResetRows \cup {None}]
    BY <2>1, <2>2
  <2>4. \A r \in Requests : AccountsTask(pc[r], task[r])'
    BY <2>1, <2>2 DEF handlers, AccountsInv, AccountsTask
  <2>. QED  BY <1>1, <2>1, <2>2, <2>3, <2>4 DEF AccountsInv
<1>. QED  BY <1>2, <1>3

\* A handler moves whose task is sound, and nothing else.
LEMMA AccountsGoes ==
  ASSUME AccountsInv, NEW r \in Requests, NEW p, NEW t, pc[r] # "password:update",
         p # "password:update" \/ t.by = {}, AccountsTask(p, t),
         \A q \in Requests : /\ pc'[q] = (IF q = r THEN p ELSE pc[q])
                             /\ task'[q] = (IF q = r THEN t ELSE task[q]),
         restarts' = restarts, UNCHANGED <<reset, resetBy, wasted>>, linked' \subseteq Resets
  PROVE  AccountsInv'
<1>1. \A q \in Requests, x \in Resets : Writes(q, x)' <=> Writes(q, x)
  BY DEF Writes
<1>2. \A q \in Requests : AccountsTask(pc[q], task[q])'
  BY DEF AccountsInv, AccountsTask
<1>. QED  BY <1>1, <1>2 DEF AccountsInv

LEMMA SaveKeeps ==
  ASSUME Handlers, AccountsInv, NEW r \in Requests, SaveResetToken(r)
  PROVE  AccountsInv'
<1> DEFINE t == task[r]
<1>1. PICK x \in FreeId(reset) :
        /\ GotoWith(r, "forgot:mail", With(t, [reset |-> x]))
        /\ reset' = [y \in Resets |->
             IF y = x THEN ResetRow(t.user)
             ELSE IF y \in Superseded(t.user) THEN [reset[y] EXCEPT !.live = FALSE]
             ELSE reset[y]]
  BY Zenon DEF SaveResetToken
<1>2. x \in Resets /\ reset[x] = None
  BY FreeIdIsFree DEF AccountsInv
<1>3. pc[r] = "forgot:save" /\ UNCHANGED <<linked, resetBy, wasted>> /\ t.user \in Users
  BY DEF SaveResetToken, At, AccountsInv, AccountsTask
<1> DEFINE g == [reset |-> x]  s == With(t, g)
<1>4. "reset" \in DOMAIN s /\ s["reset"] = x
  <2>1. DOMAIN g = {"reset"} /\ g["reset"] = x
    OBVIOUS
  <2> HIDE DEF g
  <2>2. DOMAIN s = DOMAIN t \cup DOMAIN g /\ \A z \in DOMAIN g : s[z] = g[z]
    BY WithNew, Zenon
  <2>. QED  BY <2>1, <2>2
<1>5. GotoWith(r, "forgot:mail", s)
  BY <1>1
<1> HIDE DEF s
<1>6. /\ \A q \in Requests : /\ pc'[q] = (IF q = r THEN "forgot:mail" ELSE pc[q])
                             /\ task'[q] = (IF q = r THEN s ELSE task[q])
      /\ restarts' = restarts
  BY <1>5, OneGoes
<1>7. /\ reset'[x] \in ResetRows /\ reset'[x] # None /\ reset'[x].live /\ ~reset'[x].used
      /\ reset'[x].user = t.user
  <2>1. reset'[x] = ResetRow(t.user)
    BY <1>1, <1>2
  <2>. QED  BY <1>3, <2>1, ResetRowNew, AccountsAssumption
<1>8. ASSUME NEW y \in Resets, y # x
      PROVE  /\ reset'[y] \in ResetRows \cup {None}
             /\ reset'[y] = None <=> reset[y] = None
             /\ reset[y] # None => /\ reset'[y].used = reset[y].used
                                   /\ reset'[y].user = reset[y].user
                                   /\ reset'[y].live =>
                                        reset[y].live /\ reset[y].user # t.user
  <2>1. CASE y \in Superseded(t.user)
    <3>1. reset[y] # None /\ reset[y] \in ResetRows
      BY <2>1 DEF Superseded, AccountsInv
    <3>2. reset'[y] = [reset[y] EXCEPT !.live = FALSE]
      BY <1>1, <1>8, <2>1
    <3>3. /\ reset'[y] \in ResetRows /\ reset'[y].used = reset[y].used
          /\ reset'[y].user = reset[y].user /\ ~reset'[y].live
      BY <3>1, <3>2, ResetRowDropped
    <3>. QED  BY <3>1, <3>3, AccountsAssumption
  <2>2. CASE y \notin Superseded(t.user)
    <3>1. reset'[y] = reset[y]
      BY <1>1, <1>8, <2>2
    <3>2. reset[y] # None => reset[y].user # t.user
      BY <2>2 DEF Superseded
    <3>. QED  BY <3>1, <3>2 DEF AccountsInv
  <2>. QED  BY <2>1, <2>2
<1>9. reset' \in [Resets -> ResetRows \cup {None}]
  BY <1>1, <1>7, <1>8
<1>10. \A y, z \in Resets :
         /\ reset'[y] # None /\ reset'[z] # None /\ reset'[y].live /\ reset'[z].live
         /\ reset'[y].user = reset'[z].user
         => y = z
  BY <1>7, <1>8 DEF AccountsInv
<1>11. \A q \in Requests, y \in Resets : Writes(q, y)' <=> Writes(q, y)
  BY <1>3, <1>6 DEF Writes
<1>12. \A q \in Requests : AccountsTask(pc[q], task[q])'
  <2>2. ASSUME NEW q \in Requests PROVE AccountsTask(pc[q], task[q])'
    <3>1. CASE q = r
      BY <1>2, <1>4, <1>6, <3>1 DEF AccountsTask
    <3>2. CASE q # r
      <4>1. AccountsTask(pc[q], task[q]) /\ pc'[q] = pc[q] /\ task'[q] = task[q]
        BY <1>6, <3>2 DEF AccountsInv
      <4>. QED  BY <1>2, <1>3, <1>8, <4>1 DEF AccountsTask
    <3>. QED  BY <3>1, <3>2
  <2>. QED  BY <2>2
<1>13. \A y \in Resets : resetBy'[y] = 1 => reset'[y] # None /\ reset'[y].used
  BY <1>2, <1>3, <1>8 DEF AccountsInv
<1>14. restarts' = 0 =>
         \A y \in Resets \ wasted' : reset'[y] # None /\ reset'[y].used /\ resetBy'[y] = 0 =>
           \E q \in Requests : Writes(q, y)'
  BY <1>3, <1>6, <1>7, <1>8, <1>11 DEF AccountsInv
<1>15. \A y \in wasted' :
         /\ y \in Resets /\ reset'[y] # None /\ reset'[y].used /\ resetBy'[y] = 0
         /\ \A q \in Requests : ~Writes(q, y)'
  BY <1>2, <1>3, <1>8, <1>11 DEF AccountsInv
<1>. QED  BY <1>3, <1>9, <1>10, <1>11, <1>12, <1>13, <1>14, <1>15 DEF AccountsInv

\* One statement uses the token up, and no handler has used it before.
LEMMA Consumed ==
  ASSUME AccountsInv, NEW x \in Resets, Consume(x)
  PROVE  /\ resetBy[x] = 0 /\ x \notin wasted /\ \A q \in Requests : ~Writes(q, x)
         /\ reset[x] # None /\ reset'[x] # None /\ reset'[x].used
         /\ \A y \in Resets \ {x} : reset'[y] = reset[y]
         /\ reset' \in [Resets -> ResetRows \cup {None}]
         /\ \A y, z \in Resets :
              /\ reset'[y] # None /\ reset'[z] # None /\ reset'[y].live /\ reset'[z].live
              /\ reset'[y].user = reset'[z].user
              => y = z
<1>1. /\ reset[x] # None /\ reset[x].live /\ ~reset[x].used /\ reset[x] \in ResetRows
      /\ reset' = [reset EXCEPT ![x].used = TRUE]
  BY DEF AccountsInv, Consume, LinkWorks
<1>2. resetBy[x] = 0 /\ x \notin wasted /\ \A q \in Requests : ~Writes(q, x)
  BY <1>1 DEF AccountsInv, AccountsTask, Writes
<1>3. reset' = [reset EXCEPT ![x] = [reset[x] EXCEPT !.used = TRUE]]
  BY <1>1 DEF AccountsInv
<1>4. reset'[x] = [reset[x] EXCEPT !.used = TRUE]
  BY <1>1, <1>3 DEF AccountsInv
<1>5. /\ reset'[x] \in ResetRows /\ reset'[x].used
      /\ reset'[x].live = reset[x].live /\ reset'[x].user = reset[x].user
  BY <1>1, <1>4, ResetRowUsed
<1>6. /\ reset'[x] # None /\ \A y \in Resets \ {x} : reset'[y] = reset[y]
      /\ reset' \in [Resets -> ResetRows \cup {None}]
  BY <1>3, <1>5, AccountsAssumption DEF AccountsInv
<1>7. \A y, z \in Resets :
        /\ reset'[y] # None /\ reset'[z] # None /\ reset'[y].live /\ reset'[z].live
        /\ reset'[y].user = reset'[z].user
        => y = z
  BY <1>1, <1>5, <1>6 DEF AccountsInv
<1>. QED  BY <1>1, <1>2, <1>5, <1>6, <1>7

LEMMA ResetKeeps ==
  ASSUME Handlers, AccountsInv, NEW r \in Requests, ResetPassword(r)
  PROVE  AccountsInv'
<1>1. PICK x \in Resets :
        /\ Consume(x)
        /\ Receive(r, "ResetPassword", "password:update",
                   [user |-> reset[x].user, by |-> {x}, new |-> served'])
  BY Zenon DEF ResetPassword
<1> DEFINE s == [user |-> reset[x].user, by |-> {x}, new |-> served']
<1>2. /\ resetBy[x] = 0 /\ x \notin wasted /\ \A q \in Requests : ~Writes(q, x)
      /\ reset[x] # None /\ reset'[x] # None /\ reset'[x].used
      /\ \A y \in Resets \ {x} : reset'[y] = reset[y]
      /\ reset' \in [Resets -> ResetRows \cup {None}]
      /\ \A y, z \in Resets :
           /\ reset'[y] # None /\ reset'[z] # None /\ reset'[y].live /\ reset'[z].live
           /\ reset'[y].user = reset'[z].user
           => y = z
  BY <1>1, Consumed
<1>4. pc[r] = "idle" /\ UNCHANGED <<linked, resetBy, wasted>>
  BY <1>1 DEF ResetPassword, Receive, Idle
<1>5. s.by = {x} /\ Receive(r, "ResetPassword", "password:update", s)
  BY <1>1
<1> HIDE DEF s
<1>6. /\ \A q \in Requests : /\ pc'[q] = (IF q = r THEN "password:update" ELSE pc[q])
                             /\ task'[q] = (IF q = r THEN s ELSE task[q])
      /\ restarts' = restarts
  BY <1>5, OneGoes
<1>9. \A q \in Requests, y \in Resets : Writes(q, y)' <=> Writes(q, y) \/ (q = r /\ y = x)
  BY <1>4, <1>5, <1>6 DEF Writes
<1>10. ASSUME NEW q \in Requests PROVE AccountsTask(pc[q], task[q])'
  <2>1. CASE q = r
    BY <1>2, <1>4, <1>5, <1>6, <2>1 DEF AccountsTask
  <2>2. CASE q # r
    <3>1. AccountsTask(pc[q], task[q]) /\ pc'[q] = pc[q] /\ task'[q] = task[q]
      BY <1>6, <2>2 DEF AccountsInv
    <3>. QED  BY <1>2, <1>4, <3>1 DEF AccountsTask
  <2>. QED  BY <2>1, <2>2
<1>11. \A y \in Resets : resetBy'[y] = 1 => reset'[y] # None /\ reset'[y].used
  BY <1>2, <1>4 DEF AccountsInv
<1>12. restarts' = 0 =>
         \A y \in Resets \ wasted' : reset'[y] # None /\ reset'[y].used /\ resetBy'[y] = 0 =>
           \E q \in Requests : Writes(q, y)'
  BY <1>2, <1>4, <1>6, <1>9 DEF AccountsInv
<1>13. \A q, p \in Requests, y \in Resets : Writes(q, y)' /\ Writes(p, y)' => q = p
  BY <1>2, <1>9 DEF AccountsInv
<1>14. \A y \in wasted' :
         /\ y \in Resets /\ reset'[y] # None /\ reset'[y].used /\ resetBy'[y] = 0
         /\ \A q \in Requests : ~Writes(q, y)'
  BY <1>2, <1>4, <1>9 DEF AccountsInv
<1>. QED  BY <1>2, <1>4, <1>10, <1>11, <1>12, <1>13, <1>14 DEF AccountsInv

LEMMA RefusedKeeps ==
  ASSUME AccountsInv, ResetRefused
  PROVE  AccountsInv'
<1>1. PICK x \in Resets :
        /\ Consume(x) /\ AnswerAtOnce("ResetPassword") /\ wasted' = wasted \cup {x}
        /\ UNCHANGED <<linked, resetBy>>
  BY Zenon DEF ResetRefused
<1>2. /\ resetBy[x] = 0 /\ x \notin wasted /\ \A q \in Requests : ~Writes(q, x)
      /\ reset[x] # None /\ reset'[x] # None /\ reset'[x].used
      /\ \A y \in Resets \ {x} : reset'[y] = reset[y]
      /\ reset' \in [Resets -> ResetRows \cup {None}]
      /\ \A y, z \in Resets :
           /\ reset'[y] # None /\ reset'[z] # None /\ reset'[y].live /\ reset'[z].live
           /\ reset'[y].user = reset'[z].user
           => y = z
  BY <1>1, Consumed
<1>3. UNCHANGED <<pc, task, restarts>>
  BY <1>1 DEF AnswerAtOnce, Arrives, handlers
<1>4. \A q \in Requests, y \in Resets : Writes(q, y)' <=> Writes(q, y)
  BY <1>3 DEF Writes
<1>5. \A q \in Requests : AccountsTask(pc[q], task[q])'
  BY <1>1, <1>2, <1>3 DEF AccountsInv, AccountsTask
<1>6. \A y \in Resets : resetBy'[y] = 1 => reset'[y] # None /\ reset'[y].used
  BY <1>1, <1>2 DEF AccountsInv
<1>7. restarts' = 0 =>
        \A y \in Resets \ wasted' : reset'[y] # None /\ reset'[y].used /\ resetBy'[y] = 0 =>
          \E q \in Requests : Writes(q, y)'
  BY <1>1, <1>2, <1>3, <1>4 DEF AccountsInv
<1>8. \A y \in wasted' :
        /\ y \in Resets /\ reset'[y] # None /\ reset'[y].used /\ resetBy'[y] = 0
        /\ \A q \in Requests : ~Writes(q, y)'
  BY <1>1, <1>2, <1>4 DEF AccountsInv
<1>. QED  BY <1>1, <1>2, <1>4, <1>5, <1>6, <1>7, <1>8 DEF AccountsInv

LEMMA UpdateKeeps ==
  ASSUME Handlers, AccountsInv, NEW r \in Requests, UpdatePassword(r)
  PROVE  AccountsInv'
<1> DEFINE t == task[r]
<1>1. /\ pc[r] = "password:update" /\ GotoWith(r, "idle", None)
      /\ UNCHANGED <<linked, reset, wasted>>
      /\ resetBy' = [x \in Resets |-> IF x \in t.by THEN resetBy[x] + 1 ELSE resetBy[x]]
  BY DEF UpdatePassword, At, Return
<1>2. /\ \A q \in Requests : /\ pc'[q] = (IF q = r THEN "idle" ELSE pc[q])
                             /\ task'[q] = (IF q = r THEN None ELSE task[q])
      /\ restarts' = restarts
  BY <1>1, OneGoes
<1>3. \A x \in t.by : x \in Resets /\ reset[x] # None /\ reset[x].used /\ resetBy[x] = 0
  BY <1>1 DEF AccountsInv, AccountsTask
<1>4. \A x \in Resets : resetBy'[x] = (IF x \in t.by THEN 1 ELSE resetBy[x])
  BY <1>1, <1>3
<1>5. resetBy' \in [Resets -> {0, 1}]
  BY <1>1, <1>4 DEF AccountsInv
<1>6. \A q \in Requests, x \in Resets : Writes(q, x)' <=> Writes(q, x) /\ q # r
  BY <1>2 DEF Writes
<1>7. \A x \in Resets : resetBy'[x] = 1 => reset'[x] # None /\ reset'[x].used
  BY <1>1, <1>3, <1>4 DEF AccountsInv
<1>8. ASSUME NEW q \in Requests PROVE AccountsTask(pc[q], task[q])'
  <2>1. CASE q = r
    BY <1>2, <2>1 DEF AccountsTask
  <2>2. CASE q # r
    <3>1. AccountsTask(pc[q], task[q]) /\ pc'[q] = pc[q] /\ task'[q] = task[q]
      BY <1>2, <2>2 DEF AccountsInv
    <3>2. pc[q] = "password:update" => \A x \in task[q].by : x \in Resets /\ x \notin t.by
      BY <1>1, <2>2, <3>1 DEF AccountsInv, AccountsTask, Writes
    <3>. QED  BY <1>1, <1>4, <3>1, <3>2 DEF AccountsTask
  <2>. QED  BY <2>1, <2>2
<1>9. restarts' = 0 =>
        \A x \in Resets \ wasted' : reset'[x] # None /\ reset'[x].used /\ resetBy'[x] = 0 =>
          \E q \in Requests : Writes(q, x)'
  <2>1. \A x \in Resets : resetBy'[x] = 0 => x \notin t.by /\ resetBy[x] = 0
    BY <1>4
  <2>2. \A x \in Resets : x \notin t.by => ~Writes(r, x)
    BY DEF Writes
  <2>. QED  BY <1>1, <1>2, <1>6, <2>1, <2>2 DEF AccountsInv
<1>10. \A x \in wasted' :
         /\ x \in Resets /\ reset'[x] # None /\ reset'[x].used /\ resetBy'[x] = 0
         /\ \A q \in Requests : ~Writes(q, x)'
  BY <1>1, <1>4, <1>6 DEF AccountsInv, Writes
<1>. QED  BY <1>1, <1>5, <1>6, <1>7, <1>8, <1>9, <1>10 DEF AccountsInv

LEMMA AccountsFrame ==
  ASSUME Handlers, [Next]_vars
  PROVE  AccountsNext \/ Restart \/ (UNCHANGED accounts /\ Away(AccountsLabels))
<1>1. "idle" \notin AccountsLabels /\ AccountsLabels \cap Shared = {}
  <2>1. /\ "idle" \notin AccountsLabels /\ AccountsLabels \cap ClassroomLabels = {}
        /\ AccountsLabels \cap EnsureThens = {} /\ AccountsLabels \cap BankLabels = {}
        /\ AccountsLabels \cap GrantsLabels = {}
    BY DEF AccountsLabels, ClassroomLabels, EnsureLabels, EnsureThens, BankLabels, GrantsLabels
  <2>2. AccountsLabels \cap PostsLabels = {} /\ AccountsLabels \cap FilesLabels = {}
    BY DEF AccountsLabels, PostsLabels, FilesLabels
  <2>3. AccountsLabels \cap MessagesTo = {} /\ AccountsLabels \cap HubTo = {}
        /\ AccountsLabels \cap {"ensure:select", "dm:insert", "notice:insert"} = {}
    BY DEF AccountsLabels, MessagesTo, MessagesLabels, HubTo, HubLabels
  <2>. QED  BY <2>1, <2>2, <2>3 DEF Shared
<1>2. /\ BillingLabels \cap AccountsLabels = {} /\ ChatLabels \cap AccountsLabels = {}
      /\ DatabasesLabels \cap AccountsLabels = {} /\ MailLabels \cap AccountsLabels = {}
  BY DEF AccountsLabels, BillingLabels, ChatLabels, DatabasesLabels, MailLabels
<1>3. /\ MilestonesLabels \cap AccountsLabels = {} /\ ServicesLabels \cap AccountsLabels = {}
      /\ OAuthLabels \cap AccountsLabels = {} /\ KnowledgeLabels \cap AccountsLabels = {}
  BY DEF AccountsLabels, MilestonesLabels, ServicesLabels, OAuthLabels, KnowledgeLabels
<1>4. AccountsNext \/ Restart \/ UNCHANGED accounts
  BY DEF Next, Quiet, vars, AdmissionNext, admission, HubOnly
<1>5. AccountsNext \/ Restart \/ Away(AccountsLabels)
  BY <1>1, <1>2, <1>3, AwayFrom
<1>. QED  BY <1>4, <1>5

LEMMA AccountsInvStep ==
  ASSUME Handlers, Alone, AccountsInv, [Next]_vars
  PROVE  AccountsInv'
<1>1. CASE UNCHANGED accounts /\ Away(AccountsLabels)
  BY <1>1, Unrestarted, AccountsStays
<1>2. CASE RefreshToken \/ ImpersonateUser \/ LinksExpire
  <2>1. UNCHANGED <<handlers, restarts>> /\ (LinksExpire \/ UNCHANGED accounts)
    BY <1>2 DEF RefreshToken, ImpersonateUser, LinksExpire, AnswerAtOnce, Arrives
  <2>. QED  BY <2>1, AccountsRests
<1>3. ASSUME NEW r \in Requests, ForgotPassword(r) \/ ChangePassword(r) PROVE AccountsInv'
  <2>1. CASE ForgotPassword(r)
    <3>1. PICK u \in Users : Receive(r, "ForgotPassword", "forgot:save", [user |-> u])
      BY <2>1, Zenon DEF ForgotPassword
    <3>2. pc[r] = "idle" /\ UNCHANGED accounts
      BY <2>1 DEF ForgotPassword, Receive, Idle
    <3>3. AccountsTask("forgot:save", [user |-> u])
      BY DEF AccountsTask
    <3>4. /\ \A q \in Requests : /\ pc'[q] = (IF q = r THEN "forgot:save" ELSE pc[q])
                                 /\ task'[q] = (IF q = r THEN [user |-> u] ELSE task[q])
          /\ restarts' = restarts
      BY <3>1, OneGoes
    <3>5. linked' \subseteq Resets /\ UNCHANGED <<reset, resetBy, wasted>>
      BY <3>2 DEF accounts, AccountsInv
    <3>. QED  BY <3>2, <3>3, <3>4, <3>5, AccountsGoes
  <2>2. CASE ChangePassword(r)
    <3>1. PICK u \in Users : Receive(r, "ChangePassword", "password:update",
                                     [user |-> u, by |-> {}, new |-> served'])
      BY <2>2, Zenon DEF ChangePassword
    <3>2. PICK t : t = [user |-> u, by |-> {}, new |-> served']
      OBVIOUS
    <3>3. Receive(r, "ChangePassword", "password:update", t)
      BY <3>1, <3>2 DEF Receive
    <3>4. pc[r] = "idle" /\ UNCHANGED accounts /\ t.by = {}
      BY <2>2, <3>2 DEF ChangePassword, Receive, Idle
    <3>5. AccountsTask("password:update", t)
      BY <3>4 DEF AccountsTask
    <3>6. /\ \A q \in Requests : /\ pc'[q] = (IF q = r THEN "password:update" ELSE pc[q])
                                 /\ task'[q] = (IF q = r THEN t ELSE task[q])
          /\ restarts' = restarts
      BY <3>3, OneGoes
    <3>7. linked' \subseteq Resets /\ UNCHANGED <<reset, resetBy, wasted>>
      BY <3>4 DEF accounts, AccountsInv
    <3>. QED  BY <3>4, <3>5, <3>6, <3>7, AccountsGoes
  <2>. QED  BY <1>3, <2>1, <2>2
<1>4. ASSUME NEW r \in Requests, ForgotMail(r) PROVE AccountsInv'
  <2>1. /\ pc[r] = "forgot:mail" /\ GotoWith(r, "idle", None)
        /\ UNCHANGED <<reset, resetBy, wasted>> /\ linked' \subseteq linked \cup {task[r].reset}
    BY <1>4 DEF ForgotMail, At, Return
  <2>2. task[r].reset \in Resets
    BY <2>1 DEF AccountsInv, AccountsTask
  <2>3. /\ \A q \in Requests : /\ pc'[q] = (IF q = r THEN "idle" ELSE pc[q])
                               /\ task'[q] = (IF q = r THEN None ELSE task[q])
        /\ restarts' = restarts
    BY <2>1, OneGoes
  <2>4. AccountsTask("idle", None) /\ linked' \subseteq Resets
    BY <2>1, <2>2 DEF AccountsTask, AccountsInv
  <2>. QED  BY <2>1, <2>3, <2>4, AccountsGoes
<1>5. CASE AccountsNext
  BY <1>2, <1>3, <1>4, <1>5, SaveKeeps, ResetKeeps, RefusedKeeps, UpdateKeeps
  DEF AccountsNext, AccountsStep, RefreshRequest, ImpersonateRequest, ForgotRequest,
      ResetRequest, PasswordRequest
<1>6. CASE Restart
  <2>1. UNCHANGED accounts /\ \A r \in Requests : pc'[r] = "idle"
    BY <1>6 DEF Restart, ServerRestart
  <2>2. restarts' # 0
    BY <1>6 DEF Restart, ServerRestart, Alone
  <2>. QED  BY <2>1, <2>2 DEF AccountsInv, AccountsTask, Writes, accounts
<1>. QED  BY <1>1, <1>5, <1>6, AccountsFrame

\* The part of CredentialsWorkOnce about reset links.
LEMMA LinksWorkOnce ==
  ASSUME AccountsInv
  PROVE  /\ \A x \in Resets : resetBy[x] <= 1
         /\ \A u \in Users :
              Cardinality({x \in Resets : LinkWorks(x) /\ reset[x].user = u}) <= 1
         /\ Settled => \A x \in Resets : reset[x] # None /\ reset[x].used =>
              resetBy[x] = (IF x \in wasted THEN 0 ELSE 1)
<1>1. \A x \in Resets : resetBy[x] <= 1
  BY DEF AccountsInv
<1>2. ASSUME NEW u \in Users
      PROVE  Cardinality({x \in Resets : LinkWorks(x) /\ reset[x].user = u}) <= 1
  <2> DEFINE W == {x \in Resets : LinkWorks(x) /\ reset[x].user = u}
  <2>1. \A x, y \in W : x = y
    BY DEF AccountsInv, LinkWorks
  <2>2. CASE W = {}
    BY <2>2, FS_EmptySet
  <2>3. CASE W # {}
    <3>1. PICK x \in W : W = {x}
      BY <2>1, <2>3
    <3>. QED  BY <3>1, FS_Singleton
  <2>. QED  BY <2>2, <2>3
<1>3. ASSUME Settled, NEW x \in Resets, reset[x] # None, reset[x].used
      PROVE  resetBy[x] = (IF x \in wasted THEN 0 ELSE 1)
  BY <1>3 DEF AccountsInv, Settled, AllIdle, Idle, Writes
<1>. QED  BY <1>1, <1>2, <1>3

-----------------------------------------------------------------------------
(* Codes and tokens, one request at a time *)

Active(p) == pair[p] # None /\ ~pair[p].revoked

Spent(c) == code[c] # None /\ code[c].used

\* What a handler of the OAuth server that is alone may rely on.
OAuthTask(p, t) ==
  /\ p \in {"app:revoke", "app:delete"} => t.app \in Apps /\ app[t.app] # None
  /\ p = "app:delete" => \A x \in Pairs : pair[x] # None /\ pair[x].app = t.app => ~Active(x)
  /\ p = "code:insert" => t.app \in Apps /\ t.user \in Users /\ t.pkce \in BOOLEAN
  /\ p \in {"code:app", "code:mark", "pair:insert", "refresh:app", "refresh:revoke"} =>
       /\ t.app \in Apps /\ t.user \in Users
       /\ t.of \in Codes /\ code[t.of] # None
  /\ p \in {"code:app", "code:mark"} => ~code[t.of].used
  /\ p \in {"code:mark", "pair:insert"} => code[t.of].pkce \/ LiveApp(t.app)
  /\ p = "pair:insert" =>
       /\ code[t.of].used /\ t.of \notin ended
       /\ \A x \in Pairs : Active(x) => pair[x].of # t.of
  /\ p \in {"refresh:app", "refresh:revoke"} =>
       t.pair \in Pairs /\ Active(t.pair) /\ pair[t.pair].of = t.of
  /\ p = "refresh:revoke" => LiveApp(t.app)

OAuthRows ==
  /\ app \in [Apps -> AppRows \cup {None}]
  /\ code \in [Codes -> CodeRows \cup {None}]
  /\ pair \in [Pairs -> PairRows \cup {None}]

OAuthBooks ==
  /\ \A p \in Pairs : pair[p] # None => Spent(pair[p].of)
  /\ \A c \in Codes \cap ended : Spent(c)
  /\ \A p \in Pairs : Active(p) => pair[p].of \notin ended
  /\ \A p, q \in Pairs : Active(p) /\ Active(q) /\ pair[p].of = pair[q].of => p = q
  /\ \A p \in Pairs : Honoured(p) => LiveApp(pair[p].app) \/ code[pair[p].of].pkce

OAuthInv ==
  ~overlapped =>
    OAuthRows /\ OAuthBooks /\ \A r \in Requests : OAuthTask(pc[r], task[r])

LEMMA OAuthInvInit == Init => OAuthInv
BY OAuthAssumption DEF Init, ServerInit, OAuthInit, OAuthInv, OAuthRows, OAuthBooks, OAuthTask,
   Active, Spent, Honoured

\* A step of one of its handlers has only its own task to answer for.
LEMMA OAuthGoes ==
  ASSUME Handlers, Alone, OAuthInv, NEW r \in Requests, NEW p, NEW t, pc[r] # "idle",
         GotoWith(r, p, t), ~overlapped => (OAuthRows /\ OAuthBooks /\ OAuthTask(p, t))'
  PROVE  OAuthInv'
<1>1. CASE overlapped
  BY <1>1 DEF GotoWith, control, OAuthInv
<1>2. CASE ~overlapped
  <2>1. /\ pc'[r] = p /\ task'[r] = t
        /\ \A q \in Requests : q # r => pc'[q] = "idle"
    BY <1>2, OthersIdle
  <2>2. ASSUME NEW q \in Requests PROVE OAuthTask(pc[q], task[q])'
    <3>1. CASE q = r
      BY <1>2, <2>1, <3>1
    <3>2. CASE q # r
      BY <2>1, <3>2 DEF OAuthTask
    <3>. QED  BY <3>1, <3>2
  <2>. QED  BY <1>2, <2>2 DEF OAuthInv
<1>. QED  BY <1>1, <1>2

\* A request is received when nobody is busy, or overlaps.
LEMMA OAuthReceives ==
  ASSUME Handlers, OAuthInv, NEW r \in Requests, NEW kind, NEW p, NEW t,
         Receive(r, kind, p, t), UNCHANGED oauth, ~overlapped => OAuthTask(p, t)
  PROVE  OAuthInv'
<1>1. CASE overlapped'
  BY <1>1 DEF OAuthInv
<1>2. CASE ~overlapped'
  <2>1. ~overlapped /\ AllIdle
    BY <1>2 DEF Receive, Arrives
  <2>2. \A q \in Requests : pc'[q] = (IF q = r THEN p ELSE pc[q]) /\ (q = r => task'[q] = t)
    BY DEF Receive, Handlers
  <2>3. UNCHANGED <<app, code, pair, ended>>
    BY DEF oauth
  <2>4. OAuthRows' /\ OAuthBooks' /\ OAuthTask(p, t)'
    BY <2>1, <2>3 DEF OAuthInv, OAuthRows, OAuthBooks, Active, Spent, Honoured, LiveApp, OAuthTask
  <2>5. ASSUME NEW q \in Requests PROVE OAuthTask(pc[q], task[q])'
    <3>1. CASE q = r
      BY <2>2, <2>4, <3>1
    <3>2. CASE q # r
      BY <2>1, <2>2, <3>2 DEF OAuthTask, AllIdle, Idle
    <3>. QED  BY <3>1, <3>2
  <2>. QED  BY <2>4, <2>5 DEF OAuthInv
<1>. QED  BY <1>1, <1>2

\* So is one that is answered at once.
LEMMA OAuthAnswers ==
  ASSUME OAuthInv, NEW kind, AnswerAtOnce(kind),
         ~overlapped => (OAuthRows /\ OAuthBooks)'
  PROVE  OAuthInv'
<1>1. CASE overlapped'
  BY <1>1 DEF OAuthInv
<1>2. CASE ~overlapped'
  <2>1. ~overlapped /\ AllIdle /\ UNCHANGED handlers
    BY <1>2 DEF AnswerAtOnce, Arrives
  <2>2. \A r \in Requests : OAuthTask(pc[r], task[r])'
    BY <2>1 DEF handlers, OAuthTask, AllIdle, Idle
  <2>. QED  BY <2>1, <2>2 DEF OAuthInv
<1>. QED  BY <1>1, <1>2

LEMMA OAuthStays ==
  ASSUME OAuthInv, overlapped => overlapped', UNCHANGED oauth,
         Away(OAuthLabels) \/ \A r \in Requests : pc'[r] = "idle"
  PROVE  OAuthInv'
<1>1. UNCHANGED <<app, code, pair, ended>>
  BY DEF oauth
<1>2. OAuthRows /\ OAuthBooks => OAuthRows' /\ OAuthBooks'
  BY <1>1 DEF OAuthRows, OAuthBooks, Active, Spent, Honoured, LiveApp
<1>3. ASSUME NEW r \in Requests, OAuthTask(pc[r], task[r]) PROVE OAuthTask(pc[r], task[r])'
  <2>1. CASE \A q \in Requests : pc'[q] = "idle"
    BY <2>1 DEF OAuthTask
  <2>2. CASE Away(OAuthLabels)
    <3>1. CASE pc'[r] \in OAuthLabels
      <4>1. pc'[r] = pc[r] /\ task'[r] = task[r]
        BY <2>2, <3>1 DEF Away
      <4>. QED  BY <1>1, <1>3, <4>1 DEF OAuthTask, Active, LiveApp
    <3>2. CASE pc'[r] \notin OAuthLabels
      BY <3>2 DEF OAuthTask, OAuthLabels
    <3>. QED  BY <3>1, <3>2
  <2>. QED  BY <2>1, <2>2
<1>. QED  BY <1>2, <1>3 DEF OAuthInv

\* Rows with a column written, and new ones.
LEMMA AppRowDropped ==
  ASSUME NEW row \in AppRows, NEW new, new = [row EXCEPT !.live = FALSE]
  PROVE  new \in AppRows /\ ~new.live
BY DEF AppRows

LEMMA AppRowNew ==
  ASSUME NEW u \in Users
  PROVE  AppRow(u) \in AppRows /\ AppRow(u).live
BY DEF AppRow, AppRows

LEMMA CodeRowUsed ==
  ASSUME NEW row \in CodeRows, NEW new, new = [row EXCEPT !.used = TRUE]
  PROVE  new \in CodeRows /\ new.used /\ new.pkce = row.pkce
BY DEF CodeRows

LEMMA CodeRowOld ==
  ASSUME NEW row \in CodeRows, NEW new, new = [row EXCEPT !.old = TRUE]
  PROVE  new \in CodeRows /\ new.used = row.used /\ new.pkce = row.pkce
BY DEF CodeRows

LEMMA CodeRowNew ==
  ASSUME NEW a \in Apps, NEW u \in Users, NEW pkce \in BOOLEAN
  PROVE  CodeRow(a, u, pkce) \in CodeRows
BY DEF CodeRow, CodeRows

LEMMA PairRowRevoked ==
  ASSUME NEW row \in PairRows, NEW new, new = [row EXCEPT !.revoked = TRUE]
  PROVE  /\ new \in PairRows /\ new.revoked
         /\ new.app = row.app /\ new.of = row.of /\ new.old = row.old
BY DEF PairRows

LEMMA PairRowOld ==
  ASSUME NEW row \in PairRows, NEW new, new = [row EXCEPT !.old = TRUE]
  PROVE  /\ new \in PairRows /\ new.old
         /\ new.app = row.app /\ new.of = row.of /\ new.revoked = row.revoked
BY DEF PairRows

LEMMA PairRowNew ==
  ASSUME NEW t, t.app \in Apps, t.user \in Users, t.of \in Codes
  PROVE  /\ PairRow(t) \in PairRows /\ ~PairRow(t).revoked
         /\ PairRow(t).app = t.app /\ PairRow(t).of = t.of
BY DEF PairRow, PairRows

\* Revoking rows revokes those, and changes nothing else of any.
LEMMA RevokedRows ==
  ASSUME OAuthRows, NEW s, \A p \in Pairs : p \in s => pair[p] # None, pair' = Revoked(s)
  PROVE  /\ pair' \in [Pairs -> PairRows \cup {None}]
         /\ \A p \in Pairs :
              /\ pair'[p] = None <=> pair[p] = None
              /\ pair[p] # None =>
                   /\ pair'[p].app = pair[p].app /\ pair'[p].of = pair[p].of
                   /\ Honoured(p)' => Honoured(p)
              /\ Active(p)' <=> Active(p) /\ p \notin s
<1>1. ASSUME NEW p \in Pairs
      PROVE  /\ pair'[p] \in PairRows \cup {None}
             /\ pair'[p] = None <=> pair[p] = None
             /\ pair[p] # None =>
                   /\ pair'[p].app = pair[p].app /\ pair'[p].of = pair[p].of
                   /\ pair'[p].old = pair[p].old
                   /\ p \notin s => pair'[p] = pair[p]
                   /\ p \in s => pair'[p].revoked
  <2>1. CASE p \in s
    <3>1. pair[p] \in PairRows /\ pair'[p] = [pair[p] EXCEPT !.revoked = TRUE]
      BY <2>1 DEF OAuthRows, Revoked
    <3>2. /\ pair'[p] \in PairRows /\ pair'[p].revoked
          /\ pair'[p].app = pair[p].app /\ pair'[p].of = pair[p].of
          /\ pair'[p].old = pair[p].old
      BY <3>1, PairRowRevoked
    <3>. QED  BY <2>1, <3>1, <3>2, OAuthAssumption
  <2>2. CASE p \notin s
    <3>1. pair'[p] = pair[p]
      BY <2>2 DEF Revoked
    <3>. QED  BY <2>2, <3>1 DEF OAuthRows
  <2>. QED  BY <2>1, <2>2
<1>2. pair' = [p \in Pairs |-> pair'[p]]
  BY DEF Revoked
<1>. QED  BY <1>1, <1>2 DEF Active, Honoured

\* Rows that are only revoked or expire keep the books in order.
LEMMA BooksKeptBelow ==
  ASSUME OAuthRows, OAuthBooks, UNCHANGED <<app, code>>,
         \A c \in ended' :
           \/ c \in ended
           \/ /\ \E p \in Pairs : pair[p] # None /\ pair[p].of = c
              /\ \A p \in Pairs : Active(p)' => pair[p].of # c,
         \A p \in Pairs :
           /\ pair'[p] = None <=> pair[p] = None
           /\ pair[p] # None =>
                /\ pair'[p].app = pair[p].app /\ pair'[p].of = pair[p].of
                /\ Honoured(p)' => Honoured(p)
           /\ Active(p)' => Active(p)
  PROVE  OAuthBooks'
<1>1. \A c : Spent(c)' <=> Spent(c)
  BY DEF Spent
<1>2. \A p \in Pairs : (pair[p] # None => Spent(pair[p].of))'
  BY DEF OAuthBooks, Spent
<1>3. \A c \in Codes \cap ended' : Spent(c)'
  BY <1>1 DEF OAuthBooks
<1>4. \A p \in Pairs : Active(p)' => pair'[p].of \notin ended'
  BY DEF OAuthBooks, Active
<1>5. \A p, q \in Pairs : Active(p)' /\ Active(q)' /\ pair'[p].of = pair'[q].of => p = q
  BY DEF OAuthBooks, Active
<1>6. \A p \in Pairs : (Honoured(p) => LiveApp(pair[p].app) \/ code[pair[p].of].pkce)'
  BY DEF OAuthBooks, Honoured, LiveApp
<1>. QED  BY <1>2, <1>3, <1>4, <1>5, <1>6 DEF OAuthBooks

LEMMA RegisterClientKeeps ==
  ASSUME OAuthInv, RegisterClient
  PROVE  OAuthInv'
<1>1. /\ AnswerAtOnce("RegisterClient") /\ UNCHANGED <<code, pair, ended>>
      /\ \E u \in Users, a \in FreeId(app) : app' = [app EXCEPT ![a] = AppRow(u)]
  BY DEF RegisterClient
<1>2. PICK u \in Users, a \in FreeId(app) : app' = [app EXCEPT ![a] = AppRow(u)]
  BY <1>1
<1>3. ASSUME ~overlapped PROVE (OAuthRows /\ OAuthBooks)'
  <2>1. OAuthRows /\ OAuthBooks /\ a \in Apps /\ app[a] = None
    BY <1>3, FreeIdIsFree DEF OAuthInv, OAuthRows
  <2>2. AppRow(u) \in AppRows
    BY AppRowNew
  <2>3. OAuthRows'
    BY <1>1, <1>2, <2>1, <2>2 DEF OAuthRows
  <2>4. \A x : LiveApp(x) => x = a \/ app'[x] = app[x]
    BY <1>2
  <2>5. \A p \in Pairs : pair[p] # None => pair[p].app \in Apps
    BY <2>1 DEF OAuthRows, PairRows
  <2>6. \A x \in Apps : LiveApp(x) => LiveApp(x)'
    BY <1>2, <2>1 DEF LiveApp, OAuthRows
  <2>7. OAuthBooks'
    BY <1>1, <2>1, <2>5, <2>6 DEF OAuthBooks, Spent, Active, Honoured
  <2>. QED  BY <2>3, <2>7
<1>. QED  BY <1>1, <1>3, OAuthAnswers

LEMMA RevokeTokenKeeps ==
  ASSUME OAuthInv, RevokeToken
  PROVE  OAuthInv'
<1>1. PICK p \in Pairs :
        /\ pair[p] # None /\ pair' = Revoked({p})
        /\ ended' = IF pair[p].revoked THEN ended ELSE ended \cup {pair[p].of}
  BY DEF RevokeToken
<1>2. AnswerAtOnce("RevokeToken") /\ UNCHANGED <<app, code>>
  BY DEF RevokeToken
<1>3. ASSUME ~overlapped PROVE (OAuthRows /\ OAuthBooks)'
  <2>1. OAuthRows /\ OAuthBooks
    BY <1>3 DEF OAuthInv
  <2>2. /\ pair' \in [Pairs -> PairRows \cup {None}]
        /\ \A q \in Pairs :
             /\ pair'[q] = None <=> pair[q] = None
             /\ pair[q] # None =>
                  /\ pair'[q].app = pair[q].app /\ pair'[q].of = pair[q].of
                  /\ Honoured(q)' => Honoured(q)
             /\ Active(q)' <=> Active(q) /\ q \notin {p}
    BY <1>1, <2>1, RevokedRows
  <2>3. ASSUME NEW c \in ended'
        PROVE  \/ c \in ended
               \/ /\ \E q \in Pairs : pair[q] # None /\ pair[q].of = c
                  /\ \A q \in Pairs : Active(q)' => pair[q].of # c
    <3>1. CASE pair[p].revoked
      <4>1. ended' = ended
        BY <1>1, <3>1
      <4>. QED  BY <4>1
    <3>2. CASE ~pair[p].revoked
      <4>3. ended' = ended \cup {pair[p].of}
        BY <1>1, <3>2
      <4>1. \A q \in Pairs : Active(q) /\ pair[q].of = pair[p].of => q = p
        BY <1>1, <2>1, <3>2 DEF OAuthBooks, Active
      <4>2. \A q \in Pairs : Active(q)' => pair[q].of # pair[p].of
        BY <2>2, <4>1
      <4>. QED  BY <1>1, <4>2, <4>3
    <3>. QED  BY <3>1, <3>2
  <2>4. OAuthRows'
    BY <1>2, <2>1, <2>2 DEF OAuthRows
  <2>5. OAuthBooks'
    BY <1>2, <2>1, <2>2, <2>3, BooksKeptBelow
  <2>. QED  BY <2>4, <2>5
<1>. QED  BY <1>2, <1>3, OAuthAnswers

LEMMA TokensExpireKeeps ==
  ASSUME OAuthInv, TokensExpire
  PROVE  OAuthInv'
<1>1. PICK hour \in BOOLEAN :
        /\ code' = [c \in Codes |->
             IF code[c] = None THEN None ELSE [code[c] EXCEPT !.old = TRUE]]
        /\ pair' = [p \in Pairs |->
             IF hour /\ pair[p] # None THEN [pair[p] EXCEPT !.old = TRUE] ELSE pair[p]]
  BY DEF TokensExpire
<1>2. AnswerAtOnce("TokensExpire") /\ UNCHANGED <<app, ended>>
  BY DEF TokensExpire
<1>3. ASSUME ~overlapped PROVE (OAuthRows /\ OAuthBooks)'
  <2>1. OAuthRows /\ OAuthBooks
    BY <1>3 DEF OAuthInv
  <2>2. ASSUME NEW c \in Codes
        PROVE  /\ code'[c] \in CodeRows \cup {None}
               /\ code'[c] = None <=> code[c] = None
               /\ code[c] # None =>
                    code'[c].used = code[c].used /\ code'[c].pkce = code[c].pkce
    <3>1. CASE code[c] = None
      BY <1>1, <3>1
    <3>2. CASE code[c] # None
      <4>1. code[c] \in CodeRows /\ code'[c] = [code[c] EXCEPT !.old = TRUE]
        BY <1>1, <2>1, <3>2 DEF OAuthRows
      <4>. QED  BY <3>2, <4>1, CodeRowOld, OAuthAssumption
    <3>. QED  BY <3>1, <3>2
  <2>3. ASSUME NEW p \in Pairs
        PROVE  /\ pair'[p] \in PairRows \cup {None}
               /\ pair'[p] = None <=> pair[p] = None
               /\ pair[p] # None =>
                    /\ pair'[p].app = pair[p].app /\ pair'[p].of = pair[p].of
                    /\ pair'[p].revoked = pair[p].revoked
                    /\ ~pair'[p].old => ~pair[p].old
    <3>1. CASE hour /\ pair[p] # None
      <4>1. pair[p] \in PairRows /\ pair'[p] = [pair[p] EXCEPT !.old = TRUE]
        BY <1>1, <2>1, <3>1 DEF OAuthRows
      <4>. QED  BY <3>1, <4>1, PairRowOld, OAuthAssumption
    <3>2. CASE ~(hour /\ pair[p] # None)
      <4>1. pair'[p] = pair[p]
        BY <1>1, <3>2
      <4>. QED  BY <2>1, <4>1 DEF OAuthRows
    <3>. QED  BY <3>1, <3>2
  <2>4. OAuthRows'
    <3>1. code' = [c \in Codes |-> code'[c]] /\ pair' = [p \in Pairs |-> pair'[p]]
      BY <1>1
    <3>. QED  BY <1>2, <2>1, <2>2, <2>3, <3>1 DEF OAuthRows
  <2>5. \A p \in Pairs : pair[p] # None => pair[p].of \in Codes
    BY <2>1 DEF OAuthRows, PairRows
  <2>6. \A p \in Pairs : /\ Active(p)' <=> Active(p)
                         /\ Honoured(p)' => Honoured(p)
    BY <2>3 DEF Active, Honoured
  <2>7. \A c \in Codes : Spent(c)' <=> Spent(c)
    BY <2>2 DEF Spent
  <2>8. \A p \in Pairs : (pair[p] # None => Spent(pair[p].of))'
    BY <2>1, <2>2, <2>3, <2>5 DEF OAuthBooks, Spent
  <2>9. /\ \A c \in Codes \cap ended' : Spent(c)'
        /\ \A p \in Pairs : (Active(p) => pair[p].of \notin ended)'
    BY <1>2, <2>1, <2>3, <2>6, <2>7 DEF OAuthBooks, Active
  <2>10. \A p, q \in Pairs : (Active(p) /\ Active(q) /\ pair[p].of = pair[q].of => p = q)'
    BY <2>1, <2>3, <2>6 DEF OAuthBooks, Active
  <2>11. \A p \in Pairs : (Honoured(p) => LiveApp(pair[p].app) \/ code[pair[p].of].pkce)'
    <3>1. SUFFICES ASSUME NEW p \in Pairs, Honoured(p)'
                   PROVE  (LiveApp(pair[p].app) \/ code[pair[p].of].pkce)'
      OBVIOUS
    <3>2. pair[p] # None /\ Honoured(p)
      BY <2>6, <3>1 DEF Honoured
    <3>3. LiveApp(pair[p].app) \/ code[pair[p].of].pkce
      BY <2>1, <3>2 DEF OAuthBooks
    <3>4. code[pair[p].of] # None /\ pair[p].of \in Codes
      BY <2>1, <2>5, <3>2 DEF OAuthBooks, Spent
    <3>. QED  BY <1>2, <2>2, <2>3, <3>2, <3>3, <3>4 DEF LiveApp
  <2>12. OAuthBooks'
    BY <2>8, <2>9, <2>10, <2>11 DEF OAuthBooks
  <2>. QED  BY <2>4, <2>12
<1>. QED  BY <1>2, <1>3, OAuthAnswers

\* The requests the handlers of the OAuth server take up.
LEMMA DeleteClientKeeps ==
  ASSUME Handlers, OAuthInv, NEW r \in Requests, DeleteClient(r)
  PROVE  OAuthInv'
<1>1. PICK a \in Apps : LiveApp(a) /\ Receive(r, "DeleteClient", "app:revoke", [app |-> a])
  BY Zenon DEF DeleteClient
<1>2. UNCHANGED oauth
  BY DEF DeleteClient
<1>3. OAuthTask("app:revoke", [app |-> a])
  BY <1>1 DEF OAuthTask, LiveApp
<1>. QED  BY <1>1, <1>2, <1>3, OAuthReceives

LEMMA AuthorizeKeeps ==
  ASSUME Handlers, OAuthInv, NEW r \in Requests, Authorize(r)
  PROVE  OAuthInv'
<1>1. PICK u \in Users, a \in Apps, pkce \in BOOLEAN :
        Receive(r, "Authorize", "code:insert", [app |-> a, user |-> u, pkce |-> pkce])
  BY Zenon DEF Authorize
<1>2. UNCHANGED oauth
  BY DEF Authorize
<1>3. OAuthTask("code:insert", [app |-> a, user |-> u, pkce |-> pkce])
  BY DEF OAuthTask
<1>. QED  BY <1>1, <1>2, <1>3, OAuthReceives

LEMMA ExchangeCodeKeeps ==
  ASSUME Handlers, OAuthInv, NEW r \in Requests, ExchangeCode(r)
  PROVE  OAuthInv'
<1>1. PICK c \in {x \in Codes : Exchangeable(x)} :
        Receive(r, "ExchangeCode", IF code[c].pkce THEN "code:mark" ELSE "code:app",
                [app |-> code[c].app, user |-> code[c].user, of |-> c])
  BY Zenon DEF ExchangeCode
<1>2. PICK p : p = IF code[c].pkce THEN "code:mark" ELSE "code:app"
  OBVIOUS
<1>3. PICK t : t = [app |-> code[c].app, user |-> code[c].user, of |-> c]
  OBVIOUS
<1>4. UNCHANGED oauth
  BY DEF ExchangeCode
<1>5. ASSUME ~overlapped PROVE OAuthTask(p, t)
  <2>1. c \in Codes /\ code[c] # None /\ ~code[c].used
    BY <1>1 DEF Exchangeable
  <2>2. code[c] \in CodeRows
    BY <1>5, <2>1 DEF OAuthInv, OAuthRows
  <2>3. /\ t.app \in Apps /\ t.user \in Users /\ t.of = c
        /\ code[c].pkce \in BOOLEAN
    BY <1>3, <2>2 DEF CodeRows
  <2>4. CASE code[c].pkce
    <3>1. p = "code:mark"
      BY <1>2, <2>4
    <3>. QED  BY <2>1, <2>3, <2>4, <3>1 DEF OAuthTask
  <2>5. CASE ~code[c].pkce
    <3>1. p = "code:app"
      BY <1>2, <2>5
    <3>. QED  BY <2>1, <2>3, <3>1 DEF OAuthTask
  <2>. QED  BY <2>4, <2>5
<1>6. Receive(r, "ExchangeCode", p, t)
  BY <1>1, <1>2, <1>3
<1>. QED  BY <1>4, <1>5, <1>6, OAuthReceives

LEMMA RefreshAccessTokenKeeps ==
  ASSUME Handlers, OAuthInv, NEW r \in Requests, RefreshAccessToken(r)
  PROVE  OAuthInv'
<1>1. PICK p \in Pairs :
        /\ pair[p] # None /\ ~pair[p].revoked
        /\ Receive(r, "RefreshAccessToken", "refresh:app",
                   [pair |-> p, app |-> pair[p].app, user |-> pair[p].user, of |-> pair[p].of])
  BY Zenon DEF RefreshAccessToken
<1>2. PICK t :
        t = [pair |-> p, app |-> pair[p].app, user |-> pair[p].user, of |-> pair[p].of]
  OBVIOUS
<1>3. UNCHANGED oauth
  BY DEF RefreshAccessToken
<1>4. ASSUME ~overlapped PROVE OAuthTask("refresh:app", t)
  <2>1. OAuthRows /\ OAuthBooks
    BY <1>4 DEF OAuthInv
  <2>2. pair[p] \in PairRows
    BY <1>1, <2>1 DEF OAuthRows
  <2>3. /\ t.app \in Apps /\ t.user \in Users /\ t.of \in Codes
        /\ t.of = pair[p].of /\ t.pair = p
    BY <1>2, <2>2 DEF PairRows
  <2>4. code[t.of] # None
    BY <1>1, <2>1, <2>3 DEF OAuthBooks, Spent
  <2>. QED  BY <1>1, <2>3, <2>4 DEF OAuthTask, Active
<1>5. Receive(r, "RefreshAccessToken", "refresh:app", t)
  BY <1>1, <1>2
<1>. QED  BY <1>3, <1>4, <1>5, OAuthReceives

\* The steps they take.
LEMMA FindsAppKeeps ==
  ASSUME Handlers, Alone, OAuthInv, NEW r \in Requests,
         ExchangeFindsApp(r) \/ RefreshFindsApp(r)
  PROVE  OAuthInv'
<1>1. pc[r] \in {"code:app", "refresh:app"} /\ UNCHANGED <<app, code, pair, ended>>
  BY DEF ExchangeFindsApp, RefreshFindsApp, At, oauth
<1>2. ASSUME ~overlapped
      PROVE  OAuthRows' /\ OAuthBooks' /\ OAuthTask(pc[r], task[r])
  BY <1>1, <1>2
  DEF OAuthInv, OAuthRows, OAuthBooks, Active, Spent, Honoured, LiveApp
<1>3. PICK p, t : p = pc[r] /\ t = task[r]
  OBVIOUS
<1>4. CASE ~LiveApp(t.app)
  <2>1. GotoWith(r, "idle", None)
    BY <1>3, <1>4 DEF ExchangeFindsApp, RefreshFindsApp, Return
  <2>2. OAuthTask("idle", None)'
    BY DEF OAuthTask
  <2>. QED  BY <1>1, <1>2, <2>1, <2>2, OAuthGoes
<1>5. CASE LiveApp(t.app)
  <2>1. PICK to : /\ <<p, to>> \in {<<"code:app", "code:mark">>,
                                    <<"refresh:app", "refresh:revoke">>}
                  /\ GotoWith(r, to, t)
    <3>1. CASE ExchangeFindsApp(r)
      <4>1. p = "code:app" /\ GotoWith(r, "code:mark", t)
        BY <1>3, <1>5, <3>1 DEF ExchangeFindsApp, Goto, At
      <4>. QED  BY <4>1
    <3>2. CASE RefreshFindsApp(r)
      <4>1. p = "refresh:app" /\ GotoWith(r, "refresh:revoke", t)
        BY <1>3, <1>5, <3>2 DEF RefreshFindsApp, Goto, At
      <4>. QED  BY <4>1
    <3>. QED  BY <3>1, <3>2
  <2>2. ASSUME ~overlapped PROVE OAuthTask(to, t)'
    <3>1. OAuthTask(p, t)
      BY <1>2, <1>3, <2>2
    <3>. QED  BY <1>1, <1>5, <2>1, <3>1 DEF OAuthTask, Active, LiveApp
  <2>. QED  BY <1>1, <1>2, <2>1, <2>2, OAuthGoes
<1>. QED  BY <1>4, <1>5

LEMMA CreateAuthorizationCodeKeeps ==
  ASSUME Handlers, Alone, OAuthInv, NEW r \in Requests, CreateAuthorizationCode(r)
  PROVE  OAuthInv'
<1>1. PICK t : t = task[r]
  OBVIOUS
<1>2. /\ pc[r] = "code:insert" /\ GotoWith(r, "idle", None) /\ UNCHANGED <<app, pair, ended>>
      /\ \E c \in FreeId(code) : code' = [code EXCEPT ![c] = CodeRow(t.app, t.user, t.pkce)]
  BY <1>1 DEF CreateAuthorizationCode, At, Return
<1>3. PICK c \in FreeId(code) : code' = [code EXCEPT ![c] = CodeRow(t.app, t.user, t.pkce)]
  BY <1>2
<1>4. ASSUME ~overlapped PROVE OAuthRows' /\ OAuthBooks'
  <2>1. OAuthRows /\ OAuthBooks /\ OAuthTask("code:insert", t)
    BY <1>1, <1>2, <1>4 DEF OAuthInv
  <2>2. c \in Codes /\ code[c] = None
    BY <2>1, FreeIdIsFree DEF OAuthRows
  <2>3. CodeRow(t.app, t.user, t.pkce) \in CodeRows
    BY <2>1, CodeRowNew DEF OAuthTask
  <2>4. OAuthRows'
    BY <1>2, <1>3, <2>1, <2>2, <2>3 DEF OAuthRows
  <2>5. \A x \in Codes : code[x] # None => code'[x] = code[x]
    BY <1>3, <2>1, <2>2 DEF OAuthRows
  <2>6. \A p \in Pairs : pair[p] # None => pair[p].of \in Codes
    BY <2>1 DEF OAuthRows, PairRows
  <2>7. OAuthBooks'
    BY <1>2, <2>1, <2>5, <2>6 DEF OAuthBooks, Spent, Active, Honoured, LiveApp
  <2>. QED  BY <2>4, <2>7
<1>5. OAuthTask("idle", None)'
  BY DEF OAuthTask
<1>. QED  BY <1>2, <1>4, <1>5, OAuthGoes

LEMMA RevokeTokensByClientKeeps ==
  ASSUME Handlers, Alone, OAuthInv, NEW r \in Requests, RevokeTokensByClient(r)
  PROVE  OAuthInv'
<1>1. PICK t : t = task[r]
  OBVIOUS
<1>2. /\ pc[r] = "app:revoke" /\ GotoWith(r, "app:delete", t) /\ UNCHANGED <<app, code, ended>>
      /\ pair' = Revoked(PairsOf(t.app))
  BY <1>1 DEF RevokeTokensByClient, At, Goto
<1>3. ASSUME ~overlapped PROVE OAuthRows' /\ OAuthBooks' /\ OAuthTask("app:delete", t)'
  <2>1. OAuthRows /\ OAuthBooks /\ OAuthTask("app:revoke", t)
    BY <1>1, <1>2, <1>3 DEF OAuthInv
  <2> DEFINE s == PairsOf(t.app)
  <2>2. \A p \in Pairs : p \in s <=> pair[p] # None /\ pair[p].app = t.app
    BY DEF PairsOf
  <2> HIDE DEF s
  <2>3. /\ pair' \in [Pairs -> PairRows \cup {None}]
        /\ \A p \in Pairs :
             /\ pair'[p] = None <=> pair[p] = None
             /\ pair[p] # None =>
                  /\ pair'[p].app = pair[p].app /\ pair'[p].of = pair[p].of
                  /\ Honoured(p)' => Honoured(p)
             /\ Active(p)' <=> Active(p) /\ p \notin s
    <3>1. pair' = Revoked(s)
      BY <1>2 DEF s
    <3>2. \A p \in Pairs : p \in s => pair[p] # None
      BY <2>2
    <3>. QED  BY <2>1, <3>1, <3>2, RevokedRows
  <2>4. OAuthRows' /\ OAuthBooks'
    BY <1>2, <2>1, <2>3, BooksKeptBelow DEF OAuthRows
  <2>5. \A p \in Pairs : (pair[p] # None /\ pair[p].app = t.app => ~Active(p))'
    BY <2>2, <2>3
  <2>6. OAuthTask("app:delete", t)'
    BY <1>2, <2>1, <2>5 DEF OAuthTask
  <2>. QED  BY <2>4, <2>6
<1>. QED  BY <1>2, <1>3, OAuthGoes

LEMMA DeleteAppKeeps ==
  ASSUME Handlers, Alone, OAuthInv, NEW r \in Requests, DeleteApp(r)
  PROVE  OAuthInv'
<1>1. PICK a : a = task[r].app
  OBVIOUS
<1>2. /\ pc[r] = "app:delete" /\ GotoWith(r, "idle", None) /\ UNCHANGED <<code, pair, ended>>
      /\ app' = [app EXCEPT ![a] = [app[a] EXCEPT !.live = FALSE]]
  BY <1>1 DEF DeleteApp, At, Return
<1>3. ASSUME ~overlapped PROVE OAuthRows' /\ OAuthBooks'
  <2>1. /\ OAuthRows /\ OAuthBooks /\ a \in Apps /\ app[a] # None
        /\ \A p \in Pairs : pair[p] # None /\ pair[p].app = a => ~Active(p)
    BY <1>1, <1>2, <1>3 DEF OAuthInv, OAuthTask
  <2>2. [app[a] EXCEPT !.live = FALSE] \in AppRows
    BY <2>1, AppRowDropped DEF OAuthRows
  <2>3. OAuthRows'
    BY <1>2, <2>1, <2>2 DEF OAuthRows
  <2>4. \A x \in Apps : x # a => (LiveApp(x)' <=> LiveApp(x))
    BY <1>2, <2>1 DEF OAuthRows, LiveApp
  <2>5. \A p \in Pairs : Honoured(p) => pair[p].app \in Apps /\ pair[p].app # a
    BY <2>1 DEF OAuthRows, PairRows, Honoured, Active
  <2>6. OAuthBooks'
    BY <1>2, <2>1, <2>4, <2>5 DEF OAuthBooks, Spent, Active, Honoured
  <2>. QED  BY <2>3, <2>6
<1>4. OAuthTask("idle", None)'
  BY DEF OAuthTask
<1>. QED  BY <1>2, <1>3, <1>4, OAuthGoes

LEMMA MarkCodeUsedKeeps ==
  ASSUME Handlers, Alone, OAuthInv, NEW r \in Requests, MarkCodeUsed(r)
  PROVE  OAuthInv'
<1>1. PICK t, c : t = task[r] /\ c = t.of
  OBVIOUS
<1>2. /\ pc[r] = "code:mark" /\ GotoWith(r, "pair:insert", t) /\ UNCHANGED <<app, pair, ended>>
      /\ code' = [code EXCEPT ![c] = [code[c] EXCEPT !.used = TRUE]]
  BY <1>1 DEF MarkCodeUsed, At, Goto
<1>3. ASSUME ~overlapped PROVE OAuthRows' /\ OAuthBooks' /\ OAuthTask("pair:insert", t)'
  <2>1. OAuthRows /\ OAuthBooks /\ OAuthTask("code:mark", t)
    BY <1>1, <1>2, <1>3 DEF OAuthInv
  <2>2. /\ c \in Codes /\ code[c] \in CodeRows /\ ~code[c].used
        /\ code[c].pkce \/ LiveApp(t.app)
        /\ t.app \in Apps /\ t.user \in Users /\ t.of = c
    BY <1>1, <2>1 DEF OAuthTask, OAuthRows
  <2>3. /\ code'[c] \in CodeRows /\ code'[c].used /\ code'[c].pkce = code[c].pkce
    <3>1. code'[c] = [code[c] EXCEPT !.used = TRUE]
      BY <1>2, <2>1, <2>2 DEF OAuthRows
    <3>. QED  BY <2>2, <3>1, CodeRowUsed
  <2>4. \A x \in Codes : x # c => code'[x] = code[x]
    BY <1>2, <2>1 DEF OAuthRows
  <2>5. OAuthRows'
    <3>1. code' \in [Codes -> CodeRows \cup {None}]
      BY <1>2, <2>1, <2>2, <2>3, <2>4 DEF OAuthRows
    <3>. QED  BY <1>2, <2>1, <3>1 DEF OAuthRows
  <2>6. code'[c] # None
    BY <2>3, OAuthAssumption
  <2>7. \A p \in Pairs : pair[p] # None => pair[p].of \in Codes
    BY <2>1 DEF OAuthRows, PairRows
  <2>8. \A x \in Codes : Spent(x) => Spent(x)'
    BY <2>3, <2>4, <2>6 DEF Spent
  <2>9. \A x \in Codes : code[x] # None => code'[x].pkce = code[x].pkce
    BY <2>3, <2>4
  <2>10. OAuthBooks'
    <3>1. /\ \A p \in Pairs : (pair[p] # None => Spent(pair[p].of))'
          /\ \A x \in Codes \cap ended' : Spent(x)'
      BY <1>2, <2>1, <2>7, <2>8 DEF OAuthBooks, Spent
    <3>2. \A p \in Pairs : (Honoured(p) => LiveApp(pair[p].app) \/ code[pair[p].of].pkce)'
      BY <1>2, <2>1, <2>7, <2>9 DEF OAuthBooks, Spent, Honoured, LiveApp
    <3>. QED  BY <1>2, <2>1, <3>1, <3>2 DEF OAuthBooks, Active
  <2>11. c \notin ended /\ \A x \in Pairs : Active(x) => pair[x].of # c
    BY <2>1, <2>2 DEF OAuthBooks, Spent, Active
  <2>12. OAuthTask("pair:insert", t)'
    BY <1>2, <2>2, <2>3, <2>6, <2>11 DEF OAuthTask, Active, LiveApp
  <2>. QED  BY <2>5, <2>10, <2>12
<1>. QED  BY <1>2, <1>3, OAuthGoes

LEMMA CreateTokenKeeps ==
  ASSUME Handlers, Alone, OAuthInv, NEW r \in Requests, CreateToken(r)
  PROVE  OAuthInv'
<1>1. PICK t : t = task[r]
  OBVIOUS
<1>2. /\ pc[r] = "pair:insert" /\ GotoWith(r, "idle", None) /\ UNCHANGED <<app, code, ended>>
      /\ \E p \in FreeId(pair) : pair' = [pair EXCEPT ![p] = PairRow(t)]
  BY <1>1 DEF CreateToken, At, Return
<1>3. PICK p \in FreeId(pair) : pair' = [pair EXCEPT ![p] = PairRow(t)]
  BY <1>2
<1>4. ASSUME ~overlapped PROVE OAuthRows' /\ OAuthBooks'
  <2>1. OAuthRows /\ OAuthBooks /\ OAuthTask("pair:insert", t)
    BY <1>1, <1>2, <1>4 DEF OAuthInv
  <2>2. p \in Pairs /\ pair[p] = None
    BY <2>1, FreeIdIsFree DEF OAuthRows
  <2>3. /\ t.of \in Codes /\ Spent(t.of) /\ t.of \notin ended
        /\ code[t.of].pkce \/ LiveApp(t.app)
        /\ \A x \in Pairs : Active(x) => pair[x].of # t.of
        /\ t.app \in Apps /\ t.user \in Users
    BY <2>1 DEF OAuthTask, Spent
  <2>4. /\ pair'[p] \in PairRows /\ pair'[p].app = t.app /\ pair'[p].of = t.of
    <3>1. pair'[p] = PairRow(t)
      BY <1>3, <2>1, <2>2 DEF OAuthRows
    <3>. QED  BY <2>3, <3>1, PairRowNew
  <2>5. \A q \in Pairs : q # p => pair'[q] = pair[q]
    BY <1>3, <2>1 DEF OAuthRows
  <2>6. OAuthRows'
    <3>1. pair' \in [Pairs -> PairRows \cup {None}]
      BY <1>3, <2>1, <2>2, <2>4, <2>5 DEF OAuthRows
    <3>. QED  BY <1>2, <2>1, <3>1 DEF OAuthRows
  <2>7. /\ \A q \in Pairs : (pair[q] # None => Spent(pair[q].of))'
        /\ \A x \in Codes \cap ended' : Spent(x)'
    BY <1>2, <2>1, <2>3, <2>4, <2>5 DEF OAuthBooks, Spent
  <2>8. \A q \in Pairs : (Active(q) => pair[q].of \notin ended)'
    BY <1>2, <2>1, <2>3, <2>4, <2>5 DEF OAuthBooks, Active
  <2>9. \A q, x \in Pairs : (Active(q) /\ Active(x) /\ pair[q].of = pair[x].of => q = x)'
    BY <2>1, <2>3, <2>4, <2>5 DEF OAuthBooks, Active
  <2>10. \A q \in Pairs : (Honoured(q) => LiveApp(pair[q].app) \/ code[pair[q].of].pkce)'
    BY <1>2, <2>1, <2>3, <2>4, <2>5 DEF OAuthBooks, Honoured, LiveApp
  <2>11. OAuthBooks'
    BY <2>7, <2>8, <2>9, <2>10 DEF OAuthBooks
  <2>. QED  BY <2>6, <2>11
<1>5. OAuthTask("idle", None)'
  BY DEF OAuthTask
<1>. QED  BY <1>2, <1>4, <1>5, OAuthGoes

LEMMA RefreshRevokesKeeps ==
  ASSUME Handlers, Alone, OAuthInv, NEW r \in Requests, RefreshRevokes(r)
  PROVE  OAuthInv'
<1>1. PICK t : t = task[r]
  OBVIOUS
<1>2. /\ pc[r] = "refresh:revoke" /\ GotoWith(r, "pair:insert", t)
      /\ UNCHANGED <<app, code, ended>> /\ pair' = Revoked({t.pair})
  BY <1>1 DEF RefreshRevokes, At, Goto, Replaced
<1>3. ASSUME ~overlapped PROVE OAuthRows' /\ OAuthBooks' /\ OAuthTask("pair:insert", t)'
  <2>1. OAuthRows /\ OAuthBooks /\ OAuthTask("refresh:revoke", t)
    BY <1>1, <1>2, <1>3 DEF OAuthInv
  <2>2. /\ t.pair \in Pairs /\ Active(t.pair) /\ pair[t.pair].of = t.of /\ LiveApp(t.app)
        /\ t.of \in Codes /\ code[t.of] # None /\ t.app \in Apps /\ t.user \in Users
    BY <2>1 DEF OAuthTask
  <2>3. /\ pair' \in [Pairs -> PairRows \cup {None}]
        /\ \A p \in Pairs :
             /\ pair'[p] = None <=> pair[p] = None
             /\ pair[p] # None =>
                  /\ pair'[p].app = pair[p].app /\ pair'[p].of = pair[p].of
                  /\ Honoured(p)' => Honoured(p)
             /\ Active(p)' <=> Active(p) /\ p \notin {t.pair}
    <3>1. \A p \in Pairs : p \in {t.pair} => pair[p] # None
      BY <2>2 DEF Active
    <3>. QED  BY <1>2, <2>1, <3>1, RevokedRows
  <2>4. OAuthRows' /\ OAuthBooks'
    BY <1>2, <2>1, <2>3, BooksKeptBelow DEF OAuthRows
  <2>5. t.of \notin ended /\ Spent(t.of)
    BY <2>1, <2>2 DEF OAuthBooks, Active
  <2>6. \A p \in Pairs : (Active(p) => pair[p].of # t.of)'
    <3>1. \A p \in Pairs : Active(p)' => Active(p) /\ p # t.pair /\ pair'[p].of = pair[p].of
      BY <2>3 DEF Active
    <3>. QED  BY <2>1, <2>2, <3>1 DEF OAuthBooks
  <2>7. OAuthTask("pair:insert", t)'
    BY <1>2, <2>2, <2>5, <2>6 DEF OAuthTask, Spent, LiveApp
  <2>. QED  BY <2>4, <2>7
<1>. QED  BY <1>2, <1>3, OAuthGoes

LEMMA OAuthInvStep ==
  ASSUME Handlers, Alone, OAuthInv, [Next]_vars
  PROVE  OAuthInv'
<1>1. overlapped => overlapped'
  BY AloneStep
<1>2. CASE UNCHANGED oauth /\ Away(OAuthLabels)
  BY <1>1, <1>2, OAuthStays
<1>3. CASE Restart
  <2>1. UNCHANGED oauth /\ \A r \in Requests : pc'[r] = "idle"
    BY <1>3 DEF Restart, ServerRestart, oauth, admission
  <2>. QED  BY <1>1, <2>1, OAuthStays
<1>4. ASSUME NEW r \in Requests, DropRequest(r) \/ ConsentRequest(r) \/ TokenRequest(r)
      PROVE  OAuthInv'
  BY <1>4, DeleteClientKeeps, AuthorizeKeeps, ExchangeCodeKeeps, RefreshAccessTokenKeeps
  DEF DropRequest, ConsentRequest, TokenRequest
<1>5. ASSUME NEW r \in Requests, OAuthStep(r) PROVE OAuthInv'
  BY <1>5, RevokeTokensByClientKeeps, DeleteAppKeeps, CreateAuthorizationCodeKeeps,
     FindsAppKeeps, MarkCodeUsedKeeps, CreateTokenKeeps, RefreshRevokesKeeps DEF OAuthStep
<1>6. CASE OAuthNext
  BY <1>4, <1>5, <1>6, RegisterClientKeeps, RevokeTokenKeeps, TokensExpireKeeps
  DEF OAuthNext, AppRequest, RevokeRequest
<1>. QED  BY <1>2, <1>3, <1>6, OAuthFrame

\* The part of CredentialsWorkOnce about codes and tokens.
LEMMA CodesWorkOnce ==
  ASSUME OAuthInv, OneByOne
  PROVE  /\ \A c \in Codes : Cardinality(ActivePairs(c)) <= (IF c \in ended THEN 0 ELSE 1)
         /\ \A p \in Pairs : Honoured(p) => LiveApp(pair[p].app) \/ code[pair[p].of].pkce
<1>1. OAuthBooks
  BY DEF OAuthInv, OneByOne
<1>2. ASSUME NEW c \in Codes
      PROVE  Cardinality(ActivePairs(c)) <= (IF c \in ended THEN 0 ELSE 1)
  <2>1. \A p, q \in ActivePairs(c) : p = q /\ c \notin ended
    BY <1>1 DEF OAuthBooks, Active, ActivePairs
  <2>2. CASE ActivePairs(c) = {}
    BY <2>2, FS_EmptySet
  <2>3. CASE ActivePairs(c) # {}
    <3>1. PICK p \in ActivePairs(c) : ActivePairs(c) = {p}
      BY <2>1, <2>3
    <3>2. Cardinality(ActivePairs(c)) = 1
      BY <3>1, FS_Singleton
    <3>. QED  BY <2>1, <3>1, <3>2
  <2>. QED  BY <2>2, <2>3
<1>. QED  BY <1>1, <1>2 DEF OAuthBooks

\* A reset link changes a password at most once and a user has one that works at most,
\* whatever interleaves; without a restart a link that is used up has changed it, unless
\* bcrypt has refused the new password, and then it has not.  One request at a time a code stands for one pair of tokens, for none
\* once they were revoked, and none is honoured whose app is gone.
THEOREM CredentialsAlwaysWorkOnce == Spec => []CredentialsWorkOnce
<1>1. Init => Handlers /\ Alone /\ AccountsInv /\ OAuthInv
  BY HandlersInit, AloneInit, AccountsInvInit, OAuthInvInit
<1>2. Handlers /\ Alone /\ AccountsInv /\ OAuthInv /\ [Next]_vars
        => (Handlers /\ Alone /\ AccountsInv /\ OAuthInv)'
  BY HandlersStep, AloneStep, AccountsInvStep, OAuthInvStep
<1>3. AccountsInv /\ OAuthInv => CredentialsWorkOnce
  BY LinksWorkOnce, CodesWorkOnce DEF CredentialsWorkOnce
<1>. QED  BY <1>1, <1>2, <1>3, PTL DEF Spec

-----------------------------------------------------------------------------
(* The students' databases *)

Creating == {"db:role", "db:create", "db:grant", "db:insert"}

Dropping == {"drop:db", "drop:role", "drop:row", "byname:exists"}

Reconciling == {"reconcile:next", "reconcile:remove"}

\* The labels at which a handler answers for a role without a database, and for a
\* database without a row.
Awaiting == {"db:create", "drop:role"}

Backing == {"db:grant", "db:insert", "drop:db"}

\* What a handler remembers at its label, whatever interleaves.
DbTask(p, t) ==
  /\ p \in Creating =>
       /\ t.user \in Users /\ t.project \in Projects /\ t.then = "answer"
       /\ t.name = DbName(t.user, t.project)
  /\ p \in Dropping => t.then \in {"answer", "row"}
  /\ p \in {"drop:row", "byname:exists"} => t.then = "row"
  /\ p \in Dropping /\ t.then = "row" =>
       t.id \in DbIds /\ userdb[t.id] # None /\ userdb[t.id].name = t.name
  /\ p \in Reconciling =>
       /\ t.todo \in Seq(DbIds)
       /\ \A k \in 1 .. Len(t.todo) : userdb[t.todo[k]] # None
  /\ p = "reconcile:remove" => t.todo # <<>>

DbSound ==
  /\ userdb \in [DbIds -> DbRows \cup {None}]
  /\ pgdb \subseteq pgrole /\ outages \in Nat
  /\ IsFiniteSet(LiveDbs)
  /\ \A i, j \in LiveDbs : userdb[i].name = userdb[j].name => i = j

RemovesAt(p, t, i) ==
  \/ p = "drop:row" /\ t.id = i
  \/ p = "reconcile:remove" /\ Head(t.todo) = i

Deals(r, n, L) == pc[r] \in L /\ task[r].name = n

\* Whatever is at PostgreSQL has a row, or a handler that will give it one or drop it,
\* and so has what a row that is about to go leaves there.
Backed ==
  /\ \A n \in pgrole \ pgdb : \E r \in Requests : Deals(r, n, Awaiting)
  /\ \A n \in pgdb :
       \/ \E i \in LiveDbs : userdb[i].name = n
       \/ \E r \in Requests : Deals(r, n, Backing)
  /\ \A r \in Requests, i \in LiveDbs : RemovesAt(pc[r], task[r], i) /\ HasDb(i) =>
       \E q \in Requests : Deals(q, userdb[i].name, Backing)

DbQuota == \A u \in Users : Cardinality(DbsOf(u)) <= MaxPerUser

\* What a handler that is alone may rely on besides ...
DbSerialTask(p, t) ==
  /\ p \in Creating => Cardinality(DbsOf(t.user)) < MaxPerUser
  /\ outages = 0 /\ p \in Reconciling =>
       \A i \in LiveDbs : HasDb(i) \/ \E k \in 1 .. Len(t.todo) : t.todo[k] = i

Unnamed(n) == \A i \in LiveDbs : userdb[i].name # n

\* ... and if there was no restart and no failure, and no operator drops databases.
DbKeptTask(p, t) ==
  /\ p = "db:create" => t.name \in pgrole \ pgdb
  /\ p \in {"db:grant", "db:insert"} => t.name \in pgdb
  /\ p \in {"db:create", "db:grant", "db:insert"} => Unnamed(t.name)
  /\ p \in {"drop:db", "drop:role"} /\ t.then = "answer" => Unnamed(t.name)
  /\ p = "drop:role" => t.name \notin pgdb
  /\ p \in Dropping /\ t.then = "row" => t.id \in LiveDbs

DeletingAt(p, t, i) == p \in {"drop:role", "drop:row"} /\ t.then = "row" /\ t.id = i

DbKept ==
  /\ \A i \in LiveDbs : HasDb(i) \/ \E r \in Requests : DeletingAt(pc[r], task[r], i)
  /\ \A r \in Requests : DbKeptTask(pc[r], task[r])

DatabasesInv ==
  /\ DbSound
  /\ \A r \in Requests : DbTask(pc[r], task[r])
  /\ restarts = 0 /\ outages = 0 => Backed
  /\ ~overlapped => DbQuota /\ \A r \in Requests : DbSerialTask(pc[r], task[r])
  /\ ~overlapped /\ outages = 0 /\ restarts = 0 /\ "DropByHand" \notin workload => DbKept

LEMMA DatabasesFrame ==
  ASSUME Handlers, [Next]_vars
  PROVE  DatabasesNext \/ Restart \/ (UNCHANGED databases /\ Away(DatabasesLabels))
<1>1. "idle" \notin DatabasesLabels /\ DatabasesLabels \cap Shared = {}
  <2>1. /\ "idle" \notin DatabasesLabels /\ DatabasesLabels \cap ClassroomLabels = {}
        /\ DatabasesLabels \cap EnsureThens = {} /\ DatabasesLabels \cap BankLabels = {}
        /\ DatabasesLabels \cap GrantsLabels = {}
    BY DEF DatabasesLabels, ClassroomLabels, EnsureLabels, EnsureThens, BankLabels, GrantsLabels
  <2>2. DatabasesLabels \cap PostsLabels = {} /\ DatabasesLabels \cap FilesLabels = {}
    BY DEF DatabasesLabels, PostsLabels, FilesLabels
  <2>3. DatabasesLabels \cap MessagesTo = {} /\ DatabasesLabels \cap HubTo = {}
        /\ DatabasesLabels \cap {"ensure:select", "dm:insert", "notice:insert"} = {}
    BY DEF DatabasesLabels, MessagesTo, MessagesLabels, HubTo, HubLabels
  <2>. QED  BY <2>1, <2>2, <2>3 DEF Shared
<1>2. /\ BillingLabels \cap DatabasesLabels = {} /\ ChatLabels \cap DatabasesLabels = {}
      /\ MailLabels \cap DatabasesLabels = {} /\ ServicesLabels \cap DatabasesLabels = {}
  BY DEF DatabasesLabels, BillingLabels, ChatLabels, MailLabels, ServicesLabels
<1>3. /\ MilestonesLabels \cap DatabasesLabels = {} /\ OAuthLabels \cap DatabasesLabels = {}
      /\ AccountsLabels \cap DatabasesLabels = {} /\ KnowledgeLabels \cap DatabasesLabels = {}
  BY DEF DatabasesLabels, MilestonesLabels, OAuthLabels, AccountsLabels, KnowledgeLabels
<1>4. DatabasesNext \/ Restart \/ UNCHANGED databases
  BY DEF Next, Quiet, vars, ToolsNext, tools, HubOnly
<1>5. DatabasesNext \/ Restart \/ Away(DatabasesLabels)
  BY <1>1, <1>2, <1>3, AwayFrom
<1>. QED  BY <1>4, <1>5

LEMMA DatabasesInvInit == Init => DatabasesInv
<1> SUFFICES ASSUME Init PROVE DatabasesInv
  OBVIOUS
<1>1. /\ userdb = [i \in DbIds |-> None] /\ pgrole = {} /\ pgdb = {} /\ outages = 0
      /\ \A r \in Requests : pc[r] = "idle"
  BY DEF Init, DatabasesInit, ServerInit
<1>2. LiveDbs = {} /\ \A u \in Users : DbsOf(u) = {}
  BY <1>1 DEF LiveDbs, DbsOf
<1>3. IsFiniteSet({}) /\ Cardinality({}) = 0
  BY FS_EmptySet
<1>4. DbSound
  BY <1>1, <1>2, <1>3 DEF DbSound
<1>5. DbQuota
  BY <1>2, <1>3, DatabasesAssumption DEF DbQuota
<1>6. Backed
  BY <1>1, <1>2 DEF Backed
<1>7. ASSUME NEW r \in Requests
      PROVE  DbTask(pc[r], task[r]) /\ DbSerialTask(pc[r], task[r]) /\ DbKeptTask(pc[r], task[r])
  BY <1>1 DEF DbTask, DbSerialTask, DbKeptTask, Creating, Dropping, Reconciling
<1>8. DbKept
  BY <1>2, <1>7 DEF DbKept
<1>. QED  BY <1>4, <1>5, <1>6, <1>7, <1>8 DEF DatabasesInv

\* The labels that the invariant speaks of.
LEMMA DbLabels ==
  /\ Creating \cup Dropping \cup Reconciling \cup Awaiting \cup Backing \subseteq DatabasesLabels
  /\ "idle" \notin DatabasesLabels
BY DEF Creating, Dropping, Reconciling, Awaiting, Backing, DatabasesLabels

LEMMA DatabasesStay ==
  ASSUME Handlers, DatabasesInv, Alone, [Next]_vars, overlapped => overlapped',
         workload' = workload, UNCHANGED databases, Away(DatabasesLabels)
  PROVE  DatabasesInv'
<1>1. UNCHANGED <<userdb, pgrole, pgdb, outages>>
  BY DEF databases
<1>2. LiveDbs' = LiveDbs /\ \A u : DbsOf(u)' = DbsOf(u)
  BY <1>1 DEF LiveDbs, DbsOf
<1>3. DbSound'
  BY <1>1, <1>2 DEF DatabasesInv, DbSound
<1>4. ASSUME NEW r \in Requests
      PROVE  \/ pc'[r] = pc[r] /\ task'[r] = task[r]
             \/ pc'[r] \notin DatabasesLabels /\ pc[r] \notin DatabasesLabels
  BY DEF Away
<1>5. ASSUME NEW r \in Requests PROVE DbTask(pc[r], task[r])'
  <2>1. CASE pc'[r] = pc[r] /\ task'[r] = task[r]
    BY <1>1, <2>1 DEF DatabasesInv, DbTask
  <2>2. CASE pc'[r] \notin DatabasesLabels
    BY <2>2 DEF DbTask, DatabasesLabels, Creating, Dropping, Reconciling
  <2>. QED  BY <1>4, <2>1, <2>2
<1>6. restarts' = 0 => restarts = 0
  BY Unrestarted
<1>7. ASSUME Backed PROVE Backed'
  <2>1. ASSUME NEW r \in Requests, NEW n
        PROVE  Deals(r, n, Awaiting)' = Deals(r, n, Awaiting)
               /\ Deals(r, n, Backing)' = Deals(r, n, Backing)
    BY <1>4, DbLabels DEF Deals
  <2>2. ASSUME NEW r \in Requests, NEW i
        PROVE  RemovesAt(pc[r], task[r], i)' = RemovesAt(pc[r], task[r], i)
    BY <1>4 DEF RemovesAt, DatabasesLabels
  <2>. QED  BY <1>1, <1>2, <1>7, <2>1, <2>2 DEF Backed, HasDb
<1>8. ASSUME ~overlapped' PROVE (DbQuota /\ \A r \in Requests : DbSerialTask(pc[r], task[r]))'
  <2>1. DbQuota'
    BY <1>2, <1>8 DEF DatabasesInv, DbQuota
  <2>2. ASSUME NEW r \in Requests PROVE DbSerialTask(pc[r], task[r])'
    <3>1. CASE pc'[r] = pc[r] /\ task'[r] = task[r]
      BY <1>1, <1>2, <1>8, <3>1 DEF DatabasesInv, DbSerialTask, HasDb
    <3>2. CASE pc'[r] \notin DatabasesLabels
      BY <3>2, DbLabels DEF DbSerialTask
    <3>. QED  BY <1>4, <3>1, <3>2
  <2>. QED  BY <2>1, <2>2
<1>9. ASSUME DbKept PROVE DbKept'
  <2>1. ASSUME NEW r \in Requests PROVE DbKeptTask(pc[r], task[r])'
    <3>1. CASE pc'[r] = pc[r] /\ task'[r] = task[r]
      BY <1>1, <1>2, <1>9, <3>1 DEF DbKept, DbKeptTask, Unnamed
    <3>2. CASE pc'[r] \notin DatabasesLabels
      BY <3>2 DEF DbKeptTask, DatabasesLabels, Dropping
    <3>. QED  BY <1>4, <3>1, <3>2
  <2>2. ASSUME NEW r \in Requests, NEW i
        PROVE  DeletingAt(pc[r], task[r], i)' = DeletingAt(pc[r], task[r], i)
    BY <1>4 DEF DeletingAt, DatabasesLabels
  <2>. QED  BY <1>1, <1>2, <1>9, <2>1, <2>2 DEF DbKept, HasDb
<1>. QED  BY <1>1, <1>3, <1>5, <1>6, <1>7, <1>8, <1>9 DEF DatabasesInv

LEMMA DatabasesRestarts ==
  ASSUME DatabasesInv, Alone, Restart
  PROVE  DatabasesInv'
<1>1. /\ overlapped' = overlapped /\ restarts' = restarts + 1
      /\ UNCHANGED <<userdb, pgrole, pgdb, outages>>
      /\ \A r \in Requests : pc'[r] = "idle"
  BY DEF Restart, ServerRestart, databases
<1>2. LiveDbs' = LiveDbs /\ \A u : DbsOf(u)' = DbsOf(u)
  BY <1>1 DEF LiveDbs, DbsOf
<1>3. restarts' # 0
  BY <1>1 DEF Alone
<1>4. DbSound'
  BY <1>1, <1>2 DEF DatabasesInv, DbSound
<1>5. ASSUME NEW r \in Requests PROVE (DbTask(pc[r], task[r]) /\ DbSerialTask(pc[r], task[r]))'
  BY <1>1 DEF DbTask, DbSerialTask, Creating, Dropping, Reconciling
<1>. QED  BY <1>1, <1>2, <1>3, <1>4, <1>5 DEF DatabasesInv, DbQuota

\* Rows stay, with their names.
RowsStand ==
  \A i \in DbIds : userdb[i] # None =>
    userdb'[i] # None /\ userdb'[i].name = userdb[i].name

LEMMA DbTaskKept ==
  ASSUME NEW p, NEW t, DbTask(p, t), RowsStand
  PROVE  DbTask(p, t)'
<1>1. p \in Dropping /\ t.then = "row" =>
        t.id \in DbIds /\ userdb'[t.id] # None /\ userdb'[t.id].name = t.name
  BY DEF DbTask, RowsStand
<1>2. ASSUME p \in Reconciling
      PROVE  \A k \in 1 .. Len(t.todo) : userdb'[t.todo[k]] # None
  <2>1. \A k \in 1 .. Len(t.todo) : t.todo[k] \in DbIds /\ userdb[t.todo[k]] # None
    BY <1>2 DEF DbTask
  <2>. QED  BY <2>1 DEF RowsStand
<1>. QED  BY <1>1, <1>2 DEF DbTask

\* A step of one handler, and what the others do.
DbMoved(r, p, t) ==
  \A q \in Requests : /\ pc'[q] = (IF q = r THEN p ELSE pc[q])
                      /\ task'[q] = (IF q = r THEN t ELSE task[q])

\* What a step has to leave at PostgreSQL, when the rows stay.
LEMMA BackedAt ==
  ASSUME NEW r \in Requests, NEW p, NEW t, DbMoved(r, p, t), Backed,
         LiveDbs' = LiveDbs, \A i \in LiveDbs : userdb'[i].name = userdb[i].name,
         \A n \in pgrole' \ pgdb' : \/ p \in Awaiting /\ t.name = n
                                    \/ n \in pgrole \ pgdb /\ ~Deals(r, n, Awaiting),
         \A n \in pgdb' : \/ p \in Backing /\ t.name = n
                          \/ n \in pgdb /\ ~Deals(r, n, Backing),
         \A i \in LiveDbs : RemovesAt(p, t, i) => userdb[i].name \notin pgdb'
  PROVE  Backed'
<1>1. ASSUME NEW q \in Requests, q # r, NEW n
      PROVE  /\ Deals(q, n, Awaiting)' = Deals(q, n, Awaiting)
             /\ Deals(q, n, Backing)' = Deals(q, n, Backing)
  BY <1>1 DEF DbMoved, Deals
<1>2. ASSUME NEW n
      PROVE  /\ Deals(r, n, Awaiting)' = (p \in Awaiting /\ t.name = n)
             /\ Deals(r, n, Backing)' = (p \in Backing /\ t.name = n)
  BY DEF DbMoved, Deals
<1>3. ASSUME NEW n \in pgrole' \ pgdb' PROVE \E q \in Requests : Deals(q, n, Awaiting)'
  BY <1>1, <1>2 DEF Backed
<1>4. ASSUME NEW n \in pgdb'
      PROVE  \/ \E i \in LiveDbs : userdb[i].name = n
             \/ \E q \in Requests : Deals(q, n, Backing)'
  BY <1>1, <1>2 DEF Backed
<1>5. ASSUME NEW q \in Requests, NEW i \in LiveDbs, RemovesAt(pc'[q], task'[q], i),
             userdb[i].name \in pgdb'
      PROVE  \E h \in Requests : Deals(h, userdb[i].name, Backing)'
  <2>1. q # r /\ RemovesAt(pc[q], task[q], i)
    BY <1>5 DEF DbMoved
  <2>2. CASE p \in Backing /\ t.name = userdb[i].name
    BY <2>2, <1>2
  <2>3. CASE userdb[i].name \in pgdb /\ ~Deals(r, userdb[i].name, Backing)
    <3>1. HasDb(i)
      BY <2>3 DEF HasDb
    <3>2. PICK h \in Requests : Deals(h, userdb[i].name, Backing)
      BY <2>1, <3>1 DEF Backed
    <3>. QED  BY <2>3, <3>2, <1>1
  <2>. QED  BY <1>5, <2>2, <2>3
<1>6. \A i \in LiveDbs : HasDb(i)' = (userdb[i].name \in pgdb')
  BY DEF HasDb
<1>7. \A n \in pgrole' \ pgdb' : \E q \in Requests : Deals(q, n, Awaiting)'
  BY <1>3
<1>8. \A n \in pgdb' : \/ \E i \in LiveDbs' : userdb'[i].name = n
                       \/ \E q \in Requests : Deals(q, n, Backing)'
  BY <1>4
<1>9. ASSUME NEW q \in Requests, NEW i \in LiveDbs', RemovesAt(pc[q], task[q], i)', HasDb(i)'
      PROVE  \E h \in Requests : Deals(h, userdb[i].name, Backing)'
  <2>1. i \in LiveDbs /\ RemovesAt(pc'[q], task'[q], i) /\ userdb[i].name \in pgdb'
    BY <1>6, <1>9 DEF RemovesAt
  <2>2. PICK h \in Requests : Deals(h, userdb[i].name, Backing)'
    BY <1>5, <2>1
  <2>3. PICK n : n = userdb[i].name
    OBVIOUS
  <2>4. userdb'[i].name = n
    BY <2>1, <2>3
  <2>. QED  BY <2>2, <2>3, <2>4 DEF Deals
<1>. QED  BY <1>7, <1>8, <1>9 DEF Backed

LEMMA DbGoes ==
  ASSUME Handlers, Alone, DatabasesInv, NEW r \in Requests, pc[r] # "idle", NEW p, NEW t,
         GotoWith(r, p, t), DbSound', RowsStand, DbTask(p, t)', 
         restarts = 0 /\ outages' = 0 => Backed',
         ~overlapped => DbQuota' /\ DbSerialTask(p, t)',
         ~overlapped /\ outages' = 0 /\ restarts = 0 /\ "DropByHand" \notin workload =>
           /\ \A i \in LiveDbs' : HasDb(i)' \/ DeletingAt(p, t, i)
           /\ DbKeptTask(p, t)'
  PROVE  DatabasesInv'
<1>1. DbMoved(r, p, t) /\ restarts' = restarts /\ overlapped' = overlapped
      /\ workload' = workload
  <2>1. \A q \in Requests : /\ pc'[q] = (IF q = r THEN p ELSE pc[q])
                            /\ task'[q] = (IF q = r THEN t ELSE task[q])
    BY OneGoes
  <2>. QED  BY <2>1 DEF DbMoved, GotoWith, control
<1>2. \A q \in Requests : DbTask(pc[q], task[q])'
  <2> SUFFICES ASSUME NEW q \in Requests PROVE DbTask(pc[q], task[q])'
    OBVIOUS
  <2>1. CASE q = r
    <3>1. pc'[q] = p /\ task'[q] = t
      BY <1>1, <2>1 DEF DbMoved
    <3>. QED  BY <3>1 DEF DbTask
  <2>2. CASE q # r
    <3>1. PICK pq, tq : pq = pc[q] /\ tq = task[q]
      OBVIOUS
    <3>2. DbTask(pq, tq)'
      BY <3>1, DbTaskKept DEF DatabasesInv
    <3>3. pc'[q] = pq /\ task'[q] = tq
      BY <1>1, <2>2, <3>1 DEF DbMoved
    <3>. QED  BY <3>2, <3>3 DEF DbTask
  <2>. QED  BY <2>1, <2>2
<1>3. ASSUME ~overlapped, NEW q \in Requests, q # r PROVE pc'[q] = "idle"
  BY <1>3, OthersIdle
<1>4. pc'[r] = p /\ task'[r] = t
  BY <1>1 DEF DbMoved
<1>5. ASSUME ~overlapped, NEW q \in Requests PROVE DbSerialTask(pc[q], task[q])'
  <2>1. CASE q = r
    BY <2>1, <1>4, <1>5 DEF DbSerialTask, HasDb
  <2>2. CASE q # r
    BY <2>2, <1>3, <1>5 DEF DbSerialTask, Creating, Reconciling
  <2>. QED  BY <2>1, <2>2
<1>6. ASSUME ~overlapped, outages' = 0, restarts = 0, "DropByHand" \notin workload
      PROVE  DbKept'
  <2>1. ASSUME NEW i \in LiveDbs'
        PROVE  HasDb(i)' \/ \E q \in Requests : DeletingAt(pc'[q], task'[q], i)
    BY <1>4, <1>6, <2>1
  <2>2. ASSUME NEW q \in Requests PROVE DbKeptTask(pc[q], task[q])'
    <3>1. CASE q = r
      BY <3>1, <1>4, <1>6 DEF DbKeptTask, Unnamed
    <3>2. CASE q # r
      BY <3>2, <1>3, <1>6 DEF DbKeptTask, Dropping
    <3>. QED  BY <3>1, <3>2
  <2>. QED  BY <2>1, <2>2 DEF DbKept, DeletingAt
<1>. QED  BY <1>1, <1>2, <1>5, <1>6 DEF DatabasesInv

\* What a handler that is alone finds.
LEMMA DbAlone ==
  ASSUME Handlers, Alone, DatabasesInv, NEW r \in Requests, pc[r] # "idle",
         ~overlapped, outages = 0, restarts = 0, "DropByHand" \notin workload
  PROVE  /\ \A i \in LiveDbs : HasDb(i) \/ DeletingAt(pc[r], task[r], i)
         /\ DbKeptTask(pc[r], task[r])
<1>1. \A q \in Requests : q # r => pc[q] = "idle"
  BY DEF Alone, Idle
<1>2. DbKept
  BY DEF DatabasesInv
<1>. QED  BY <1>1, <1>2 DEF DbKept, DeletingAt

\* A step that leaves what there is as it is.
DbStands == UNCHANGED <<userdb, pgrole, pgdb>> /\ outages' \in {outages, outages + 1}

LEMMA DbStandsFor ==
  ASSUME DatabasesInv, DbStands
  PROVE  /\ DbSound' /\ RowsStand /\ DbQuota' = DbQuota
         /\ LiveDbs' = LiveDbs /\ \A i \in LiveDbs : HasDb(i)' = HasDb(i)
         /\ \A i \in LiveDbs : userdb'[i].name = userdb[i].name
         /\ outages' = 0 => outages = 0
         /\ \A u : DbsOf(u)' = DbsOf(u)
<1>1. UNCHANGED <<userdb, pgrole, pgdb>> /\ (outages' = outages \/ outages' = outages + 1)
  BY DEF DbStands
<1>2. outages \in Nat
  BY DEF DatabasesInv, DbSound
<1>3. LiveDbs' = LiveDbs /\ \A u : DbsOf(u)' = DbsOf(u)
  BY <1>1 DEF LiveDbs, DbsOf
<1>4. outages' \in Nat /\ (outages' = 0 => outages = 0)
  BY <1>1, <1>2
<1>5. DbSound'
  BY <1>1, <1>3, <1>4 DEF DatabasesInv, DbSound
<1>. QED  BY <1>1, <1>3, <1>4, <1>5 DEF RowsStand, DbQuota, HasDb

\* A statement at PostgreSQL that fails.
LEMMA DbFails ==
  ASSUME Handlers, Alone, DatabasesInv, NEW r \in Requests, pc[r] # "idle", NEW p, NEW t,
         GotoWith(r, p, t), Fails, UNCHANGED <<userdb, pgrole, pgdb>>, DbTask(p, t),
         p \notin Creating
  PROVE  DatabasesInv'
<1>1. DbStands /\ outages' # 0
  BY DEF DbStands, Fails, DatabasesInv, DbSound
<1>2. DbSound' /\ RowsStand /\ DbQuota' = DbQuota
  BY <1>1, DbStandsFor
<1>3. DbTask(p, t)'
  BY <1>2, DbTaskKept
<1>4. DbSerialTask(p, t)'
  BY <1>1 DEF DbSerialTask
<1>. QED  BY <1>1, <1>2, <1>3, <1>4, DbGoes DEF DatabasesInv

\* A step that only moves its handler.
LEMMA DbTurns ==
  ASSUME Handlers, Alone, DatabasesInv, NEW r \in Requests, pc[r] # "idle", NEW p, NEW t,
         GotoWith(r, p, t), UNCHANGED <<userdb, pgrole, pgdb, outages>>, DbTask(p, t),
         \A n \in pgrole \ pgdb : Deals(r, n, Awaiting) => p \in Awaiting /\ t.name = n,
         \A n \in pgdb : Deals(r, n, Backing) => p \in Backing /\ t.name = n,
         \A i \in LiveDbs : RemovesAt(p, t, i) => ~HasDb(i),
         ~overlapped => DbSerialTask(p, t),
         ~overlapped /\ outages = 0 /\ DbKeptTask(pc[r], task[r])
           /\ (\A i \in LiveDbs : HasDb(i) \/ DeletingAt(pc[r], task[r], i)) =>
           /\ \A i \in LiveDbs : HasDb(i) \/ DeletingAt(p, t, i)
           /\ DbKeptTask(p, t)
  PROVE  DatabasesInv'
<1>1. DbStands
  BY DEF DbStands
<1>2. /\ DbSound' /\ RowsStand /\ DbQuota' = DbQuota
      /\ LiveDbs' = LiveDbs /\ \A i \in LiveDbs : HasDb(i)' = HasDb(i)
      /\ \A i \in LiveDbs : userdb'[i].name = userdb[i].name
      /\ \A u : DbsOf(u)' = DbsOf(u)
  BY <1>1, DbStandsFor
<1>3. DbTask(p, t)'
  BY <1>2, DbTaskKept
<1>4. DbMoved(r, p, t)
  <2>1. \A q \in Requests : /\ pc'[q] = (IF q = r THEN p ELSE pc[q])
                            /\ task'[q] = (IF q = r THEN t ELSE task[q])
    BY OneGoes
  <2>. QED  BY <2>1 DEF DbMoved
<1>5. ASSUME restarts = 0, outages' = 0 PROVE Backed'
  <2>1. Backed
    BY <1>5 DEF DatabasesInv
  <2>2. \A n \in pgrole' \ pgdb' : \/ p \in Awaiting /\ t.name = n
                                   \/ n \in pgrole \ pgdb /\ ~Deals(r, n, Awaiting)
    OBVIOUS
  <2>3. \A n \in pgdb' : \/ p \in Backing /\ t.name = n
                         \/ n \in pgdb /\ ~Deals(r, n, Backing)
    OBVIOUS
  <2>4. \A i \in LiveDbs : RemovesAt(p, t, i) => userdb[i].name \notin pgdb'
    BY DEF HasDb
  <2>. QED  BY <1>2, <1>4, <2>1, <2>2, <2>3, <2>4, BackedAt
<1>6. ~overlapped => DbQuota' /\ DbSerialTask(p, t)'
  BY <1>2 DEF DatabasesInv, DbSerialTask
<1>7. ASSUME ~overlapped, outages' = 0, restarts = 0, "DropByHand" \notin workload
      PROVE  /\ \A i \in LiveDbs' : HasDb(i)' \/ DeletingAt(p, t, i)
             /\ DbKeptTask(p, t)'
  <2>1. /\ \A i \in LiveDbs : HasDb(i) \/ DeletingAt(p, t, i)
        /\ DbKeptTask(p, t)
    BY <1>7, DbAlone
  <2>2. DbKeptTask(p, t)'
    BY <1>2, <2>1 DEF DbKeptTask, Unnamed
  <2>. QED  BY <1>2, <2>1, <2>2
<1>. QED  BY <1>2, <1>3, <1>5, <1>6, <1>7, DbGoes

\* A request that has only read.
LEMMA DbReceives ==
  ASSUME Handlers, Alone, DatabasesInv, NEW r \in Requests, NEW kind, NEW p, NEW t,
         Receive(r, kind, p, t), UNCHANGED databases, DbTask(p, t), DbSerialTask(p, t),
         p \notin {"drop:row", "reconcile:remove", "db:create", "db:grant", "db:insert",
                   "drop:role"},
         p \in Dropping => t.then = "row" /\ t.id \in LiveDbs
  PROVE  DatabasesInv'
<1>1. UNCHANGED <<userdb, pgrole, pgdb, outages>>
  BY DEF databases
<1>2. DbStands
  BY <1>1 DEF DbStands
<1>3. /\ DbSound' /\ RowsStand /\ DbQuota' = DbQuota
      /\ LiveDbs' = LiveDbs /\ \A i \in LiveDbs : HasDb(i)' = HasDb(i)
      /\ \A i \in LiveDbs : userdb'[i].name = userdb[i].name
      /\ \A u : DbsOf(u)' = DbsOf(u)
  BY <1>2, DbStandsFor
<1>4. DbMoved(r, p, t) /\ restarts' = restarts
  <2>1. /\ \A q \in Requests : /\ pc'[q] = (IF q = r THEN p ELSE pc[q])
                               /\ task'[q] = (IF q = r THEN t ELSE task[q])
        /\ restarts' = restarts
    BY OneGoes
  <2>. QED  BY <2>1 DEF DbMoved
<1>5. pc[r] = "idle" /\ workload' = workload /\ overlapped' = (overlapped \/ ~AllIdle)
  BY DEF Receive, Idle, Arrives
<1>6. \A q \in Requests : DbTask(pc[q], task[q])'
  <2> SUFFICES ASSUME NEW q \in Requests PROVE DbTask(pc[q], task[q])'
    OBVIOUS
  <2>1. PICK pq, tq : pq = pc'[q] /\ tq = task'[q]
    OBVIOUS
  <2>2. DbTask(pq, tq)
    BY <1>4, <2>1 DEF DbMoved, DatabasesInv
  <2>3. DbTask(pq, tq)'
    BY <1>3, <2>2, DbTaskKept
  <2>. QED  BY <2>1, <2>3 DEF DbTask
<1>7. ASSUME restarts = 0, outages' = 0 PROVE Backed'
  <2>1. Backed
    BY <1>1, <1>7 DEF DatabasesInv
  <2>2. \A n : ~Deals(r, n, Awaiting) /\ ~Deals(r, n, Backing)
    BY <1>5, DbLabels DEF Deals
  <2>3. \A i \in LiveDbs : ~RemovesAt(p, t, i)
    BY DEF RemovesAt
  <2>. QED  BY <1>1, <1>3, <1>4, <2>1, <2>2, <2>3, BackedAt
<1>8. ASSUME ~overlapped', NEW q \in Requests, q # r PROVE pc'[q] = "idle"
  BY <1>4, <1>5, <1>8 DEF AllIdle, Idle, DbMoved
<1>9. pc'[r] = p /\ task'[r] = t
  BY <1>4 DEF DbMoved
<1>10. ASSUME ~overlapped', NEW q \in Requests PROVE DbSerialTask(pc[q], task[q])'
  <2>1. CASE q = r
    BY <2>1, <1>1, <1>3, <1>9 DEF DbSerialTask
  <2>2. CASE q # r
    BY <2>2, <1>8, <1>10 DEF DbSerialTask, Creating, Reconciling
  <2>. QED  BY <2>1, <2>2
<1>11. ASSUME ~overlapped', outages' = 0, restarts = 0, "DropByHand" \notin workload
       PROVE  DbKept'
  <2>1. ASSUME NEW i \in LiveDbs PROVE HasDb(i)'
    <3>1. AllIdle /\ ~overlapped
      BY <1>5, <1>11
    <3>2. DbKept
      BY <1>1, <1>11, <3>1 DEF DatabasesInv
    <3>3. HasDb(i)
      BY <3>1, <3>2 DEF DbKept, DeletingAt, AllIdle, Idle
    <3>. QED  BY <1>3, <3>3
  <2>2. ASSUME NEW q \in Requests PROVE DbKeptTask(pc[q], task[q])'
    <3>1. CASE q = r
      BY <3>1, <1>3, <1>9 DEF DbKeptTask, Dropping
    <3>2. CASE q # r
      BY <3>2, <1>8, <1>11 DEF DbKeptTask, Dropping
    <3>. QED  BY <3>1, <3>2
  <2>. QED  BY <1>3, <2>1, <2>2 DEF DbKept
<1>12. ~overlapped' => DbQuota'
  BY <1>3, <1>5 DEF DatabasesInv
<1>. QED  BY <1>3, <1>4, <1>5, <1>6, <1>7, <1>10, <1>11, <1>12 DEF DatabasesInv

LEMMA ReturnsSafely ==
  ASSUME NEW t
  PROVE  /\ DbTask("idle", t) /\ DbSerialTask("idle", t) /\ DbKeptTask("idle", t)
         /\ \A i : ~RemovesAt("idle", t, i)
BY DEF DbTask, DbSerialTask, DbKeptTask, RemovesAt, Creating, Dropping, Reconciling

LEMMA CreateRoleKeeps ==
  ASSUME Handlers, Alone, DatabasesInv, NEW r \in Requests, CreateRole(r)
  PROVE  DatabasesInv'
<1> PICK t : t = task[r]
  OBVIOUS
<1>1. pc[r] = "db:role" /\ UNCHANGED <<userdb, pgdb>>
  BY DEF CreateRole, At
<1>2. DbTask("db:role", t) /\ (~overlapped => DbSerialTask("db:role", t))
  BY <1>1 DEF DatabasesInv
<1>3. DbTask("db:create", t) /\ (~overlapped => DbSerialTask("db:create", t))
  BY <1>2 DEF DbTask, DbSerialTask, Creating, Dropping, Reconciling
<1>4. CASE Works /\ t.name \notin pgrole /\ Goto(r, "db:create")
           /\ pgrole' = pgrole \cup {t.name}
  <2>1. GotoWith(r, "db:create", t) /\ outages' = outages
    BY <1>4 DEF Goto, Works
  <2>2. LiveDbs' = LiveDbs /\ \A u : DbsOf(u)' = DbsOf(u)
    BY <1>1 DEF LiveDbs, DbsOf
  <2>3. DbSound' /\ RowsStand
    BY <1>1, <1>4, <2>1, <2>2 DEF DatabasesInv, DbSound, RowsStand
  <2>4. DbTask("db:create", t)'
    BY <1>3, <2>3, DbTaskKept
  <2>5. ASSUME restarts = 0, outages' = 0 PROVE Backed'
    <3>1. Backed
      BY <2>1, <2>5 DEF DatabasesInv
    <3>2. DbMoved(r, "db:create", t)
      <4>1. \A q \in Requests : /\ pc'[q] = (IF q = r THEN "db:create" ELSE pc[q])
                                /\ task'[q] = (IF q = r THEN t ELSE task[q])
        BY <2>1, OneGoes
      <4>. QED  BY <4>1 DEF DbMoved
    <3>3. \A n : ~Deals(r, n, Awaiting) /\ ~Deals(r, n, Backing)
      BY <1>1 DEF Deals, Awaiting, Backing
    <3>4. \A n \in pgrole' \ pgdb' : \/ "db:create" \in Awaiting /\ t.name = n
                                     \/ n \in pgrole \ pgdb /\ ~Deals(r, n, Awaiting)
      BY <1>1, <1>4, <3>3 DEF Awaiting
    <3>5. \A i \in LiveDbs : ~RemovesAt("db:create", t, i)
      BY DEF RemovesAt
    <3>. QED  BY <1>1, <2>2, <3>1, <3>2, <3>3, <3>4, <3>5, BackedAt
  <2>6. ~overlapped => DbQuota' /\ DbSerialTask("db:create", t)'
    BY <1>3, <2>2 DEF DatabasesInv, DbQuota, DbSerialTask, Reconciling
  <2>7. ASSUME ~overlapped, outages' = 0, restarts = 0, "DropByHand" \notin workload
        PROVE  /\ \A i \in LiveDbs' : HasDb(i)' \/ DeletingAt("db:create", t, i)
               /\ DbKeptTask("db:create", t)'
    <3>1. \A i \in LiveDbs : HasDb(i) \/ DeletingAt(pc[r], task[r], i)
      BY <1>1, <2>1, <2>7, DbAlone
    <3>2. \A i \in LiveDbs : HasDb(i) /\ userdb[i].name # t.name
      BY <1>1, <1>4, <3>1 DEF DeletingAt, HasDb, DatabasesInv, DbSound
    <3>3. t.name \in pgrole' \ pgdb'
      BY <1>1, <1>4 DEF DatabasesInv, DbSound
    <3>4. DbKeptTask("db:create", t)'
      BY <1>1, <2>2, <3>2, <3>3 DEF DbKeptTask, Unnamed, Dropping
    <3>. QED  BY <1>1, <2>2, <3>2, <3>4 DEF HasDb
  <2>. QED  BY <1>1, <2>1, <2>3, <2>4, <2>5, <2>6, <2>7, DbGoes
<1>5. CASE Works /\ t.name \in pgrole /\ Return(r) /\ UNCHANGED pgrole
  <2>1. GotoWith(r, "idle", None) /\ UNCHANGED outages
    BY <1>5 DEF Return, Works
  <2>2. \A n : ~Deals(r, n, Awaiting) /\ ~Deals(r, n, Backing)
    BY <1>1 DEF Deals, Awaiting, Backing
  <2>3. \A i : ~DeletingAt(pc[r], task[r], i)
    BY <1>1 DEF DeletingAt
  <2>. QED  BY <1>1, <1>5, <2>1, <2>2, <2>3, ReturnsSafely, DbTurns
<1>6. CASE Fails /\ Return(r) /\ UNCHANGED pgrole
  <2>1. GotoWith(r, "idle", None) /\ "idle" \notin Creating
    BY <1>6 DEF Return, Creating
  <2>. QED  BY <1>1, <1>6, <2>1, ReturnsSafely, DbFails
<1>. QED  BY <1>4, <1>5, <1>6 DEF CreateRole

LEMMA CreateDbKeeps ==
  ASSUME Handlers, Alone, DatabasesInv, NEW r \in Requests, CreateDb(r)
  PROVE  DatabasesInv'
<1> PICK t : t = task[r]
  OBVIOUS
<1>1. pc[r] = "db:create" /\ UNCHANGED <<userdb, pgrole>>
  BY DEF CreateDb, At
<1>2. DbTask("db:create", t) /\ (~overlapped => DbSerialTask("db:create", t))
  BY <1>1 DEF DatabasesInv
<1>3. DbTask("db:grant", t) /\ (~overlapped => DbSerialTask("db:grant", t))
  BY <1>2 DEF DbTask, DbSerialTask, Creating, Dropping, Reconciling
<1>4. CASE Works /\ t.name \in pgrole \ pgdb /\ Goto(r, "db:grant")
           /\ pgdb' = pgdb \cup {t.name}
  <2>1. GotoWith(r, "db:grant", t) /\ outages' = outages
    BY <1>4 DEF Goto, Works
  <2>2. LiveDbs' = LiveDbs /\ \A u : DbsOf(u)' = DbsOf(u)
    BY <1>1 DEF LiveDbs, DbsOf
  <2>3. DbSound' /\ RowsStand
    BY <1>1, <1>4, <2>1, <2>2 DEF DatabasesInv, DbSound, RowsStand
  <2>4. DbTask("db:grant", t)'
    BY <1>3, <2>3, DbTaskKept
  <2>5. ASSUME restarts = 0, outages' = 0 PROVE Backed'
    <3>1. Backed
      BY <2>1, <2>5 DEF DatabasesInv
    <3>2. DbMoved(r, "db:grant", t)
      <4>1. \A q \in Requests : /\ pc'[q] = (IF q = r THEN "db:grant" ELSE pc[q])
                                /\ task'[q] = (IF q = r THEN t ELSE task[q])
        BY <2>1, OneGoes
      <4>. QED  BY <4>1 DEF DbMoved
    <3>3. \A n : (Deals(r, n, Awaiting) => n = t.name) /\ ~Deals(r, n, Backing)
      BY <1>1 DEF Deals, Backing
    <3>4. \A n \in pgrole' \ pgdb' : n \in pgrole \ pgdb /\ ~Deals(r, n, Awaiting)
      BY <1>1, <1>4, <3>3
    <3>5. \A n \in pgdb' : \/ "db:grant" \in Backing /\ t.name = n
                           \/ n \in pgdb /\ ~Deals(r, n, Backing)
      BY <1>4, <3>3 DEF Backing
    <3>6. \A i \in LiveDbs : ~RemovesAt("db:grant", t, i)
      BY DEF RemovesAt
    <3>. QED  BY <1>1, <2>2, <3>1, <3>2, <3>4, <3>5, <3>6, BackedAt
  <2>6. ~overlapped => DbQuota' /\ DbSerialTask("db:grant", t)'
    BY <1>3, <2>2 DEF DatabasesInv, DbQuota, DbSerialTask, Reconciling
  <2>7. ASSUME ~overlapped, outages' = 0, restarts = 0, "DropByHand" \notin workload
        PROVE  /\ \A i \in LiveDbs' : HasDb(i)' \/ DeletingAt("db:grant", t, i)
               /\ DbKeptTask("db:grant", t)'
    <3>1. /\ \A i \in LiveDbs : HasDb(i) \/ DeletingAt(pc[r], task[r], i)
          /\ DbKeptTask("db:create", t)
      BY <1>1, <2>1, <2>7, DbAlone
    <3>2. \A i \in LiveDbs : HasDb(i) /\ userdb[i].name # t.name
      BY <1>1, <3>1 DEF DeletingAt, DbKeptTask, Unnamed
    <3>3. DbKeptTask("db:grant", t)'
      BY <1>1, <1>4, <2>2, <3>2 DEF DbKeptTask, Unnamed, Dropping
    <3>. QED  BY <1>1, <1>4, <2>2, <3>2, <3>3 DEF HasDb
  <2>. QED  BY <1>1, <2>1, <2>3, <2>4, <2>5, <2>6, <2>7, DbGoes
<1>5. DbTask("drop:role", t) /\ "drop:role" \notin Creating
      /\ DbSerialTask("drop:role", t)
  BY <1>2 DEF DbTask, DbSerialTask, Creating, Dropping, Reconciling
<1>6. CASE Works /\ t.name \notin pgrole \ pgdb /\ Goto(r, "drop:role") /\ UNCHANGED pgdb
  <2>1. GotoWith(r, "drop:role", t) /\ UNCHANGED outages
    BY <1>6 DEF Goto, Works
  <2>2. /\ \A n : ~Deals(r, n, Backing)
        /\ \A n : Deals(r, n, Awaiting) => "drop:role" \in Awaiting /\ t.name = n
    BY <1>1 DEF Deals, Awaiting, Backing
  <2>3. ~DbKeptTask(pc[r], task[r])
    BY <1>1, <1>6 DEF DbKeptTask
  <2>4. \A i : ~RemovesAt("drop:role", t, i)
    BY DEF RemovesAt
  <2>. QED  BY <1>1, <1>5, <1>6, <2>1, <2>2, <2>3, <2>4, DbTurns
<1>7. CASE Fails /\ Goto(r, "drop:role") /\ UNCHANGED pgdb
  <2>1. GotoWith(r, "drop:role", t)
    BY <1>7 DEF Goto
  <2>. QED  BY <1>1, <1>5, <1>7, <2>1, DbFails
<1>. QED  BY <1>4, <1>6, <1>7 DEF CreateDb

LEMMA GrantDbKeeps ==
  ASSUME Handlers, Alone, DatabasesInv, NEW r \in Requests, GrantDb(r)
  PROVE  DatabasesInv'
<1> PICK t : t = task[r]
  OBVIOUS
<1>1. pc[r] = "db:grant" /\ UNCHANGED <<userdb, pgrole, pgdb>>
  BY DEF GrantDb, At
<1>2. DbTask("db:grant", t) /\ (~overlapped => DbSerialTask("db:grant", t))
  BY <1>1 DEF DatabasesInv
<1>3. /\ \A n : ~Deals(r, n, Awaiting)
      /\ \A n : Deals(r, n, Backing) => t.name = n
      /\ \A i : ~DeletingAt(pc[r], task[r], i)
  BY <1>1 DEF Deals, Awaiting, DeletingAt
<1>4. CASE Works /\ Goto(r, "db:insert")
  <2>1. GotoWith(r, "db:insert", t) /\ UNCHANGED outages /\ "db:insert" \in Backing
    BY <1>4 DEF Goto, Works, Backing
  <2>2. DbTask("db:insert", t) /\ (~overlapped => DbSerialTask("db:insert", t))
    BY <1>2 DEF DbTask, DbSerialTask, Creating, Dropping, Reconciling
  <2>3. DbKeptTask("db:grant", t) => DbKeptTask("db:insert", t)
    BY DEF DbKeptTask, Dropping
  <2>4. \A i : ~RemovesAt("db:insert", t, i)
    BY DEF RemovesAt
  <2>. QED  BY <1>1, <1>3, <2>1, <2>2, <2>3, <2>4, DbTurns
<1>5. DbTask("drop:db", t) /\ "drop:db" \notin Creating /\ DbSerialTask("drop:db", t)
  BY <1>2 DEF DbTask, DbSerialTask, Creating, Dropping, Reconciling
<1>6. CASE Works /\ t.name \notin pgdb \cap pgrole /\ Goto(r, "drop:db")
  <2>1. GotoWith(r, "drop:db", t) /\ UNCHANGED outages /\ "drop:db" \in Backing
    BY <1>6 DEF Goto, Works, Backing
  <2>2. ~DbKeptTask(pc[r], task[r])
    BY <1>1, <1>6 DEF DbKeptTask, DatabasesInv, DbSound
  <2>3. \A i : ~RemovesAt("drop:db", t, i)
    BY DEF RemovesAt
  <2>. QED  BY <1>1, <1>3, <1>5, <2>1, <2>2, <2>3, DbTurns
<1>7. CASE Fails /\ Goto(r, "drop:db")
  <2>1. GotoWith(r, "drop:db", t)
    BY <1>7 DEF Goto
  <2>. QED  BY <1>1, <1>5, <1>7, <2>1, DbFails
<1>. QED  BY <1>4, <1>6, <1>7 DEF GrantDb

\* A row, with its database.
LEMMA InsertDbKeeps ==
  ASSUME Handlers, Alone, DatabasesInv, NEW r \in Requests, InsertDb(r)
  PROVE  DatabasesInv'
<1> PICK t : t = task[r]
  OBVIOUS
<1>1. pc[r] = "db:insert" /\ UNCHANGED <<pgrole, pgdb, outages>>
  BY DEF InsertDb, At
<1>2. DbTask("db:insert", t) /\ (~overlapped => DbSerialTask("db:insert", t))
  BY <1>1 DEF DatabasesInv
<1>3. /\ \A n : ~Deals(r, n, Awaiting)
      /\ \A n : Deals(r, n, Backing) => t.name = n
      /\ \A i : ~DeletingAt(pc[r], task[r], i)
  BY <1>1 DEF Deals, Awaiting, DeletingAt
<1>4. CASE Goto(r, "drop:db") /\ UNCHANGED userdb
  <2>1. GotoWith(r, "drop:db", t) /\ "drop:db" \in Backing
    BY <1>4 DEF Goto, Backing
  <2>2. DbTask("drop:db", t) /\ DbSerialTask("drop:db", t)
    BY <1>2 DEF DbTask, DbSerialTask, Creating, Dropping, Reconciling
  <2>3. DbKeptTask("db:insert", t) => DbKeptTask("drop:db", t)
    <3>1. t.then = "answer"
      BY <1>2 DEF DbTask, Creating
    <3>. QED  BY <3>1 DEF DbKeptTask
  <2>4. \A i : ~RemovesAt("drop:db", t, i)
    BY DEF RemovesAt
  <2>. QED  BY <1>1, <1>3, <1>4, <2>1, <2>2, <2>3, <2>4, DbTurns
<1>5. ASSUME NEW i \in DbIds, userdb[i] = None, Return(r), \A j \in LiveDbs : userdb[j].name # t.name,
             userdb' = [userdb EXCEPT ![i] = DbRow(t.user, t.project)]
      PROVE  DatabasesInv'
  <2> DEFINE row == DbRow(t.user, t.project)
  <2>1. t.user \in Users /\ t.project \in Projects /\ t.name = DbName(t.user, t.project)
    BY <1>2 DEF DbTask, Creating
  <2>2. /\ row \in DbRows /\ row.name = t.name /\ row.live /\ row.user = t.user
        /\ row # None
    <3>1. Slug[t.user] \in Users
      BY <2>1, DatabasesAssumption
    <3>2. DbName(t.user, t.project) \in Users \X Projects
      BY <2>1, <3>1 DEF DbName
    <3>3. row \in DbRows
      BY <2>1, <3>2 DEF DbRow, DbRows
    <3>4. row # None
      BY <3>3, DatabasesAssumption
    <3>5. row.name = t.name /\ row.live /\ row.user = t.user
      BY <2>1 DEF DbRow
    <3>. QED  BY <3>3, <3>4, <3>5
  <2>3. /\ userdb \in [DbIds -> DbRows \cup {None}] /\ IsFiniteSet(LiveDbs)
        /\ \A j, k \in LiveDbs : userdb[j].name = userdb[k].name => j = k
    BY DEF DatabasesInv, DbSound
  <2>4. /\ userdb' \in [DbIds -> DbRows \cup {None}] /\ userdb'[i] = row
        /\ \A j \in DbIds : j # i => userdb'[j] = userdb[j]
    BY <1>5, <2>2, <2>3
  <2>5. LiveDbs' = LiveDbs \cup {i} /\ i \notin LiveDbs
    BY <1>5, <2>2, <2>4 DEF LiveDbs
  <2>6. IsFiniteSet(LiveDbs')
    BY <2>3, <2>5, FS_AddElement
  <2>7. \A j, k \in LiveDbs' : userdb'[j].name = userdb'[k].name => j = k
    BY <1>5, <2>2, <2>3, <2>4, <2>5 DEF LiveDbs
  <2>8. DbSound'
    BY <1>1, <2>4, <2>6, <2>7 DEF DatabasesInv, DbSound
  <2>9. RowsStand
    BY <1>5, <2>4 DEF RowsStand
  <2>10. GotoWith(r, "idle", None)
    BY <1>5 DEF Return
  <2>11. ASSUME restarts = 0, outages' = 0 PROVE Backed'
    <3>1. Backed
      BY <1>1, <2>11 DEF DatabasesInv
    <3>2. \A q \in Requests : /\ pc'[q] = (IF q = r THEN "idle" ELSE pc[q])
                              /\ task'[q] = (IF q = r THEN None ELSE task[q])
      BY <2>10, OneGoes
    <3>3. ASSUME NEW n \in pgrole \ pgdb
          PROVE  \E q \in Requests : Deals(q, n, Awaiting)'
      <4>1. PICK q \in Requests : Deals(q, n, Awaiting)
        BY <3>1 DEF Backed
      <4>. QED  BY <4>1, <3>2, <1>3 DEF Deals
    <3>4. ASSUME NEW n \in pgdb
          PROVE  \/ \E j \in LiveDbs' : userdb'[j].name = n
                 \/ \E q \in Requests : Deals(q, n, Backing)'
      <4>1. CASE n = t.name
        BY <4>1, <2>2, <2>4, <2>5
      <4>2. ASSUME NEW j \in LiveDbs, userdb[j].name = n
            PROVE  \E k \in LiveDbs' : userdb'[k].name = n
        BY <4>2, <2>4, <2>5 DEF LiveDbs
      <4>3. ASSUME NEW q \in Requests, Deals(q, n, Backing), n # t.name
            PROVE  Deals(q, n, Backing)'
        BY <4>3, <3>2, <1>3 DEF Deals
      <4>. QED  BY <3>1, <4>1, <4>2, <4>3 DEF Backed
    <3>5. ASSUME NEW q \in Requests, NEW j \in LiveDbs', RemovesAt(pc[q], task[q], j)', HasDb(j)'
          PROVE  \E h \in Requests : Deals(h, userdb[j].name, Backing)'
      <4>1. q # r /\ RemovesAt(pc[q], task[q], j)
        BY <3>2, <3>5 DEF RemovesAt
      <4>2. userdb[j] # None
        <5>1. DbTask(pc[q], task[q])
          BY DEF DatabasesInv
        <5>2. CASE pc[q] = "drop:row" /\ task[q].id = j
          BY <5>1, <5>2 DEF DbTask, Dropping
        <5>3. CASE pc[q] = "reconcile:remove" /\ Head(task[q].todo) = j
          <6>1. PICK s : s = task[q].todo
            OBVIOUS
          <6>2. s \in Seq(DbIds) /\ s # <<>> /\ \A k \in 1 .. Len(s) : userdb[s[k]] # None
            BY <5>1, <5>3, <6>1 DEF DbTask, Reconciling
          <6>3. 1 \in 1 .. Len(s) /\ Head(s) = s[1]
            BY <6>2
          <6>. QED  BY <5>3, <6>1, <6>2, <6>3
        <5>. QED  BY <4>1, <5>2, <5>3 DEF RemovesAt
      <4>3. j # i /\ j \in LiveDbs /\ userdb'[j] = userdb[j] /\ HasDb(j)
        BY <1>1, <1>5, <2>4, <2>5, <3>5, <4>2 DEF HasDb, LiveDbs
      <4>4. PICK h \in Requests : Deals(h, userdb[j].name, Backing)
        BY <3>1, <4>1, <4>3 DEF Backed
      <4>5. h # r
        BY <1>3, <1>5, <4>3, <4>4
      <4>. QED  BY <3>2, <4>3, <4>4, <4>5 DEF Deals
    <3>6. \A n \in pgrole' \ pgdb' : \E q \in Requests : Deals(q, n, Awaiting)'
      BY <1>1, <3>3
    <3>7. \A n \in pgdb' : \/ \E j \in LiveDbs' : userdb'[j].name = n
                           \/ \E q \in Requests : Deals(q, n, Backing)'
      BY <1>1, <3>4
    <3>. QED  BY <3>5, <3>6, <3>7 DEF Backed
  <2>12. ASSUME ~overlapped PROVE DbQuota'
    <3> SUFFICES ASSUME NEW u \in Users PROVE Cardinality(DbsOf(u)') <= MaxPerUser
      BY DEF DbQuota
    <3>1. IsFiniteSet(DbsOf(u)) /\ Cardinality(DbsOf(u)) \in Nat
      BY <2>3, FS_Subset, FS_CardinalityType DEF DbsOf
    <3>2. CASE u = t.user
      <4>1. DbsOf(u)' = DbsOf(u) \cup {i} /\ i \notin DbsOf(u)
        BY <3>2, <2>2, <2>4, <2>5 DEF DbsOf, LiveDbs
      <4>2. Cardinality(DbsOf(u) \cup {i}) = Cardinality(DbsOf(u)) + 1
        BY <3>1, <4>1, FS_AddElement
      <4>3. Cardinality(DbsOf(u)) < MaxPerUser
        BY <1>2, <2>12, <3>2 DEF DbSerialTask, Creating
      <4>4. Cardinality(DbsOf(u)) + 1 <= MaxPerUser
        BY <3>1, <4>3, DatabasesAssumption
      <4>. QED  BY <4>1, <4>2, <4>4
    <3>3. CASE u # t.user
      <4>1. DbsOf(u)' = DbsOf(u)
        BY <3>3, <2>2, <2>4, <2>5 DEF DbsOf, LiveDbs
      <4>. QED  BY <2>12, <4>1 DEF DatabasesInv, DbQuota
    <3>. QED  BY <3>2, <3>3
  <2>13. ASSUME ~overlapped, outages' = 0, restarts = 0, "DropByHand" \notin workload
         PROVE  \A j \in LiveDbs' : HasDb(j)'
    <3>1. /\ \A j \in LiveDbs : HasDb(j) \/ DeletingAt(pc[r], task[r], j)
          /\ DbKeptTask("db:insert", t)
      BY <1>1, <2>13, DbAlone
    <3>2. \A j \in LiveDbs : HasDb(j)
      BY <1>3, <3>1
    <3>3. t.name \in pgdb
      BY <3>1 DEF DbKeptTask
    <3>. QED  BY <1>1, <2>2, <2>4, <2>5, <3>2, <3>3 DEF HasDb, LiveDbs
  <2>14. DbTask("idle", None)' /\ DbSerialTask("idle", None)' /\ DbKeptTask("idle", None)'
    BY DEF DbTask, DbSerialTask, DbKeptTask, Creating, Dropping, Reconciling
  <2>. QED  BY <1>1, <2>8, <2>9, <2>10, <2>11, <2>12, <2>13, <2>14, DbGoes
<1>6. \/ Goto(r, "drop:db") /\ UNCHANGED userdb
      \/ /\ Return(r) /\ \A j \in LiveDbs : userdb[j].name # t.name
         /\ \E i \in FreeId(userdb) : userdb' = [userdb EXCEPT ![i] = DbRow(t.user, t.project)]
  BY DEF InsertDb, AfterRefusedInsert
<1>7. \A i \in FreeId(userdb) : i \in DbIds /\ userdb[i] = None
  BY FreeIdIsFree DEF DatabasesInv, DbSound
<1>. QED  BY <1>4, <1>5, <1>6, <1>7

LEMMA DropDbKeeps ==
  ASSUME Handlers, Alone, DatabasesInv, NEW r \in Requests, DropDb(r)
  PROVE  DatabasesInv'
<1> PICK t : t = task[r]
  OBVIOUS
<1>1. pc[r] = "drop:db" /\ UNCHANGED <<userdb, pgrole>>
  BY DEF DropDb, At
<1>2. DbTask("drop:db", t)
  BY <1>1 DEF DatabasesInv
<1>3. CASE Works /\ Goto(r, "drop:role") /\ pgdb' = pgdb \ {t.name}
  <2>1. GotoWith(r, "drop:role", t) /\ outages' = outages
    BY <1>3 DEF Goto, Works
  <2>2. LiveDbs' = LiveDbs /\ \A u : DbsOf(u)' = DbsOf(u)
    BY <1>1 DEF LiveDbs, DbsOf
  <2>3. DbSound' /\ RowsStand
    BY <1>1, <1>3, <2>1, <2>2 DEF DatabasesInv, DbSound, RowsStand
  <2>4. DbTask("drop:role", t)'
    <3>1. DbTask("drop:role", t)
      BY <1>2 DEF DbTask, Creating, Dropping, Reconciling
    <3>. QED  BY <3>1, <2>3, DbTaskKept
  <2>5. ASSUME restarts = 0, outages' = 0 PROVE Backed'
    <3>1. Backed
      BY <2>1, <2>5 DEF DatabasesInv
    <3>2. DbMoved(r, "drop:role", t)
      <4>1. \A q \in Requests : /\ pc'[q] = (IF q = r THEN "drop:role" ELSE pc[q])
                                /\ task'[q] = (IF q = r THEN t ELSE task[q])
        BY <2>1, OneGoes
      <4>. QED  BY <4>1 DEF DbMoved
    <3>3. \A n : ~Deals(r, n, Awaiting) /\ (Deals(r, n, Backing) => n = t.name)
      BY <1>1 DEF Deals, Awaiting
    <3>4. \A n \in pgrole' \ pgdb' : \/ "drop:role" \in Awaiting /\ t.name = n
                                     \/ n \in pgrole \ pgdb /\ ~Deals(r, n, Awaiting)
      BY <1>1, <1>3, <3>3 DEF Awaiting
    <3>5. \A n \in pgdb' : n \in pgdb /\ ~Deals(r, n, Backing)
      BY <1>3, <3>3
    <3>6. \A i \in LiveDbs : ~RemovesAt("drop:role", t, i)
      BY DEF RemovesAt
    <3>. QED  BY <1>1, <2>2, <3>1, <3>2, <3>4, <3>5, <3>6, BackedAt
  <2>6. ~overlapped => DbQuota' /\ DbSerialTask("drop:role", t)'
    BY <2>2 DEF DatabasesInv, DbQuota, DbSerialTask, Creating, Reconciling
  <2>7. ASSUME ~overlapped, outages' = 0, restarts = 0, "DropByHand" \notin workload
        PROVE  /\ \A i \in LiveDbs' : HasDb(i)' \/ DeletingAt("drop:role", t, i)
               /\ DbKeptTask("drop:role", t)'
    <3>1. /\ \A i \in LiveDbs : HasDb(i) \/ DeletingAt(pc[r], task[r], i)
          /\ DbKeptTask("drop:db", t)
      BY <1>1, <2>1, <2>7, DbAlone
    <3>2. \A i \in LiveDbs : HasDb(i)
      BY <1>1, <3>1 DEF DeletingAt
    <3>3. DbKeptTask("drop:role", t)'
      BY <1>1, <1>3, <2>2, <3>1 DEF DbKeptTask, Unnamed, Dropping
    <3>4. ASSUME NEW i \in LiveDbs, userdb[i].name = t.name
          PROVE  DeletingAt("drop:role", t, i)
      <4>1. t.then = "row"
        BY <1>2, <3>1, <3>4 DEF DbTask, DbKeptTask, Unnamed, Dropping
      <4>2. t.id \in LiveDbs /\ userdb[t.id].name = t.name
        BY <1>2, <3>1, <4>1 DEF DbTask, DbKeptTask, Dropping
      <4>. QED  BY <3>4, <4>1, <4>2 DEF DeletingAt, DatabasesInv, DbSound
    <3>5. \A i \in LiveDbs : userdb[i].name # t.name => HasDb(i)'
      BY <1>1, <1>3, <3>2 DEF HasDb
    <3>. QED  BY <2>2, <3>3, <3>4, <3>5
  <2>. QED  BY <1>1, <2>1, <2>3, <2>4, <2>5, <2>6, <2>7, DbGoes
<1>4. CASE Fails /\ Return(r) /\ UNCHANGED pgdb
  <2>1. GotoWith(r, "idle", None) /\ "idle" \notin Creating
    BY <1>4 DEF Return, Creating
  <2>. QED  BY <1>1, <1>4, <2>1, ReturnsSafely, DbFails
<1>. QED  BY <1>3, <1>4 DEF DropDb

LEMMA DropRoleKeeps ==
  ASSUME Handlers, Alone, DatabasesInv, NEW r \in Requests, DropRole(r)
  PROVE  DatabasesInv'
<1> PICK t : t = task[r]
  OBVIOUS
<1>1. pc[r] = "drop:role" /\ UNCHANGED <<userdb, pgdb>>
  BY DEF DropRole, At
<1>2. DbTask("drop:role", t)
  BY <1>1 DEF DatabasesInv
<1>3. \A n : ~Deals(r, n, Backing) /\ (Deals(r, n, Awaiting) => n = t.name)
  BY <1>1 DEF Deals, Backing
<1>4. ASSUME NEW p, NEW w, GotoWith(r, p, w), Works, t.name \notin pgdb,
             pgrole' = pgrole \ {t.name},
             t.then = "row" => p = "drop:row" /\ w = t,
             t.then = "answer" => p = "idle" /\ w = None
      PROVE  DatabasesInv'
  <2>1. outages' = outages
    BY <1>4 DEF Works
  <2>2. LiveDbs' = LiveDbs /\ \A u : DbsOf(u)' = DbsOf(u)
    BY <1>1 DEF LiveDbs, DbsOf
  <2>3. DbSound' /\ RowsStand
    BY <1>1, <1>4, <2>1, <2>2 DEF DatabasesInv, DbSound, RowsStand
  <2>4. t.then = "row" \/ t.then = "answer"
    BY <1>2 DEF DbTask, Dropping
  <2>5. DbTask(p, w)
    BY <1>2, <1>4, <2>4, ReturnsSafely DEF DbTask, Creating, Dropping, Reconciling
  <2>6. DbTask(p, w)'
    BY <2>3, <2>5, DbTaskKept
  <2>7. ASSUME restarts = 0, outages' = 0 PROVE Backed'
    <3>1. Backed
      BY <2>1, <2>7 DEF DatabasesInv
    <3>2. DbMoved(r, p, w)
      <4>1. \A q \in Requests : /\ pc'[q] = (IF q = r THEN p ELSE pc[q])
                                /\ task'[q] = (IF q = r THEN w ELSE task[q])
        BY <1>4, OneGoes
      <4>. QED  BY <4>1 DEF DbMoved
    <3>3. \A n \in pgrole' \ pgdb' : n \in pgrole \ pgdb /\ ~Deals(r, n, Awaiting)
      BY <1>1, <1>3, <1>4
    <3>4. ASSUME NEW i \in LiveDbs, RemovesAt(p, w, i) PROVE userdb[i].name \notin pgdb'
      <4>1. t.then = "row" /\ t.id = i
        BY <1>4, <2>4, <3>4 DEF RemovesAt
      <4>2. userdb[i].name = t.name
        BY <1>2, <4>1 DEF DbTask, Dropping
      <4>. QED  BY <1>1, <1>4, <4>2
    <3>. QED  BY <1>1, <1>3, <2>2, <3>1, <3>2, <3>3, <3>4, BackedAt
  <2>8. ~overlapped => DbQuota' /\ DbSerialTask(p, w)'
    BY <1>4, <2>2, <2>4 DEF DatabasesInv, DbQuota, DbSerialTask, Creating, Reconciling
  <2>9. ASSUME ~overlapped, outages' = 0, restarts = 0, "DropByHand" \notin workload
        PROVE  /\ \A i \in LiveDbs' : HasDb(i)' \/ DeletingAt(p, w, i)
               /\ DbKeptTask(p, w)'
    <3>1. /\ \A i \in LiveDbs : HasDb(i) \/ DeletingAt("drop:role", t, i)
          /\ DbKeptTask("drop:role", t)
      BY <1>1, <2>1, <2>9, DbAlone
    <3>2. DbKeptTask(p, w)'
      BY <1>1, <1>4, <2>2, <2>4, <3>1 DEF DbKeptTask, Unnamed, Dropping
    <3>. QED  BY <1>1, <1>4, <2>2, <2>4, <3>1, <3>2 DEF HasDb, DeletingAt
  <2>. QED  BY <1>1, <1>4, <2>1, <2>3, <2>6, <2>7, <2>8, <2>9, DbGoes
<1>5. CASE /\ Works /\ t.name \notin pgdb /\ pgrole' = pgrole \ {t.name}
           /\ IF t.then = "row" THEN Goto(r, "drop:row") ELSE Return(r)
  BY <1>4, <1>5 DEF Goto, Return
<1>6. CASE Works /\ t.name \in pgdb /\ Return(r) /\ UNCHANGED pgrole
  <2>1. GotoWith(r, "idle", None) /\ UNCHANGED outages
    BY <1>6 DEF Return, Works
  <2>2. ~DbKeptTask(pc[r], task[r])
    BY <1>1, <1>6 DEF DbKeptTask
  <2>. QED  BY <1>1, <1>3, <1>6, <2>1, <2>2, ReturnsSafely, DbTurns
<1>7. CASE Fails /\ Return(r) /\ UNCHANGED pgrole
  <2>1. GotoWith(r, "idle", None) /\ "idle" \notin Creating
    BY <1>7 DEF Return, Creating
  <2>. QED  BY <1>1, <1>7, <2>1, ReturnsSafely, DbFails
<1>. QED  BY <1>5, <1>6, <1>7 DEF DropRole

\* A row goes: what its name still has at PostgreSQL, somebody deals with.
LEMMA RowGoes ==
  ASSUME Handlers, Alone, DatabasesInv, NEW r \in Requests, NEW i \in DbIds, userdb[i] # None,
         userdb' = [userdb EXCEPT ![i].live = FALSE], UNCHANGED <<pgrole, pgdb, outages>>,
         NEW p, NEW t, GotoWith(r, p, t), p \in {"idle", "reconcile:next"},
         RemovesAt(pc[r], task[r], i)
  PROVE  /\ DbSound' /\ RowsStand /\ LiveDbs' = LiveDbs \ {i}
         /\ \A j \in LiveDbs : userdb'[j].name = userdb[j].name
         /\ DbQuota => DbQuota'
         /\ restarts = 0 /\ outages' = 0 => Backed'
<1>1. /\ userdb \in [DbIds -> DbRows \cup {None}] /\ IsFiniteSet(LiveDbs)
      /\ \A j, k \in LiveDbs : userdb[j].name = userdb[k].name => j = k
  BY DEF DatabasesInv, DbSound
<1>2. userdb[i] \in DbRows
  BY <1>1
<1>3. /\ userdb'[i] \in DbRows /\ userdb'[i].name = userdb[i].name /\ ~userdb'[i].live
      /\ userdb'[i].user = userdb[i].user
  BY <1>1, <1>2 DEF DbRows
<1>4. \A j \in DbIds : j # i => userdb'[j] = userdb[j]
  BY <1>1
<1>5. userdb' \in [DbIds -> DbRows \cup {None}]
  BY <1>1, <1>3
<1>6. userdb'[i] # None
  BY <1>3, DatabasesAssumption
<1>7. LiveDbs' = LiveDbs \ {i}
  BY <1>3, <1>4 DEF LiveDbs
<1>8. \A j \in DbIds : userdb'[j].name = userdb[j].name
  BY <1>3, <1>4
<1>9. \A j \in LiveDbs : userdb'[j].name = userdb[j].name
  BY <1>8 DEF LiveDbs
<1>10. IsFiniteSet(LiveDbs')
  BY <1>1, <1>7, FS_Subset
<1>11. \A j, k \in LiveDbs' : userdb'[j].name = userdb'[k].name => j = k
  BY <1>1, <1>7, <1>9
<1>12. DbSound'
  BY <1>5, <1>10, <1>11 DEF DatabasesInv, DbSound
<1>13. RowsStand
  BY <1>4, <1>6, <1>8 DEF RowsStand
<1>14. ASSUME DbQuota PROVE DbQuota'
  <2> SUFFICES ASSUME NEW u \in Users PROVE Cardinality(DbsOf(u)') <= MaxPerUser
    BY DEF DbQuota
  <2>1. DbsOf(u)' \subseteq DbsOf(u)
    BY <1>4, <1>7 DEF DbsOf
  <2>2. IsFiniteSet(DbsOf(u))
    BY <1>1, FS_Subset DEF DbsOf
  <2>3. /\ Cardinality(DbsOf(u)') <= Cardinality(DbsOf(u))
        /\ Cardinality(DbsOf(u)') \in Nat /\ Cardinality(DbsOf(u)) \in Nat
    BY <2>1, <2>2, FS_Subset, FS_CardinalityType
  <2>4. Cardinality(DbsOf(u)) <= MaxPerUser
    BY <1>14 DEF DbQuota
  <2>. QED  BY <2>3, <2>4, DatabasesAssumption
<1>15. ASSUME restarts = 0, outages' = 0 PROVE Backed'
  <2>1. Backed
    BY <1>15 DEF DatabasesInv
  <2>2. \A q \in Requests : /\ pc'[q] = (IF q = r THEN p ELSE pc[q])
                            /\ task'[q] = (IF q = r THEN t ELSE task[q])
    BY OneGoes
  <2>3. pc[r] \in {"drop:row", "reconcile:remove"}
    BY DEF RemovesAt
  <2>4. ASSUME NEW n, NEW q \in Requests
        PROVE  /\ Deals(q, n, Awaiting) => Deals(q, n, Awaiting)'
               /\ Deals(q, n, Backing) => Deals(q, n, Backing)'
    BY <2>2, <2>3 DEF Deals, Awaiting, Backing
  <2>5. \A n \in pgrole' \ pgdb' : \E q \in Requests : Deals(q, n, Awaiting)'
    BY <2>1, <2>4 DEF Backed
  <2>6. ASSUME NEW n \in pgdb'
        PROVE  \/ \E j \in LiveDbs' : userdb'[j].name = n
               \/ \E q \in Requests : Deals(q, n, Backing)'
    <3>1. CASE i \in LiveDbs /\ userdb[i].name = n
      <4>1. HasDb(i)
        BY <2>6, <3>1 DEF HasDb
      <4>2. PICK q \in Requests : Deals(q, n, Backing)
        BY <2>1, <3>1, <4>1 DEF Backed
      <4>. QED  BY <2>4, <4>2
    <3>2. ASSUME NEW j \in LiveDbs, j # i, userdb[j].name = n
          PROVE  \E k \in LiveDbs' : userdb'[k].name = n
      BY <3>2, <1>7, <1>9
    <3>3. n \in pgdb
      BY <2>6
    <3>. QED  BY <2>1, <2>4, <3>1, <3>2, <3>3 DEF Backed
  <2>7. ASSUME NEW q \in Requests, NEW j \in LiveDbs', RemovesAt(pc[q], task[q], j)', HasDb(j)'
        PROVE  \E h \in Requests : Deals(h, userdb[j].name, Backing)'
    <3>1. j \in LiveDbs /\ userdb'[j] = userdb[j] /\ HasDb(j)
      BY <1>4, <1>7, <2>7 DEF HasDb, LiveDbs
    <3>2. q # r
      BY <2>2, <2>7 DEF RemovesAt
    <3>3. RemovesAt(pc[q], task[q], j)
      BY <2>2, <2>7, <3>2 DEF RemovesAt
    <3>4. PICK h \in Requests : Deals(h, userdb[j].name, Backing)
      BY <2>1, <3>1, <3>3 DEF Backed
    <3>5. PICK n : n = userdb[j].name
      OBVIOUS
    <3>6. Deals(h, n, Backing)'
      BY <2>4, <3>4, <3>5
    <3>. QED  BY <3>1, <3>5, <3>6 DEF Deals
  <2>. QED  BY <2>5, <2>6, <2>7 DEF Backed
<1>. QED  BY <1>7, <1>9, <1>12, <1>13, <1>14, <1>15

LEMMA DropRowKeeps ==
  ASSUME Handlers, Alone, DatabasesInv, NEW r \in Requests, DropRow(r)
  PROVE  DatabasesInv'
<1> PICK i : i = task[r].id
  OBVIOUS
<1>1. /\ pc[r] = "drop:row" /\ UNCHANGED <<pgrole, pgdb, outages>>
      /\ userdb' = [userdb EXCEPT ![i].live = FALSE] /\ GotoWith(r, "idle", None)
  BY DEF DropRow, At, Return
<1>2. i \in DbIds /\ userdb[i] # None
  BY <1>1 DEF DatabasesInv, DbTask, Dropping
<1>3. RemovesAt(pc[r], task[r], i)
  BY <1>1 DEF RemovesAt
<1>4. /\ DbSound' /\ RowsStand /\ LiveDbs' = LiveDbs \ {i}
      /\ \A j \in LiveDbs : userdb'[j].name = userdb[j].name
      /\ DbQuota => DbQuota'
      /\ restarts = 0 /\ outages' = 0 => Backed'
  BY <1>1, <1>2, <1>3, RowGoes
<1>5. DbTask("idle", None)' /\ DbSerialTask("idle", None)' /\ DbKeptTask("idle", None)'
  BY DEF DbTask, DbSerialTask, DbKeptTask, Creating, Dropping, Reconciling
<1>6. ASSUME ~overlapped, outages' = 0, restarts = 0, "DropByHand" \notin workload
      PROVE  \A j \in LiveDbs' : HasDb(j)'
  <2>1. \A j \in LiveDbs : HasDb(j) \/ DeletingAt(pc[r], task[r], j)
    BY <1>1, <1>6, DbAlone
  <2>2. \A j \in LiveDbs : j # i => HasDb(j)
    BY <2>1 DEF DeletingAt
  <2>. QED  BY <1>1, <1>4, <2>2 DEF HasDb
<1>7. ~overlapped => DbQuota'
  BY <1>4 DEF DatabasesInv
<1>. QED  BY <1>1, <1>4, <1>5, <1>6, <1>7, DbGoes

LEMMA ByNameExistsKeeps ==
  ASSUME Handlers, Alone, DatabasesInv, NEW r \in Requests, ByNameExists(r)
  PROVE  DatabasesInv'
<1> PICK t : t = task[r]
  OBVIOUS
<1>1. pc[r] = "byname:exists" /\ UNCHANGED <<userdb, pgrole, pgdb>>
  BY DEF ByNameExists, At
<1>2. DbTask("byname:exists", t)
  BY <1>1 DEF DatabasesInv
<1>3. /\ \A n : ~Deals(r, n, Awaiting) /\ ~Deals(r, n, Backing)
      /\ \A i : ~DeletingAt(pc[r], task[r], i)
  BY <1>1 DEF Deals, Awaiting, Backing, DeletingAt
<1>4. ASSUME NEW p \in {"drop:db", "drop:row"}, GotoWith(r, p, t), UNCHANGED outages,
             p = "drop:row" => t.name \notin pgdb
      PROVE  DatabasesInv'
  <2>1. DbTask(p, t) /\ DbSerialTask(p, t)
    BY <1>2 DEF DbTask, DbSerialTask, Creating, Dropping, Reconciling
  <2>2. \A i \in LiveDbs : RemovesAt(p, t, i) => ~HasDb(i)
    BY <1>2, <1>4 DEF RemovesAt, HasDb, DbTask, Dropping
  <2>3. DbKeptTask("byname:exists", t) => DbKeptTask(p, t)
    BY <1>2 DEF DbKeptTask, DbTask, Dropping
  <2>. QED  BY <1>1, <1>3, <1>4, <2>1, <2>2, <2>3, DbTurns
<1>5. CASE Works /\ t.name \in pgdb /\ Goto(r, "drop:db")
  BY <1>4, <1>5 DEF Goto, Works
<1>6. CASE Works /\ t.name \notin pgdb /\ Goto(r, "drop:row")
  BY <1>4, <1>6 DEF Goto, Works
<1>7. CASE Fails /\ Return(r)
  <2>1. GotoWith(r, "idle", None) /\ "idle" \notin Creating
    BY <1>7 DEF Return, Creating
  <2>. QED  BY <1>1, <1>7, <2>1, ReturnsSafely, DbFails
<1>. QED  BY <1>5, <1>6, <1>7 DEF ByNameExists

LEMMA TailsHave ==
  ASSUME NEW S, NEW s \in Seq(S), s # <<>>
  PROVE  /\ Head(s) \in S /\ Tail(s) \in Seq(S)
         /\ \A k \in 1 .. Len(Tail(s)) : \E m \in 1 .. Len(s) : Tail(s)[k] = s[m]
         /\ \A m \in 1 .. Len(s) : s[m] # Head(s) => \E k \in 1 .. Len(Tail(s)) : Tail(s)[k] = s[m]
<1>1. /\ Len(s) \in Nat /\ Len(s) >= 1 /\ Head(s) = s[1] /\ Len(Tail(s)) = Len(s) - 1
      /\ \A k \in 1 .. Len(Tail(s)) : Tail(s)[k] = s[k + 1]
      /\ Head(s) \in S /\ Tail(s) \in Seq(S)
  OBVIOUS
<1>2. ASSUME NEW k \in 1 .. Len(Tail(s)) PROVE \E m \in 1 .. Len(s) : Tail(s)[k] = s[m]
  <2>1. k + 1 \in 1 .. Len(s)
    BY <1>1
  <2>. QED  BY <1>1, <2>1
<1>3. ASSUME NEW m \in 1 .. Len(s), s[m] # Head(s)
      PROVE  \E k \in 1 .. Len(Tail(s)) : Tail(s)[k] = s[m]
  <2>1. m # 1
    BY <1>1, <1>3
  <2>2. m - 1 \in 1 .. Len(Tail(s)) /\ (m - 1) + 1 = m
    BY <1>1, <2>1
  <2>. QED  BY <1>1, <2>2
<1>. QED  BY <1>1, <1>2, <1>3

\* The list of a reconciliation, one row further.
LEMMA TodoGoesOn ==
  ASSUME NEW t, DbTask("reconcile:next", t), t.todo # <<>>
  PROVE  /\ Head(t.todo) \in DbIds /\ userdb[Head(t.todo)] # None
         /\ DbTask("reconcile:next", [todo |-> Tail(t.todo)])
         /\ DbTask("reconcile:remove", t)
<1> PICK s : s = t.todo
  OBVIOUS
<1>1. s \in Seq(DbIds) /\ s # <<>> /\ \A k \in 1 .. Len(s) : userdb[s[k]] # None
  BY DEF DbTask, Reconciling
<1>2. Head(s) \in DbIds /\ Tail(s) \in Seq(DbIds)
      /\ \A k \in 1 .. Len(Tail(s)) : \E m \in 1 .. Len(s) : Tail(s)[k] = s[m]
  BY <1>1, TailsHave
<1>3. 1 \in 1 .. Len(s) /\ Head(s) = s[1]
  BY <1>1
<1>4. \A k \in 1 .. Len(Tail(s)) : userdb[Tail(s)[k]] # None
  BY <1>1, <1>2
<1>5. DbTask("reconcile:next", [todo |-> Tail(s)])
  BY <1>2, <1>4 DEF DbTask, Creating, Dropping, Reconciling
<1>6. DbTask("reconcile:remove", t)
  BY <1>1 DEF DbTask, Creating, Dropping, Reconciling
<1>. QED  BY <1>1, <1>2, <1>3, <1>5, <1>6

\* Who has dealt with the first of the list has the others still to do.
LEMMA TodoLeft ==
  ASSUME NEW t, DbTask("reconcile:next", t), t.todo # <<>>, NEW p \in Reconciling,
         DbSerialTask(p, t), NEW h, h = Head(t.todo)
  PROVE  outages = 0 => \A i \in LiveDbs : i # h =>
           HasDb(i) \/ \E k \in 1 .. Len(Tail(t.todo)) : Tail(t.todo)[k] = i
<1> PICK s : s = t.todo
  OBVIOUS
<1>1. s \in Seq(DbIds) /\ s # <<>>
  BY DEF DbTask, Reconciling
<1>2. \A m \in 1 .. Len(s) : s[m] # Head(s) => \E k \in 1 .. Len(Tail(s)) : Tail(s)[k] = s[m]
  BY <1>1, TailsHave
<1>3. outages = 0 => \A i \in LiveDbs : HasDb(i) \/ \E k \in 1 .. Len(s) : s[k] = i
  BY DEF DbSerialTask
<1>. QED  BY <1>2, <1>3

LEMMA ReconcileNextKeeps ==
  ASSUME Handlers, Alone, DatabasesInv, NEW r \in Requests, ReconcileNext(r)
  PROVE  DatabasesInv'
<1> PICK t : t = task[r]
  OBVIOUS
<1> PICK w : w = [todo |-> Tail(t.todo)]
  OBVIOUS
<1>1. pc[r] = "reconcile:next" /\ UNCHANGED <<userdb, pgrole, pgdb>>
  BY DEF ReconcileNext, At
<1>2. DbTask("reconcile:next", t) /\ (~overlapped => DbSerialTask("reconcile:next", t))
  BY <1>1 DEF DatabasesInv
<1>3. /\ \A n : ~Deals(r, n, Awaiting) /\ ~Deals(r, n, Backing)
      /\ \A i : ~DeletingAt(pc[r], task[r], i)
  BY <1>1 DEF Deals, Awaiting, Backing, DeletingAt
<1>4. CASE Works /\ Return(r)
  <2>1. GotoWith(r, "idle", None) /\ UNCHANGED outages
    BY <1>4 DEF Return, Works
  <2>. QED  BY <1>1, <1>3, <2>1, ReturnsSafely, DbTurns
<1>5. CASE Works /\ t.todo # <<>> /\ Orphaned(Head(t.todo)) /\ Goto(r, "reconcile:remove")
  <2>1. GotoWith(r, "reconcile:remove", t) /\ UNCHANGED outages
    BY <1>5 DEF Goto, Works
  <2>2. DbTask("reconcile:remove", t)
    BY <1>2, <1>5, TodoGoesOn
  <2>3. ~overlapped => DbSerialTask("reconcile:remove", t)
    BY <1>2 DEF DbSerialTask, Creating, Reconciling
  <2>4. \A i : RemovesAt("reconcile:remove", t, i) => ~HasDb(i)
    BY <1>5 DEF RemovesAt, Orphaned, HasDb
  <2>5. DbKeptTask("reconcile:remove", t)
    BY DEF DbKeptTask, Dropping
  <2>. QED  BY <1>1, <1>3, <2>1, <2>2, <2>3, <2>4, <2>5, DbTurns
<1>6. ASSUME t.todo # <<>> PROVE DbTask("reconcile:next", w)
  BY <1>2, <1>6, TodoGoesOn
<1>7. CASE Works /\ t.todo # <<>> /\ ~Orphaned(Head(t.todo)) /\ GotoWith(r, "reconcile:next", w)
  <2>1. UNCHANGED outages
    BY <1>7 DEF Works
  <2>2. ASSUME ~overlapped PROVE DbSerialTask("reconcile:next", w)
    <3>1. PICK h : h = Head(t.todo)
      OBVIOUS
    <3>2. HasDb(h)
      BY <1>7, <3>1 DEF Orphaned, HasDb
    <3>3. outages = 0 => \A i \in LiveDbs : i # h =>
            HasDb(i) \/ \E k \in 1 .. Len(Tail(t.todo)) : Tail(t.todo)[k] = i
      BY <1>2, <1>7, <2>2, <3>1, TodoLeft DEF Reconciling
    <3>4. w.todo = Tail(t.todo)
      OBVIOUS
    <3>. QED  BY <3>2, <3>3, <3>4 DEF DbSerialTask, Creating
  <2>3. \A i : ~RemovesAt("reconcile:next", w, i)
    BY DEF RemovesAt
  <2>4. DbKeptTask("reconcile:next", w)
    BY DEF DbKeptTask, Dropping
  <2>. QED  BY <1>1, <1>3, <1>6, <1>7, <2>1, <2>2, <2>3, <2>4, DbTurns
<1>8. CASE Fails /\ t.todo # <<>> /\ GotoWith(r, "reconcile:next", w)
  BY <1>1, <1>6, <1>8, DbFails DEF Creating
<1>. QED  BY <1>4, <1>5, <1>7, <1>8 DEF ReconcileNext

LEMMA ReconcileRemoveKeeps ==
  ASSUME Handlers, Alone, DatabasesInv, NEW r \in Requests, ReconcileRemove(r)
  PROVE  DatabasesInv'
<1> PICK t : t = task[r]
  OBVIOUS
<1> PICK w : w = [todo |-> Tail(t.todo)]
  OBVIOUS
<1> PICK i : i = Head(t.todo)
  OBVIOUS
<1>1. /\ pc[r] = "reconcile:remove" /\ UNCHANGED <<pgrole, pgdb, outages>>
      /\ userdb' = [userdb EXCEPT ![i].live = FALSE] /\ GotoWith(r, "reconcile:next", w)
  BY DEF ReconcileRemove, At
<1>2. DbTask("reconcile:remove", t) /\ (~overlapped => DbSerialTask("reconcile:remove", t))
  BY <1>1 DEF DatabasesInv
<1>3. DbTask("reconcile:next", t) /\ t.todo # <<>>
  BY <1>2 DEF DbTask, Creating, Dropping, Reconciling
<1>4. i \in DbIds /\ userdb[i] # None /\ DbTask("reconcile:next", w)
  BY <1>3, TodoGoesOn
<1>5. RemovesAt(pc[r], task[r], i)
  BY <1>1 DEF RemovesAt
<1>6. /\ DbSound' /\ RowsStand /\ LiveDbs' = LiveDbs \ {i}
      /\ \A j \in LiveDbs : userdb'[j].name = userdb[j].name
      /\ DbQuota => DbQuota'
      /\ restarts = 0 /\ outages' = 0 => Backed'
  BY <1>1, <1>4, <1>5, RowGoes
<1>7. DbTask("reconcile:next", w)'
  BY <1>4, <1>6, DbTaskKept
<1>8. \A j \in LiveDbs' : HasDb(j)' = HasDb(j)
  BY <1>1, <1>6 DEF HasDb
<1>9. ASSUME ~overlapped PROVE DbSerialTask("reconcile:next", w)'
  <2>1. outages = 0 => \A j \in LiveDbs : j # i =>
          HasDb(j) \/ \E k \in 1 .. Len(Tail(t.todo)) : Tail(t.todo)[k] = j
    BY <1>2, <1>3, <1>9, TodoLeft DEF Reconciling
  <2>2. w.todo = Tail(t.todo)
    OBVIOUS
  <2>. QED  BY <1>1, <1>6, <1>8, <2>1, <2>2 DEF DbSerialTask, Creating
<1>10. ASSUME ~overlapped, outages' = 0, restarts = 0, "DropByHand" \notin workload
       PROVE  \A j \in LiveDbs' : HasDb(j)'
  <2>1. \A j \in LiveDbs : HasDb(j) \/ DeletingAt(pc[r], task[r], j)
    BY <1>1, <1>10, DbAlone
  <2>. QED  BY <1>1, <1>6, <1>8, <2>1 DEF DeletingAt
<1>11. DbKeptTask("reconcile:next", w)'
  BY DEF DbKeptTask, Dropping
<1>12. ~overlapped => DbQuota'
  BY <1>6 DEF DatabasesInv
<1>. QED  BY <1>1, <1>6, <1>7, <1>9, <1>10, <1>11, <1>12, DbGoes

LEMMA RotateRoleKeeps ==
  ASSUME Handlers, Alone, DatabasesInv, NEW r \in Requests, RotateRole(r)
  PROVE  DatabasesInv'
<1> PICK t : t = task[r]
  OBVIOUS
<1>1. pc[r] = "rotate:role" /\ UNCHANGED <<userdb, pgrole, pgdb>>
  BY DEF RotateRole, At
<1>2. /\ \A n : ~Deals(r, n, Awaiting) /\ ~Deals(r, n, Backing)
      /\ \A i : ~DeletingAt(pc[r], task[r], i)
  BY <1>1 DEF Deals, Awaiting, Backing, DeletingAt
<1>3. CASE Works /\ Goto(r, "rotate:mark")
  <2>1. GotoWith(r, "rotate:mark", t) /\ UNCHANGED outages
    BY <1>3 DEF Goto, Works
  <2>2. /\ DbTask("rotate:mark", t) /\ DbSerialTask("rotate:mark", t)
        /\ DbKeptTask("rotate:mark", t) /\ \A i : ~RemovesAt("rotate:mark", t, i)
    BY DEF DbTask, DbSerialTask, DbKeptTask, RemovesAt, Creating, Dropping, Reconciling
  <2>. QED  BY <1>1, <1>2, <2>1, <2>2, DbTurns
<1>4. CASE Works /\ Return(r)
  <2>1. GotoWith(r, "idle", None) /\ UNCHANGED outages
    BY <1>4 DEF Return, Works
  <2>. QED  BY <1>1, <1>2, <2>1, ReturnsSafely, DbTurns
<1>5. CASE Fails /\ Return(r)
  <2>1. GotoWith(r, "idle", None) /\ "idle" \notin Creating
    BY <1>5 DEF Return, Creating
  <2>. QED  BY <1>1, <1>5, <2>1, ReturnsSafely, DbFails
<1>. QED  BY <1>3, <1>4, <1>5 DEF RotateRole

LEMMA RotateMarkKeeps ==
  ASSUME Handlers, Alone, DatabasesInv, NEW r \in Requests, RotateMark(r)
  PROVE  DatabasesInv'
<1> PICK i : i = task[r].id
  OBVIOUS
<1>1. /\ pc[r] = "rotate:mark" /\ UNCHANGED <<pgrole, pgdb, outages>>
      /\ userdb' = Rotated(i) /\ GotoWith(r, "idle", None)
  BY DEF RotateMark, At, Return
<1>2. /\ userdb \in [DbIds -> DbRows \cup {None}] /\ IsFiniteSet(LiveDbs)
      /\ \A j, k \in LiveDbs : userdb[j].name = userdb[k].name => j = k
  BY DEF DatabasesInv, DbSound
<1>3. /\ userdb' \in [DbIds -> DbRows \cup {None}]
      /\ \A j \in DbIds : userdb[j] = None <=> userdb'[j] = None
      /\ \A j \in DbIds : userdb[j] # None =>
           /\ userdb'[j].name = userdb[j].name /\ userdb'[j].live = userdb[j].live
           /\ userdb'[j].user = userdb[j].user
  <2>1. CASE i \notin LiveDbs
    BY <1>1, <1>2, <2>1 DEF Rotated
  <2>2. CASE i \in LiveDbs
    <3>1. i \in DbIds /\ userdb[i] \in DbRows
      BY <1>2, <2>2 DEF LiveDbs
    <3>2. userdb' = [userdb EXCEPT ![i].rotated = TRUE]
      BY <1>1, <2>2 DEF Rotated
    <3>3. /\ userdb'[i] \in DbRows /\ userdb'[i].name = userdb[i].name
          /\ userdb'[i].live = userdb[i].live /\ userdb'[i].user = userdb[i].user
      BY <1>2, <3>1, <3>2 DEF DbRows
    <3>4. \A j \in DbIds : j # i => userdb'[j] = userdb[j]
      BY <1>2, <3>2
    <3>5. userdb' \in [DbIds -> DbRows \cup {None}]
      BY <1>2, <3>1, <3>2, <3>3
    <3>. QED  BY <3>1, <3>3, <3>4, <3>5, DatabasesAssumption
  <2>. QED  BY <2>1, <2>2
<1>4. LiveDbs' = LiveDbs
  BY <1>3 DEF LiveDbs
<1>5. \A u : DbsOf(u)' = DbsOf(u)
  BY <1>3, <1>4 DEF DbsOf, LiveDbs
<1>6. \A j \in LiveDbs : userdb'[j].name = userdb[j].name
  BY <1>3 DEF LiveDbs
<1>7. DbSound' /\ RowsStand
  BY <1>1, <1>2, <1>3, <1>4, <1>6 DEF DatabasesInv, DbSound, RowsStand
<1>8. DbTask("idle", None)' /\ DbSerialTask("idle", None)' /\ DbKeptTask("idle", None)'
  BY DEF DbTask, DbSerialTask, DbKeptTask, Creating, Dropping, Reconciling
<1>9. ASSUME restarts = 0, outages' = 0 PROVE Backed'
  <2>1. Backed
    BY <1>1, <1>9 DEF DatabasesInv
  <2>2. DbMoved(r, "idle", None)
    <3>1. \A q \in Requests : /\ pc'[q] = (IF q = r THEN "idle" ELSE pc[q])
                              /\ task'[q] = (IF q = r THEN None ELSE task[q])
      BY <1>1, OneGoes
    <3>. QED  BY <3>1 DEF DbMoved
  <2>3. \A n : ~Deals(r, n, Awaiting) /\ ~Deals(r, n, Backing)
    BY <1>1 DEF Deals, Awaiting, Backing
  <2>. QED  BY <1>1, <1>4, <1>6, <2>1, <2>2, <2>3, ReturnsSafely, BackedAt
<1>10. ~overlapped => DbQuota'
  BY <1>5 DEF DatabasesInv, DbQuota
<1>11. ASSUME ~overlapped, outages' = 0, restarts = 0, "DropByHand" \notin workload
       PROVE  \A j \in LiveDbs' : HasDb(j)'
  <2>1. \A j \in LiveDbs : HasDb(j) \/ DeletingAt(pc[r], task[r], j)
    BY <1>1, <1>11, DbAlone
  <2>. QED  BY <1>1, <1>4, <1>6, <2>1 DEF HasDb, DeletingAt
<1>. QED  BY <1>1, <1>7, <1>8, <1>9, <1>10, <1>11, DbGoes

\* The operator: what rows remain without a database, AdminReconcile finds.
LEMMA DropByHandKeeps ==
  ASSUME Handlers, Alone, DatabasesInv, DropByHand
  PROVE  DatabasesInv'
<1>1. /\ "DropByHand" \in workload /\ workload' = workload /\ restarts' = restarts
      /\ overlapped' = (overlapped \/ ~AllIdle)
      /\ pc' = pc /\ task' = task /\ userdb' = userdb /\ outages' = outages
  BY DEF DropByHand, AnswerAtOnce, Arrives, Awaited, handlers
<1>2. PICK n \in pgdb : pgdb' = pgdb \ {n} /\ pgrole' = pgrole \ {n}
  BY DEF DropByHand
<1>3. LiveDbs' = LiveDbs /\ \A u : DbsOf(u)' = DbsOf(u)
  BY <1>1 DEF LiveDbs, DbsOf
<1>4. DbSound'
  BY <1>1, <1>2, <1>3 DEF DatabasesInv, DbSound
<1>5. \A q \in Requests : DbTask(pc[q], task[q])'
  BY <1>1 DEF DatabasesInv, DbTask
<1>6. ASSUME Backed PROVE Backed'
  BY <1>1, <1>2, <1>3, <1>6 DEF Backed, HasDb, Deals, RemovesAt
<1>7. ASSUME ~overlapped'
      PROVE  (DbQuota /\ \A q \in Requests : DbSerialTask(pc[q], task[q]))'
  <2>1. ~overlapped /\ \A q \in Requests : pc'[q] = "idle"
    BY <1>1, <1>7 DEF AllIdle, Idle
  <2>. QED  BY <1>3, <2>1 DEF DatabasesInv, DbQuota, DbSerialTask, Creating, Reconciling
<1>. QED  BY <1>1, <1>4, <1>5, <1>6, <1>7 DEF DatabasesInv

LEMMA DatabasesRequestKeeps ==
  ASSUME Handlers, Alone, DatabasesInv, NEW r \in Requests, DatabasesRequest(r)
  PROVE  DatabasesInv'
<1>1. ASSUME CreateDatabase(r) PROVE DatabasesInv'
  <2>1. PICK x \in Wishes : LET u == x[1]  p == x[2] IN
          /\ WithinQuota(u)
          /\ Receive(r, "CreateDatabase", "db:role",
                     [user |-> u, project |-> p, name |-> DbName(u, p), then |-> "answer"])
          /\ UNCHANGED databases
    BY <1>1 DEF CreateDatabase
  <2> PICK u, p : u = x[1] /\ p = x[2]
    OBVIOUS
  <2> PICK t : t = [user |-> u, project |-> p, name |-> DbName(u, p), then |-> "answer"]
    OBVIOUS
  <2>2. u \in Users /\ p \in Projects
    BY DatabasesAssumption
  <2>3. Receive(r, "CreateDatabase", "db:role", t) /\ UNCHANGED databases
        /\ Cardinality(DbsOf(u)) < MaxPerUser
    BY <2>1 DEF WithinQuota
  <2>4. DbTask("db:role", t) /\ DbSerialTask("db:role", t)
    BY <2>2, <2>3 DEF DbTask, DbSerialTask, Creating, Dropping, Reconciling
  <2>. QED  BY <2>3, <2>4, DbReceives DEF Dropping
<1>2. ASSUME NEW kind, NEW p \in {"drop:db", "byname:exists"}, NEW i \in LiveDbs, NEW t,
             t = [id |-> i, name |-> userdb[i].name, then |-> "row"],
             Receive(r, kind, p, t), UNCHANGED databases
      PROVE  DatabasesInv'
  <2>1. i \in DbIds /\ userdb[i] # None
    BY DEF LiveDbs
  <2>2. DbTask(p, t) /\ DbSerialTask(p, t)
    BY <1>2, <2>1 DEF DbTask, DbSerialTask, Creating, Dropping, Reconciling
  <2>. QED  BY <1>2, <2>2, DbReceives
<1>3. ASSUME DeleteDatabase(r) PROVE DatabasesInv'
  BY <1>2, <1>3 DEF DeleteDatabase
<1>4. ASSUME AdminDeleteByDBName(r) PROVE DatabasesInv'
  BY <1>2, <1>4 DEF AdminDeleteByDBName
<1>5. ASSUME AdminReconcile(r) PROVE DatabasesInv'
  <2> PICK s : s = SetToSeq(LiveDbs)
    OBVIOUS
  <2> PICK t : t = [todo |-> s]
    OBVIOUS
  <2>1. Receive(r, "AdminReconcile", "reconcile:next", t) /\ UNCHANGED databases
    BY <1>5 DEF AdminReconcile
  <2>2. IsFiniteSet(LiveDbs) /\ LiveDbs \subseteq DbIds /\ \A i \in LiveDbs : userdb[i] # None
    BY DEF DatabasesInv, DbSound, LiveDbs
  <2>3. /\ Cardinality(LiveDbs) \in Nat
        /\ s \in [1 .. Cardinality(LiveDbs) -> LiveDbs]
        /\ s \in Seq(LiveDbs) /\ Len(s) = Cardinality(LiveDbs)
        /\ \A i \in LiveDbs : \E n \in 1 .. Cardinality(LiveDbs) : s[n] = i
    BY <2>2, SetToSeqIs
  <2>4. s \in Seq(DbIds) /\ \A k \in 1 .. Len(s) : userdb[s[k]] # None
    BY <2>2, <2>3
  <2>5. DbTask("reconcile:next", t)
    BY <2>4 DEF DbTask, Creating, Dropping, Reconciling
  <2>6. DbSerialTask("reconcile:next", t)
    BY <2>3 DEF DbSerialTask, Creating
  <2>. QED  BY <2>1, <2>5, <2>6, DbReceives DEF Dropping
<1>6. ASSUME RotatePassword(r) PROVE DatabasesInv'
  <2>1. PICK t : Receive(r, "RotatePassword", "rotate:role", t) /\ UNCHANGED databases
    BY <1>6 DEF RotatePassword
  <2>2. DbTask("rotate:role", t) /\ DbSerialTask("rotate:role", t)
    BY DEF DbTask, DbSerialTask, Creating, Dropping, Reconciling
  <2>. QED  BY <2>1, <2>2, DbReceives DEF Dropping
<1>. QED  BY <1>1, <1>3, <1>4, <1>5, <1>6 DEF DatabasesRequest

LEMMA DatabasesInvStep ==
  ASSUME Handlers, Alone, DatabasesInv, [Next]_vars
  PROVE  DatabasesInv'
<1>1. /\ DatabasesNext \/ Restart \/ (UNCHANGED databases /\ Away(DatabasesLabels))
      /\ workload' = workload /\ (overlapped => overlapped')
  BY DatabasesFrame, AloneStep
<1>2. CASE DatabasesNext
  BY <1>2, CreateRoleKeeps, CreateDbKeeps, GrantDbKeeps, InsertDbKeeps, DropDbKeeps,
     DropRoleKeeps, DropRowKeeps, ByNameExistsKeeps, ReconcileNextKeeps,
     ReconcileRemoveKeeps, RotateRoleKeeps, RotateMarkKeeps, DropByHandKeeps,
     DatabasesRequestKeeps DEF DatabasesNext, DatabasesStep
<1>3. CASE Restart
  BY <1>3, DatabasesRestarts
<1>4. CASE UNCHANGED databases /\ Away(DatabasesLabels)
  BY <1>1, <1>4, DatabasesStay
<1>. QED  BY <1>1, <1>2, <1>3, <1>4

\* The part of NothingOrphaned that is about databases.
LEMMA NoDatabaseOrphaned ==
  ASSUME DatabasesInv, outages = 0
  PROVE  /\ Settled => \A n \in pgrole \cup pgdb : \E i \in LiveDbs : userdb[i].name = n
         /\ OneByOne => \A u \in Users : Cardinality(DbsOf(u)) <= MaxPerUser
         /\ Unbroken /\ AllIdle /\ "DropByHand" \notin workload => \A i \in LiveDbs : HasDb(i)
         /\ OneByOne => \A r \in Requests :
              At(r, "reconcile:next") /\ task[r].todo = <<>> => \A i \in LiveDbs : HasDb(i)
<1>1. ASSUME Settled
      PROVE  \A n \in pgrole \cup pgdb : \E i \in LiveDbs : userdb[i].name = n
  <2>1. Backed /\ \A r \in Requests : pc[r] = "idle"
    BY <1>1 DEF Settled, AllIdle, Idle, DatabasesInv
  <2>2. \A r \in Requests : \A n : ~Deals(r, n, Awaiting) /\ ~Deals(r, n, Backing)
    BY <2>1 DEF Deals, Awaiting, Backing
  <2>. QED  BY <2>1, <2>2 DEF Backed
<1>2. OneByOne => \A u \in Users : Cardinality(DbsOf(u)) <= MaxPerUser
  BY DEF OneByOne, DatabasesInv, DbQuota
<1>3. ASSUME Unbroken, AllIdle, "DropByHand" \notin workload
      PROVE  \A i \in LiveDbs : HasDb(i)
  BY <1>3 DEF Unbroken, AllIdle, Idle, DatabasesInv, DbKept, DeletingAt
<1>4. ASSUME OneByOne, NEW r \in Requests, At(r, "reconcile:next"), task[r].todo = <<>>
      PROVE  \A i \in LiveDbs : HasDb(i)
  <2>1. DbSerialTask("reconcile:next", task[r])
    BY <1>4 DEF OneByOne, At, DatabasesInv
  <2>2. Len(task[r].todo) = 0
    BY <1>4
  <2>. QED  BY <2>1, <2>2 DEF DbSerialTask, Reconciling
<1>. QED  BY <1>1, <1>2, <1>3, <1>4

-----------------------------------------------------------------------------
(* Files and their rows *)

StoringLabels ==
  {"file:write", "file:check", "file:clean", "file:upload", "file:plan", "dm:insert"}

Unlisting == {"file:unlist", "file:remove"}

\* What a handler remembers: files that it alone has written, whose rows are not there
\* yet, or a row that it is about to remove.
FilesTask(p, t) ==
  /\ p \in StoringLabels =>
       /\ {"serial", "written"} \subseteq DOMAIN t /\ t.serial \in 1 .. served /\ t.written \in Nat
       /\ Written(t) \subseteq disk
       /\ \A x \in filed : x.file[1] # t.serial
  /\ p \in Unlisting => t.row.file[1] \in 1 .. served
  /\ p = "file:remove" => \A x \in filed : x.file # t.row.file

Apart(p, t, v, w) ==
  /\ p \in StoringLabels /\ v \in StoringLabels => t.serial # w.serial
  /\ p \in StoringLabels /\ v \in Unlisting => w.row.file[1] # t.serial

FiledSound ==
  /\ \A x \in filed : x.file[1] \in 1 .. served /\ x.file \in disk
  /\ \A x, y \in filed : x.file = y.file => x = y

Holds(p, t, f) ==
  \/ p \in StoringLabels /\ f \in Written(t)
  \/ p = "file:remove" /\ t.row.file = f

Owned(f) ==
  \/ \E x \in filed : x.file = f
  \/ \E r \in Requests : Holds(pc[r], task[r], f)

FilesInv ==
  /\ FiledSound
  /\ \A r \in Requests : FilesTask(pc[r], task[r])
  /\ \A r, q \in Requests : r # q => Apart(pc[r], task[r], pc[q], task[q])
  /\ restarts = 0 => \A f \in disk : Owned(f)

StoreLabels == StoringLabels \cup Unlisting

\* The other handlers of Messages have nothing to do with files.
LEMMA MessagesElse ==
  ASSUME Handlers, MessagesNext
  PROVE  (\E r \in Requests : SendMessage(r) \/ DmInsert(r)) \/ Away(StoreLabels)
<1>1. CASE Background \/ EndpointExpires
  <2>1. UNCHANGED handlers
    BY <1>1 DEF Background, EndpointExpires, PushLookup, SendEmailNotification, Deliver,
                DeleteSubscriptionByEndpoint, server, AnswerAtOnce
  <2>. QED  BY <2>1 DEF handlers, Away
<1>2. CASE ReadRequest \/ NotificationRequest \/ PreferenceRequest
  <2>1. UNCHANGED handlers
    BY <1>2 DEF ReadRequest, NotificationRequest, PreferenceRequest, MarkAsRead, MarkRead,
                MarkAllRead, SubscribePush, UnsubscribePush, UpdateEmailPreference, AnswerAtOnce
  <2>. QED  BY <2>1 DEF handlers, Away
<1>3. ASSUME NEW r \in Requests, NEW p, NEW t, pc[r] \notin StoreLabels, p \notin StoreLabels,
             GotoWith(r, p, t) \/ \E kind : Receive(r, kind, p, t)
      PROVE  Away(StoreLabels)
  <2>1. \A q \in Requests : /\ pc'[q] = (IF q = r THEN p ELSE pc[q])
                            /\ task'[q] = (IF q = r THEN t ELSE task[q])
    BY <1>3, OneGoes
  <2>. QED  BY <1>3, <2>1 DEF Away
<1>4. ASSUME NEW r \in Requests, MessagesStep(r), ~DmInsert(r) PROVE Away(StoreLabels)
  <2> DEFINE t == task[r]
  <2> USE DEF StoreLabels, StoringLabels, Unlisting
  <2>1. CASE NoticeInsert(r)
    <3>1. pc[r] = "notice:insert" /\ t.after \in {"answer", "tell:next"}
      BY <2>1 DEF NoticeInsert, At, Handlers, TaskOK, NoticeTask
    <3>2. \/ GotoWith(r, "idle", None)
          \/ GotoWith(r, t.after, With(t, [ok |-> FALSE]))
          \/ \E n : GotoWith(r, "send:lookup", Inserted(t, n))
      BY <2>1, Zenon DEF NoticeInsert, Return
    <3>3. PICK p, w : GotoWith(r, p, w) /\ p \in {"idle", t.after, "send:lookup"}
      BY <3>2
    <3>4. p \notin StoreLabels /\ pc[r] \notin StoreLabels
      BY <3>1, <3>3
    <3>. QED  BY <1>3, <3>3, <3>4
  <2>2. CASE NoticeStart(r)
    <3>1. pc[r] = "notice:start" /\ t.after \in {"answer", "tell:next"}
      BY <2>2 DEF NoticeStart, At, Handlers, TaskOK, NoticeTask
    <3>2. PICK p, w : GotoWith(r, p, w) /\ p \in {"idle", t.after}
      BY <2>2, Zenon DEF NoticeStart, Return, Goto
    <3>3. p \notin StoreLabels /\ pc[r] \notin StoreLabels
      BY <3>1, <3>2
    <3>. QED  BY <1>3, <3>2, <3>3
  <2>3. CASE TellPost(r)
    <3>1. PICK w : GotoWith(r, "tell:next", w)
      BY <2>3, Zenon DEF TellPost
    <3>2. pc[r] = "tell:post"
      BY <2>3 DEF TellPost, At
    <3>3. "tell:next" \notin StoreLabels /\ pc[r] \notin StoreLabels
      BY <3>2
    <3>. QED  BY <1>3, <3>1, <3>3
  <2>4. CASE TellNext(r)
    <3>1. PICK p, w : GotoWith(r, p, w) /\ p \in {"idle", "notice:insert"}
      BY <2>4, Zenon DEF TellNext, Return
    <3>2. pc[r] = "tell:next"
      BY <2>4 DEF TellNext, At
    <3>3. p \notin StoreLabels /\ pc[r] \notin StoreLabels
      BY <3>1, <3>2
    <3>. QED  BY <1>3, <3>1, <3>3
  <2>. QED  BY <1>4, <2>1, <2>2, <2>3, <2>4 DEF MessagesStep
<1>5. ASSUME NEW r \in Requests, CreateNotification(r) \/ AnnounceRequest(r)
      PROVE  Away(StoreLabels)
  <2>1. \E kind, p, w : Receive(r, kind, p, w) /\ p \in {"send:lookup", "tell:post"}
    <3>1. CASE CreateNotification(r)
      BY <3>1, Zenon DEF CreateNotification
    <3>2. CASE AnnounceRequest(r)
      BY <3>2, Zenon DEF AnnounceRequest, SendAnnouncement
    <3>. QED  BY <1>5, <3>1, <3>2
  <2>2. PICK kind, p, w : Receive(r, kind, p, w) /\ p \in {"send:lookup", "tell:post"}
    BY <2>1
  <2>3. pc[r] = "idle"
    BY <2>2 DEF Receive, Idle
  <2>4. pc[r] \notin StoreLabels /\ p \notin StoreLabels
    BY <2>2, <2>3 DEF StoreLabels, StoringLabels, Unlisting
  <2>. QED  BY <1>3, <2>2, <2>4
<1>6. ASSUME NEW r \in Requests, DmRequest(r) PROVE SendMessage(r)
  BY <1>6 DEF DmRequest
<1>. QED  BY <1>1, <1>2, <1>4, <1>5, <1>6 DEF MessagesNext


LEMMA FilesStand ==
  ASSUME [Next]_vars
  PROVE  \/ FilesNext \/ Restart \/ \E r \in Requests : SendMessage(r) \/ DmInsert(r)
         \/ UNCHANGED files
<1>1. CASE MessagesNext
  <2>1. CASE Background
    BY <2>1 DEF Background, PushLookup, SendEmailNotification, Deliver,
                DeleteSubscriptionByEndpoint
  <2>2. CASE EndpointExpires \/ ReadRequest \/ NotificationRequest \/ PreferenceRequest
    BY <2>2 DEF EndpointExpires, ReadRequest, MarkAsRead, NotificationRequest, MarkRead,
                MarkAllRead, SubscribePush, UnsubscribePush, PreferenceRequest,
                UpdateEmailPreference
  <2>3. ASSUME NEW r \in Requests, MessagesStep(r) PROVE DmInsert(r) \/ UNCHANGED files
    BY <2>3 DEF MessagesStep, NoticeInsert, NoticeStart, TellPost, TellNext
  <2>4. ASSUME NEW r \in Requests, CreateNotification(r) \/ DmRequest(r) \/ AnnounceRequest(r)
        PROVE  SendMessage(r) \/ UNCHANGED files
    BY <2>4 DEF CreateNotification, DmRequest, AnnounceRequest, SendAnnouncement
  <2>. QED  BY <1>1, <2>1, <2>2, <2>3, <2>4 DEF MessagesNext
<1>2. CASE SuggestionsNext
  BY <1>2 DEF SuggestionsNext, AdminUpdateProposal, SaveProposal
<1>3. CASE ~TalkNext
  BY <1>3 DEF Next, Quiet, vars, talk, HubOnly
<1>. QED  BY <1>1, <1>2, <1>3 DEF TalkNext

LEMMA FilesFrame ==
  ASSUME Handlers, [Next]_vars
  PROVE  \/ FilesNext \/ Restart \/ \E r \in Requests : SendMessage(r) \/ DmInsert(r)
         \/ UNCHANGED files /\ Away(StoreLabels)
<1> DEFINE L == StoreLabels
<1>0. "idle" \notin L
  BY DEF StoreLabels, StoringLabels, Unlisting
<1>1. CASE ClassroomNext
  <2>1. ClassroomLabels \cap L = {} /\ (ClassroomLabels \cup EnsureThens) \cap L = {}
    BY DEF StoreLabels, StoringLabels, Unlisting, ClassroomLabels, EnsureLabels, EnsureThens
  <2>. QED  BY <1>0, <1>1, <2>1, ClassroomMoves, MovedAway, FilesStand
<1>2. CASE EarningNext
  <2>1. /\ BankLabels \cap L = {} /\ (BankLabels \cup {"ensure:select"}) \cap L = {}
        /\ GrantsLabels \cap L = {} /\ (GrantsLabels \cup {"ensure:select"}) \cap L = {}
    BY DEF StoreLabels, StoringLabels, Unlisting, BankLabels, GrantsLabels
  <2>2. /\ PostsLabels \cap L = {} /\ (PostsLabels \cup {"ensure:select"}) \cap L = {}
        /\ BillingLabels \cap L = {}
    BY DEF StoreLabels, StoringLabels, Unlisting, PostsLabels, BillingLabels
  <2>3. ASSUME BankNext PROVE Away(L)
    BY <1>0, <2>1, <2>3, BankMoves, MovedAway
  <2>4. ASSUME GrantsNext PROVE Away(L)
    BY <1>0, <2>1, <2>4, GrantsMoves, MovedAway
  <2>5. ASSUME PostsNext PROVE Away(L)
    BY <1>0, <2>2, <2>5, PostsMoves, MovedAway
  <2>6. ASSUME BillingNext PROVE Away(L)
    BY <1>0, <2>2, <2>6, BillingMoves, MovedAway
  <2>7. Away(L)
    BY <1>2, <2>3, <2>4, <2>5, <2>6 DEF EarningNext
  <2>. QED  BY <2>7, FilesStand
<1>3. CASE ToolsNext
  <2>1. /\ ChatLabels \cap L = {} /\ DatabasesLabels \cap L = {} /\ MailLabels \cap L = {}
        /\ MilestonesLabels \cap L = {} /\ ServicesLabels \cap L = {}
    BY DEF StoreLabels, StoringLabels, Unlisting, ChatLabels, DatabasesLabels, MailLabels,
           MilestonesLabels, ServicesLabels
  <2>2. ASSUME ChatNext PROVE Away(L)
    BY <1>0, <2>1, <2>2, ChatMoves, MovedAway
  <2>3. ASSUME DatabasesNext PROVE Away(L)
    BY <1>0, <2>1, <2>3, DatabasesMoves, MovedAway
  <2>4. ASSUME MailNext PROVE Away(L)
    BY <1>0, <2>1, <2>4, MailMoves, MovedAway
  <2>5. ASSUME MilestonesNext PROVE Away(L)
    BY <1>0, <2>1, <2>5, MilestonesMoves, MovedAway
  <2>6. ASSUME ServicesNext PROVE Away(L)
    BY <1>0, <2>1, <2>6, ServicesMoves, MovedAway
  <2>7. Away(L)
    BY <1>3, <2>2, <2>3, <2>4, <2>5, <2>6 DEF ToolsNext
  <2>. QED  BY <2>7, FilesStand
<1>4. CASE TalkNext
  <2>1. CASE MessagesNext
    BY <2>1, MessagesElse, FilesStand
  <2>2. CASE SuggestionsNext
    <3>1. {} \cap L = {} /\ {"notice:insert"} \cap L = {}
      BY DEF StoreLabels, StoringLabels, Unlisting
    <3>. QED  BY <1>0, <2>2, <3>1, SuggestionsMoves, MovedAway, FilesStand
  <2>. QED  BY <1>4, <2>1, <2>2 DEF TalkNext
<1>5. CASE AdmissionNext
  <2>1. OAuthLabels \cap L = {} /\ AccountsLabels \cap L = {} /\ KnowledgeLabels \cap L = {}
    BY DEF StoreLabels, StoringLabels, Unlisting, OAuthLabels, AccountsLabels, KnowledgeLabels
  <2>2. ASSUME OAuthNext PROVE Away(L)
    BY <1>0, <2>1, <2>2, OAuthMoves, MovedAway
  <2>3. ASSUME AccountsNext PROVE Away(L)
    BY <1>0, <2>1, <2>3, AccountsMoves, MovedAway
  <2>4. ASSUME KnowledgeNext PROVE Away(L)
    BY <1>0, <2>1, <2>4, KnowledgeMoves, MovedAway
  <2>5. Away(L)
    BY <1>5, <2>2, <2>3, <2>4 DEF AdmissionNext
  <2>. QED  BY <2>5, FilesStand
<1>6. CASE HubNext
  <2>1. HubLabels \cap L = {} /\ HubTo \cap L = {}
    BY DEF StoreLabels, StoringLabels, Unlisting, HubLabels, HubTo
  <2>. QED  BY <1>0, <1>6, <2>1, HubMoves, MovedAway, FilesStand
<1>7. CASE StartupNext
  <2>1. Away(L)
    BY <1>7, StartupKeeps DEF Away, handlers
  <2>. QED  BY <2>1, FilesStand
<1>8. CASE UNCHANGED vars
  <2>1. Away(L)
    BY <1>8 DEF Away, vars, server, handlers
  <2>. QED  BY <2>1, FilesStand
<1>. QED
  BY <1>1, <1>2, <1>3, <1>4, <1>5, <1>6, <1>7, <1>8 DEF Next, Quiet

\* Requests are counted, and never uncounted.
LEMMA ServedGrows ==
  ASSUME Alone, [Next]_vars
  PROVE  served' \in Nat /\ served' >= served
<1>1. CASE Rests
  BY <1>1 DEF Rests, Alone
<1>2. ASSUME NEW r \in Requests, Goes(r) \/ Takes(r) PROVE served' = served \/ served' = served + 1
  BY <1>2 DEF Goes, Takes, GotoWith, Receive, Arrives, control
<1>3. CASE Starts
  BY <1>3 DEF Starts, Alone
<1>4. served' = served \/ served' = served + 1
  BY <1>1, <1>2, <1>3, NextOne DEF OneMoves, Rests, Starts
<1>. QED  BY <1>4 DEF Alone

\* A step that changes no file and concerns nobody who stores one.
LEMMA FilesStay ==
  ASSUME FilesInv, UNCHANGED files, Away(StoreLabels), served \in Nat, served' \in Nat,
         served' >= served, restarts' = 0 => restarts = 0
  PROVE  FilesInv'
<1>1. disk' = disk /\ filed' = filed
  BY DEF files
<1>2. 1 .. served \subseteq 1 .. served'
  OBVIOUS
<1>3. FiledSound'
  BY <1>1, <1>2 DEF FilesInv, FiledSound
<1>4. ASSUME NEW r \in Requests
      PROVE  \/ pc'[r] = pc[r] /\ task'[r] = task[r]
             \/ pc'[r] \notin StoreLabels /\ pc[r] \notin StoreLabels
  BY DEF Away
<1>5. ASSUME NEW r \in Requests PROVE FilesTask(pc[r], task[r])'
  <2>1. CASE pc'[r] = pc[r] /\ task'[r] = task[r]
    BY <1>1, <1>2, <2>1 DEF FilesInv, FilesTask, Written, Name
  <2>2. CASE pc'[r] \notin StoreLabels
    BY <2>2 DEF FilesTask, StoreLabels, Unlisting
  <2>. QED  BY <1>4, <2>1, <2>2
<1>6. ASSUME NEW r \in Requests, NEW q \in Requests, r # q
      PROVE  Apart(pc'[r], task'[r], pc'[q], task'[q])
  BY <1>4, <1>6 DEF FilesInv, Apart, StoreLabels
<1>7. ASSUME NEW r \in Requests, NEW f, Holds(pc[r], task[r], f)
      PROVE  Holds(pc'[r], task'[r], f)
  BY <1>4, <1>7 DEF Holds, StoreLabels, Unlisting
<1>8. ASSUME restarts' = 0, NEW f \in disk' PROVE Owned(f)'
  <2>1. Owned(f)
    BY <1>1, <1>8 DEF FilesInv
  <2>2. (\E x \in filed' : x.file = f) \/ \E r \in Requests : Holds(pc'[r], task'[r], f)
    BY <1>1, <1>7, <2>1 DEF Owned
  <2>. QED  BY <2>2 DEF Owned, Holds, Written, Name
<1>9. \A r, q \in Requests : r # q => Apart(pc[r], task[r], pc[q], task[q])'
  BY <1>6 DEF Apart
<1>. QED  BY <1>3, <1>5, <1>8, <1>9 DEF FilesInv

LEMMA FilesRestarts ==
  ASSUME FilesInv, Alone, Restart
  PROVE  FilesInv'
<1>1. /\ disk' = disk /\ filed' = filed /\ served' = served /\ restarts' = restarts + 1
      /\ \A r \in Requests : pc'[r] = "idle"
  BY DEF Restart, ServerRestart, files, talk
<1>2. restarts' # 0
  BY <1>1 DEF Alone
<1>3. FiledSound'
  BY <1>1 DEF FilesInv, FiledSound
<1>4. /\ \A r \in Requests : FilesTask(pc[r], task[r])'
      /\ \A r, q \in Requests : Apart(pc[r], task[r], pc[q], task[q])'
  BY <1>1 DEF FilesTask, Apart, StoringLabels, Unlisting
<1>. QED  BY <1>2, <1>3, <1>4 DEF FilesInv

\* A step of one handler: what it has to leave the others.
LEMMA FilesMove ==
  ASSUME FilesInv, served \in Nat, served' \in Nat, served' >= served,
         NEW r \in Requests, NEW p, NEW t,
         \A q \in Requests : /\ pc'[q] = (IF q = r THEN p ELSE pc[q])
                             /\ task'[q] = (IF q = r THEN t ELSE task[q]),
         restarts' = restarts, FiledSound', FilesTask(p, t)',
         \A q \in Requests \ {r} :
           /\ Apart(p, t, pc[q], task[q]) /\ Apart(pc[q], task[q], p, t)
           /\ pc[q] \in StoringLabels => Written(task[q]) \cap disk \subseteq disk'
           /\ \A x \in filed' \ filed :
                /\ pc[q] \in StoringLabels => x.file[1] # task[q].serial
                /\ pc[q] = "file:remove" => x.file # task[q].row.file,
         restarts = 0 => \A f \in disk' :
           \/ \E x \in filed' : x.file = f
           \/ Holds(p, t, f)
           \/ \E q \in Requests \ {r} : Holds(pc[q], task[q], f)
  PROVE  FilesInv'
<1>1. 1 .. served \subseteq 1 .. served'
  OBVIOUS
<1>2. pc'[r] = p /\ task'[r] = t
  OBVIOUS
<1>3. ASSUME NEW q \in Requests, q # r PROVE FilesTask(pc[q], task[q])'
  <2>1. pc'[q] = pc[q] /\ task'[q] = task[q] /\ q \in Requests \ {r}
    BY <1>3
  <2>2. FilesTask(pc[q], task[q])
    BY DEF FilesInv
  <2>3. ASSUME pc[q] \in StoringLabels
        PROVE  /\ {"serial", "written"} \subseteq DOMAIN task[q]
               /\ task[q].serial \in 1 .. served' /\ task[q].written \in Nat
               /\ Written(task[q]) \subseteq disk'
               /\ \A x \in filed' : x.file[1] # task[q].serial
    BY <1>1, <2>1, <2>2, <2>3 DEF FilesTask
  <2>4. pc[q] \in Unlisting => task[q].row.file[1] \in 1 .. served'
    BY <1>1, <2>2 DEF FilesTask
  <2>5. ASSUME pc[q] = "file:remove" PROVE \A x \in filed' : x.file # task[q].row.file
    BY <2>1, <2>2, <2>5 DEF FilesTask
  <2>. QED  BY <2>1, <2>3, <2>4, <2>5 DEF FilesTask, Written, Name
<1>4. FilesTask(pc[r], task[r])'
  BY <1>2 DEF FilesTask, Written, Name
<1>5. ASSUME NEW q \in Requests, NEW h \in Requests, q # h
      PROVE  Apart(pc[q], task[q], pc[h], task[h])'
  <2>1. Apart(pc'[q], task'[q], pc'[h], task'[h])
    <3>1. CASE q = r
      BY <1>2, <1>5, <3>1
    <3>2. CASE h = r
      BY <1>2, <1>5, <3>2
    <3>3. CASE q # r /\ h # r
      BY <1>5, <3>3 DEF FilesInv
    <3>. QED  BY <3>1, <3>2, <3>3
  <2>. QED  BY <2>1 DEF Apart
<1>6. ASSUME restarts' = 0, NEW f \in disk' PROVE Owned(f)'
  <2>1. (\E x \in filed' : x.file = f) \/ \E q \in Requests : Holds(pc'[q], task'[q], f)
    BY <1>2, <1>6
  <2>. QED  BY <2>1 DEF Owned, Holds, Written, Name
<1>. QED  BY <1>3, <1>4, <1>5, <1>6 DEF FilesInv

\* What a step of a handler is made of.
LEMMA FilesGoes ==
  ASSUME Handlers, Alone, NEW r \in Requests, NEW p, NEW t, GotoWith(r, p, t)
  PROVE  /\ \A q \in Requests : /\ pc'[q] = (IF q = r THEN p ELSE pc[q])
                                /\ task'[q] = (IF q = r THEN t ELSE task[q])
         /\ restarts' = restarts /\ served' = served
         /\ served \in Nat /\ served' \in Nat /\ served' >= served
<1>1. /\ \A q \in Requests : /\ pc'[q] = (IF q = r THEN p ELSE pc[q])
                             /\ task'[q] = (IF q = r THEN t ELSE task[q])
      /\ restarts' = restarts
  BY OneGoes
<1>2. served' = served
  BY DEF GotoWith, control
<1>. QED  BY <1>1, <1>2 DEF Alone

\* A handler goes on with its files, and nothing changes.
LEMMA StoringTurns ==
  ASSUME Handlers, Alone, FilesInv, NEW r \in Requests, NEW p \in StoringLabels,
         pc[r] \in StoringLabels, Goto(r, p), UNCHANGED files
  PROVE  FilesInv'
<1> PICK t : t = task[r]
  OBVIOUS
<1>1. /\ \A q \in Requests : /\ pc'[q] = (IF q = r THEN p ELSE pc[q])
                             /\ task'[q] = (IF q = r THEN t ELSE task[q])
      /\ restarts' = restarts /\ served' = served
      /\ served \in Nat /\ served' \in Nat /\ served' >= served
  BY FilesGoes DEF Goto
<1>2. disk' = disk /\ filed' = filed
  BY DEF files
<1>3. FiledSound'
  BY <1>1, <1>2 DEF FilesInv, FiledSound
<1>4. p \notin Unlisting
  BY DEF StoringLabels, Unlisting
<1>5. FilesTask(p, t)'
  <2>1. FilesTask(pc[r], t)
    BY DEF FilesInv
  <2>. QED  BY <1>1, <1>2, <1>4, <2>1 DEF FilesTask, Written, Name, Unlisting
<1>6. ASSUME NEW q \in Requests \ {r}
      PROVE  /\ Apart(p, t, pc[q], task[q]) /\ Apart(pc[q], task[q], p, t)
             /\ pc[q] \in StoringLabels => Written(task[q]) \cap disk \subseteq disk'
             /\ \A x \in filed' \ filed :
                  /\ pc[q] \in StoringLabels => x.file[1] # task[q].serial
                  /\ pc[q] = "file:remove" => x.file # task[q].row.file
  <2>1. Apart(pc[r], t, pc[q], task[q]) /\ Apart(pc[q], task[q], pc[r], t)
    BY DEF FilesInv
  <2>. QED  BY <1>2, <1>4, <2>1 DEF Apart
<1>7. ASSUME restarts = 0, NEW f \in disk'
      PROVE  \/ \E x \in filed' : x.file = f
             \/ Holds(p, t, f)
             \/ \E q \in Requests \ {r} : Holds(pc[q], task[q], f)
  <2>1. Owned(f)
    BY <1>2, <1>7 DEF FilesInv
  <2>2. Holds(pc[r], task[r], f) => Holds(p, t, f)
    BY DEF Holds, StoringLabels
  <2>. QED  BY <1>2, <2>1, <2>2 DEF Owned
<1>. QED  BY <1>1, <1>3, <1>5, <1>6, <1>7, FilesMove

\* A request that brings files: nobody has had their names.
LEMMA StoringStarts ==
  ASSUME Handlers, Alone, FilesInv, NEW r \in Requests, NEW kind, NEW p \in StoringLabels,
         NEW t, Receive(r, kind, p, t), UNCHANGED files,
         {"serial", "written"} \subseteq DOMAIN t, t.serial = served', t.written = 0
  PROVE  FilesInv'
<1>1. /\ \A q \in Requests : /\ pc'[q] = (IF q = r THEN p ELSE pc[q])
                             /\ task'[q] = (IF q = r THEN t ELSE task[q])
      /\ restarts' = restarts
  BY OneGoes
<1>2. served' = served + 1 /\ pc[r] = "idle"
  BY DEF Receive, Arrives, Idle
<1>3. served \in Nat /\ served' \in Nat /\ served' >= served
  BY <1>2 DEF Alone
<1>4. disk' = disk /\ filed' = filed
  BY DEF files
<1>5. served' \notin 1 .. served /\ served' \in 1 .. served' /\ 1 .. served \subseteq 1 .. served'
  BY <1>2, <1>3
<1>6. FiledSound'
  BY <1>4, <1>5 DEF FilesInv, FiledSound
<1>7. Written(t) = {}
  BY DEF Written
<1>8. p \notin Unlisting
  BY DEF StoringLabels, Unlisting
<1>9. \A x \in filed : x.file[1] # t.serial
  BY <1>5 DEF FilesInv, FiledSound
<1>10. FilesTask(p, t)'
  BY <1>3, <1>4, <1>5, <1>7, <1>8, <1>9 DEF FilesTask, Unlisting, Written, Name
<1>11. ASSUME NEW q \in Requests \ {r}
       PROVE  /\ Apart(p, t, pc[q], task[q]) /\ Apart(pc[q], task[q], p, t)
              /\ pc[q] \in StoringLabels => Written(task[q]) \cap disk \subseteq disk'
              /\ \A x \in filed' \ filed :
                   /\ pc[q] \in StoringLabels => x.file[1] # task[q].serial
                   /\ pc[q] = "file:remove" => x.file # task[q].row.file
  <2>1. FilesTask(pc[q], task[q])
    BY DEF FilesInv
  <2>. QED  BY <1>4, <1>5, <1>8, <2>1 DEF FilesTask, Apart
<1>12. ASSUME restarts = 0, NEW f \in disk'
       PROVE  \/ \E x \in filed' : x.file = f
              \/ Holds(p, t, f)
              \/ \E q \in Requests \ {r} : Holds(pc[q], task[q], f)
  <2>1. Owned(f)
    BY <1>4, <1>12 DEF FilesInv
  <2>2. ~Holds(pc[r], task[r], f)
    BY <1>2 DEF Holds, StoringLabels
  <2>. QED  BY <1>4, <2>1, <2>2 DEF Owned
<1>. QED  BY <1>1, <1>3, <1>6, <1>10, <1>11, <1>12, FilesMove

LEMMA WriteFileKeeps ==
  ASSUME Handlers, Alone, FilesInv, NEW r \in Requests, WriteFile(r)
  PROVE  FilesInv'
<1> PICK t : t = task[r]
  OBVIOUS
<1> PICK w : w = [t EXCEPT !.written = @ + 1]
  OBVIOUS
<1> PICK new : new = Name(t, t.written + 1)
  OBVIOUS
<1>1. pc[r] = "file:write" /\ filed' = filed
  BY DEF WriteFile, At
<1>2. /\ {"serial", "written"} \subseteq DOMAIN t /\ t.serial \in 1 .. served /\ t.written \in Nat
      /\ Written(t) \subseteq disk
      /\ \A x \in filed : x.file[1] # t.serial
  BY <1>1 DEF FilesInv, FilesTask, StoringLabels
<1>3. CASE Goto(r, "file:clean") /\ UNCHANGED disk
  <2>1. UNCHANGED files /\ "file:clean" \in StoringLabels /\ pc[r] \in StoringLabels
    BY <1>1, <1>3 DEF files, StoringLabels
  <2>. QED  BY <1>3, <2>1, StoringTurns
<1>4. CASE GotoWith(r, "file:check", w) /\ disk' = disk \cup {new}
  <2>1. /\ \A q \in Requests : /\ pc'[q] = (IF q = r THEN "file:check" ELSE pc[q])
                               /\ task'[q] = (IF q = r THEN w ELSE task[q])
        /\ restarts' = restarts /\ served' = served
        /\ served \in Nat /\ served' \in Nat /\ served' >= served
    BY <1>4, FilesGoes
  <2>2. FiledSound'
    BY <1>1, <1>4, <2>1 DEF FilesInv, FiledSound
  <2>3. /\ DOMAIN w = DOMAIN t /\ w.serial = t.serial /\ w.written = t.written + 1
    BY <1>2
  <2>4. Written(w) = Written(t) \cup {new}
    <3>1. 1 .. (t.written + 1) = (1 .. t.written) \cup {t.written + 1}
      BY <1>2
    <3>. QED  BY <2>3, <3>1 DEF Written, Name
  <2>5. "file:check" \in StoringLabels /\ "file:check" \notin Unlisting /\ pc[r] \in StoringLabels
        /\ pc[r] # "file:remove"
    BY <1>1 DEF StoringLabels, Unlisting
  <2>6. FilesTask("file:check", w)'
    <3>1. Written(w) \subseteq disk' /\ w.written \in Nat
      BY <1>2, <1>4, <2>3, <2>4
    <3>. QED  BY <1>1, <1>2, <2>1, <2>3, <2>5, <3>1 DEF FilesTask, Written, Name, Unlisting
  <2>7. ASSUME NEW q \in Requests \ {r}
        PROVE  /\ Apart("file:check", w, pc[q], task[q]) /\ Apart(pc[q], task[q], "file:check", w)
               /\ pc[q] \in StoringLabels => Written(task[q]) \cap disk \subseteq disk'
               /\ \A x \in filed' \ filed :
                    /\ pc[q] \in StoringLabels => x.file[1] # task[q].serial
                    /\ pc[q] = "file:remove" => x.file # task[q].row.file
    <3>1. Apart(pc[r], t, pc[q], task[q]) /\ Apart(pc[q], task[q], pc[r], t)
      BY DEF FilesInv
    <3>. QED  BY <1>1, <1>4, <2>3, <2>5, <3>1 DEF Apart
  <2>8. ASSUME restarts = 0, NEW f \in disk'
        PROVE  \/ \E x \in filed' : x.file = f
               \/ Holds("file:check", w, f)
               \/ \E q \in Requests \ {r} : Holds(pc[q], task[q], f)
    <3>1. f = new => Holds("file:check", w, f)
      BY <2>4, <2>5 DEF Holds
    <3>2. Holds(pc[r], task[r], f) => Holds("file:check", w, f)
      BY <2>4, <2>5 DEF Holds
    <3>3. f # new => Owned(f)
      BY <1>4, <2>8 DEF FilesInv
    <3>. QED  BY <1>1, <3>1, <3>2, <3>3 DEF Owned
  <2>. QED  BY <2>1, <2>2, <2>6, <2>7, <2>8, FilesMove
<1>. QED  BY <1>3, <1>4 DEF WriteFile

LEMMA CheckFileKeeps ==
  ASSUME Handlers, Alone, FilesInv, NEW r \in Requests, CheckFile(r)
  PROVE  FilesInv'
<1>1. pc[r] = "file:check" /\ UNCHANGED files
  BY DEF CheckFile, At
<1>2. task[r].then \in {"file:upload", "file:plan", "dm:insert"}
  BY <1>1 DEF Handlers, TaskOK, FileTask
<1>3. Goto(r, "file:clean") \/ Goto(r, "file:write") \/ Goto(r, task[r].then)
  BY Zenon DEF CheckFile
<1>4. PICK p : Goto(r, p) /\ p \in {"file:clean", "file:write", task[r].then}
  BY <1>3
<1>5. p \in StoringLabels /\ pc[r] \in StoringLabels
  BY <1>1, <1>2, <1>4 DEF StoringLabels
<1>. QED  BY <1>1, <1>4, <1>5, StoringTurns

LEMMA CleanFilesKeeps ==
  ASSUME Handlers, Alone, FilesInv, NEW r \in Requests, CleanFiles(r)
  PROVE  FilesInv'
<1> PICK t : t = task[r]
  OBVIOUS
<1>1. pc[r] = "file:clean" /\ filed' = filed /\ disk' = disk \ Written(t)
      /\ GotoWith(r, "idle", None)
  BY DEF CleanFiles, At, Return, LeftBehind
<1>2. /\ \A q \in Requests : /\ pc'[q] = (IF q = r THEN "idle" ELSE pc[q])
                             /\ task'[q] = (IF q = r THEN None ELSE task[q])
      /\ restarts' = restarts /\ served' = served
      /\ served \in Nat /\ served' \in Nat /\ served' >= served
  BY <1>1, FilesGoes
<1>3. pc[r] \in StoringLabels /\ pc[r] # "file:remove"
      /\ "idle" \notin StoringLabels /\ "idle" \notin Unlisting
  BY <1>1 DEF StoringLabels, Unlisting
<1>4. \A f \in Written(t) : f[1] = t.serial
  BY DEF Written, Name
<1>5. \A x \in filed : x.file[1] # t.serial
  BY <1>3 DEF FilesInv, FilesTask
<1>6. FiledSound'
  BY <1>1, <1>2, <1>4, <1>5 DEF FilesInv, FiledSound
<1>7. FilesTask("idle", None)'
  BY <1>3 DEF FilesTask, Unlisting
<1>8. ASSUME NEW q \in Requests \ {r}
      PROVE  /\ Apart("idle", None, pc[q], task[q]) /\ Apart(pc[q], task[q], "idle", None)
             /\ pc[q] \in StoringLabels => Written(task[q]) \cap disk \subseteq disk'
             /\ \A x \in filed' \ filed :
                  /\ pc[q] \in StoringLabels => x.file[1] # task[q].serial
                  /\ pc[q] = "file:remove" => x.file # task[q].row.file
  <2>1. Apart(pc[r], t, pc[q], task[q])
    BY DEF FilesInv
  <2>2. pc[q] \in StoringLabels => Written(task[q]) \cap Written(t) = {}
    BY <1>3, <1>4, <2>1 DEF Apart, Written, Name
  <2>. QED  BY <1>1, <1>3, <2>2 DEF Apart
<1>9. ASSUME restarts = 0, NEW f \in disk'
      PROVE  \/ \E x \in filed' : x.file = f
             \/ Holds("idle", None, f)
             \/ \E q \in Requests \ {r} : Holds(pc[q], task[q], f)
  <2>1. Owned(f) /\ f \notin Written(t)
    BY <1>1, <1>9 DEF FilesInv
  <2>2. ~Holds(pc[r], task[r], f)
    BY <1>3, <2>1 DEF Holds
  <2>. QED  BY <1>1, <2>1, <2>2 DEF Owned
<1>. QED  BY <1>2, <1>6, <1>7, <1>8, <1>9, FilesMove

\* The rows of what a handler has written, which is none of its business any more.
LEMMA RowsKeep ==
  ASSUME Handlers, Alone, FilesInv, NEW r \in Requests, pc[r] \in StoringLabels,
         NEW t, t = task[r], NEW table, NEW of, filed' = filed \cup Rows(t, table, of),
         disk' = disk, NEW p, NEW w, GotoWith(r, p, w), p \in {"idle", "send:lookup"}
  PROVE  FilesInv'
<1>1. /\ \A q \in Requests : /\ pc'[q] = (IF q = r THEN p ELSE pc[q])
                             /\ task'[q] = (IF q = r THEN w ELSE task[q])
      /\ restarts' = restarts /\ served' = served
      /\ served \in Nat /\ served' \in Nat /\ served' >= served
  BY FilesGoes
<1>2. p \notin StoringLabels /\ p \notin Unlisting /\ pc[r] # "file:remove"
  BY DEF StoringLabels, Unlisting
<1>3. \A f \in Written(t) : f[1] = t.serial
  BY DEF Written, Name
<1>4. /\ t.serial \in 1 .. served /\ Written(t) \subseteq disk
      /\ \A x \in filed : x.file[1] # t.serial
  BY DEF FilesInv, FilesTask
<1>5. /\ \A x \in Rows(t, table, of) : x.file \in Written(t) /\ x.file[1] = t.serial
      /\ \A f \in Written(t) : \E x \in Rows(t, table, of) : x.file = f
      /\ \A x, y \in Rows(t, table, of) : x.file = y.file => x = y
  <2>1. Rows(t, table, of) = {[file |-> f, table |-> table, of |-> of] : f \in Written(t)}
    BY DEF Rows
  <2>2. ASSUME NEW x \in Rows(t, table, of)
        PROVE  \E f \in Written(t) : x = [file |-> f, table |-> table, of |-> of]
    BY <2>1, Zenon
  <2>3. \A x \in Rows(t, table, of) : x.file \in Written(t)
    BY <2>2
  <2>4. \A x, y \in Rows(t, table, of) : x.file = y.file => x = y
    BY <2>2
  <2>5. ASSUME NEW f \in Written(t) PROVE \E x \in Rows(t, table, of) : x.file = f
    <3>1. [file |-> f, table |-> table, of |-> of] \in Rows(t, table, of)
      BY <2>1
    <3>. QED  BY <3>1
  <2>. QED  BY <1>3, <2>3, <2>4, <2>5
<1>6. FiledSound'
  <2>1. \A x \in filed' : x.file[1] \in 1 .. served' /\ x.file \in disk'
    BY <1>1, <1>4, <1>5 DEF FilesInv, FiledSound
  <2>2. \A x, y \in filed' : x.file = y.file => x = y
    BY <1>4, <1>5 DEF FilesInv, FiledSound
  <2>. QED  BY <2>1, <2>2 DEF FiledSound
<1>7. FilesTask(p, w)'
  BY <1>2 DEF FilesTask, Unlisting
<1>8. ASSUME NEW q \in Requests \ {r}
      PROVE  /\ Apart(p, w, pc[q], task[q]) /\ Apart(pc[q], task[q], p, w)
             /\ pc[q] \in StoringLabels => Written(task[q]) \cap disk \subseteq disk'
             /\ \A x \in filed' \ filed :
                  /\ pc[q] \in StoringLabels => x.file[1] # task[q].serial
                  /\ pc[q] = "file:remove" => x.file # task[q].row.file
  <2>1. Apart(pc[r], t, pc[q], task[q])
    BY DEF FilesInv
  <2>2. \A x \in filed' \ filed : x.file[1] = t.serial
    BY <1>5
  <2>3. pc[q] \in StoringLabels => task[q].serial # t.serial
    BY <2>1 DEF Apart
  <2>4. pc[q] = "file:remove" => task[q].row.file[1] # t.serial
    BY <2>1 DEF Apart, Unlisting
  <2>. QED  BY <1>2, <2>2, <2>3, <2>4 DEF Apart
<1>9. ASSUME restarts = 0, NEW f \in disk'
      PROVE  \/ \E x \in filed' : x.file = f
             \/ Holds(p, w, f)
             \/ \E q \in Requests \ {r} : Holds(pc[q], task[q], f)
  <2>1. Owned(f)
    BY <1>9 DEF FilesInv
  <2>2. Holds(pc[r], task[r], f) => \E x \in filed' : x.file = f
    BY <1>2, <1>5 DEF Holds
  <2>. QED  BY <2>1, <2>2 DEF Owned
<1>. QED  BY <1>1, <1>6, <1>7, <1>8, <1>9, FilesMove

LEMMA FileRowKeeps ==
  ASSUME Handlers, Alone, FilesInv, NEW r \in Requests, NEW step \in {"file:upload", "file:plan"},
         NEW table, FileRow(r, step, table)
  PROVE  FilesInv'
<1> PICK t : t = task[r]
  OBVIOUS
<1>1. pc[r] = step /\ disk' = disk /\ pc[r] \in StoringLabels /\ "file:clean" \in StoringLabels
  BY DEF FileRow, At, StoringLabels
<1>2. CASE Goto(r, "file:clean") /\ UNCHANGED filed
  BY <1>1, <1>2, StoringTurns DEF files
<1>3. CASE Return(r) /\ filed' = filed \cup Rows(t, table, t.user)
  BY <1>1, <1>3, RowsKeep DEF Return
<1>. QED  BY <1>2, <1>3 DEF FileRow

LEMMA DmInsertKeeps ==
  ASSUME Handlers, Alone, FilesInv, NEW r \in Requests, DmInsert(r)
  PROVE  FilesInv'
<1> PICK t : t = task[r]
  OBVIOUS
<1>1. pc[r] = "dm:insert" /\ disk' = disk
  BY DEF DmInsert, At
<1>2. pc[r] \in StoringLabels /\ "file:clean" \in StoringLabels
  BY <1>1 DEF StoringLabels
<1>3. \/ Goto(r, "file:clean") /\ UNCHANGED filed
      \/ \E m : GotoWith(r, "send:lookup", DmTelling(t)) /\ filed' = filed \cup Rows(t, "dm_attachments", m)
  BY Zenon DEF DmInsert
<1>4. CASE Goto(r, "file:clean") /\ UNCHANGED filed
  BY <1>1, <1>2, <1>4, StoringTurns DEF files
<1>5. ASSUME NEW m, GotoWith(r, "send:lookup", DmTelling(t)),
             filed' = filed \cup Rows(t, "dm_attachments", m)
      PROVE  FilesInv'
  <2> PICK w : w = DmTelling(t)
    OBVIOUS
  <2>1. GotoWith(r, "send:lookup", w)
    BY <1>5
  <2>. QED  BY <1>1, <1>2, <1>5, <2>1, RowsKeep
<1>. QED  BY <1>3, <1>4, <1>5

LEMMA DeleteFileKeeps ==
  ASSUME Handlers, Alone, FilesInv, NEW r \in Requests, DeleteFile(r)
  PROVE  FilesInv'
<1>1. PICK x \in filed : Receive(r, "DeleteFile", "file:unlist", [row |-> x])
  BY DEF DeleteFile
<1> PICK t : t = [row |-> x]
  OBVIOUS
<1>2. UNCHANGED files /\ Receive(r, "DeleteFile", "file:unlist", t)
  BY <1>1 DEF DeleteFile
<1>3. /\ \A q \in Requests : /\ pc'[q] = (IF q = r THEN "file:unlist" ELSE pc[q])
                             /\ task'[q] = (IF q = r THEN t ELSE task[q])
      /\ restarts' = restarts
  <2>1. \E kind : Receive(r, kind, "file:unlist", t)
    BY <1>2
  <2>. QED  BY <2>1, OneGoes
<1>4. served' = served + 1 /\ pc[r] = "idle"
  BY <1>2 DEF Receive, Arrives, Idle
<1>5. served \in Nat /\ served' \in Nat /\ served' >= served
  BY <1>4 DEF Alone
<1>6. disk' = disk /\ filed' = filed
  BY <1>2 DEF files
<1>7. "file:unlist" \notin StoringLabels /\ t.row = x
  BY DEF StoringLabels
<1>8. 1 .. served \subseteq 1 .. served'
  BY <1>5
<1>9. FiledSound'
  BY <1>6, <1>8 DEF FilesInv, FiledSound
<1>10. x.file[1] \in 1 .. served
  BY DEF FilesInv, FiledSound
<1>11. FilesTask("file:unlist", t)'
  BY <1>7, <1>8, <1>10 DEF FilesTask
<1>12. ASSUME NEW q \in Requests \ {r}
       PROVE  /\ Apart("file:unlist", t, pc[q], task[q]) /\ Apart(pc[q], task[q], "file:unlist", t)
              /\ pc[q] \in StoringLabels => Written(task[q]) \cap disk \subseteq disk'
              /\ \A y \in filed' \ filed :
                   /\ pc[q] \in StoringLabels => y.file[1] # task[q].serial
                   /\ pc[q] = "file:remove" => y.file # task[q].row.file
  <2>1. pc[q] \in StoringLabels => x.file[1] # task[q].serial
    BY DEF FilesInv, FilesTask
  <2>. QED  BY <1>6, <1>7, <2>1 DEF Apart
<1>13. ASSUME restarts = 0, NEW f \in disk'
       PROVE  \/ \E y \in filed' : y.file = f
              \/ Holds("file:unlist", t, f)
              \/ \E q \in Requests \ {r} : Holds(pc[q], task[q], f)
  <2>1. Owned(f)
    BY <1>6, <1>13 DEF FilesInv
  <2>2. ~Holds(pc[r], task[r], f)
    BY <1>4 DEF Holds, StoringLabels
  <2>. QED  BY <1>6, <2>1, <2>2 DEF Owned
<1>. QED  BY <1>3, <1>5, <1>9, <1>11, <1>12, <1>13, FilesMove

LEMMA DeleteFileRowKeeps ==
  ASSUME Handlers, Alone, FilesInv, NEW r \in Requests, DeleteFileRow(r)
  PROVE  FilesInv'
<1> PICK t : t = task[r]
  OBVIOUS
<1> PICK x : x = t.row
  OBVIOUS
<1>1. pc[r] = "file:unlist" /\ disk' = disk
  BY DEF DeleteFileRow, At
<1>2. pc[r] \notin StoringLabels /\ "file:remove" \notin StoringLabels /\ "idle" \notin StoringLabels
      /\ pc[r] \in Unlisting /\ "idle" \notin Unlisting
  BY <1>1 DEF StoringLabels, Unlisting
<1>3. x.file[1] \in 1 .. served
  BY <1>2 DEF FilesInv, FilesTask
<1>4. ASSUME NEW p, NEW w, GotoWith(r, p, w), filed' \subseteq filed,
             \A y \in filed : y \in filed' \/ (p = "file:remove" /\ w.row.file = y.file),
             p = "idle" \/ (p = "file:remove" /\ w = t /\ \A y \in filed' : y.file # x.file)
      PROVE  FilesInv'
  <2>1. /\ \A q \in Requests : /\ pc'[q] = (IF q = r THEN p ELSE pc[q])
                               /\ task'[q] = (IF q = r THEN w ELSE task[q])
        /\ restarts' = restarts /\ served' = served
        /\ served \in Nat /\ served' \in Nat /\ served' >= served
    BY <1>4, FilesGoes
  <2>2. FiledSound'
    BY <1>1, <1>4, <2>1 DEF FilesInv, FiledSound
  <2>3. FilesTask(p, w)'
    BY <1>2, <1>3, <1>4, <2>1 DEF FilesTask
  <2>4. ASSUME NEW q \in Requests \ {r}
        PROVE  /\ Apart(p, w, pc[q], task[q]) /\ Apart(pc[q], task[q], p, w)
               /\ pc[q] \in StoringLabels => Written(task[q]) \cap disk \subseteq disk'
               /\ \A y \in filed' \ filed :
                    /\ pc[q] \in StoringLabels => y.file[1] # task[q].serial
                    /\ pc[q] = "file:remove" => y.file # task[q].row.file
    <3>1. Apart(pc[q], task[q], pc[r], t)
      BY DEF FilesInv
    <3>2. p \in Unlisting => w = t
      BY <1>2, <1>4
    <3>. QED  BY <1>1, <1>2, <1>4, <3>1, <3>2 DEF Apart
  <2>5. ASSUME restarts = 0, NEW f \in disk'
        PROVE  \/ \E y \in filed' : y.file = f
               \/ Holds(p, w, f)
               \/ \E q \in Requests \ {r} : Holds(pc[q], task[q], f)
    <3>1. Owned(f)
      BY <1>1, <2>5 DEF FilesInv
    <3>2. ~Holds(pc[r], task[r], f)
      BY <1>1, <1>2 DEF Holds
    <3>3. \A y \in filed : y.file = f => (\E z \in filed' : z.file = f) \/ Holds(p, w, f)
      BY <1>4 DEF Holds
    <3>. QED  BY <3>1, <3>2, <3>3 DEF Owned
  <2>. QED  BY <2>1, <2>2, <2>3, <2>4, <2>5, FilesMove
<1>5. CASE x \in filed /\ Goto(r, "file:remove") /\ filed' = filed \ {x}
  <2>1. GotoWith(r, "file:remove", t)
    BY <1>5 DEF Goto
  <2>2. \A y \in filed' : y.file # x.file
    BY <1>5 DEF FilesInv, FiledSound
  <2>. QED  BY <1>4, <1>5, <2>1, <2>2
<1>6. CASE Return(r) /\ UNCHANGED filed
  BY <1>4, <1>6 DEF Return
<1>. QED  BY <1>5, <1>6 DEF DeleteFileRow

LEMMA RemoveFileKeeps ==
  ASSUME Handlers, Alone, FilesInv, NEW r \in Requests, RemoveFile(r)
  PROVE  FilesInv'
<1> PICK g : g = task[r].row.file
  OBVIOUS
<1>1. pc[r] = "file:remove" /\ filed' = filed /\ disk' = disk \ {g} /\ GotoWith(r, "idle", None)
  BY DEF RemoveFile, At, Return
<1>2. /\ \A q \in Requests : /\ pc'[q] = (IF q = r THEN "idle" ELSE pc[q])
                             /\ task'[q] = (IF q = r THEN None ELSE task[q])
      /\ restarts' = restarts /\ served' = served
      /\ served \in Nat /\ served' \in Nat /\ served' >= served
  BY <1>1, FilesGoes
<1>3. pc[r] \notin StoringLabels /\ pc[r] \in Unlisting
      /\ "idle" \notin StoringLabels /\ "idle" \notin Unlisting
  BY <1>1 DEF StoringLabels, Unlisting
<1>4. \A x \in filed : x.file # g
  BY <1>1 DEF FilesInv, FilesTask
<1>5. FiledSound'
  BY <1>1, <1>2, <1>4 DEF FilesInv, FiledSound
<1>6. FilesTask("idle", None)'
  BY <1>3 DEF FilesTask, Unlisting
<1>7. ASSUME NEW q \in Requests \ {r}
      PROVE  /\ Apart("idle", None, pc[q], task[q]) /\ Apart(pc[q], task[q], "idle", None)
             /\ pc[q] \in StoringLabels => Written(task[q]) \cap disk \subseteq disk'
             /\ \A x \in filed' \ filed :
                  /\ pc[q] \in StoringLabels => x.file[1] # task[q].serial
                  /\ pc[q] = "file:remove" => x.file # task[q].row.file
  <2>1. pc[q] \in StoringLabels => g[1] # task[q].serial
    BY <1>3 DEF FilesInv, Apart
  <2>2. pc[q] \in StoringLabels => g \notin Written(task[q])
    BY <2>1 DEF Written, Name
  <2>. QED  BY <1>1, <1>3, <2>2 DEF Apart
<1>8. ASSUME restarts = 0, NEW f \in disk'
      PROVE  \/ \E x \in filed' : x.file = f
             \/ Holds("idle", None, f)
             \/ \E q \in Requests \ {r} : Holds(pc[q], task[q], f)
  <2>1. Owned(f) /\ f # g
    BY <1>1, <1>8 DEF FilesInv
  <2>2. ~Holds(pc[r], task[r], f)
    BY <1>3, <2>1 DEF Holds
  <2>. QED  BY <1>1, <2>1, <2>2 DEF Owned
<1>. QED  BY <1>2, <1>5, <1>6, <1>7, <1>8, FilesMove

\* A letter's files are named by its request, and none of them is written yet.
LEMMA LetterBrings ==
  ASSUME NEW CONSTANT b, {"serial", "written"} \subseteq DOMAIN b, NEW CONSTANT v,
         NEW CONSTANT n, b["serial"] = n, b["written"] = 0
  PROVE  /\ {"serial", "written"} \subseteq DOMAIN With(b, [to |-> v])
         /\ With(b, [to |-> v])["serial"] = n /\ With(b, [to |-> v])["written"] = 0
<1> DEFINE g == [to |-> v]  s == With(b, g)
<1>1. DOMAIN g = {"to"}
  OBVIOUS
<1> HIDE DEF g
<1>2. /\ DOMAIN s = DOMAIN b \cup DOMAIN g
      /\ \A y \in DOMAIN b \ DOMAIN g : s[y] = b[y]
  BY WithNew, Zenon
<1> HIDE DEF s
<1>3. /\ {"serial", "written"} \subseteq DOMAIN s
      /\ s["serial"] = n /\ s["written"] = 0
  BY <1>1, <1>2
<1>. QED  BY <1>3 DEF s, g

LEMMA UploadsKeep ==
  ASSUME Handlers, Alone, FilesInv, NEW r \in Requests,
         Upload(r) \/ UploadFile(r) \/ SendMessage(r)
  PROVE  FilesInv'
<1>1. ASSUME NEW u \in Users, NEW kind, NEW then, UNCHANGED files,
             Receive(r, kind, "file:write", Storing(u, 1, then))
      PROVE  FilesInv'
  <2> PICK t : t = Storing(u, 1, then)
    OBVIOUS
  <2>1. Receive(r, kind, "file:write", t) /\ UNCHANGED files
    BY <1>1
  <2>2. {"serial", "written"} \subseteq DOMAIN t /\ t.serial = served' /\ t.written = 0
    BY DEF Storing
  <2>. QED  BY <2>1, <2>2, StoringStarts DEF StoringLabels
<1>2. CASE Upload(r)
  BY <1>1, <1>2 DEF Upload
<1>3. CASE UploadFile(r)
  BY <1>1, <1>3 DEF UploadFile
<1>4. CASE SendMessage(r)
  <2>1. \E x \in Letters, n \in 0 .. MaxFiles[workload] :
          /\ Receive(r, "SendMessage", IF n = 0 THEN "dm:insert" ELSE "file:write",
                     With(Storing(x[1], n, "dm:insert"), [to |-> x[2]]))
          /\ UNCHANGED files
    BY <1>4, Zenon DEF SendMessage
  <2> PICK x \in Letters, n \in 0 .. MaxFiles[workload] :
          /\ Receive(r, "SendMessage", IF n = 0 THEN "dm:insert" ELSE "file:write",
                     With(Storing(x[1], n, "dm:insert"), [to |-> x[2]]))
          /\ UNCHANGED files
    BY <2>1
  <2> PICK base : base = Storing(x[1], n, "dm:insert")
    OBVIOUS
  <2> PICK t : t = With(base, [to |-> x[2]])
    OBVIOUS
  <2> PICK p \in StoringLabels : p = IF n = 0 THEN "dm:insert" ELSE "file:write"
    BY DEF StoringLabels
  <2>2. {"serial", "written"} \subseteq DOMAIN base /\ base["serial"] = served'
        /\ base["written"] = 0
    BY DEF Storing
  <2>3. {"serial", "written"} \subseteq DOMAIN t /\ t["serial"] = served' /\ t["written"] = 0
    <3> PICK m : m = served'
      OBVIOUS
    <3> PICK v : v = x[2]
      OBVIOUS
    <3>1. base["serial"] = m
      BY <2>2
    <3>. QED  BY <2>2, <3>1, LetterBrings
  <2>4. Receive(r, "SendMessage", p, t) /\ UNCHANGED files
    OBVIOUS
  <2>. QED  BY <2>3, <2>4, StoringStarts
<1>. QED  BY <1>2, <1>3, <1>4

LEMMA FilesInvInit == Init => FilesInv
<1> SUFFICES ASSUME Init PROVE FilesInv
  OBVIOUS
<1>1. disk = {} /\ filed = {} /\ \A r \in Requests : pc[r] = "idle"
  BY DEF Init, FilesInit, ServerInit
<1>. QED  BY <1>1 DEF FilesInv, FiledSound, FilesTask, Apart, StoringLabels, Unlisting

LEMMA FilesInvStep ==
  ASSUME Handlers, Alone, FilesInv, [Next]_vars
  PROVE  FilesInv'
<1>1. CASE FilesNext
  BY <1>1, WriteFileKeeps, CheckFileKeeps, CleanFilesKeeps, FileRowKeeps, DeleteFileRowKeeps,
     RemoveFileKeeps, UploadsKeep, DeleteFileKeeps DEF FilesNext, FilesStep, UploadRequest,
     PlanRequest, DeleteRequest, CreateUpload, AddFile
<1>2. CASE Restart
  BY <1>2, FilesRestarts
<1>3. CASE \E r \in Requests : SendMessage(r) \/ DmInsert(r)
  BY <1>3, UploadsKeep, DmInsertKeeps
<1>4. CASE UNCHANGED files /\ Away(StoreLabels)
  <2>1. served \in Nat /\ served' \in Nat /\ served' >= served
    BY ServedGrows DEF Alone
  <2>2. restarts' = 0 => restarts = 0
    BY Unrestarted
  <2>. QED  BY <1>4, <2>1, <2>2, FilesStay
<1>. QED  BY <1>1, <1>2, <1>3, <1>4, FilesFrame

\* The part of NothingOrphaned that is about files.
LEMMA NoFileOrphaned ==
  ASSUME FilesInv
  PROVE  /\ \A x \in filed : x.file \in disk
         /\ Settled => \A f \in disk : \E x \in filed : x.file = f
<1>1. \A x \in filed : x.file \in disk
  BY DEF FilesInv, FiledSound
<1>2. ASSUME Settled, NEW f \in disk PROVE \E x \in filed : x.file = f
  <2>1. Owned(f) /\ \A r \in Requests : pc[r] = "idle"
    BY <1>2 DEF Settled, AllIdle, Idle, FilesInv
  <2>2. \A r \in Requests : ~Holds(pc[r], task[r], f)
    BY <2>1 DEF Holds, StoringLabels
  <2>. QED  BY <2>1, <2>2 DEF Owned
<1>. QED  BY <1>1, <1>2

\* A row has its file always, and without a restart nothing is left on disk that has no
\* row once the handlers are done.  While no call of PostgreSQL has failed, the same
\* goes for what is left there; one request at a time nobody has more databases than
\* allowed, and a reconciliation leaves no row without its database.
THEOREM NothingIsOrphaned == Spec => []NothingOrphaned
<1>1. Init => Handlers /\ Alone /\ DatabasesInv /\ FilesInv
  BY HandlersInit, AloneInit, DatabasesInvInit, FilesInvInit
<1>2. Handlers /\ Alone /\ DatabasesInv /\ FilesInv /\ [Next]_vars
        => (Handlers /\ Alone /\ DatabasesInv /\ FilesInv)'
  BY HandlersStep, AloneStep, DatabasesInvStep, FilesInvStep
<1>3. DatabasesInv /\ FilesInv => NothingOrphaned
  BY NoDatabaseOrphaned, NoFileOrphaned DEF NothingOrphaned
<1>. QED  BY <1>1, <1>2, <1>3, PTL DEF Spec
=============================================================================
