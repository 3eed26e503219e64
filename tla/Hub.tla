--------------------------------- MODULE Hub --------------------------------
(***************************************************************************)
(* Delivery over WebSockets (interfaces/ws/hub.go, client.go).  One goroutine, *)
(* Run, takes connections in and out of the hub's map under its mutex.        *)
(* Every request that has something to tell a user calls SendToUser itself:   *)
(* it reads the user's map of connections under the mutex, but walks it       *)
(* without, and takes the mutex again to drop a connection whose buffer is    *)
(* full.  Closing a channel twice, or sending on a closed one, panics; the    *)
(* Recover middleware ends the request, and a mutex it held stays locked.     *)
(*                                                                         *)
(* What happens under the mutex is one action.  That the Go runtime may stop  *)
(* the process when it sees a map written while it is walked is a restart.    *)
(***************************************************************************)
EXTENDS Server, TLC, Sequences

CONSTANTS
  Clients,   \* connections
  Owner,     \* Client.userID
  BufSize    \* sendBufSize

\* What Run receives: a connection that comes or goes.
Received == [do : {"register", "unregister"}, c : Clients]

ASSUME HubAssumption ==
  /\ Owner \in [Clients -> Users] /\ BufSize \in Nat \ {0}
  /\ None \notin Clients \cup Received

VARIABLES
  conn,      \* where ServeWS and the pumps of a connection are
  buf,       \* messages in Client.send
  closed,    \* connections whose send channel has been closed
  book,      \* Hub.clients: the inner map of a user, named by the client it was made for
  entry,     \* the inner maps: connections by name
  run,       \* what Run has received and not dealt with; None: it selects
  stuck,     \* the mutex is locked by a goroutine that is gone
  panicked   \* history: a request has panicked

hub == <<conn, buf, closed, book, entry, run, stuck, panicked>>

HubInit ==
  /\ conn = [c \in Clients |-> "none"]
  /\ buf = [c \in Clients |-> 0]
  /\ closed = {}
  /\ book = [u \in Users |-> None]
  /\ entry = [c \in Clients |-> {}]
  /\ run = None
  /\ stuck = FALSE
  /\ panicked = FALSE

\* The connections SendToUser finds for a user.
Listed(u) == IF book[u] = None THEN {} ELSE entry[book[u]]

-----------------------------------------------------------------------------
(* ServeWS and the pumps.  A connection is registering (hub.register <- it),  *)
(* then open, then broken (readPump has an error: hub.unregister <- it), gone. *)

ServeWS(c) ==
  /\ conn[c] = "none"
  /\ AnswerAtOnce("ServeWS")
  /\ conn' = [conn EXCEPT ![c] = "registering"]
  /\ UNCHANGED <<money, active, buf, closed, book, entry, run, stuck, panicked>>

\* The peer hangs up, or a read or write times out.
Hangup(c) ==
  /\ conn[c] = "open"
  /\ conn' = [conn EXCEPT ![c] = "broken"]
  /\ UNCHANGED <<server, buf, closed, book, entry, run, stuck, panicked>>

\* writePump sends what is in the buffer ...
WritePump(c) ==
  /\ conn[c] = "open" /\ buf[c] > 0
  /\ buf' = [buf EXCEPT ![c] = 0]
  /\ UNCHANGED <<server, conn, closed, book, entry, run, stuck, panicked>>

\* ... and hangs up when the channel is closed.
WritePumpEnds(c) ==
  /\ conn[c] = "open" /\ buf[c] = 0 /\ c \in closed
  /\ conn' = [conn EXCEPT ![c] = "broken"]
  /\ UNCHANGED <<server, buf, closed, book, entry, run, stuck, panicked>>

-----------------------------------------------------------------------------
(* Run *)

RunReceives(c) ==
  /\ run = None
  /\ \/ /\ conn[c] = "registering"
        /\ run' = [do |-> "register", c |-> c]
        /\ conn' = [conn EXCEPT ![c] = "open"]
     \/ /\ conn[c] = "broken"
        /\ run' = [do |-> "unregister", c |-> c]
        /\ conn' = [conn EXCEPT ![c] = "gone"]
  /\ UNCHANGED <<server, buf, closed, book, entry, stuck, panicked>>

MapFor_New(c) == c

\* The map the connection goes into: its user's, or a new one.
MapFor(c) == IF book[Owner[c]] = None THEN c ELSE book[Owner[c]]

RunRegisters ==
  /\ run # None /\ run.do = "register" /\ ~stuck
  /\ LET u == Owner[run.c]  m == MapFor(run.c)
     IN  /\ book' = [book EXCEPT ![u] = m]
         /\ entry' = [entry EXCEPT ![m] = @ \cup {run.c}]
  /\ run' = None
  /\ UNCHANGED <<server, conn, buf, closed, stuck, panicked>>

\* A connection that was dropped before is not closed again.
CloseListed(c) == IF c \in Listed(Owner[c]) THEN closed \cup {c} ELSE closed

\* The user's map without this connection; an empty one is removed.
BookWithout(c) ==
  IF c \in Listed(Owner[c]) /\ Listed(Owner[c]) = {c}
    THEN [book EXCEPT ![Owner[c]] = None] ELSE book

EntryWithout_Keeps(c) == entry

EntryWithout(c) ==
  IF c \in Listed(Owner[c]) THEN [entry EXCEPT ![book[Owner[c]]] = @ \ {c}] ELSE entry

RunUnregisters ==
  /\ run # None /\ run.do = "unregister" /\ ~stuck
  /\ closed' = CloseListed(run.c)
  /\ book' = BookWithout(run.c)
  /\ entry' = EntryWithout(run.c)
  /\ run' = None
  /\ UNCHANGED <<server, conn, buf, stuck, panicked>>

RunStep == (\E c \in Clients : RunReceives(c)) \/ RunRegisters \/ RunUnregisters

-----------------------------------------------------------------------------
(* SendToUser, for each of the users in todo *)

\* A task that has something to tell the users in todo, one after the other, and then
\* goes on at `then` with `rest`.
Telling(todo, then, rest) == [todo |-> todo, then |-> then, rest |-> rest]

\* h.clients[userID] under RLock.
SendLookup(r) ==
  LET t == task[r]
  IN  /\ At(r, "send:lookup")
      /\ IF t.todo = <<>> THEN
           IF t.then = "answer" THEN Return(r) ELSE GotoWith(r, t.then, t.rest)
         ELSE /\ ~stuck
              /\ IF book[Head(t.todo)] = None
                   THEN GotoWith(r, "send:lookup", [t EXCEPT !.todo = Tail(@)])
                   ELSE GotoWith(r, "send:next",
                          With(t, [to |-> Head(t.todo), map |-> book[Head(t.todo)], seen |-> {},
                                   todo |-> Tail(t.todo)]))
      /\ UNCHANGED <<money, active, hub>>

\* The next connection of the map as it is now.
SendNext(r) ==
  LET t == task[r]
  IN  /\ At(r, "send:next")
      /\ IF entry[t.map] \subseteq t.seen
           THEN GotoWith(r, "send:lookup", Telling(t.todo, t.then, t.rest))
           ELSE \E c \in entry[t.map] \ t.seen :
                  GotoWith(r, "send:put", With(t, [client |-> c, seen |-> t.seen \cup {c}]))
      /\ UNCHANGED <<money, active, hub>>

\* select: the buffer, or default when it is full.
SendPut(r) ==
  LET c == task[r].client
  IN  /\ At(r, "send:put")
      /\ IF c \in closed THEN Return(r) /\ panicked' = TRUE /\ UNCHANGED buf
         ELSE /\ UNCHANGED panicked
              /\ IF buf[c] < BufSize
                   THEN Goto(r, "send:next") /\ buf' = [buf EXCEPT ![c] = @ + 1]
                   ELSE Goto(r, "send:drop") /\ UNCHANGED buf
      /\ UNCHANGED <<money, active, conn, closed, book, entry, run, stuck>>

\* Lock; delete; close, which panics on a closed channel; Unlock.
SendDrop(r) ==
  LET t == task[r]
  IN  /\ At(r, "send:drop") /\ ~stuck
      /\ entry' = [entry EXCEPT ![t.map] = @ \ {t.client}]
      /\ IF t.client \in closed
           THEN /\ Return(r)
                /\ panicked' = TRUE /\ stuck' = TRUE
                /\ UNCHANGED <<closed, book>>
           ELSE /\ Goto(r, "send:next")
                /\ closed' = closed \cup {t.client}
                /\ book' = IF entry[t.map] \subseteq {t.client}
                             THEN [book EXCEPT ![t.to] = None] ELSE book
                /\ UNCHANGED <<stuck, panicked>>
      /\ UNCHANGED <<money, active, conn, buf, run>>

\* Broadcast holds the read lock all along and skips full buffers.
Broadcast ==
  /\ ~stuck
  /\ AnswerAtOnce("Broadcast")
  /\ buf' = [c \in Clients |->
       IF c \in Listed(Owner[c]) /\ buf[c] < BufSize THEN buf[c] + 1 ELSE buf[c]]
  /\ UNCHANGED <<money, active, conn, closed, book, entry, run, stuck, panicked>>

\* A restart drops every connection and starts with an empty hub.
HubRestart ==
  /\ conn' = [c \in Clients |-> IF conn[c] = "none" THEN "none" ELSE "gone"]
  /\ buf' = [c \in Clients |-> 0]
  /\ closed' = {} /\ run' = None /\ stuck' = FALSE /\ panicked' = FALSE
  /\ book' = [u \in Users |-> None]
  /\ entry' = [c \in Clients |-> {}]

-----------------------------------------------------------------------------
HubStep(r) == SendLookup(r) \/ SendNext(r) \/ SendPut(r) \/ SendDrop(r)

HubNext ==
  \/ RunStep \/ Broadcast
  \/ \E c \in Clients : ServeWS(c) \/ Hangup(c) \/ WritePump(c) \/ WritePumpEnds(c)
  \/ \E r \in Requests : HubStep(r)
=============================================================================
