-------------------------------- MODULE Chat --------------------------------
(***************************************************************************)
(* The assistant (application/chat_usecase.go, chat_faq.go,                  *)
(* persistence/chat_repo.go, infrastructure/llmproxy/chat.go, client.go).    *)
(* A question is stored, the history of its session goes to the language     *)
(* model, and as long as the model asks for tools their results are stored   *)
(* and sent along with the next call.  A semaphore bounds the calls in        *)
(* flight.  The model is external: it may fail, and asks for any number of   *)
(* tools up to a bound; each of its answers costs one token here.           *)
(* Texts, titles, skills and what a tool does are left out.                  *)
(***************************************************************************)
EXTENDS Classroom

CONSTANTS
  Sessions,      \* ids of chat_sessions
  StartSession,  \* chat_sessions at the start
  Slots,         \* the capacity of chatSem
  HistoryLimit,  \* rows of a session that ListBySession returns
  MaxToolHops,   \* maxToolHops
  MaxCalls       \* bound on the tool calls of one answer, by workload

\* chat_messages: the calls an assistant's message makes, the message whose call
\* a tool's message answers.
ChatMessage == [role : {"user", "assistant", "tool"}, calls : Nat, of : Nat]

Message(role, calls, of) == [role |-> role, calls |-> calls, of |-> of]

SessionRows == [user : Users, tokens : Nat, live : BOOLEAN, messages : Seq(ChatMessage)]

\* The tool messages that answer the calls of message i.
AnswersIn(messages, i) ==
  {j \in DOMAIN messages : messages[j].role = "tool" /\ messages[j].of = i}

\* Nobody was asking when the behaviour starts: every stored call has its result
\* behind it.  The tokens of a session count from there on.
ASSUME ChatAssumption ==
  /\ IsFiniteSet(Sessions)
  /\ StartSession \in [Sessions -> SessionRows \cup {None}] /\ None \notin SessionRows
  /\ \A s \in {x \in Sessions : StartSession[x] # None} :
       LET messages == StartSession[s].messages
       IN  /\ StartSession[s].tokens = 0
           /\ \A i \in DOMAIN messages :
                /\ AnswersIn(messages, i) = i + 1 .. i + messages[i].calls
                /\ messages[i].role = "tool" => messages[i].of \in DOMAIN messages
  /\ Slots \in Nat \ {0} /\ HistoryLimit \in Nat \ {0}
  /\ MaxToolHops \in Nat \ {0} /\ MaxCalls \in [Workloads -> Nat]

VARIABLES
  session,    \* chat_sessions with their chat_messages
  asked,      \* chat_usage: tokens and requests by user
  slots,      \* taken places of chatSem
  spent,      \* history: tokens of all answers of the model, by user
  cutShort    \* history: a call has failed or a session been deleted

chat == <<session, asked, slots, spent, cutShort>>

ChatInit ==
  /\ session = StartSession
  /\ asked = [u \in Users |-> [tokens |-> 0, requests |-> 0]]
  /\ slots = 0
  /\ spent = [u \in Users |-> 0]
  /\ cutShort = FALSE

SessionRow(u) == [user |-> u, tokens |-> 0, live |-> TRUE, messages |-> <<>>]

LiveSession(s) == session[s] # None /\ session[s].live

\* Insert a message; the foreign key refuses one of a deleted session.
Say(s, message) ==
  session' = [session EXCEPT ![s].messages = Append(@, message)]

\* ListBySession: ORDER BY id ASC LIMIT.
Listable(s) == LET n == Len(session[s].messages)
               IN  IF n > HistoryLimit THEN HistoryLimit ELSE n

-----------------------------------------------------------------------------
(* Sessions *)

CreateSession ==
  \E u \in Users, s \in FreeId(session) :
    /\ MayAct(u)
    /\ AnswerAtOnce("CreateSession")
    /\ session' = [session EXCEPT ![s] = SessionRow(u)]
    /\ UNCHANGED <<money, active, classroom, asked, slots, spent, cutShort>>

\* The messages go with the session, in one transaction.
DeleteSession ==
  \E s \in Sessions :
    /\ LiveSession(s) /\ MayAct(session[s].user)
    /\ AnswerAtOnce("DeleteSession")
    /\ session' = [session EXCEPT ![s].live = FALSE, ![s].messages = <<>>]
    /\ cutShort' = TRUE
    /\ UNCHANGED <<money, active, classroom, asked, slots, spent>>

-----------------------------------------------------------------------------
(* Ask and AskStream.  An answer the model makes in one piece comes from a   *)
(* call; only AskStream has a last answer streamed, without tools.           *)

\* lookupFAQ, which only AskStream calls: a short greeting may be on the list.
OnTheList(kind) == IF kind = "AskStream" THEN BOOLEAN ELSE {FALSE}

Ask(r) ==
  \E s \in Sessions, kind \in {"Ask", "AskStream"} : \E faq \in OnTheList(kind) :
    /\ LiveSession(s) /\ MayAct(session[s].user)
    /\ Receive(r, kind, "ask:save",
         [s |-> s, user |-> session[s].user, stream |-> kind = "AskStream", faq |-> faq,
          hop |-> 0, total |-> 0])
    /\ UNCHANGED <<money, active, classroom, chat>>

AskSave(r) ==
  LET t == task[r]
  IN  /\ At(r, "ask:save")
      /\ IF LiveSession(t.s)
           THEN /\ GotoWith(r, IF t.faq THEN "faq:save" ELSE "ask:history",
                     With(t, [question |-> Len(session[t.s].messages) + 1]))
                /\ Say(t.s, Message("user", 0, 0))
           ELSE Return(r) /\ UNCHANGED session
      /\ UNCHANGED <<money, active, classroom, asked, slots, spent, cutShort>>

\* A greeting is answered without the model.
FaqSave(r) ==
  LET t == task[r]
  IN  /\ At(r, "faq:save")
      /\ Return(r)
      /\ IF LiveSession(t.s) THEN Say(t.s, Message("assistant", 0, 0)) ELSE UNCHANGED session
      /\ UNCHANGED <<money, active, classroom, asked, slots, spent, cutShort>>

AskHistory(r) ==
  /\ At(r, "ask:history")
  /\ GotoWith(r, "ask:wait", With(task[r], [sent |-> Listable(task[r].s)]))
  /\ UNCHANGED <<money, active, classroom, chat>>

\* acquireChat: a free place, or the client goes away first.
AskAcquire(r) ==
  /\ pc[r] \in {"ask:wait", "last:wait"}
  /\ \/ /\ slots < Slots
        /\ slots' = slots + 1
        /\ Goto(r, IF At(r, "ask:wait") THEN "ask:call" ELSE "last:call")
        /\ UNCHANGED cutShort
     \/ /\ slots >= Slots
        /\ Return(r)
        /\ cutShort' = TRUE
        /\ UNCHANGED slots
  /\ UNCHANGED <<money, active, classroom, session, asked, spent>>

AfterFailedCall_KeepsSlot(r) == slots' = slots

\* The call fails, times out or is cancelled: releaseChat is deferred.
AfterFailedCall(r) == slots' = slots - 1

AskFails(r) ==
  /\ pc[r] \in {"ask:call", "last:call"}
  /\ Return(r)
  /\ AfterFailedCall(r)
  /\ cutShort' = TRUE
  /\ UNCHANGED <<money, active, classroom, session, asked, spent>>

\* What the model may answer: tool calls or a text, which may be empty.
Replies == {x \in [calls : 0 .. MaxCalls[workload], empty : BOOLEAN] : x.empty => x.calls = 0}

\* An answer without tools and text is asked for once more if it can be streamed.
AskAnswer(r) ==
  \E reply \in Replies :
    LET t == With(task[r], [total |-> task[r].total + 1, calls |-> reply.calls])
    IN  /\ At(r, "ask:call")
        /\ GotoWith(r, IF t.calls > 0 \/ ~t.stream THEN "ask:store"
                       ELSE IF reply.empty THEN "last:wait" ELSE "last:store", t)
        /\ slots' = slots - 1
        /\ spent' = [spent EXCEPT ![t.user] = @ + 1]
        /\ UNCHANGED <<money, active, classroom, session, asked, cutShort>>

AskStore(r) ==
  LET t == task[r]
  IN  /\ At(r, "ask:store")
      /\ IF ~LiveSession(t.s) THEN Return(r) /\ UNCHANGED session
         ELSE /\ GotoWith(r, IF t.calls = 0 THEN "ask:tokens" ELSE "ask:tool",
                   With(t, [of |-> Len(session[t.s].messages) + 1]))
              /\ Say(t.s, Message("assistant", t.calls, 0))
      /\ UNCHANGED <<money, active, classroom, asked, slots, spent, cutShort>>

\* What a tool answers, or why it was not run or failed: a message in either case.
RunTool(t) == Message("tool", 0, t.of)

\* The result of a tool is stored.  After the last one the model
\* is called again, but no more than MaxToolHops times.
AfterTools(t) ==
  IF t.hop + 1 < MaxToolHops THEN "ask:wait" ELSE IF t.stream THEN "last:wait" ELSE "ask:tokens"

AskTool(r) ==
  LET t == task[r]
  IN  /\ At(r, "ask:tool")
      /\ IF ~LiveSession(t.s) THEN Return(r) /\ UNCHANGED session
         ELSE /\ IF t.calls > 1 THEN GotoWith(r, "ask:tool", [t EXCEPT !.calls = @ - 1])
                 ELSE GotoWith(r, AfterTools(t), [t EXCEPT !.hop = @ + 1])
              /\ Say(t.s, RunTool(t))
      /\ UNCHANGED <<money, active, classroom, asked, slots, spent, cutShort>>

\* streamFinalAnswer: what the earlier calls have cost counts as well.
AddedUp(t) == t.total + 1

\* The place is held until the stream has been read to its end.
StreamReleases == slots' = slots - 1

StreamEnds(r) ==
  LET t == task[r]
  IN  /\ At(r, "last:call")
      /\ GotoWith(r, "last:store", [t EXCEPT !.total = AddedUp(t)])
      /\ StreamReleases
      /\ spent' = [spent EXCEPT ![t.user] = @ + 1]
      /\ UNCHANGED <<money, active, classroom, session, asked, cutShort>>

StreamStore(r) ==
  LET t == task[r]
  IN  /\ At(r, "last:store")
      /\ IF LiveSession(t.s)
           THEN Goto(r, "ask:tokens") /\ Say(t.s, Message("assistant", 0, 0))
           ELSE Return(r) /\ UNCHANGED session
      /\ UNCHANGED <<money, active, classroom, asked, slots, spent, cutShort>>

\* UpdateLastMessageAt adds in the database; no row, no change ...
AskTokens(r) ==
  LET t == task[r]
  IN  /\ At(r, "ask:tokens")
      /\ Goto(r, "ask:usage")
      /\ session' = IF LiveSession(t.s) THEN [session EXCEPT ![t.s].tokens = @ + t.total]
                    ELSE session
      /\ UNCHANGED <<money, active, classroom, asked, slots, spent, cutShort>>

\* ... and so does AddUsage.
AskUsage(r) ==
  LET t == task[r]
  IN  /\ At(r, "ask:usage")
      /\ Return(r)
      /\ asked' = [asked EXCEPT ![t.user] =
           [tokens |-> @.tokens + t.total, requests |-> @.requests + 1]]
      /\ UNCHANGED <<money, active, classroom, session, slots, spent, cutShort>>

\* The semaphore is in memory.
ChatRestart == slots' = 0 /\ UNCHANGED <<session, asked, spent, cutShort>>

-----------------------------------------------------------------------------
ChatStep(r) ==
  \/ AskSave(r) \/ FaqSave(r) \/ AskHistory(r) \/ AskAcquire(r) \/ AskFails(r)
  \/ AskAnswer(r) \/ AskStore(r) \/ AskTool(r) \/ StreamEnds(r) \/ StreamStore(r)
  \/ AskTokens(r) \/ AskUsage(r)

ChatRequest(r) == Ask(r) \/ DeleteSession

ChatNext ==
  \/ CreateSession
  \/ \E r \in Requests : ChatStep(r) \/ ChatRequest(r)
=============================================================================
