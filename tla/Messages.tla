------------------------------ MODULE Messages ------------------------------
(***************************************************************************)
(* Direct messages, notifications and what they set off                      *)
(* (application/dm_usecase.go, notification_usecase.go, auto_post.go,         *)
(* infrastructure/push/webpush.go, persistence/dm_repo.go,                    *)
(* notification_repo.go).  A notification is a row, then a message through    *)
(* the hub, then goroutines for push and mail that outlive the request and    *)
(* are lost in a restart.  The services that deliver pushes and mails are     *)
(* external.  A server of a mix without subscriptions has no VAPID keys, one  *)
(* without preferences no mail service: those goroutines return at once.      *)
(***************************************************************************)
EXTENDS Files, Hub

CONSTANTS
  MessageIds,  \* ids of dm_messages
  NoticeIds,   \* ids of notifications
  Endpoints,   \* of browsers, for pushes
  Letters,     \* who writes to whom
  Audience     \* whom other handlers have something to tell

ASSUME MessagesAssumption ==
  /\ Letters \subseteq Users \X Users /\ Audience \subseteq Users

VARIABLES
  message,     \* dm_messages
  notice,      \* notifications; by: history, the request it was made for
  endpoint,    \* push_subscriptions: whose it is, by endpoint, which is UNIQUE
  wants,       \* email_preferences; no row is TRUE
  bulletins,   \* posts in the channel for announcements
  jobs,        \* goroutines for push and mail
  gone,        \* endpoints that the push service has given up
  told,        \* history: announcements answered, for whom and with what count
  subscriber,  \* history: who subscribed an endpoint last and has not unsubscribed
  silent,      \* history: notices of users who had turned mail off by then, and since
  mailed       \* history: notices sent by mail

messages == <<message, notice, endpoint, wants, bulletins, jobs, gone, told,
              subscriber, silent, mailed>>

MessagesInit ==
  /\ message = [m \in MessageIds |-> None]
  /\ notice = [n \in NoticeIds |-> None]
  /\ endpoint = [e \in Endpoints |-> None]
  /\ wants = [u \in Users |-> TRUE]
  /\ bulletins = 0
  /\ jobs = {} /\ gone = {}
  /\ told = {} /\ subscriber = [e \in Endpoints |-> None]
  /\ silent = {} /\ mailed = {}

Pushes == "SubscribePush" \in workload
Mails == "UpdateEmailPreference" \in workload

-----------------------------------------------------------------------------
(* CreateNotification and CreateNotificationQuiet *)

\* What to tell whom: loud if with push and mail.
Notice(u, kind, loud, after, by, link) ==
  [to |-> u, kind |-> kind, loud |-> loud, after |-> after, by |-> by, link |-> link]

NoticeRow(t) ==
  [user |-> t.to, kind |-> t.kind, by |-> t.by, link |-> t.link, read |-> FALSE]

\* What follows the hub: the goroutines, if there are any to start.
AfterHub(t) == IF t.loud /\ (Pushes \/ Mails) THEN "notice:start" ELSE t.after

InsertNotice(t, n) ==
  /\ notice' = [notice EXCEPT ![n] = NoticeRow(t)]
  /\ silent' = IF wants[t.to] THEN silent ELSE silent \cup {n}

Inserted(t, n) ==
  Telling(<<t.to>>, AfterHub(t), With(t, [id |-> n, ok |-> TRUE]))

\* The insert fails for somebody who is no user, and if no id is left; then the
\* caller goes on or answers.
NoticeInsert(r) ==
  LET t == task[r]
  IN  /\ At(r, "notice:insert")
      /\ IF FreeId(notice) = {} \/ ~Registered(t.to)
           THEN /\ IF t.after = "answer" THEN Return(r)
                   ELSE GotoWith(r, t.after, With(t, [ok |-> FALSE]))
                /\ UNCHANGED <<notice, silent>>
           ELSE \E n \in FreeId(notice) :
                  GotoWith(r, "send:lookup", Inserted(t, n)) /\ InsertNotice(t, n)
      /\ UNCHANGED <<money, active, classroom, files, hub, message, endpoint, wants,
                     bulletins, jobs, gone, told, subscriber, mailed>>

NoticeStart(r) ==
  LET t == task[r]
  IN  /\ At(r, "notice:start")
      /\ IF t.after = "answer" THEN Return(r) ELSE Goto(r, t.after)
      /\ jobs' = jobs \cup (IF Pushes THEN {<<"push", t.id>>} ELSE {})
                      \cup (IF Mails THEN {<<"mail", t.id>>} ELSE {})
      /\ UNCHANGED <<money, active, classroom, files, hub, message, notice, endpoint,
                     wants, bulletins, gone, told, subscriber, silent, mailed>>

\* Some handler has something to tell a user, and nothing else to do.
CreateNotification(r) ==
  \E u \in Audience, n \in FreeId(notice) :
    LET t == Notice(u, "other", TRUE, "answer", 0, 0)
    IN  /\ Receive(r, "CreateNotification", "send:lookup", Inserted(t, n))
        /\ InsertNotice(t, n)
        /\ UNCHANGED <<money, active, classroom, files, hub, message, endpoint, wants,
                       bulletins, jobs, gone, told, subscriber, mailed>>

\* FindByID and its check, then the update; reading is not taken back.
MarkRead ==
  \E u \in Users, n \in NoticeIds :
    /\ MayAct(u) /\ notice[n] # None /\ notice[n].user = u
    /\ AnswerAtOnce("MarkRead")
    /\ notice' = [notice EXCEPT ![n].read = TRUE]
    /\ UNCHANGED <<money, active, classroom, files, hub, message, endpoint, wants,
                   bulletins, jobs, gone, told, subscriber, silent, mailed>>

MarkAllRead ==
  \E u \in Users :
    /\ MayAct(u)
    /\ AnswerAtOnce("MarkAllRead")
    /\ notice' = [n \in NoticeIds |->
         IF notice[n] # None /\ notice[n].user = u THEN [notice[n] EXCEPT !.read = TRUE]
         ELSE notice[n]]
    /\ UNCHANGED <<money, active, classroom, files, hub, message, endpoint, wants,
                   bulletins, jobs, gone, told, subscriber, silent, mailed>>

-----------------------------------------------------------------------------
(* SendMessage *)

SendMessage(r) ==
  \E x \in Letters, n \in 0 .. MaxFiles[workload] : LET u == x[1]  v == x[2] IN
    /\ u # v /\ MayAct(u) /\ Registered(v)
    /\ Receive(r, "SendMessage", IF n = 0 THEN "dm:insert" ELSE "file:write",
               With(Storing(u, n, "dm:insert"), [to |-> v]))
    /\ UNCHANGED <<money, active, classroom, files, hub, messages>>

\* Both are told through the hub, and the receiver has a notification.
DmTelling(t) ==
  Telling(<<t.to, t.user>>, "notice:insert", Notice(t.to, "new_dm", TRUE, "answer", 0, 0))

\* One transaction inserts the message and its attachments, or nothing.
DmInsert(r) ==
  LET t == task[r]
  IN  /\ At(r, "dm:insert")
      /\ \/ Goto(r, "file:clean") /\ UNCHANGED <<message, filed>>
         \/ \E m \in FreeId(message) :
              /\ GotoWith(r, "send:lookup", DmTelling(t))
              /\ message' = [message EXCEPT ![m] =
                               [from |-> t.user, to |-> t.to, read |-> FALSE]]
              /\ filed' = filed \cup Rows(t, "dm_attachments", m)
      /\ UNCHANGED <<money, active, classroom, disk, hub, notice, endpoint, wants,
                     bulletins, jobs, gone, told, subscriber, silent, mailed>>

\* All that v has sent so far, also what u has not been shown yet.
MarkAsRead ==
  \E u, v \in Users :
    /\ MayAct(u)
    /\ AnswerAtOnce("MarkAsRead")
    /\ message' = [m \in MessageIds |->
         IF message[m] # None /\ message[m].to = u /\ message[m].from = v
           THEN [message[m] EXCEPT !.read = TRUE] ELSE message[m]]
    /\ UNCHANGED <<money, active, classroom, files, hub, notice, endpoint, wants,
                   bulletins, jobs, gone, told, subscriber, silent, mailed>>

-----------------------------------------------------------------------------
(* SendAnnouncement: to the users that are named, or to all that are approved *)

SendAnnouncement(r) ==
  \E ids \in {<<>>} \cup {<<u>> : u \in Users},
     loud \in (IF Pushes \/ Mails THEN BOOLEAN ELSE {FALSE}) :
    /\ Receive(r, "SendAnnouncement", "tell:post",
               [todo |-> IF ids = <<>>
                           THEN SetToSeq({u \in Users : account[u] = "approved"})
                           ELSE ids,
                loud |-> loud, by |-> served', sent |-> 0])
    /\ UNCHANGED <<money, active, classroom, files, hub, messages>>

\* PostToChannelAsAdmin: the id of the post, or 0.
TellPost(r) ==
  LET t == task[r]
  IN  /\ At(r, "tell:post")
      /\ \E posted \in BOOLEAN :
           /\ bulletins' = bulletins + (IF posted THEN 1 ELSE 0)
           /\ GotoWith(r, "tell:next",
                With(t, [link |-> IF posted THEN bulletins + 1 ELSE 0, ids |-> t.todo]))
      /\ UNCHANGED <<money, active, classroom, files, hub, message, notice, endpoint,
                     wants, jobs, gone, told, subscriber, silent, mailed>>

\* The count so far: what the notification just made, if any, adds to it.
SentBy_Tries(t) == IF "ok" \in DOMAIN t THEN t.sent + 1 ELSE t.sent

SentBy(t) == IF "ok" \in DOMAIN t /\ t.ok THEN t.sent + 1 ELSE t.sent

\* A user whose notification fails is passed over.
TellNext(r) ==
  LET t == task[r]
      sent == SentBy(t)
  IN  /\ At(r, "tell:next")
      /\ IF t.todo = <<>>
           THEN /\ Return(r)
                /\ told' = told \cup {[by |-> t.by, ids |-> t.ids, sent |-> sent]}
           ELSE /\ GotoWith(r, "notice:insert",
                     With(Notice(Head(t.todo), "admin_transfer", t.loud, "tell:next", t.by, t.link),
                          [todo |-> Tail(t.todo), ids |-> t.ids, sent |-> sent]))
                /\ UNCHANGED told
      /\ UNCHANGED <<money, active, classroom, files, hub, message, notice, endpoint,
                     wants, bulletins, jobs, gone, subscriber, silent, mailed>>

-----------------------------------------------------------------------------
(* Subscriptions and preferences *)

\* INSERT ... ON CONFLICT(endpoint): a browser that somebody else uses now changes hands.
SubscribePush ==
  \E u \in Users, e \in Endpoints \ gone :
    /\ MayAct(u)
    /\ AnswerAtOnce("SubscribePush")
    /\ endpoint' = [endpoint EXCEPT ![e] = u]
    /\ subscriber' = [subscriber EXCEPT ![e] = u]
    /\ UNCHANGED <<money, active, classroom, files, hub, message, notice, wants,
                   bulletins, jobs, gone, told, silent, mailed>>

AfterUnsubscribe_Anyones(u, e) == [endpoint EXCEPT ![e] = None]

\* DELETE ... WHERE user_id = ? AND endpoint = ?
AfterUnsubscribe(u, e) ==
  IF endpoint[e] = u THEN [endpoint EXCEPT ![e] = None] ELSE endpoint

UnsubscribePush ==
  \E u \in Users, e \in Endpoints :
    /\ MayAct(u)
    /\ AnswerAtOnce("UnsubscribePush")
    /\ endpoint' = AfterUnsubscribe(u, e)
    /\ subscriber' = [subscriber EXCEPT ![e] = IF @ = u THEN None ELSE @]
    /\ UNCHANGED <<money, active, classroom, files, hub, message, notice, wants,
                   bulletins, jobs, gone, told, silent, mailed>>

UpdateEmailPreference ==
  \E u \in Users, on \in BOOLEAN :
    /\ MayAct(u)
    /\ AnswerAtOnce("UpdateEmailPreference")
    /\ wants' = [wants EXCEPT ![u] = on]
    /\ silent' = IF on THEN {n \in silent : notice[n].user # u} ELSE silent
    /\ UNCHANGED <<money, active, classroom, files, hub, message, notice, endpoint,
                   bulletins, jobs, gone, told, subscriber, mailed>>

-----------------------------------------------------------------------------
(* The goroutines *)

\* WebPushService.SendToUser: one more goroutine for every subscription of the user.
PushLookup(n) ==
  /\ <<"push", n>> \in jobs
  /\ jobs' = (jobs \ {<<"push", n>>})
               \cup {<<"deliver", n, e>> : e \in {x \in Endpoints : endpoint[x] = notice[n].user}}
  /\ UNCHANGED <<server, classroom, files, hub, message, notice, endpoint, wants,
                 bulletins, gone, told, subscriber, silent, mailed>>

\* The push service accepts, fails, or answers 410 for an endpoint it has given up.
Deliver(n, e) ==
  /\ <<"deliver", n, e>> \in jobs
  /\ \/ jobs' = jobs \ {<<"deliver", n, e>>}
     \/ /\ e \in gone
        /\ jobs' = (jobs \ {<<"deliver", n, e>>}) \cup {<<"forget", n, e>>}
  /\ UNCHANGED <<server, classroom, files, hub, message, notice, endpoint, wants,
                 bulletins, gone, told, subscriber, silent, mailed>>

DeleteSubscriptionByEndpoint(n, e) ==
  /\ <<"forget", n, e>> \in jobs
  /\ jobs' = jobs \ {<<"forget", n, e>>}
  /\ endpoint' = [endpoint EXCEPT ![e] = None]
  /\ UNCHANGED <<server, classroom, files, hub, message, notice, wants, bulletins, gone,
                 told, subscriber, silent, mailed>>

\* Handed to the mail service; if it fails, that is only logged.
SendEmail(n) == mailed' = mailed \cup {n}

\* sendEmailNotification
SendEmailNotification(n) ==
  /\ <<"mail", n>> \in jobs
  /\ jobs' = jobs \ {<<"mail", n>>}
  /\ IF wants[notice[n].user] THEN SendEmail(n) ELSE UNCHANGED mailed
  /\ UNCHANGED <<server, classroom, files, hub, message, notice, endpoint, wants,
                 bulletins, gone, told, subscriber, silent>>

\* The push service gives an endpoint up, for good.
EndpointExpires ==
  \E e \in Endpoints \ gone :
    /\ AnswerAtOnce("EndpointExpires")
    /\ gone' = gone \cup {e}
    /\ UNCHANGED <<money, active, classroom, files, hub, message, notice, endpoint,
                   wants, bulletins, jobs, told, subscriber, silent, mailed>>

\* A restart ends the goroutines.
MessagesRestart ==
  /\ jobs' = {}
  /\ UNCHANGED <<message, notice, endpoint, wants, bulletins, gone, told, subscriber,
                 silent, mailed>>

-----------------------------------------------------------------------------
Background ==
  \E n \in NoticeIds :
    \/ PushLookup(n) \/ SendEmailNotification(n)
    \/ \E e \in Endpoints : Deliver(n, e) \/ DeleteSubscriptionByEndpoint(n, e)

MessagesStep(r) ==
  NoticeInsert(r) \/ NoticeStart(r) \/ DmInsert(r) \/ TellPost(r) \/ TellNext(r)

DmRequest(r) == SendMessage(r)

ReadRequest == MarkAsRead

NotificationRequest == MarkRead \/ MarkAllRead \/ SubscribePush \/ UnsubscribePush

PreferenceRequest == UpdateEmailPreference

AnnounceRequest(r) == SendAnnouncement(r)

MessagesNext ==
  \/ Background \/ EndpointExpires
  \/ ReadRequest \/ NotificationRequest \/ PreferenceRequest
  \/ \E r \in Requests :
       \/ MessagesStep(r) \/ CreateNotification(r)
       \/ DmRequest(r) \/ AnnounceRequest(r)
=============================================================================
