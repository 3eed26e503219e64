------------------------------- MODULE Campus -------------------------------
(***************************************************************************)
(* Everything around a classroom as a whole: accounts and wallets, loans,    *)
(* grants, posts, billing, the assistant and what it knows, the students'     *)
(* databases, mail, milestones, web services, files, messages, apps and the   *)
(* hub, over the same accounts and wallet rows and with restarts in between.  *)
(* No use case takes a transaction around its statements; each property says  *)
(* for which histories it holds: any, those without a restart, or those of    *)
(* one request at a time.                                                    *)
(***************************************************************************)
EXTENDS Startup, Posts, Billing, Chat, Databases, Mail, Milestones, Services, Suggestions,
        OAuth, Accounts, Knowledge, Sums

earning == <<bank, grants, posts, billing>>
tools == <<chat, databases, mail, milestones, services>>
talk == <<files, messages, suggestion>>
admission == <<oauth, accounts, knowledge>>

vars == <<server, classroom, earning, tools, talk, admission, hub, startup>>

Init ==
  /\ ServerInit /\ StartupInit
  /\ PostsInit /\ BillingInit
  /\ ChatInit /\ DatabasesInit /\ MailInit /\ MilestonesInit /\ ServicesInit
  /\ FilesInit /\ MessagesInit /\ SuggestionsInit /\ HubInit
  /\ OAuthInit /\ AccountsInit /\ KnowledgeInit

Restart ==
  /\ ServerRestart /\ ChatRestart /\ MessagesRestart /\ HubRestart /\ KnowledgeRestart
  /\ StartAgain
  /\ UNCHANGED <<posts, billing, databases, mail, milestones, services, files, suggestion,
                 oauth, accounts>>

\* Nobody is being served, or all wait for a mutex that will stay locked.
Quiet == (AllIdle \/ stuck) /\ UNCHANGED vars

HubOnly == UNCHANGED <<classroom, earning, tools, talk, admission, startup>>

\* The requests that each part answers, or has steps of; it does nothing before the
\* first one.
Kinds ==
  [bank |-> {"ApplyLoan", "ApproveLoan", "RejectLoan", "RepayLoan", "WeekPasses",
             "ProcessWeeklyInterest"},
   grants |-> {"CreateGrant", "ApplyToGrant", "DeleteApplication", "CloseGrant",
               "ApproveApplication", "RevokeApplication"},
   posts |-> {"CreatePost", "DeletePost", "LikePost", "CreateComment", "DeleteComment",
              "CreateAssignment", "SubmitAssignment", "GradeAssignment"},
   billing |-> {"EnsureKey", "RotateKey", "BillAll"},
   chat |-> {"CreateSession", "DeleteSession", "Ask", "AskStream"},
   databases |-> {"CreateDatabase", "DeleteDatabase", "AdminDeleteByDBName",
                  "AdminReconcile", "RotatePassword", "DropByHand"},
   mail |-> {"ClaimAddress", "ApproveAddress", "RejectAddress", "CreateSharedAddress",
             "GrantSharedAccess", "RevokeSharedAccess", "Send", "ReceiveInbound",
             "GetEmail"},
   milestones |-> {"SubmitManual", "Approve", "Reject", "FindAddresses", "SyncAuto"},
   services |-> {"CreateService", "UpdateService", "DeleteService", "ValidateService",
                 "ChecksExpire", "ConnectRybbit", "AdminReconcileRybbit"},
   files |-> {"Upload", "UploadFile", "DeleteFile", "SendMessage"},
   messages |-> {"SendMessage", "MarkAsRead", "CreateNotification", "MarkRead",
                 "MarkAllRead", "SendAnnouncement", "SubscribePush", "UnsubscribePush",
                 "UpdateEmailPreference", "EndpointExpires", "SaveProposal"},
   suggestions |-> {"SaveProposal", "AdminUpdateProposal"},
   oauth |-> {"RegisterClient", "DeleteClient", "Authorize", "ExchangeCode",
              "RefreshAccessToken", "RevokeToken", "TokensExpire"},
   accounts |-> {"ForgotPassword", "ResetPassword", "ChangePassword", "LinksExpire",
                 "RefreshToken", "ImpersonateUser"},
   knowledge |-> {"AdminReindexWiki", "AdminUpdateWikiDoc", "AdminSyncNotionOne",
                  "AdminSyncNotionAll", "OperatorRemoves", "AdminCreateSkill",
                  "AdminUpdateSkill", "AdminDeleteSkill"}]

Involves(part) == workload \cap Kinds[part] # {}

EarningNext ==
  \/ Involves("bank") /\ BankNext /\ UNCHANGED <<grants, posts, billing>>
  \/ Involves("grants") /\ GrantsNext /\ UNCHANGED <<bank, posts, billing>>
  \/ Involves("posts") /\ PostsNext /\ UNCHANGED <<bank, grants, billing>>
  \/ Involves("billing") /\ BillingNext /\ UNCHANGED <<bank, grants, posts>>

ToolsNext ==
  \/ Involves("chat") /\ ChatNext /\ UNCHANGED <<databases, mail, milestones, services>>
  \/ Involves("databases") /\ DatabasesNext /\ UNCHANGED <<chat, mail, milestones, services>>
  \/ Involves("mail") /\ MailNext /\ UNCHANGED <<chat, databases, milestones, services>>
  \/ Involves("milestones") /\ MilestonesNext /\ UNCHANGED <<chat, databases, mail, services>>
  \/ Involves("services") /\ ServicesNext /\ UNCHANGED <<chat, databases, mail, milestones>>

TalkNext ==
  \/ Involves("files") /\ FilesNext /\ UNCHANGED <<messages, hub, suggestion>>
  \/ Involves("messages") /\ MessagesNext /\ UNCHANGED suggestion
  \/ Involves("suggestions") /\ SuggestionsNext

AdmissionNext ==
  \/ Involves("oauth") /\ OAuthNext /\ UNCHANGED <<accounts, knowledge>>
  \/ Involves("accounts") /\ AccountsNext /\ UNCHANGED <<oauth, knowledge>>
  \/ Involves("knowledge") /\ KnowledgeNext /\ UNCHANGED <<oauth, accounts>>

Serving == boot = "serving" /\ UNCHANGED startup

Next ==
  \/ Serving /\ ClassroomNext /\ UNCHANGED <<earning, tools, talk, admission, hub>>
  \/ Serving /\ EarningNext /\ UNCHANGED <<tools, talk, admission, hub>>
  \/ Serving /\ ToolsNext /\ UNCHANGED <<earning, talk, admission, hub>>
  \/ Serving /\ TalkNext /\ UNCHANGED <<earning, tools, admission>>
  \/ Serving /\ AdmissionNext /\ UNCHANGED <<earning, tools, talk, hub>>
  \/ Serving /\ HubNext /\ HubOnly
  \/ StartupNext /\ UNCHANGED <<posts, billing, tools, talk, admission, hub>>
  \/ Restart
  \/ Quiet

\* main starts Run in a goroutine of its own: it goes on while it can.
Spec == Init /\ [][Next]_vars /\ WF_vars(RunStep /\ HubOnly)

-----------------------------------------------------------------------------
(* Properties *)

LoanRows == [user : Users, room : Classrooms, amount : Nat, remaining : Int, rate : Nat,
            status : {"pending", "active", "overdue", "paid", "rejected"}]

GrantRows == [admin : Users, room : Classrooms, reward : Nat, status : {"open", "closed"}]

ApplicationRows == [grant : GrantIds, user : Users,
                   status : {"pending", "approved", "deleted"}]

PostRows == [author : Users, room : Classrooms, kind : {"normal", "assignment"},
             assigned : BOOLEAN, likes : Nat, comments : Nat, live : BOOLEAN]

FileNames == (1 .. MaxRequests[workload]) \X (1 .. MaxFiles[workload])

FileRows ==
  [file : FileNames, table : {"uploads", "milestone_files", "dm_attachments"},
   of : Users \cup MessageIds]

CommentRows == [post : PostIds, author : Users, live : BOOLEAN]

SubmissionRows ==
  [comment : Comments, grade : (0 .. MaxScore) \cup {None}, rewarded : BOOLEAN]

KeyRows == [user : Users, revoked : BOOLEAN]

UsageRows == [cost : Nat, debited : Nat, debt : Nat]

MessageRows == [from : Users, to : Users, read : BOOLEAN]

SuggestionRows == [user : Users, category : Categories, status : ReviewStates]

NoticeRows == [user : Users, kind : {"other", "new_dm", "admin_transfer", "proposal"}, by : Nat,
               link : Nat, read : BOOLEAN]

TxTypes ==
  {"initial_capital", "admin_transfer", "freelance_escrow", "freelance_pay", "loan_disburse",
   "loan_repay", "loan_interest", "assign_reward", "transfer", "like_reward",
   "comment_reward", "post_reward", "llm_billing"}

\* Every row has its columns and no counter is negative, and a user has at most
\* one wallet in a classroom (UNIQUE), also while an unassigned one moves.
TypeOK ==
  /\ ServerTypeOK /\ pc \in [Requests -> STRING]
  /\ \A x \in DOMAIN log : x[1] \in Wallets /\ x[2] \in TxTypes
  /\ account \in [Users -> Statuses \cup {None}]
  /\ token \in [Users -> Statuses \cup {None}]
  /\ rooms \subseteq Classrooms \ {0} /\ member \subseteq rooms \X Users
  /\ seat \in [Wallets -> Classrooms \cup {None}]
  /\ \A u \in Users, n, m \in Classrooms :
       n # m /\ seat[u, n] # None => seat[u, n] # seat[u, m]
  /\ loan \in [Loans -> LoanRows \cup {None}] /\ due \subseteq Loans
  /\ grant \in [GrantIds -> GrantRows \cup {None}]
  /\ application \in [Applications -> ApplicationRows \cup {None}]
  /\ post \in [PostIds -> PostRows \cup {None}]
  /\ likedBy \in [PostIds -> SUBSET Users]
  /\ comment \in [Comments -> CommentRows \cup {None}]
  /\ submission \in [PostIds \X Users -> SubmissionRows \cup {None}]
  /\ key \in [KeyIds -> KeyRows \cup {None}]
  /\ usage \in [Users \X Days -> UsageRows \cup {None}]
  /\ session \in [Sessions -> SessionRows \cup {None}]
  /\ asked \in [Users -> [tokens : Nat, requests : Nat]] /\ spent \in [Users -> Nat]
  /\ userdb \in [DbIds -> DbRows \cup {None}]
  /\ pgrole \cup pgdb \subseteq Users \X Projects
  /\ address \in [Addresses -> AddressRows \cup {None}] /\ shared \subseteq Addresses \X Users
  /\ emails \in Seq(EmailRows)
  /\ milestone \in [Users \X Types -> MilestoneRows \cup {None}]
  /\ service \in [ServiceIds -> ServiceRows \cup {None}]
  /\ access \subseteq Users \X ServiceIds
  /\ disk \subseteq FileNames /\ filed \subseteq FileRows
  /\ message \in [MessageIds -> MessageRows \cup {None}]
  /\ suggestion \in [Suggestions -> SuggestionRows \cup {None}]
  /\ notice \in [NoticeIds -> NoticeRows \cup {None}]
  /\ endpoint \in [Endpoints -> Users \cup {None}] /\ wants \in [Users -> BOOLEAN]
  /\ bulletins \in Nat /\ gone \subseteq Endpoints
  /\ jobs \subseteq {"push", "mail"} \X NoticeIds
               \cup {"deliver", "forget"} \X NoticeIds \X Endpoints
  /\ app \in [Apps -> AppRows \cup {None}]
  /\ code \in [Codes -> CodeRows \cup {None}] /\ pair \in [Pairs -> PairRows \cup {None}]
  /\ password \in [Users -> Nat] /\ reset \in [Resets -> ResetRows \cup {None}]
  /\ md \in [Slugs -> MdRows \cup {None}]
  /\ doc \in [Slugs -> Seq([title : Nat, body : Nat])]
  /\ meta \in [Slugs -> MetaRows \cup {None}]
  /\ skill \in [SkillIds -> SkillRows \cup {None}]
  /\ conn \in [Clients -> {"none", "registering", "open", "broken", "gone"}]
  /\ buf \in [Clients -> 0 .. BufSize] /\ closed \subseteq Clients
  /\ entry \in [Clients -> SUBSET Clients] /\ book \in [Users -> Clients \cup {None}]

\* From every earlier version, and wherever starts are cut off, a start reaches the
\* current schema; it leaves every balance what it was, and every wallet, loan and
\* grant in a classroom where a member looks for it.
UpgradeKeepsRows ==
  /\ boot # "failed"
  /\ boot = "serving" => schema = Current
  /\ Upgrading /\ boot = "serving" /\ served = 0 =>
       /\ wallet = InitialFunds
       /\ \A u \in Users :
            /\ active[u] = FirstRoom(u)
            /\ \A n \in Classrooms : StartSeat[u, n] # None => seat[u, n] = FirstRoom(u)
       /\ \A l \in {x \in Loans : loan[x] # None} :
            \A w \in WalletFound(loan[l].user) : seat[w] = loan[l].room
       /\ \A g \in {x \in GrantIds : grant[x] # None} : grant[g].room \in rooms

OneByOne == ~overlapped
Unbroken == ~overlapped /\ restarts = 0
Settled == restarts = 0 /\ AllIdle

RowIds(u) == {u} \X Classrooms

LogOf(u, type, ref) == SumOf([w \in RowIds(u) |-> LogSum(w, type, ref)], RowIds(u))

CapitalPaid(u, k) ==
  SumOf([w \in RowIds(u) |-> LogCount(w, "initial_capital", k)], RowIds(u))

JoinKinds == {"Register", "Login", "AdminApprove", "AdminReject", "CreateClassroom",
              "JoinClassroom", "ActivateClassroom"}

\* However joins of one user interleave, stop and are repeated, a classroom pays
\* its initial capital to a user at most once; and where nothing else has made
\* the wallet first, every student who has joined has had it.
CapitalOnce ==
  /\ \A u \in Users, k \in rooms : CapitalPaid(u, k) <= 1
  /\ Settled /\ workload \subseteq JoinKinds =>
       \A m \in member \ StartMember : m[2] # Staff => CapitalPaid(m[2], m[1]) = 1

Paid(l) == LogOf(loan[l].user, "loan_repay", l) + LogOf(loan[l].user, "loan_interest", l)

\* Every payment on a loan is on record, however requests interleave.  One at a
\* time: a loan is paid out once, when it is approved, what remains is the amount
\* without the principal paid back, it is paid when nothing remains, and a week's
\* interest is collected once.
LoansBalance ==
  \A l \in {x \in Loans : loan[x] # None} :
    /\ Settled => -Paid(l) = payment[l].total
    /\ Unbroken /\ AllIdle =>
         /\ loan[l].remaining = loan[l].amount - payment[l].principal
         /\ LoanIn(l, "paid") <=> loan[l].remaining = 0
         /\ payment[l].autos <= weeks
         /\ StartLoan[l] = None =>
              LogOf(loan[l].user, "loan_disburse", l) =
                (IF LoanIn(l, "pending") \/ LoanIn(l, "rejected") THEN 0 ELSE loan[l].amount)

\* Grants bring no money into being: nobody is credited who was not preceded by a
\* debit, whatever interleaves; without a restart, every debit has arrived.
GrantsZeroSum ==
  \A g \in GrantIds :
    LET sum == SumOf([u \in Users |-> LogOf(u, "freelance_escrow", g)
                                        + LogOf(u, "freelance_pay", g)], Users)
    IN  sum <= 0 /\ (Settled => sum = 0)

ByOthers(p, users) == Cardinality(users \ {post[p].author})

\* A post's counters agree with its rows, and its author still has at least the
\* reward of every like and comment by others (more where the wallet could not
\* pay one back); a submission is marked as rewarded exactly if its grade earns
\* something, and that part of the reward has been paid.
RewardsFollowRows ==
  Unbroken /\ AllIdle =>
    /\ \A p \in PostIds : Live(p) /\ post[p].kind = "normal" =>
         LET u == post[p].author
             others == {c \in CommentsOf(p) : comment[c].author # u}
         IN  /\ post[p].likes = Cardinality(likedBy[p])
             /\ post[p].comments = Cardinality(CommentsOf(p))
             /\ LogOf(u, "like_reward", p) >= LikeReward * ByOthers(p, likedBy[p])
             /\ LogOf(u, "comment_reward", p) >= CommentReward * Cardinality(others)
    /\ \A s \in PostIds \X Users : submission[s] # None /\ submission[s].grade # None =>
         LET part == GradeReward(submission[s].grade)
         IN  /\ submission[s].rewarded <=> part > 0
             /\ LogOf(s[2], "assign_reward", s) >= part

\* What was taken for the language model is what the daily rows say was taken,
\* whatever else moves the wallet meanwhile, unless keys are issued concurrently:
\* two active keys of a student are billed both, and one row remembers one bill.
BillsMatchRows ==
  Settled /\ (OneByOne \/ "EnsureKey" \notin workload) =>
    \A u \in Users :
      LET rows == {d \in Days : usage[u, d] # None}
      IN  -SumOf([k \in KeyIds |-> LogOf(u, "llm_billing", k)], KeyIds) =
             SumOf([d \in rows |-> usage[u, d].debited], rows)

AtModel == {r \in Requests : pc[r] \in {"ask:call", "last:call"}}

SessionsOf(u) == {s \in Sessions : session[s] # None /\ session[s].user = u}

\* The tool messages of session s that answer the calls of message i.
Answers(s, i) == AnswersIn(session[s].messages, i)

\* However questions interleave, fail and are streamed: a place of the semaphore
\* is taken exactly by a call in flight; nobody is charged tokens the model has not
\* used, and all of them when no call failed; every call of a tool that is stored
\* has its result, for one question at a time right behind it, as the model wants.
ChatsAddUp ==
  /\ slots = Cardinality(AtModel)
  /\ \A u \in Users : asked[u].tokens <= spent[u]
  /\ Settled /\ ~cutShort => \A u \in Users :
       /\ asked[u].tokens = spent[u]
       /\ spent[u] = SumOf([s \in SessionsOf(u) |-> session[s].tokens], SessionsOf(u))
  /\ Settled => \A s \in {x \in Sessions : LiveSession(x)} :
       \A i \in DOMAIN session[s].messages :
         LET n == session[s].messages[i].calls
         IN  /\ Cardinality(Answers(s, i)) = n
             /\ OneByOne => Answers(s, i) = i + 1 .. i + n

\* "system + earlier history + this user's message (stored above, so it is in the
\* history)": what goes to the model includes the question that was asked.
QuestionIsSent ==
  \A r \in Requests :
    At(r, "ask:call") /\ LiveSession(task[r].s) => task[r].question <= task[r].sent

HasDb(i) == userdb[i].name \in pgdb

\* "The files written are all deleted (no orphans)": a file without a row is only left
\* by a restart, and a row has its file always.  As long as no call of PostgreSQL has
\* failed (outages counts those that did; what one leaves behind is not looked for),
\* however creations and deletions interleave, and whether or not they win the name:
\* nothing is left at PostgreSQL without a row; one at a time, nobody has more than
\* MaxPerUser databases, what was created is there, and a reconciliation leaves no row
\* without its database.
NothingOrphaned ==
  /\ \A x \in filed : x.file \in disk
  /\ Settled => \A f \in disk : \E x \in filed : x.file = f
  /\ outages = 0 =>
       /\ Settled => \A n \in pgrole \cup pgdb : \E i \in LiveDbs : userdb[i].name = n
       /\ OneByOne => \A u \in Users : Cardinality(DbsOf(u)) <= MaxPerUser
       /\ Unbroken /\ AllIdle /\ "DropByHand" \notin workload => \A i \in LiveDbs : HasDb(i)
       /\ OneByOne => \A r \in Requests :
            At(r, "reconcile:next") /\ task[r].todo = <<>> => \A i \in LiveDbs : HasDb(i)

OutMails == {i \in DOMAIN emails : emails[i].dir = "out"}

\* Mail addresses "can be changed before approval, immutable after", and a milestone
\* "the administrator has approved is not touched", however often the page is opened.
\* One at a time, an address that was approved stays approved with the local part
\* that was, and holds mail for no other; approved is exactly the milestone that was
\* when it was approved; and a long retrospective has the score of the text that is
\* there.  However they interleave, no mail is stored as sent that was not, and
\* without a restart every one that was is stored.
VerdictsStand ==
  /\ OneByOne =>
       /\ \A a \in Addresses : approvedAs[a] # None =>
            ApprovedAddress(a) /\ address[a].part = approvedAs[a]
       /\ \A i \in DOMAIN emails : emails[i].part = approvedAs[emails[i].address]
       /\ \A m \in Users \X Types : milestone[m] # None =>
            /\ milestone[m].status = "approved" <=> judgedAs[m] # None
            /\ judgedAs[m] # None => judgedAs[m] = milestone[m].text
  /\ Unbroken /\ AllIdle => \A u \in Users :
       LET row == milestone[u, "retrospective"]
       IN  row # None /\ row.text \in LongTexts => row.scored = row.text
  /\ Cardinality(OutMails) <= sent /\ (Settled => Cardinality(OutMails) = sent)

\* One at a time: a check on record is of the address that is registered, a connected
\* service has a site for it, and no connection has taken from the owner the access
\* to another site of the company.
AnalyticsFollow ==
  OneByOne => \A s \in {x \in ServiceIds : LiveService(x)} :
    LET row == service[s]
    IN  /\ row.validation # "unvalidated" => row.checked = row.url
        /\ row.status = "connected" => row.hasSite /\ site[s] = row.url
        /\ row.hasSite => <<OwnerOf[row.firm], s>> \in access

Times(u, ids) == Cardinality({i \in DOMAIN ids : ids[i] = u})

NoticesFor(a, u) ==
  {n \in NoticeIds : notice[n] # None /\ notice[n].by = a.by /\ notice[n].user = u}

\* An announcement that was answered says how many notifications it has made, at most
\* one for every user it was meant for.  An endpoint that still works belongs to
\* whoever subscribed it last, whatever others unsubscribe or the push service gives
\* up meanwhile; nobody who has turned mail off before gets a notification by mail.
\* Unless the server stops in between, the administrator is told of every suggestion.
NoticesArrive ==
  /\ \A a \in told :
       /\ \A u \in Users : Cardinality(NoticesFor(a, u)) <= Times(u, a.ids)
       /\ a.sent = Cardinality(UNION {NoticesFor(a, u) : u \in Users})
  /\ \A e \in Endpoints \ gone : endpoint[e] = subscriber[e]
  /\ mailed \cap silent = {}
  /\ Settled => \A p \in Suggestions : suggestion[p] # None /\ suggestion[p].user # Staff =>
       \E n \in NoticeIds : notice[n] # None /\ notice[n].user = Staff
                               /\ notice[n].kind = "proposal" /\ notice[n].link = p

ActivePairs(c) == {p \in Pairs : pair[p] # None /\ pair[p].of = c /\ ~pair[p].revoked}

\* A reset link changes a password once, and a user has one that works at most,
\* whatever interleaves; without a restart, every link used up has changed it, if
\* bcrypt took the new password, and has not if bcrypt refused it.
\* One at a time, a code stands for one pair of tokens however often it is
\* exchanged and they are refreshed, for none once they were revoked, and no token is
\* honoured whose app is gone unless its code came with a challenge.
CredentialsWorkOnce ==
  /\ \A x \in Resets : resetBy[x] <= 1
  /\ \A u \in Users : Cardinality({x \in Resets : LinkWorks(x) /\ reset[x].user = u}) <= 1
  /\ Settled => \A x \in Resets : reset[x] # None /\ reset[x].used =>
       resetBy[x] = (IF x \in wasted THEN 0 ELSE 1)
  /\ OneByOne =>
       /\ \A c \in Codes : Cardinality(ActivePairs(c)) <= (IF c \in ended THEN 0 ELSE 1)
       /\ AllIdle => \A p \in Pairs :
            Honoured(p) => LiveApp(pair[p].app) \/ code[pair[p].of].pkce

\* "The .md files are the source of truth": what was written to one survives indexing
\* and restarts, a document is found once, and of two requests that save one skill
\* none makes a second.  One at a time, a document is in both tables or in none, with
\* one title, and the index has the text of the file unless the file is gone or was
\* saved when the index could not be.
WikiFollowsFiles ==
  /\ \A s \in Slugs : Len(doc[s]) <= 1 /\ (md[s] # None => md[s].body = kept[s])
  /\ \A n \in SkillNames : Cardinality(SkillNamed(n)) <= 1
  /\ OneByOne /\ AllIdle => \A s \in Slugs :
       /\ doc[s] # <<>> <=> meta[s] # None
       /\ doc[s] # <<>> =>
            /\ doc[s][1].title = meta[s].title
            /\ s \in unsaved \/ md[s] = None \/ doc[s][1].body = md[s].body
       /\ "OperatorRemoves" \notin workload => (md[s] # None <=> meta[s] # None)

\* Until a goroutine panics, the hub's map and the channels agree: a connection is
\* closed exactly when it has left the map, no map that was thrown away holds one,
\* and SendToUser finds every connection that is open and has been registered.
HubConsistent ==
  ~panicked =>
    /\ \A c \in Clients :
         /\ c \in closed => \A m \in Clients : c \notin entry[m]
         /\ conn[c] = "open" /\ c \notin closed /\ (run = None \/ run.c # c) =>
              c \in Listed(Owner[c])
    /\ \A m \in Clients : entry[m] # {} => \E u \in Users : book[u] = m

\* Every connection that wants in comes into the map, unless the server is
\* restarted first, and every one that has broken leaves it, unless a panic has
\* left the mutex locked.
HubResponds ==
  \A c \in Clients :
    /\ conn[c] = "registering" ~> c \in Listed(Owner[c]) \/ conn[c] = "gone" \/ stuck
    /\ conn[c] = "broken" ~> c \notin Listed(Owner[c]) \/ stuck

\* "Hub maintains active WebSocket clients": whatever is sent meanwhile, every
\* connection that wants in comes into the map.
ClientsGetRegistered ==
  \A c \in Clients : conn[c] = "registering" ~> c \in Listed(Owner[c])
=============================================================================
