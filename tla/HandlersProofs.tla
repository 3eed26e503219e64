---------------------------- MODULE HandlersProofs ---------------------------
(***************************************************************************)
(* What every proof about the campus stands on: where the handlers of all  *)
(* its parts may be, and what leaves whom alone.                           *)
(*                                                                         *)
(* Handlers says that a handler's label belongs to the part that took it   *)
(* up, or is one of the steps parts share (a wallet is ensured, a          *)
(* notification is written, the hub sends), and then its task has what     *)
(* these steps read and where to go on.  NextOne: a step of the system is  *)
(* the step of one handler, or answers a request at once, or starts the    *)
(* server.  So Alone: as long as no two requests have been in flight       *)
(* together, at most one handler is busy.  AwayFrom: a step of another     *)
(* part neither enters nor leaves the labels of a part, nor changes the    *)
(* task of a handler that is there; a part's invariant then has its own    *)
(* steps and a restart to answer for.                                      *)
(***************************************************************************)
EXTENDS Campus, FiniteSetTheorems, TLAPS

-----------------------------------------------------------------------------
(* Where handlers stand *)

EnsureThens ==
  {"answer", "join:capital", "gift:pay", "transfer:debit", "loan:credit", "grant:debit",
   "grant:credit", "reward:pay"}

RewardNexts == {"answer", "comment:submit", "grade:save"}

RewardNext(t) == "next" \in DOMAIN t /\ t.next \in RewardNexts

EnsureLabels ==
  {"ensure:select", "ensure:move", "ensure:insert", "ensure:reread", "own:find", "own:create"}

EnsureTask(t) ==
  /\ "then" \in DOMAIN t /\ t.then \in EnsureThens
  /\ t.then = "reward:pay" => RewardNext(t)

DmTask(t) ==
  /\ "user" \in DOMAIN t /\ t.user \in Users
  /\ "to" \in DOMAIN t /\ t.to \in Users

FileTask(t) ==
  /\ "then" \in DOMAIN t /\ t.then \in {"file:upload", "file:plan", "dm:insert"}
  /\ t.then = "dm:insert" => DmTask(t)

TellTask(t) == "todo" \in DOMAIN t /\ t.todo \in Seq(Users)

NoticeTask(t) ==
  /\ "to" \in DOMAIN t /\ t.to \in Users
  /\ "after" \in DOMAIN t /\ t.after \in {"answer", "tell:next"}
  /\ t.after = "tell:next" => TellTask(t)

After(p, t) ==
  \/ p = "answer"
  \/ p \in {"notice:insert", "notice:start"} /\ NoticeTask(t)
  \/ p = "tell:next" /\ TellTask(t)

SendTask(t) ==
  /\ {"todo", "then", "rest"} \subseteq DOMAIN t
  /\ t.todo \in Seq(Users)
  /\ After(t.then, t.rest)

HubLabels == {"send:lookup", "send:next", "send:put", "send:drop"}

TaskOK(p, t) ==
  /\ p \in EnsureLabels => EnsureTask(t)
  /\ p = "reward:pay" => RewardNext(t)
  /\ p \in {"file:write", "file:check"} => FileTask(t)
  /\ p = "dm:insert" => DmTask(t)
  /\ p \in {"notice:insert", "notice:start"} => NoticeTask(t)
  /\ p \in {"tell:post", "tell:next"} => TellTask(t)
  /\ p \in HubLabels => SendTask(t)

Handlers ==
  /\ pc = [r \in Requests |-> pc[r]] /\ task = [r \in Requests |-> task[r]]
  /\ \A r \in Requests : TaskOK(pc[r], task[r])

Shaped == pc' = [r \in Requests |-> pc'[r]] /\ task' = [r \in Requests |-> task'[r]]

HandlerMoved(q, from, to) ==
  /\ Shaped
  /\ \/ pc'[q] = pc[q] /\ task'[q] = task[q]
     \/ /\ pc[q] \in from \cup {"idle"} /\ pc'[q] \in to \cup {"idle"}
        /\ TaskOK(pc'[q], task'[q])

BankLabels ==
  {"interest:next", "interest:debit", "interest:record", "interest:date", "interest:overdue",
   "loan:approve", "loan:credit", "loan:reject",
   "repay:wallet", "repay:debit", "repay:remaining", "repay:record", "repay:paid",
   "repay:date", "repay:active"}

LEMMA WithNew ==
  ASSUME NEW f, NEW g
  PROVE  /\ DOMAIN With(f, g) = DOMAIN f \cup DOMAIN g
         /\ \A x \in DOMAIN g : With(f, g)[x] = g[x]
         /\ \A x \in DOMAIN f \ DOMAIN g : With(f, g)[x] = f[x]
<1>1. DOMAIN With(f, g) = DOMAIN f \cup DOMAIN g
  BY DEF With
<1>2. ASSUME NEW x \in DOMAIN g PROVE With(f, g)[x] = g[x]
  BY DEF With
<1>3. ASSUME NEW x \in DOMAIN f \ DOMAIN g PROVE With(f, g)[x] = f[x]
  BY DEF With
<1>. QED  BY <1>1, <1>2, <1>3

\* What EnsureFor asks for.
LEMMA EnsureForTask ==
  ASSUME NEW u, NEW k, NEW then \in EnsureThens \ {"reward:pay"}, NEW t
  PROVE  EnsureTask(EnsureFor(u, k, then, t))
<1> DEFINE g == [whom |-> u, where |-> k, then |-> then]
<1>1. "then" \in DOMAIN g /\ g.then = then
  OBVIOUS
<1>2. EnsureFor(u, k, then, t) = With(t, g)
  BY DEF EnsureFor
<1> HIDE DEF g
<1>3. "then" \in DOMAIN With(t, g) /\ With(t, g).then = then
  <2>1. DOMAIN With(t, g) = DOMAIN t \cup DOMAIN g /\ \A x \in DOMAIN g : With(t, g)[x] = g[x]
    BY WithNew, Zenon
  <2>. QED  BY <2>1, <1>1
<1>. QED  BY <1>2, <1>3 DEF EnsureTask

LEMMA BankMoves ==
  ASSUME Handlers, BankNext, NEW q \in Requests
  PROVE  HandlerMoved(q, BankLabels, BankLabels \cup {"ensure:select"})
<1> USE DEF Handlers, HandlerMoved, Shaped, BankLabels
<1>1. CASE WeekPasses
  BY <1>1 DEF WeekPasses, AnswerAtOnce, handlers
<1>2. ASSUME NEW r \in Requests, BankStep(r)
      PROVE  HandlerMoved(q, BankLabels, BankLabels \cup {"ensure:select"})
  <2> USE DEF At, Goto, GotoWith, Return, TaskOK, EnsureLabels, HubLabels
  <2>1. CASE LoanApprove(r) 
    BY <2>1, EnsureForTask DEF LoanApprove, EnsureThens
  <2>2. CASE LoanCredit(r) \/ LoanReject(r)
    BY <2>2 DEF LoanCredit, LoanReject
  <2>3. CASE RepayReadWallet(r) \/ RepayDebit(r) \/ RepayRemaining(r)
    BY <2>3 DEF RepayReadWallet, RepayDebit, RepayRemaining
  <2>4. CASE RepayRecord(r) \/ RepayPaid(r) \/ RepayDate(r) \/ RepayActive(r)
    BY <2>4 DEF RepayRecord, RepayPaid, RepayDate, RepayActive
  <2>5. CASE InterestNext(r) \/ InterestDebit(r) \/ InterestRecord(r)
    BY <2>5 DEF InterestNext, InterestDebit, InterestRecord
  <2>6. CASE InterestDate(r) \/ InterestOverdue(r)
    BY <2>6 DEF InterestDate, InterestOverdue
  <2>. QED  BY <1>2, <2>1, <2>2, <2>3, <2>4, <2>5, <2>6 DEF BankStep
<1>3. ASSUME NEW r \in Requests, BankRequest(r)
      PROVE  HandlerMoved(q, BankLabels, BankLabels \cup {"ensure:select"})
  <2> USE DEF Idle, Receive, AnswerAtOnce, handlers, TaskOK, EnsureLabels, HubLabels
  <2>1. CASE ApplyLoan BY <2>1 DEF ApplyLoan
  <2>2. CASE ApproveLoan(r) \/ RejectLoan(r) BY <2>2 DEF ApproveLoan, RejectLoan
  <2>3. CASE RepayLoan(r) \/ ProcessWeeklyInterest(r)
    BY <2>3 DEF RepayLoan, ProcessWeeklyInterest
  <2>. QED  BY <1>3, <2>1, <2>2, <2>3 DEF BankRequest
<1>. QED  BY <1>1, <1>2, <1>3 DEF BankNext

ClassroomLabels ==
  EnsureLabels \cup
  {"create:member", "gift:next", "gift:pay", "join:member", "join:capital", "room:activate",
   "transfer:debit", "transfer:credit"}

\* A handler that has its wallet goes on where it said it would.
LEMMA GoOnMoves ==
  ASSUME Handlers, NEW r \in Requests, pc[r] \in EnsureLabels, NEW w, NEW isNew,
         GoOnWith(r, w, isNew), NEW q \in Requests
  PROVE  HandlerMoved(q, EnsureLabels, EnsureThens)
<1> DEFINE t == task[r]  g == [wallet |-> w, isNew |-> isNew]  s == With(t, g)
<1>1. EnsureTask(t)
  BY DEF Handlers, TaskOK
<1>2. CASE t.then = "answer"
  BY <1>2 DEF GoOnWith, Return, GotoWith, Handlers, HandlerMoved, Shaped, TaskOK, EnsureLabels,
              HubLabels
<1>3. CASE t.then # "answer"
  <2>1. GotoWith(r, t.then, s)
    BY <1>3 DEF GoOnWith
  <2>2. TaskOK(t.then, s)
    <3>1. t.then = "reward:pay" => RewardNext(s)
      <4> SUFFICES ASSUME t.then = "reward:pay" PROVE RewardNext(s)
        OBVIOUS
      <4>1. "next" \in DOMAIN t /\ t["next"] \in RewardNexts
        BY <1>1 DEF EnsureTask, RewardNext
      <4>2. "next" \notin DOMAIN g
        OBVIOUS
      <4> HIDE DEF t, g
      <4>3. DOMAIN s = DOMAIN t \cup DOMAIN g /\ \A x \in DOMAIN t \ DOMAIN g : s[x] = t[x]
        BY WithNew, Zenon
      <4>4. "next" \in DOMAIN s /\ s["next"] = t["next"]
        BY <4>1, <4>2, <4>3
      <4>. QED  BY <4>1, <4>4 DEF RewardNext
    <3>. QED  BY <1>1, <1>3, <3>1 DEF EnsureTask, EnsureThens, TaskOK, EnsureLabels, HubLabels
  <2> HIDE DEF s
  <2>. QED
    BY <1>1, <1>3, <2>1, <2>2 DEF GotoWith, Handlers, HandlerMoved, Shaped, EnsureTask
<1>. QED  BY <1>2, <1>3

\* A task that waits for a wallet may be written to.
LEMMA EnsureWrites ==
  ASSUME NEW t, EnsureTask(t), NEW b
  PROVE  EnsureTask(With(t, [isNew |-> b]))
<1> DEFINE g == [isNew |-> b]
<1>1. DOMAIN g = {"isNew"}
  OBVIOUS
<1> HIDE DEF g
<1>2. /\ DOMAIN With(t, g) = DOMAIN t \cup DOMAIN g
      /\ \A x \in DOMAIN t \ DOMAIN g : With(t, g)[x] = t[x]
  BY WithNew, Zenon
<1>3. EnsureTask(With(t, g))
  BY <1>1, <1>2 DEF EnsureTask, RewardNext
<1>. QED  BY <1>3 DEF g

LEMMA ClassroomMoves ==
  ASSUME Handlers, ClassroomNext, NEW q \in Requests
  PROVE  HandlerMoved(q, ClassroomLabels, ClassroomLabels \cup EnsureThens)
<1> DEFINE M == HandlerMoved(q, ClassroomLabels, ClassroomLabels \cup EnsureThens)
<1>0. ASSUME HandlerMoved(q, EnsureLabels, EnsureThens) PROVE M
  BY <1>0 DEF HandlerMoved, ClassroomLabels
<1>1. CASE AuthRequest
  BY <1>1 DEF AuthRequest, Register, Login, AnswerAtOnce, handlers, HandlerMoved, Shaped, Handlers
<1>2. ASSUME NEW r \in Requests, ClassroomStep(r) PROVE M
  <2>1. CASE EnsureSelect(r) \/ EnsureInsert(r) \/ EnsureReread(r) \/ OwnFind(r) \/ OwnCreate(r)
    <3>1. pc[r] \in EnsureLabels /\ EnsureTask(task[r])
      BY <2>1 DEF EnsureSelect, EnsureInsert, EnsureReread, OwnFind, OwnCreate, At,
                  EnsureLabels, Handlers, TaskOK
    <3>2. CASE \E w, b : GoOnWith(r, w, b)
      BY <1>0, <3>1, <3>2, GoOnMoves
    <3>3. CASE Goto(r, "ensure:move") \/ Goto(r, "own:create") \/ Goto(r, "own:find")
      BY <3>1, <3>3 DEF Goto, GotoWith, Handlers, HandlerMoved, Shaped, TaskOK, EnsureLabels,
                        HubLabels, ClassroomLabels
    <3>4. CASE Return(r)
      BY <3>1, <3>4 DEF Return, GotoWith, Handlers, HandlerMoved, Shaped, TaskOK, EnsureLabels,
                        HubLabels, ClassroomLabels
    <3>5. CASE \E b : GotoWith(r, "ensure:reread", With(task[r], [isNew |-> b]))
      <4> PICK b : GotoWith(r, "ensure:reread", With(task[r], [isNew |-> b]))
        BY <3>5
      <4> DEFINE s == With(task[r], [isNew |-> b])
      <4>1. EnsureTask(s)
        BY <3>1, EnsureWrites
      <4> HIDE DEF s
      <4>. QED
        BY <3>1, <4>1 DEF s, GotoWith, Handlers, HandlerMoved, Shaped, TaskOK, EnsureLabels,
                    HubLabels, ClassroomLabels
    <3>. QED
      BY <2>1, <3>2, <3>3, <3>4, <3>5
      DEF EnsureSelect, EnsureInsert, EnsureReread, OwnFind, OwnCreate
  <2>2. CASE EnsureMove(r)
    <3>1. pc[r] = "ensure:move" /\ EnsureTask(task[r])
      BY <2>2 DEF EnsureMove, At, EnsureLabels, Handlers, TaskOK
    <3>2. EnsureTask(With(task[r], [isNew |-> TRUE]))
      BY <3>1, EnsureWrites
    <3>. QED
      BY <2>2, <3>1, <3>2
      DEF EnsureMove, Goto, GotoWith, Handlers, HandlerMoved, Shaped, TaskOK, EnsureLabels,
          HubLabels, ClassroomLabels
  <2> USE DEF At, Goto, GotoWith, Return, TaskOK, EnsureLabels, HubLabels, Handlers, HandlerMoved,
              Shaped, ClassroomLabels
  <2>3. CASE CreateAddMember(r) \/ JoinCapital(r) \/ SetActiveClassroom(r)
    BY <2>3 DEF CreateAddMember, JoinCapital, SetActiveClassroom
  <2>4. CASE JoinAddMember(r)
    BY <2>4, EnsureForTask DEF JoinAddMember, EnsureThens
  <2>5. CASE GiftNext(r)
    BY <2>5, EnsureForTask DEF GiftNext, EnsureThens
  <2>6. CASE GiftPay(r) \/ TransferDebit(r) \/ TransferCredit(r)
    BY <2>6 DEF GiftPay, TransferDebit, TransferCredit
  <2>. QED  BY <1>2, <2>1, <2>2, <2>3, <2>4, <2>5, <2>6 DEF ClassroomStep
<1>3. ASSUME NEW r \in Requests,
             AdmissionRequest(r) \/ ClassroomRequest(r) \/ WalletRequest(r)
      PROVE  M
  <2> USE DEF Idle, Receive, AnswerAtOnce, handlers, TaskOK, EnsureLabels, HubLabels, Handlers,
              HandlerMoved, Shaped, ClassroomLabels
  <2>1. CASE AdmissionRequest(r)
    BY <2>1 DEF AdmissionRequest, AdminApprove, AdminReject, EnsureTask, EnsureThens
  <2>2. CASE ClassroomRequest(r)
    <3>1. CASE CreateClassroom(r) BY <3>1, ZenonT(40) DEF CreateClassroom
    <3>2. CASE JoinClassroom(r) BY <3>2 DEF JoinClassroom
    <3>3. CASE ActivateClassroom(r) BY <3>3 DEF ActivateClassroom
    <3>. QED  BY <2>2, <3>1, <3>2, <3>3 DEF ClassroomRequest
  <2>3. CASE Transfer(r)
    <3>1. \E u, k, t :
            Receive(r, "Transfer", "ensure:select", EnsureFor(u, k, "transfer:debit", t))
      BY <2>3, Zenon DEF Transfer
    <3> PICK u, k, t :
            Receive(r, "Transfer", "ensure:select", EnsureFor(u, k, "transfer:debit", t))
      BY <3>1
    <3>2. EnsureTask(EnsureFor(u, k, "transfer:debit", t))
      BY EnsureForTask DEF EnsureThens
    <3>. QED  BY <3>2
  <2>4. CASE AdminTransfer(r)
    BY <2>4 DEF AdminTransfer
  <2>. QED  BY <1>3, <2>1, <2>2, <2>3, <2>4 DEF WalletRequest
<1>. QED  BY <1>1, <1>2, <1>3 DEF ClassroomNext

GrantsLabels ==
  {"apply:insert", "unapply:delete", "grant:status", "grant:debit", "grant:credit"}

LEMMA GrantsMoves ==
  ASSUME Handlers, GrantsNext, NEW q \in Requests
  PROVE  HandlerMoved(q, GrantsLabels, GrantsLabels \cup {"ensure:select"})
<1> DEFINE M == HandlerMoved(q, GrantsLabels, GrantsLabels \cup {"ensure:select"})
<1> USE DEF TaskOK, EnsureLabels, HubLabels, Handlers, HandlerMoved, Shaped, GrantsLabels
<1>1. CASE CreateGrant
  BY <1>1 DEF CreateGrant, AnswerAtOnce, handlers
<1>2. ASSUME NEW r \in Requests, GrantsStep(r) PROVE M
  <2> USE DEF At, Goto, GotoWith, Return
  <2>1. CASE ApplyInsert(r) \/ UnapplyDelete(r) \/ GrantCredit(r)
    BY <2>1 DEF ApplyInsert, UnapplyDelete, GrantCredit
  <2>2. CASE GrantStatus(r)
    BY <2>2, EnsureForTask DEF GrantStatus, EnsureThens
  <2>3. CASE GrantDebit(r)
    BY <2>3, EnsureForTask DEF GrantDebit, AfterRefusedDebit, EnsureThens
  <2>. QED  BY <1>2, <2>1, <2>2, <2>3 DEF GrantsStep
<1>3. ASSUME NEW r \in Requests, GrantsRequest(r) PROVE M
  <2> USE DEF Idle, Receive, AnswerAtOnce, handlers
  <2>1. CASE ApplyToGrant(r) \/ DeleteApplication(r)
    BY <2>1 DEF ApplyToGrant, DeleteApplication
  <2>2. CASE ApproveApplication(r) \/ RevokeApplication(r) \/ CloseGrant
    BY <2>2 DEF ApproveApplication, RevokeApplication, CloseGrant
  <2>. QED  BY <1>3, <2>1, <2>2 DEF GrantsRequest
<1>. QED  BY <1>1, <1>2, <1>3 DEF GrantsNext

LEMMA RewardTaskOK ==
  ASSUME NEW p, NEW u, NEW amount, NEW type, NEW ref, NEW next \in RewardNexts, NEW more
  PROVE  /\ EnsureTask(RewardTask(p, u, amount, type, ref, next))
         /\ EnsureTask(With(more, RewardTask(p, u, amount, type, ref, next)))
<1> DEFINE t == [p |-> p, amount |-> amount, type |-> type, ref |-> ref, next |-> next]
           g == [whom |-> u, where |-> post[p].room, then |-> "reward:pay"]
           s == RewardTask(p, u, amount, type, ref, next)
<1>1. s = With(t, g)
  BY DEF RewardTask, EnsureFor
<1>2. /\ "next" \in DOMAIN t \ DOMAIN g /\ t["next"] = next
      /\ "then" \in DOMAIN g /\ g["then"] = "reward:pay"
  OBVIOUS
<1> HIDE DEF t, g
<1>3. /\ DOMAIN With(t, g) = DOMAIN t \cup DOMAIN g
      /\ \A x \in DOMAIN g : With(t, g)[x] = g[x]
      /\ \A x \in DOMAIN t \ DOMAIN g : With(t, g)[x] = t[x]
  BY WithNew, Zenon
<1>4. "next" \in DOMAIN s /\ "then" \in DOMAIN s /\ s["next"] = next /\ s["then"] = "reward:pay"
  BY <1>1, <1>2, <1>3
<1> HIDE DEF s
<1>5. EnsureTask(s)
  BY <1>4 DEF EnsureTask, EnsureThens, RewardNext
<1>6. /\ DOMAIN With(more, s) = DOMAIN more \cup DOMAIN s
      /\ \A x \in DOMAIN s : With(more, s)[x] = s[x]
  BY WithNew, Zenon
<1>7. EnsureTask(With(more, s))
  BY <1>4, <1>6 DEF EnsureTask, EnsureThens, RewardNext
<1>. QED  BY <1>5, <1>7 DEF s

PostsLabels ==
  {"assign:insert", "comment:insert", "comment:count", "comment:submit", "grade:save",
   "like:insert", "like:delete", "like:up", "like:down", "reward:pay", "submit:comment",
   "submit:count", "uncomment:delete", "uncomment:count", "unpost:comments", "unpost:likes",
   "unpost:row"}

\* Handlers that go on to a wallet for a reward.
LEMMA RewardMoves ==
  ASSUME Handlers, NEW r \in Requests, pc[r] \in PostsLabels,
         NEW p, NEW u, NEW amount, NEW type, NEW ref, NEW next \in RewardNexts, NEW more,
         Reward(r, p, u, amount, type, ref, next, more), NEW q \in Requests
  PROVE  HandlerMoved(q, PostsLabels, PostsLabels \cup {"ensure:select"})
<1> DEFINE s == With(more, RewardTask(p, u, amount, type, ref, next))
<1>1. EnsureTask(s)
  BY RewardTaskOK
<1>2. GotoWith(r, "ensure:select", s)
  BY DEF Reward
<1> HIDE DEF s
<1>. QED
  BY <1>1, <1>2 DEF GotoWith, Handlers, HandlerMoved, Shaped, TaskOK, EnsureLabels, HubLabels

LEMMA PostsMoves ==
  ASSUME Handlers, PostsNext, NEW q \in Requests
  PROVE  HandlerMoved(q, PostsLabels, PostsLabels \cup {"ensure:select"})
<1> DEFINE M == HandlerMoved(q, PostsLabels, PostsLabels \cup {"ensure:select"})
<1>1. ASSUME NEW r \in Requests, PostsStep(r) PROVE M
  <2>0. ASSUME NEW p, NEW u, NEW amount, NEW type, NEW ref, NEW next \in RewardNexts, NEW more,
               pc[r] \in PostsLabels, Reward(r, p, u, amount, type, ref, next, more)
        PROVE  M
    BY <2>0, RewardMoves
  <2>1. CASE RewardPay(r)
    <3>1. pc[r] = "reward:pay" /\ RewardNext(task[r])
      BY <2>1 DEF RewardPay, At, Handlers, TaskOK
    <3>. QED
      BY <2>1, <3>1 DEF RewardPay, GoNext, RewardNext, RewardNexts, Goto, GotoWith, Return,
          TaskOK, EnsureLabels, HubLabels, Handlers, HandlerMoved, Shaped, PostsLabels
  <2>2. CASE UnpostRow(r)
    <3>1. pc[r] \in PostsLabels
      BY <2>2 DEF UnpostRow, At, PostsLabels
    <3>2. Return(r) \/ \E p, u, a, ref : Reward(r, p, u, a, "post_reward", ref, "answer", <<>>)
      BY <2>2, Zenon DEF UnpostRow
    <3>3. CASE Return(r)
      BY <3>1, <3>3 DEF GotoWith, Return, TaskOK, EnsureLabels, HubLabels, Handlers, HandlerMoved, Shaped
    <3>4. "answer" \in RewardNexts
      BY DEF RewardNexts
    <3>. QED  BY <2>0, <3>1, <3>2, <3>3, <3>4
  <2>3. CASE LikeUp(r) \/ LikeDown(r)
    <3>1. pc[r] \in PostsLabels
      BY <2>3 DEF LikeUp, LikeDown, At, PostsLabels
    <3>2. Return(r) \/ \E p, u, a, ref : Reward(r, p, u, a, "like_reward", ref, "answer", <<>>)
      BY <2>3, Zenon DEF LikeUp, LikeDown, LikeRewarded
    <3>3. CASE Return(r)
      BY <3>1, <3>3 DEF GotoWith, Return, TaskOK, EnsureLabels, HubLabels, Handlers, HandlerMoved, Shaped
    <3>4. "answer" \in RewardNexts
      BY DEF RewardNexts
    <3>. QED  BY <2>0, <3>1, <3>2, <3>3, <3>4
  <2>4. CASE CommentCount(r)
    <3>1. pc[r] \in PostsLabels
      BY <2>4 DEF CommentCount, At, PostsLabels
    <3> DEFINE t == task[r]
               next == IF post[t.p].kind = "assignment" THEN "comment:submit" ELSE "answer"
    <3>2. next \in RewardNexts
      BY DEF RewardNexts
    <3>3. GoNext(r, next) \/ Reward(r, t.p, post[t.p].author, CommentReward, "comment_reward",
                                    t.p, next, [user |-> t.user, c |-> t.c])
      BY <2>4, Zenon DEF CommentCount
    <3> HIDE DEF next
    <3>4. CASE GoNext(r, next)
      BY <3>1, <3>2, <3>4 DEF GoNext, RewardNexts, Goto, GotoWith, Return, TaskOK, EnsureLabels,
                        HubLabels, Handlers, HandlerMoved, Shaped, PostsLabels
    <3>. QED  BY <2>0, <3>1, <3>2, <3>3, <3>4
  <2>5. CASE UncommentCount(r)
    <3>1. pc[r] \in PostsLabels
      BY <2>5 DEF UncommentCount, At, PostsLabels
    <3>2. Return(r) \/ \E p, u, a, ref :
                         Reward(r, p, u, a, "comment_reward", ref, "answer", <<>>)
      BY <2>5, Zenon DEF UncommentCount
    <3>3. CASE Return(r)
      BY <3>1, <3>3 DEF GotoWith, Return, TaskOK, EnsureLabels, HubLabels, Handlers, HandlerMoved, Shaped
    <3>4. "answer" \in RewardNexts
      BY DEF RewardNexts
    <3>. QED  BY <2>0, <3>1, <3>2, <3>3, <3>4
  <2> USE DEF At, Goto, GotoWith, Return, TaskOK, EnsureLabels, HubLabels, Handlers, HandlerMoved,
              Shaped, PostsLabels
  <2>6. CASE UnpostComments(r) \/ UnpostLikes(r) \/ LikeInsert(r) \/ LikeDelete(r)
    BY <2>6 DEF UnpostComments, UnpostLikes, LikeInsert, LikeDelete
  <2>7. CASE CommentInsert(r) \/ CommentSubmit(r) \/ UncommentDelete(r)
    BY <2>7 DEF CommentInsert, CommentSubmit, UncommentDelete
  <2>8. CASE AssignInsert(r) \/ SubmitComment(r) \/ SubmitCount(r) \/ GradeSave(r)
    BY <2>8 DEF AssignInsert, SubmitComment, SubmitCount, GradeSave
  <2>. QED  BY <1>1, <2>1, <2>2, <2>3, <2>4, <2>5, <2>6, <2>7, <2>8 DEF PostsStep
<1>2. ASSUME NEW r \in Requests,
             PostRequest(r) \/ CommentRequest(r) \/ AssignmentRequest(r)
      PROVE  M
  <2>6. CreatePost(r) =>
          \E u, k, p, a, ref :
              Receive(r, "CreatePost", "ensure:select",
                [whom |-> u, where |-> k, then |-> "reward:pay", p |-> p, amount |-> a,
                 type |-> "post_reward", ref |-> ref, next |-> "answer"])
    BY Zenon DEF CreatePost
  <2>7. GradeAssignment(r) =>
          \E p, u, a, s, grade, paid :
              Receive(r, "GradeAssignment", IF a > 0 THEN "ensure:select" ELSE "grade:save",
              With(RewardTask(p, u, a, "assign_reward", s, "grade:save"),
                   [s |-> s, grade |-> grade, rewarded |-> paid]))
    BY Zenon DEF GradeAssignment
  <2> USE DEF Idle, Receive, TaskOK, EnsureLabels, HubLabels, Handlers, HandlerMoved, Shaped,
              PostsLabels
  <2>1. CASE CreatePost(r)
    <3> PICK u, k, p, a, ref :
            Receive(r, "CreatePost", "ensure:select",
              [whom |-> u, where |-> k, then |-> "reward:pay", p |-> p, amount |-> a,
               type |-> "post_reward", ref |-> ref, next |-> "answer"])
      BY <2>1, <2>6
    <3> DEFINE t == [whom |-> u, where |-> k, then |-> "reward:pay", p |-> p, amount |-> a,
                     type |-> "post_reward", ref |-> ref, next |-> "answer"]
    <3>2. EnsureTask(t)
      BY DEF EnsureTask, EnsureThens, RewardNext, RewardNexts
    <3>3. Receive(r, "CreatePost", "ensure:select", t)
      OBVIOUS
    <3> HIDE DEF t
    <3>. QED  BY <3>2, <3>3
  <2>2. CASE DeletePost(r) \/ LikePost(r)
    BY <2>2 DEF DeletePost, LikePost
  <2>3. CASE CommentRequest(r)
    BY <2>3 DEF CommentRequest, CreateComment, DeleteComment
  <2>4. CASE CreateAssignment(r) \/ SubmitAssignment(r)
    BY <2>4 DEF CreateAssignment, SubmitAssignment
  <2>5. CASE GradeAssignment(r)
    <3> PICK p, u, a, s, grade, paid :
            Receive(r, "GradeAssignment", IF a > 0 THEN "ensure:select" ELSE "grade:save",
              With(RewardTask(p, u, a, "assign_reward", s, "grade:save"),
                   [s |-> s, grade |-> grade, rewarded |-> paid]))
      BY <2>5, <2>7
    <3> DEFINE g == [s |-> s, grade |-> grade, rewarded |-> paid]
               w == RewardTask(p, u, a, "assign_reward", s, "grade:save")
    <3>2. EnsureTask(w)
      BY RewardTaskOK DEF RewardNexts
    <3>3. "then" \notin DOMAIN g /\ "next" \notin DOMAIN g
      OBVIOUS
    <3>4. Receive(r, "GradeAssignment", IF a > 0 THEN "ensure:select" ELSE "grade:save",
                  With(w, g))
      OBVIOUS
    <3> HIDE DEF g, w
    <3>5. /\ DOMAIN With(w, g) = DOMAIN w \cup DOMAIN g
          /\ \A x \in DOMAIN w \ DOMAIN g : With(w, g)[x] = w[x]
      BY WithNew, Zenon
    <3>6. EnsureTask(With(w, g))
      BY <3>2, <3>3, <3>5 DEF EnsureTask, RewardNext
    <3>. QED  BY <3>4, <3>6
  <2>. QED  BY <1>2, <2>1, <2>2, <2>3, <2>4, <2>5 DEF PostRequest, AssignmentRequest
<1>. QED  BY <1>1, <1>2 DEF PostsNext

BillingLabels ==
  {"bill:next", "bill:debit", "bill:record", "key:insert", "key:find", "key:revoke"}

LEMMA BillingMoves ==
  ASSUME Handlers, BillingNext, NEW q \in Requests
  PROVE  HandlerMoved(q, BillingLabels, BillingLabels)
<1> DEFINE M == HandlerMoved(q, BillingLabels, BillingLabels)
<1> USE DEF TaskOK, EnsureLabels, HubLabels, Handlers, HandlerMoved, Shaped, BillingLabels
<1>1. ASSUME NEW r \in Requests, BillingStep(r) PROVE M
  <2> USE DEF At, Goto, GotoWith, Return
  <2>1. CASE KeyInsert(r) \/ KeyRevoke(r) \/ KeyFind(r)
    BY <2>1 DEF KeyInsert, KeyRevoke, KeyFind
  <2>2. CASE BillNext(r)
    BY <2>2 DEF BillNext
  <2>3. CASE BillDebit(r) \/ BillRecord(r)
    BY <2>3 DEF BillDebit, BillRecord
  <2>. QED  BY <1>1, <2>1, <2>2, <2>3 DEF BillingStep
<1>2. ASSUME NEW r \in Requests, BillingRequest(r) \/ BillAll(r) PROVE M
  <2> USE DEF Idle, Receive, AnswerAtOnce, handlers
  <2>1. CASE EnsureKey(r) \/ RotateKey(r)
    BY <2>1 DEF EnsureKey, RotateKey
  <2>2. CASE BillAll(r)
    BY <2>2 DEF BillAll
  <2>. QED  BY <1>2, <2>1, <2>2 DEF BillingRequest
<1>. QED  BY <1>1, <1>2 DEF BillingNext

ChatLabels ==
  {"ask:save", "ask:history", "ask:wait", "ask:call", "ask:store", "ask:tool", "ask:tokens",
   "ask:usage", "faq:save", "last:wait", "last:call", "last:store"}

LEMMA ChatMoves ==
  ASSUME Handlers, ChatNext, NEW q \in Requests
  PROVE  HandlerMoved(q, ChatLabels, ChatLabels)
<1> DEFINE M == HandlerMoved(q, ChatLabels, ChatLabels)
<1> USE DEF TaskOK, EnsureLabels, HubLabels, Handlers, HandlerMoved, Shaped, ChatLabels
<1>1. CASE CreateSession
  BY <1>1 DEF CreateSession, AnswerAtOnce, handlers
<1>2. ASSUME NEW r \in Requests, ChatStep(r) PROVE M
  <2> USE DEF At, Goto, GotoWith, Return
  <2>1. CASE AskSave(r) \/ FaqSave(r) \/ AskHistory(r)
    BY <2>1 DEF AskSave, FaqSave, AskHistory
  <2>2. CASE AskAcquire(r) \/ AskFails(r)
    BY <2>2 DEF AskAcquire, AskFails
  <2>3. CASE AskAnswer(r)
    <3>1. pc[r] = "ask:call" /\ UNCHANGED control
          /\ \E p \in {"ask:store", "last:wait", "last:store"} : \E s :
               /\ pc' = [pc EXCEPT ![r] = p]
               /\ task' = [task EXCEPT ![r] = s]
      <4> DEFINE t(x) == With(task[r], [total |-> task[r].total + 1, calls |-> x.calls])
                 p(x) == IF t(x).calls > 0 \/ ~t(x).stream THEN "ask:store"
                         ELSE IF x.empty THEN "last:wait" ELSE "last:store"
      <4>1. PICK x \in Replies : At(r, "ask:call") /\ GotoWith(r, p(x), t(x))
        BY <2>3, Zenon DEF AskAnswer
      <4>2. p(x) \in {"ask:store", "last:wait", "last:store"}
        OBVIOUS
      <4> HIDE DEF t, p
      <4>. QED  BY <4>1, <4>2
    <3>. QED  BY <3>1
  <2>4. CASE AskStore(r) \/ AskTool(r)
    BY <2>4 DEF AskStore, AskTool, AfterTools
  <2>5. CASE StreamEnds(r) \/ StreamStore(r)
    BY <2>5 DEF StreamEnds, StreamStore
  <2>6. CASE AskTokens(r) \/ AskUsage(r)
    BY <2>6 DEF AskTokens, AskUsage
  <2>. QED  BY <1>2, <2>1, <2>2, <2>3, <2>4, <2>5, <2>6 DEF ChatStep
<1>3. ASSUME NEW r \in Requests, ChatRequest(r) PROVE M
  <2> USE DEF Idle, Receive, AnswerAtOnce, handlers
  <2>1. CASE Ask(r)
    BY <2>1, ZenonT(60) DEF Ask
  <2>2. CASE DeleteSession
    BY <2>2 DEF DeleteSession
  <2>. QED  BY <1>3, <2>1, <2>2 DEF ChatRequest
<1>. QED  BY <1>1, <1>2, <1>3 DEF ChatNext

DatabasesLabels ==
  {"byname:exists", "db:role", "db:create", "db:grant", "db:insert", "drop:db", "drop:role",
   "drop:row", "reconcile:next", "reconcile:remove", "rotate:role", "rotate:mark"}

LEMMA DatabasesMoves ==
  ASSUME Handlers, DatabasesNext, NEW q \in Requests
  PROVE  HandlerMoved(q, DatabasesLabels, DatabasesLabels)
<1> DEFINE M == HandlerMoved(q, DatabasesLabels, DatabasesLabels)
<1> USE DEF TaskOK, EnsureLabels, HubLabels, Handlers, HandlerMoved, Shaped, DatabasesLabels
<1>1. CASE DropByHand
  BY <1>1 DEF DropByHand, AnswerAtOnce, handlers
<1>2. ASSUME NEW r \in Requests, DatabasesStep(r) PROVE M
  <2> USE DEF At, Goto, GotoWith, Return
  <2>1. CASE CreateRole(r) \/ CreateDb(r)
    BY <2>1 DEF CreateRole, CreateDb
  <2>2. CASE GrantDb(r) \/ InsertDb(r)
    BY <2>2 DEF GrantDb, InsertDb, AfterRefusedInsert
  <2>3. CASE DropDb(r) \/ DropRole(r) \/ DropRow(r)
    BY <2>3 DEF DropDb, DropRole, DropRow
  <2>4. CASE ByNameExists(r)
    BY <2>4 DEF ByNameExists
  <2>5. CASE ReconcileNext(r) \/ ReconcileRemove(r)
    BY <2>5 DEF ReconcileNext, ReconcileRemove
  <2>6. CASE RotateRole(r) \/ RotateMark(r)
    BY <2>6 DEF RotateRole, RotateMark
  <2>. QED  BY <1>2, <2>1, <2>2, <2>3, <2>4, <2>5, <2>6 DEF DatabasesStep
<1>3. ASSUME NEW r \in Requests, DatabasesRequest(r) PROVE M
  <2> USE DEF Idle, Receive, AnswerAtOnce, handlers
  <2>1. CASE CreateDatabase(r) \/ DeleteDatabase(r)
    BY <2>1 DEF CreateDatabase, DeleteDatabase
  <2>2. CASE AdminDeleteByDBName(r) \/ AdminReconcile(r) \/ RotatePassword(r)
    BY <2>2 DEF AdminDeleteByDBName, AdminReconcile, RotatePassword
  <2>. QED  BY <1>3, <2>1, <2>2 DEF DatabasesRequest
<1>. QED  BY <1>1, <1>2, <1>3 DEF DatabasesNext

MailLabels ==
  {"claim:write", "verdict:write", "mail:send", "mail:store"}

LEMMA MailMoves ==
  ASSUME Handlers, MailNext, NEW q \in Requests
  PROVE  HandlerMoved(q, MailLabels, MailLabels)
<1> DEFINE M == HandlerMoved(q, MailLabels, MailLabels)
<1> USE DEF TaskOK, EnsureLabels, HubLabels, Handlers, HandlerMoved, Shaped, MailLabels
<1>1. CASE SharedRequest \/ GetEmail
  BY <1>1 DEF SharedRequest, CreateSharedAddress, ShareAddress, GetEmail, AnswerAtOnce,
    handlers
<1>2. ASSUME NEW r \in Requests, MailStep(r) PROVE M
  <2> USE DEF At, Goto, GotoWith, Return
  <2>1. CASE ClaimWrite(r) \/ VerdictWrite(r)
    BY <2>1 DEF ClaimWrite, VerdictWrite
  <2>2. CASE SendOut(r) \/ MailStore(r)
    BY <2>2 DEF SendOut, MailStore
  <2>. QED  BY <1>2, <2>1, <2>2 DEF MailStep
<1>3. ASSUME NEW r \in Requests, ClaimAddress(r) \/ JudgeAddress(r) \/ MailRequest(r) PROVE M
  <2> USE DEF Idle, Receive, AnswerAtOnce, handlers
  <2>1. CASE ClaimAddress(r) \/ JudgeAddress(r)
    BY <2>1 DEF ClaimAddress, JudgeAddress
  <2>2. CASE Send(r) \/ ReceiveInbound(r)
    BY <2>2 DEF Send, ReceiveInbound
  <2>. QED  BY <1>3, <2>1, <2>2 DEF MailRequest
<1>. QED  BY <1>1, <1>2, <1>3 DEF MailNext

MilestonesLabels ==
  {"essay:score", "sync:find", "sync:write"}

LEMMA MilestonesMoves ==
  ASSUME Handlers, MilestonesNext, NEW q \in Requests
  PROVE  HandlerMoved(q, MilestonesLabels, MilestonesLabels)
<1> DEFINE M == HandlerMoved(q, MilestonesLabels, MilestonesLabels)
<1> USE DEF TaskOK, EnsureLabels, HubLabels, Handlers, HandlerMoved, Shaped, MilestonesLabels
<1>1. CASE FindAddresses \/ JudgeMilestone
  BY <1>1 DEF FindAddresses, JudgeMilestone, AnswerAtOnce, handlers
<1>2. ASSUME NEW r \in Requests, MilestonesStep(r) PROVE M
  <2> USE DEF At, Goto, GotoWith, Return
  <2>1. CASE EssayScore(r) \/ SyncFind(r) \/ SyncWrite(r)
    BY <2>1 DEF EssayScore, SyncFind, SyncWrite
  <2>. QED  BY <1>2, <2>1 DEF MilestonesStep
<1>3. ASSUME NEW r \in Requests, MilestonesRequest(r) PROVE M
  <2> USE DEF Idle, Receive, AnswerAtOnce, handlers
  <2>1. CASE SubmitManual(r)
    BY <2>1 DEF SubmitManual
  <2>2. CASE SyncAuto(r)
    BY <2>2 DEF SyncAuto
  <2>. QED  BY <1>3, <2>1, <2>2 DEF MilestonesRequest
<1>. QED  BY <1>1, <1>2, <1>3 DEF MilestonesNext

ServicesLabels ==
  {"connect:list", "connect:provision", "connect:write", "rybbit:next", "service:check",
   "service:write"}

LEMMA ServicesMoves ==
  ASSUME Handlers, ServicesNext, NEW q \in Requests
  PROVE  HandlerMoved(q, ServicesLabels, ServicesLabels)
<1> DEFINE M == HandlerMoved(q, ServicesLabels, ServicesLabels)
<1> USE DEF TaskOK, EnsureLabels, HubLabels, Handlers, HandlerMoved, Shaped, ServicesLabels
<1>1. CASE ChecksExpire
  BY <1>1 DEF ChecksExpire, AnswerAtOnce, handlers
<1>2. ASSUME NEW r \in Requests, ServicesStep(r) PROVE M
  <2> USE DEF At, Goto, GotoWith, Return
  <2>1. CASE ServiceWrite(r) \/ ServiceCheck(r)
    BY <2>1 DEF ServiceWrite, ServiceCheck
  <2>2. CASE ConnectList(r) \/ ConnectProvision(r) \/ ConnectWrite(r)
    BY <2>2 DEF ConnectList, ConnectProvision, ConnectWrite
  <2>3. CASE RybbitNext(r)
    BY <2>3 DEF RybbitNext
  <2>. QED  BY <1>2, <2>1, <2>2, <2>3 DEF ServicesStep
<1>3. ASSUME NEW r \in Requests, ServicesRequest(r) PROVE M
  <2> USE DEF Idle, Receive, AnswerAtOnce, handlers
  <2>1. CASE CreateService \/ UpdateService(r) \/ DeleteService
    BY <2>1 DEF CreateService, UpdateService, DeleteService
  <2>2. CASE ValidateService(r)
    BY <2>2 DEF ValidateService
  <2>3. CASE ConnectRybbit(r)
    BY <2>3 DEF ConnectRybbit
  <2>4. CASE AdminReconcileRybbit(r)
    BY <2>4, ZenonT(60) DEF AdminReconcileRybbit
  <2>. QED  BY <1>3, <2>1, <2>2, <2>3, <2>4 DEF ServicesRequest
<1>. QED  BY <1>1, <1>2, <1>3 DEF ServicesNext

OAuthLabels ==
  {"app:revoke", "app:delete", "code:app", "code:insert", "code:mark", "pair:insert",
   "refresh:app", "refresh:revoke"}

LEMMA OAuthMoves ==
  ASSUME Handlers, OAuthNext, NEW q \in Requests
  PROVE  HandlerMoved(q, OAuthLabels, OAuthLabels)
<1> DEFINE M == HandlerMoved(q, OAuthLabels, OAuthLabels)
<1> USE DEF TaskOK, EnsureLabels, HubLabels, Handlers, HandlerMoved, Shaped, OAuthLabels
<1>1. CASE AppRequest \/ RevokeRequest \/ TokensExpire
  BY <1>1 DEF AppRequest, RegisterClient, RevokeRequest, RevokeToken, TokensExpire,
    AnswerAtOnce, handlers
<1>2. ASSUME NEW r \in Requests, OAuthStep(r) PROVE M
  <2> USE DEF At, Goto, GotoWith, Return
  <2>1. CASE RevokeTokensByClient(r) \/ DeleteApp(r) \/ CreateAuthorizationCode(r)
    BY <2>1 DEF RevokeTokensByClient, DeleteApp, CreateAuthorizationCode
  <2>2. CASE ExchangeFindsApp(r) \/ MarkCodeUsed(r) \/ CreateToken(r)
    BY <2>2 DEF ExchangeFindsApp, MarkCodeUsed, CreateToken
  <2>3. CASE RefreshFindsApp(r) \/ RefreshRevokes(r)
    BY <2>3 DEF RefreshFindsApp, RefreshRevokes
  <2>. QED  BY <1>2, <2>1, <2>2, <2>3 DEF OAuthStep
<1>3. ASSUME NEW r \in Requests, DropRequest(r) \/ ConsentRequest(r) \/ TokenRequest(r) PROVE M
  <2> USE DEF Idle, Receive, AnswerAtOnce, handlers
  <2>1. CASE DropRequest(r) \/ ConsentRequest(r)
    BY <2>1 DEF DropRequest, DeleteClient, ConsentRequest, Authorize
  <2>2. CASE TokenRequest(r)
    BY <2>2 DEF TokenRequest, ExchangeCode, RefreshAccessToken
  <2>. QED  BY <1>3, <2>1, <2>2
<1>. QED  BY <1>1, <1>2, <1>3 DEF OAuthNext

AccountsLabels ==
  {"forgot:save", "forgot:mail", "password:update"}

LEMMA AccountsMoves ==
  ASSUME Handlers, AccountsNext, NEW q \in Requests
  PROVE  HandlerMoved(q, AccountsLabels, AccountsLabels)
<1> DEFINE M == HandlerMoved(q, AccountsLabels, AccountsLabels)
<1> USE DEF TaskOK, EnsureLabels, HubLabels, Handlers, HandlerMoved, Shaped, AccountsLabels
<1>1. CASE RefreshRequest \/ ImpersonateRequest \/ LinksExpire \/ ResetRefused
  BY <1>1 DEF RefreshRequest, RefreshToken, ImpersonateRequest, ImpersonateUser, LinksExpire,
    ResetRefused, AnswerAtOnce, handlers
<1>2. ASSUME NEW r \in Requests, AccountsStep(r) PROVE M
  <2> USE DEF At, Goto, GotoWith, Return
  <2>1. CASE SaveResetToken(r) \/ ForgotMail(r) \/ UpdatePassword(r)
    BY <2>1 DEF SaveResetToken, ForgotMail, UpdatePassword
  <2>. QED  BY <1>2, <2>1 DEF AccountsStep
<1>3. ASSUME NEW r \in Requests, ForgotRequest(r) \/ ResetRequest(r) \/ PasswordRequest(r) PROVE M
  <2> USE DEF Idle, Receive, AnswerAtOnce, handlers
  <2>1. CASE ForgotRequest(r) \/ ResetRequest(r) \/ PasswordRequest(r)
    BY <2>1 DEF ForgotRequest, ForgotPassword, ResetRequest, ResetPassword, PasswordRequest,
      ChangePassword
  <2>. QED  BY <1>3, <2>1
<1>. QED  BY <1>1, <1>2, <1>3 DEF AccountsNext

KnowledgeLabels ==
  {"edit:doc", "edit:meta", "edit:file", "notion:find", "notion:fetched", "skill:insert",
   "skill:update", "wiki:load", "wiki:doc", "wiki:meta", "wiki:undoc", "wiki:unmeta"}

LEMMA KnowledgeMoves ==
  ASSUME Handlers, KnowledgeNext, NEW q \in Requests
  PROVE  HandlerMoved(q, KnowledgeLabels, KnowledgeLabels)
<1> DEFINE M == HandlerMoved(q, KnowledgeLabels, KnowledgeLabels)
<1> USE DEF TaskOK, EnsureLabels, HubLabels, Handlers, HandlerMoved, Shaped, KnowledgeLabels
<1>1. CASE OperatorRemoves
  BY <1>1 DEF OperatorRemoves, AnswerAtOnce, handlers
<1>2. ASSUME NEW r \in Requests, KnowledgeStep(r) PROVE M
  <2> USE DEF At, Goto, GotoWith, Return
  <2>1. CASE WikiLoad(r)
    BY <2>1 DEF WikiLoad
  <2>2. CASE WikiDoc(r) \/ WikiMeta(r)
    BY <2>2 DEF WikiDoc, WikiMeta
  <2>3. CASE WikiUndoc(r) \/ WikiUnmeta(r)
    BY <2>3 DEF WikiUndoc, WikiUnmeta
  <2>4. CASE EditDoc(r) \/ EditMeta(r) \/ EditFile(r)
    BY <2>4 DEF EditDoc, EditMeta, EditFile, AfterEdit
  <2>5. CASE NotionFind(r)
    BY <2>5 DEF NotionFind
  <2>6. CASE NotionFetched(r)
    BY <2>6 DEF NotionFetched, AfterEdit
  <2>7. CASE SkillInsert(r) \/ SkillUpdate(r)
    BY <2>7 DEF SkillInsert, SkillUpdate
  <2>. QED  BY <1>2, <2>1, <2>2, <2>3, <2>4, <2>5, <2>6, <2>7 DEF KnowledgeStep
<1>3. ASSUME NEW r \in Requests, ReindexRequest(r) \/ WikiRequest(r) \/ NotionRequest(r) \/ SkillRequest(r) PROVE M
  <2> USE DEF Idle, Receive, AnswerAtOnce, handlers
  <2>1. CASE ReindexRequest(r) \/ WikiRequest(r)
    BY <2>1 DEF ReindexRequest, AdminReindexWiki, WikiRequest, AdminUpdateWikiDoc
  <2>2. CASE NotionRequest(r)
    BY <2>2 DEF NotionRequest, AdminSyncNotionOne, AdminSyncNotionAll, FetchAll
  <2>3. CASE SkillRequest(r)
    BY <2>3 DEF SkillRequest, AdminCreateSkill, AdminUpdateSkill, AdminDeleteSkill
  <2>. QED  BY <1>3, <2>1, <2>2, <2>3
<1>. QED  BY <1>1, <1>2, <1>3 DEF KnowledgeNext

FilesLabels ==
  {"file:write", "file:check", "file:clean", "file:upload", "file:plan", "file:unlist",
   "file:remove"}

\* What a request with files remembers.
LEMMA StoringTask ==
  ASSUME NEW u \in Users, NEW n
  PROVE  /\ FileTask(Storing(u, n, "file:upload"))
         /\ FileTask(Storing(u, n, "file:plan"))
         /\ \A v \in Users : FileTask(With(Storing(u, n, "dm:insert"), [to |-> v]))
                               /\ DmTask(With(Storing(u, n, "dm:insert"), [to |-> v]))
<1>1. /\ FileTask(Storing(u, n, "file:upload"))
      /\ FileTask(Storing(u, n, "file:plan"))
  BY DEF Storing, FileTask
<1>2. ASSUME NEW v \in Users
      PROVE  /\ FileTask(With(Storing(u, n, "dm:insert"), [to |-> v]))
             /\ DmTask(With(Storing(u, n, "dm:insert"), [to |-> v]))
  <2> DEFINE t == Storing(u, n, "dm:insert")  g == [to |-> v]  s == With(t, g)
  <2>1. /\ {"user", "then"} \subseteq DOMAIN t /\ t["user"] = u /\ t["then"] = "dm:insert"
        /\ DOMAIN g = {"to"} /\ g["to"] = v
    BY DEF Storing
  <2> HIDE DEF t, g
  <2>2. /\ DOMAIN s = DOMAIN t \cup DOMAIN g
        /\ \A x \in DOMAIN g : s[x] = g[x]
        /\ \A x \in DOMAIN t \ DOMAIN g : s[x] = t[x]
    BY WithNew, Zenon
  <2>3. /\ {"user", "then", "to"} \subseteq DOMAIN s
        /\ s["user"] = u /\ s["then"] = "dm:insert" /\ s["to"] = v
    BY <2>1, <2>2
  <2> HIDE DEF s
  <2>4. FileTask(s) /\ DmTask(s)
    BY <2>3 DEF FileTask, DmTask
  <2>. QED  BY <2>4 DEF s, t, g
<1>. QED  BY <1>1, <1>2

LEMMA FilesMoves ==
  ASSUME Handlers, FilesNext, NEW q \in Requests
  PROVE  HandlerMoved(q, FilesLabels, FilesLabels \cup {"dm:insert"})
<1> DEFINE M == HandlerMoved(q, FilesLabels, FilesLabels \cup {"dm:insert"})
<1>1. ASSUME NEW r \in Requests, FilesStep(r) PROVE M
  <2>1. CASE WriteFile(r)
    <3> DEFINE t == task[r]  s == [t EXCEPT !.written = @ + 1]
    <3>1. pc[r] = "file:write" /\ FileTask(t)
      BY <2>1 DEF WriteFile, At, Handlers, TaskOK
    <3>2. FileTask(s)
      BY <3>1 DEF FileTask, DmTask
    <3>3. GotoWith(r, "file:clean", t) \/ GotoWith(r, "file:check", s)
      BY <2>1 DEF WriteFile, Goto
    <3> HIDE DEF s
    <3>. QED
      BY <3>1, <3>2, <3>3 DEF GotoWith, TaskOK, EnsureLabels, HubLabels, Handlers, HandlerMoved,
         Shaped, FilesLabels
  <2>2. CASE CheckFile(r)
    <3>1. pc[r] = "file:check" /\ FileTask(task[r])
      BY <2>2 DEF CheckFile, At, Handlers, TaskOK
    <3>. QED
      BY <2>2, <3>1 DEF CheckFile, FileTask, Goto, GotoWith, TaskOK, EnsureLabels, HubLabels,
         Handlers, HandlerMoved, Shaped, FilesLabels
  <2> USE DEF At, Goto, GotoWith, Return, TaskOK, EnsureLabels, HubLabels, Handlers, HandlerMoved,
              Shaped, FilesLabels
  <2>3. CASE CleanFiles(r) \/ CreateUpload(r) \/ AddFile(r)
    BY <2>3 DEF CleanFiles, CreateUpload, AddFile, FileRow
  <2>4. CASE DeleteFileRow(r) \/ RemoveFile(r)
    BY <2>4 DEF DeleteFileRow, RemoveFile
  <2>. QED  BY <1>1, <2>1, <2>2, <2>3, <2>4 DEF FilesStep
<1>2. ASSUME NEW r \in Requests,
             UploadRequest(r) \/ PlanRequest(r) \/ DeleteRequest(r)
      PROVE  M
  <2> USE DEF Idle, Receive, TaskOK, EnsureLabels, HubLabels, Handlers, HandlerMoved, Shaped,
              FilesLabels
  <2>1. CASE UploadRequest(r) \/ PlanRequest(r)
    BY <2>1, StoringTask DEF UploadRequest, Upload, PlanRequest, UploadFile
  <2>2. CASE DeleteRequest(r)
    BY <2>2 DEF DeleteRequest, DeleteFile
  <2>. QED  BY <1>2, <2>1, <2>2
<1>. QED  BY <1>1, <1>2 DEF FilesNext

\* The users of a set, one after the other.
LEMMA SetToSeqOfUsers ==
  ASSUME NEW S, S \subseteq Users
  PROVE  SetToSeq(S) \in Seq(Users)
<1>1. IsFiniteSet(S)
  BY ServerAssumption, FS_Subset
<1>2. Cardinality(S) \in Nat /\ ExistsBijection(1..Cardinality(S), S)
  BY <1>1, FS_CardinalityType
<1>3. \E f \in [1..Cardinality(S) -> S] : IsInjective(f)
  BY <1>2, Zenon DEF ExistsBijection, Bijection, Injection
<1>4. SetToSeq(S) \in [1..Cardinality(S) -> S]
  BY <1>3, Zenon DEF SetToSeq
<1>. QED  BY <1>2, <1>4

MessagesLabels ==
  {"dm:insert", "notice:insert", "notice:start", "tell:post", "tell:next"}

MessagesTo == MessagesLabels \cup {"file:write", "file:clean", "send:lookup"}

LEMMA NoticeTaskOK ==
  ASSUME NEW u \in Users, NEW kind, NEW loud, NEW by, NEW link
  PROVE  NoticeTask(Notice(u, kind, loud, "answer", by, link))
BY DEF NoticeTask, Notice

\* A handler whose notification has been inserted tells its user.
LEMMA InsertedTask ==
  ASSUME NEW t, NoticeTask(t), NEW n
  PROVE  SendTask(Inserted(t, n))
<1> DEFINE g == [id |-> n, ok |-> TRUE]  s == With(t, g)
<1>1. DOMAIN g = {"id", "ok"}
  OBVIOUS
<1> HIDE DEF g
<1>2. /\ DOMAIN s = DOMAIN t \cup DOMAIN g
      /\ \A x \in DOMAIN t \ DOMAIN g : s[x] = t[x]
  BY WithNew, Zenon
<1> HIDE DEF s
<1>3. NoticeTask(s)
  BY <1>1, <1>2 DEF NoticeTask, TellTask
<1>4. AfterHub(t) \in {"answer", "notice:start", "tell:next"}
      /\ (AfterHub(t) = "tell:next" => s.after = "tell:next")
  BY <1>1, <1>2 DEF AfterHub, NoticeTask
<1>5. After(AfterHub(t), s)
  BY <1>3, <1>4 DEF After, NoticeTask
<1>6. <<t.to>> \in Seq(Users)
  BY DEF NoticeTask
<1>7. Inserted(t, n) = [todo |-> <<t.to>>, then |-> AfterHub(t), rest |-> s]
  BY DEF Inserted, Telling, s, g
<1>. QED  BY <1>5, <1>6, <1>7 DEF SendTask

LEMMA MessagesMoves ==
  ASSUME Handlers, MessagesNext, NEW q \in Requests
  PROVE  HandlerMoved(q, MessagesLabels, MessagesTo)
<1> DEFINE M == HandlerMoved(q, MessagesLabels, MessagesTo)
<1> USE DEF MessagesTo
<1>1. CASE Background \/ EndpointExpires
  <2>1. UNCHANGED handlers
    BY <1>1 DEF Background, EndpointExpires, PushLookup, SendEmailNotification, Deliver,
                DeleteSubscriptionByEndpoint, server, AnswerAtOnce
  <2>. QED  BY <2>1 DEF handlers, Handlers, HandlerMoved, Shaped
<1>2. CASE ReadRequest \/ NotificationRequest \/ PreferenceRequest
  <2>1. UNCHANGED handlers
    BY <1>2 DEF ReadRequest, NotificationRequest, PreferenceRequest, MarkAsRead, MarkRead,
                MarkAllRead, SubscribePush, UnsubscribePush, UpdateEmailPreference, AnswerAtOnce
  <2>. QED  BY <2>1 DEF handlers, Handlers, HandlerMoved, Shaped
<1>3. ASSUME NEW r \in Requests, MessagesStep(r) PROVE M
  <2> DEFINE t == task[r]
  <2>1. CASE NoticeInsert(r)
    <3>1. pc[r] = "notice:insert" /\ NoticeTask(t)
      BY <2>1 DEF NoticeInsert, At, Handlers, TaskOK
    <3>2. \/ t.after = "answer" /\ Return(r)
          \/ t.after # "answer" /\ GotoWith(r, t.after, With(t, [ok |-> FALSE]))
          \/ \E n : GotoWith(r, "send:lookup", Inserted(t, n))
      BY <2>1, Zenon DEF NoticeInsert
    <3>3. CASE t.after = "answer" /\ Return(r)
      BY <3>1, <3>3 DEF Return, GotoWith, TaskOK, EnsureLabels, HubLabels, Handlers, HandlerMoved,
                        Shaped, MessagesLabels
    <3>4. CASE t.after # "answer" /\ GotoWith(r, t.after, With(t, [ok |-> FALSE]))
      <4> DEFINE g == [ok |-> FALSE]  s == With(t, g)
      <4>1. DOMAIN g = {"ok"}
        OBVIOUS
      <4>2. t.after = "tell:next" /\ TellTask(t)
        BY <3>1, <3>4 DEF NoticeTask
      <4>3. GotoWith(r, "tell:next", s)
        BY <3>4, <4>2
      <4> HIDE DEF g
      <4>4. /\ DOMAIN s = DOMAIN t \cup DOMAIN g
            /\ \A x \in DOMAIN t \ DOMAIN g : s[x] = t[x]
        BY WithNew, Zenon
      <4> HIDE DEF s
      <4>5. TellTask(s)
        BY <4>1, <4>2, <4>4 DEF TellTask
      <4>. QED
        BY <3>1, <4>3, <4>5 DEF GotoWith, TaskOK, EnsureLabels, HubLabels, Handlers, HandlerMoved,
                        Shaped, MessagesLabels
    <3>5. CASE \E n : GotoWith(r, "send:lookup", Inserted(t, n))
      <4> PICK n : GotoWith(r, "send:lookup", Inserted(t, n))
        BY <3>5
      <4> DEFINE s == Inserted(t, n)
      <4>1. SendTask(s)
        BY <3>1, InsertedTask
      <4> HIDE DEF s
      <4>. QED
        BY <3>1, <4>1 DEF s, GotoWith, TaskOK, EnsureLabels, HubLabels, Handlers, HandlerMoved,
                    Shaped, MessagesLabels
    <3>. QED  BY <3>2, <3>3, <3>4, <3>5
  <2>2. CASE NoticeStart(r)
    <3>1. pc[r] = "notice:start" /\ NoticeTask(t)
      BY <2>2 DEF NoticeStart, At, Handlers, TaskOK
    <3>. QED
      BY <2>2, <3>1 DEF NoticeStart, NoticeTask, Return, Goto, GotoWith, TaskOK, EnsureLabels,
         HubLabels, Handlers, HandlerMoved, Shaped, MessagesLabels
  <2>3. CASE DmInsert(r)
    <3>1. pc[r] = "dm:insert" /\ DmTask(t)
      BY <2>3 DEF DmInsert, At, Handlers, TaskOK
    <3> DEFINE s == DmTelling(t)
    <3>2. SendTask(s)
      <4>1. NoticeTask(Notice(t.to, "new_dm", TRUE, "answer", 0, 0))
        BY <3>1, NoticeTaskOK DEF DmTask
      <4>2. <<t.to, t.user>> \in Seq(Users)
        BY <3>1 DEF DmTask
      <4>. QED  BY <4>1, <4>2 DEF DmTelling, Telling, SendTask, After
    <3>3. GotoWith(r, "file:clean", t) \/ GotoWith(r, "send:lookup", s)
      BY <2>3 DEF DmInsert, Goto
    <3> HIDE DEF s
    <3>. QED
      BY <3>1, <3>2, <3>3 DEF GotoWith, TaskOK, EnsureLabels, HubLabels, Handlers, HandlerMoved,
         Shaped, MessagesLabels
  <2>4. CASE TellPost(r)
    <3>1. pc[r] = "tell:post" /\ TellTask(t)
      BY <2>4 DEF TellPost, At, Handlers, TaskOK
    <3>2. \E x : GotoWith(r, "tell:next", With(t, [link |-> x, ids |-> t.todo]))
      BY <2>4, Zenon DEF TellPost
    <3> PICK x : GotoWith(r, "tell:next", With(t, [link |-> x, ids |-> t.todo]))
      BY <3>2
    <3> DEFINE g == [link |-> x, ids |-> t.todo]  s == With(t, g)
    <3>3. DOMAIN g = {"link", "ids"} /\ GotoWith(r, "tell:next", s)
      OBVIOUS
    <3> HIDE DEF g
    <3>4. /\ DOMAIN s = DOMAIN t \cup DOMAIN g
          /\ \A y \in DOMAIN t \ DOMAIN g : s[y] = t[y]
      BY WithNew, Zenon
    <3> HIDE DEF s
    <3>5. TellTask(s)
      BY <3>1, <3>3, <3>4 DEF TellTask
    <3>. QED
      BY <3>1, <3>3, <3>5 DEF GotoWith, TaskOK, EnsureLabels, HubLabels, Handlers, HandlerMoved,
         Shaped, MessagesLabels
  <2>5. CASE TellNext(r)
    <3>1. pc[r] = "tell:next" /\ TellTask(t)
      BY <2>5 DEF TellNext, At, Handlers, TaskOK
    <3> DEFINE n == Notice(Head(t.todo), "admin_transfer", t.loud, "tell:next", t.by, t.link)
               g == [todo |-> Tail(t.todo), ids |-> t.ids, sent |-> SentBy(t)]
               s == With(n, g)
    <3>2. Return(r) \/ (t.todo # <<>> /\ GotoWith(r, "notice:insert", s))
      BY <2>5, Zenon DEF TellNext
    <3>3. CASE Return(r)
      BY <3>1, <3>3 DEF Return, GotoWith, TaskOK, EnsureLabels, HubLabels, Handlers, HandlerMoved,
                        Shaped, MessagesLabels
    <3>4. CASE t.todo # <<>> /\ GotoWith(r, "notice:insert", s)
      <4>1. Head(t.todo) \in Users /\ Tail(t.todo) \in Seq(Users)
        BY <3>1, <3>4 DEF TellTask
      <4>2. /\ {"to", "after"} \subseteq DOMAIN n /\ n["to"] = Head(t.todo)
            /\ n["after"] = "tell:next"
            /\ DOMAIN g = {"todo", "ids", "sent"} /\ g["todo"] = Tail(t.todo)
        BY DEF Notice
      <4> HIDE DEF n, g
      <4>3. /\ DOMAIN s = DOMAIN n \cup DOMAIN g
            /\ \A x \in DOMAIN g : s[x] = g[x]
            /\ \A y \in DOMAIN n \ DOMAIN g : s[y] = n[y]
        BY WithNew, Zenon
      <4>4. NoticeTask(s)
        <5>1. /\ {"to", "after", "todo"} \subseteq DOMAIN s
              /\ s["to"] = Head(t.todo) /\ s["after"] = "tell:next" /\ s["todo"] = Tail(t.todo)
          BY <4>2, <4>3
        <5> HIDE DEF s
        <5>. QED  BY <4>1, <5>1 DEF NoticeTask, TellTask
      <4> HIDE DEF s
      <4>. QED
        BY <3>1, <3>4, <4>4 DEF GotoWith, TaskOK, EnsureLabels, HubLabels, Handlers, HandlerMoved,
           Shaped, MessagesLabels
    <3>. QED  BY <3>2, <3>3, <3>4
  <2>. QED  BY <1>3, <2>1, <2>2, <2>3, <2>4, <2>5 DEF MessagesStep
<1>4. ASSUME NEW r \in Requests, CreateNotification(r) PROVE M
  <2>1. \E u \in Audience, n \in FreeId(notice) :
          Receive(r, "CreateNotification", "send:lookup",
                  Inserted(Notice(u, "other", TRUE, "answer", 0, 0), n))
    BY <1>4, Zenon DEF CreateNotification
  <2> PICK u \in Audience, n \in FreeId(notice) :
          Receive(r, "CreateNotification", "send:lookup",
                  Inserted(Notice(u, "other", TRUE, "answer", 0, 0), n))
    BY <2>1
  <2> DEFINE s == Inserted(Notice(u, "other", TRUE, "answer", 0, 0), n)
  <2>2. u \in Users
    BY MessagesAssumption
  <2>3. SendTask(s)
    BY <2>2, NoticeTaskOK, InsertedTask
  <2>4. Receive(r, "CreateNotification", "send:lookup", s)
    OBVIOUS
  <2> HIDE DEF s
  <2>. QED
    BY <2>3, <2>4 DEF Receive, Idle, TaskOK, EnsureLabels, HubLabels, Handlers, HandlerMoved, Shaped,
       MessagesLabels
<1>5. ASSUME NEW r \in Requests, DmRequest(r) PROVE M
  <2>1. \E x \in Letters, n \in 0 .. MaxFiles[workload] :
          Receive(r, "SendMessage", IF n = 0 THEN "dm:insert" ELSE "file:write",
                  With(Storing(x[1], n, "dm:insert"), [to |-> x[2]]))
    BY <1>5, Zenon DEF DmRequest, SendMessage
  <2> PICK x \in Letters, n \in 0 .. MaxFiles[workload] :
          Receive(r, "SendMessage", IF n = 0 THEN "dm:insert" ELSE "file:write",
                  With(Storing(x[1], n, "dm:insert"), [to |-> x[2]]))
    BY <2>1
  <2> DEFINE s == With(Storing(x[1], n, "dm:insert"), [to |-> x[2]])
  <2>2. x[1] \in Users /\ x[2] \in Users
    BY MessagesAssumption
  <2>3. FileTask(s) /\ DmTask(s)
    BY <2>2, StoringTask
  <2>4. Receive(r, "SendMessage", IF n = 0 THEN "dm:insert" ELSE "file:write", s)
    OBVIOUS
  <2> HIDE DEF s
  <2>. QED
    BY <2>3, <2>4 DEF Receive, Idle, TaskOK, EnsureLabels, HubLabels, Handlers, HandlerMoved, Shaped,
       MessagesLabels
<1>6. ASSUME NEW r \in Requests, AnnounceRequest(r) PROVE M
  <2>1. \E ids \in {<<>>} \cup {<<u>> : u \in Users}, loud \in BOOLEAN :
          Receive(r, "SendAnnouncement", "tell:post",
               [todo |-> IF ids = <<>>
                           THEN SetToSeq({u \in Users : account[u] = "approved"})
                           ELSE ids,
                loud |-> loud, by |-> served', sent |-> 0])
    BY <1>6, Zenon DEF AnnounceRequest, SendAnnouncement
  <2> PICK ids \in {<<>>} \cup {<<u>> : u \in Users}, loud \in BOOLEAN :
          Receive(r, "SendAnnouncement", "tell:post",
               [todo |-> IF ids = <<>>
                           THEN SetToSeq({u \in Users : account[u] = "approved"})
                           ELSE ids,
                loud |-> loud, by |-> served', sent |-> 0])
    BY <2>1
  <2> DEFINE todo == IF ids = <<>> THEN SetToSeq({u \in Users : account[u] = "approved"})
                     ELSE ids
             s == [todo |-> todo, loud |-> loud, by |-> served', sent |-> 0]
  <2>2. todo \in Seq(Users)
    <3>1. SetToSeq({u \in Users : account[u] = "approved"}) \in Seq(Users)
      BY SetToSeqOfUsers
    <3>2. ids = <<>> \/ \E u \in Users : ids = <<u>>
      BY Zenon
    <3>3. \A u \in Users : <<u>> \in Seq(Users)
      OBVIOUS
    <3>. QED  BY <3>1, <3>2, <3>3
  <2>3. Receive(r, "SendAnnouncement", "tell:post", s)
    OBVIOUS
  <2> HIDE DEF todo
  <2>4. TellTask(s)
    BY <2>2 DEF TellTask
  <2> HIDE DEF s
  <2>. QED
    BY <2>3, <2>4 DEF Receive, Idle, TaskOK, EnsureLabels, HubLabels, Handlers, HandlerMoved, Shaped,
       MessagesLabels
<1>. QED  BY <1>1, <1>2, <1>3, <1>4, <1>5, <1>6 DEF MessagesNext

LEMMA SuggestionsMoves ==
  ASSUME Handlers, SuggestionsNext, NEW q \in Requests
  PROVE  HandlerMoved(q, {}, {"notice:insert"})
<1>1. CASE AdminUpdateProposal
  BY <1>1 DEF AdminUpdateProposal, AnswerAtOnce, handlers, Handlers, HandlerMoved, Shaped
<1>2. ASSUME NEW r \in Requests, SaveProposal(r) PROVE HandlerMoved(q, {}, {"notice:insert"})
  <2>1. \/ AnswerAtOnce("SaveProposal")
        \/ \E p : Receive(r, "SaveProposal", "notice:insert",
                          Notice(Staff, "proposal", TRUE, "answer", 0, p))
    BY <1>2, Zenon DEF SaveProposal
  <2>2. CASE AnswerAtOnce("SaveProposal")
    BY <2>2 DEF AnswerAtOnce, handlers, Handlers, HandlerMoved, Shaped
  <2>3. CASE \E p : Receive(r, "SaveProposal", "notice:insert",
                            Notice(Staff, "proposal", TRUE, "answer", 0, p))
    <3> PICK p : Receive(r, "SaveProposal", "notice:insert",
                         Notice(Staff, "proposal", TRUE, "answer", 0, p))
      BY <2>3
    <3> DEFINE s == Notice(Staff, "proposal", TRUE, "answer", 0, p)
    <3>1. NoticeTask(s)
      <4>1. Staff \in Users
        BY ClassroomAssumption
      <4>. QED  BY <4>1, NoticeTaskOK
    <3>2. Receive(r, "SaveProposal", "notice:insert", s)
      OBVIOUS
    <3> HIDE DEF s
    <3>. QED
      BY <3>1, <3>2 DEF Receive, Idle, TaskOK, EnsureLabels, HubLabels, Handlers, HandlerMoved, Shaped
  <2>. QED  BY <2>1, <2>2, <2>3
<1>. QED  BY <1>1, <1>2 DEF SuggestionsNext

-----------------------------------------------------------------------------
(* The hub *)

HubTo == HubLabels \cup {"notice:insert", "notice:start", "tell:next"}

LEMMA HubMoves ==
  ASSUME Handlers, HubNext, NEW q \in Requests
  PROVE  HandlerMoved(q, HubLabels, HubTo)
<1> DEFINE M == HandlerMoved(q, HubLabels, HubTo)
<1> USE DEF HubTo
<1>1. CASE RunStep
  BY <1>1 DEF RunStep, RunReceives, RunRegisters, RunUnregisters, server, handlers, Handlers,
              HandlerMoved, Shaped
<1>2. CASE Broadcast
  BY <1>2 DEF Broadcast, AnswerAtOnce, handlers, Handlers, HandlerMoved, Shaped
<1>3. CASE \E c \in Clients : ServeWS(c) \/ Hangup(c) \/ WritePump(c) \/ WritePumpEnds(c)
  BY <1>3 DEF ServeWS, Hangup, WritePump, WritePumpEnds, AnswerAtOnce, server, handlers,
              Handlers, HandlerMoved, Shaped
<1>4. ASSUME NEW r \in Requests, HubStep(r) PROVE M
  <2> DEFINE t == task[r]
  <2>0. pc[r] \in HubLabels /\ SendTask(t)
    BY <1>4 DEF HubStep, SendLookup, SendNext, SendPut, SendDrop, At, Handlers, TaskOK, HubLabels
  <2>a. ASSUME NEW p \in HubLabels, NEW s, SendTask(s), GotoWith(r, p, s) PROVE M
    BY <2>0, <2>a DEF GotoWith, TaskOK, EnsureLabels, HubLabels, Handlers, HandlerMoved, Shaped
  <2>b. ASSUME Return(r) PROVE M
    BY <2>0, <2>b DEF Return, GotoWith, TaskOK, EnsureLabels, HubLabels, Handlers, HandlerMoved, Shaped
  <2>1. CASE SendLookup(r)
    <3>1. \/ t.then = "answer" /\ Return(r)
          \/ t.then # "answer" /\ GotoWith(r, t.then, t.rest)
          \/ t.todo # <<>> /\ GotoWith(r, "send:lookup", [t EXCEPT !.todo = Tail(@)])
          \/ t.todo # <<>> /\ GotoWith(r, "send:next",
                          With(t, [to |-> Head(t.todo), map |-> book[Head(t.todo)], seen |-> {},
                                   todo |-> Tail(t.todo)]))
      BY <2>1, Zenon DEF SendLookup
    <3>2. CASE t.then # "answer" /\ GotoWith(r, t.then, t.rest)
      BY <2>0, <3>2 DEF SendTask, After, GotoWith, TaskOK, EnsureLabels, HubLabels, Handlers,
                        HandlerMoved, Shaped
    <3>3. CASE t.todo # <<>> /\ GotoWith(r, "send:lookup", [t EXCEPT !.todo = Tail(@)])
      <4> DEFINE s == [t EXCEPT !.todo = Tail(@)]
      <4>1. Tail(t.todo) \in Seq(Users)
        BY <2>0, <3>3 DEF SendTask
      <4>2. SendTask(s)
        BY <2>0, <4>1 DEF SendTask
      <4> HIDE DEF s
      <4>. QED  BY <3>3, <4>2, <2>a DEF s, HubLabels
    <3>4. CASE t.todo # <<>> /\ GotoWith(r, "send:next",
                          With(t, [to |-> Head(t.todo), map |-> book[Head(t.todo)], seen |-> {},
                                   todo |-> Tail(t.todo)]))
      <4> DEFINE g == [to |-> Head(t.todo), map |-> book[Head(t.todo)], seen |-> {},
                       todo |-> Tail(t.todo)]
                 s == With(t, g)
      <4>1. Tail(t.todo) \in Seq(Users)
        BY <2>0, <3>4 DEF SendTask
      <4>2. DOMAIN g = {"to", "map", "seen", "todo"} /\ g["todo"] = Tail(t.todo)
        OBVIOUS
      <4>3. GotoWith(r, "send:next", s)
        BY <3>4
      <4> HIDE DEF g
      <4>4. /\ DOMAIN s = DOMAIN t \cup DOMAIN g
            /\ \A x \in DOMAIN g : s[x] = g[x]
            /\ \A x \in DOMAIN t \ DOMAIN g : s[x] = t[x]
        BY WithNew, Zenon
      <4> HIDE DEF s
      <4>5. SendTask(s)
        BY <2>0, <4>1, <4>2, <4>4 DEF SendTask
      <4>. QED  BY <4>3, <4>5, <2>a DEF HubLabels
    <3>. QED  BY <3>1, <3>2, <3>3, <3>4, <2>b
  <2>2. CASE SendNext(r)
    <3>1. \/ GotoWith(r, "send:lookup", Telling(t.todo, t.then, t.rest))
          \/ \E c : GotoWith(r, "send:put", With(t, [client |-> c, seen |-> t.seen \cup {c}]))
      BY <2>2, Zenon DEF SendNext
    <3>2. CASE GotoWith(r, "send:lookup", Telling(t.todo, t.then, t.rest))
      <4> DEFINE s == Telling(t.todo, t.then, t.rest)
      <4>1. SendTask(s)
        BY <2>0 DEF SendTask, Telling
      <4> HIDE DEF s
      <4>. QED  BY <3>2, <4>1, <2>a DEF s, HubLabels
    <3>3. CASE \E c : GotoWith(r, "send:put", With(t, [client |-> c, seen |-> t.seen \cup {c}]))
      <4> PICK c : GotoWith(r, "send:put", With(t, [client |-> c, seen |-> t.seen \cup {c}]))
        BY <3>3
      <4> DEFINE g == [client |-> c, seen |-> t.seen \cup {c}]
                 s == With(t, g)
      <4>1. DOMAIN g = {"client", "seen"} /\ GotoWith(r, "send:put", s)
        OBVIOUS
      <4> HIDE DEF g
      <4>2. /\ DOMAIN s = DOMAIN t \cup DOMAIN g
            /\ \A x \in DOMAIN t \ DOMAIN g : s[x] = t[x]
        BY WithNew, Zenon
      <4> HIDE DEF s
      <4>3. SendTask(s)
        BY <2>0, <4>1, <4>2 DEF SendTask
      <4>. QED  BY <4>1, <4>3, <2>a DEF HubLabels
    <3>. QED  BY <3>1, <3>2, <3>3
  <2>3. CASE SendPut(r)
    <3>1. Return(r) \/ GotoWith(r, "send:next", t) \/ GotoWith(r, "send:drop", t)
      BY <2>3 DEF SendPut, Goto
    <3>. QED  BY <3>1, <2>0, <2>a, <2>b DEF HubLabels
  <2>4. CASE SendDrop(r)
    <3>1. Return(r) \/ GotoWith(r, "send:next", t)
      BY <2>4 DEF SendDrop, Goto
    <3>. QED  BY <3>1, <2>0, <2>a, <2>b DEF HubLabels
  <2>. QED  BY <1>4, <2>1, <2>2, <2>3, <2>4 DEF HubStep
<1>. QED  BY <1>1, <1>2, <1>3, <1>4 DEF HubNext

-----------------------------------------------------------------------------
(* All parts together *)

LEMMA MovedKeeps ==
  ASSUME Handlers, NEW from, NEW to, \A q \in Requests : HandlerMoved(q, from, to)
  PROVE  Handlers'
<1>1. Shaped
  BY ServerAssumption DEF HandlerMoved
<1>2. ASSUME NEW q \in Requests PROVE TaskOK(pc'[q], task'[q])
  BY DEF HandlerMoved, Handlers
<1>. QED  BY <1>1, <1>2 DEF Shaped, Handlers

LEMMA StartupKeeps ==
  ASSUME StartupNext
  PROVE  UNCHANGED handlers
BY DEF StartupNext, CreateFirst, AlterTables, RebuildWallets, FillHomes, CreateMiddle,
       CreateChat, CreateLatest, FillLoans, FillGrants, StopsAtStart, Reach, Backfill, server

LEMMA HandlersInit == Init => Handlers
BY DEF Init, ServerInit, Handlers, TaskOK, EnsureLabels, HubLabels

LEMMA HandlersStep ==
  ASSUME Handlers, [Next]_vars
  PROVE  Handlers'
<1>1. CASE ClassroomNext
  BY <1>1, ClassroomMoves, MovedKeeps
<1>2. CASE EarningNext
  BY <1>2, BankMoves, GrantsMoves, PostsMoves, BillingMoves, MovedKeeps DEF EarningNext
<1>3. CASE ToolsNext
  BY <1>3, ChatMoves, DatabasesMoves, MailMoves, MilestonesMoves, ServicesMoves, MovedKeeps
     DEF ToolsNext
<1>4. CASE TalkNext
  BY <1>4, FilesMoves, MessagesMoves, SuggestionsMoves, MovedKeeps DEF TalkNext
<1>5. CASE AdmissionNext
  BY <1>5, OAuthMoves, AccountsMoves, KnowledgeMoves, MovedKeeps DEF AdmissionNext
<1>6. CASE HubNext
  BY <1>6, HubMoves, MovedKeeps
<1>7. CASE StartupNext
  BY <1>7, StartupKeeps DEF handlers, Handlers
<1>8. CASE Restart
  BY <1>8 DEF Restart, ServerRestart, Handlers, TaskOK, EnsureLabels, HubLabels
<1>9. CASE UNCHANGED vars
  BY <1>9 DEF vars, server, handlers, Handlers
<1>. QED
  BY <1>1, <1>2, <1>3, <1>4, <1>5, <1>6, <1>7, <1>8, <1>9 DEF Next, Quiet

-----------------------------------------------------------------------------
Goes(r) == pc[r] # "idle" /\ \E p, t : GotoWith(r, p, t)

Takes(r) == \E kind, p, t : Receive(r, kind, p, t)

Rests ==
  /\ UNCHANGED <<handlers, workload, restarts>>
  /\ served' = served \/ served' = served + 1
  /\ overlapped => overlapped'
  /\ AllIdle \/ overlapped' \/ UNCHANGED control

OneMoves == Rests \/ \E r \in Requests : Goes(r) \/ Takes(r)

LEMMA ClassroomOne ==
  ASSUME ClassroomNext
  PROVE  OneMoves
<1>1. ASSUME Register PROVE Rests
  BY <1>1 DEF Register, AnswerAtOnce, Arrives, Rests, server, handlers, control
<1>2. ASSUME Login PROVE Rests
  BY <1>2 DEF Login, AnswerAtOnce, Arrives, Rests, server, handlers, control
<1>3. ASSUME AdminReject PROVE Rests
  BY <1>3 DEF AdminReject, AnswerAtOnce, Arrives, Rests, server, handlers, control
<1>4. ASSUME NEW r \in Requests, EnsureSelect(r) \/ EnsureMove(r) \/ EnsureInsert(r)
      PROVE  Goes(r) \/ Takes(r)
  BY <1>4 DEF EnsureSelect, EnsureMove, EnsureInsert, GoOnWith, At, Goto, Return, Goes,
     Takes
<1>5. ASSUME NEW r \in Requests, EnsureReread(r) \/ OwnFind(r) \/ OwnCreate(r)
      PROVE  Goes(r) \/ Takes(r)
  BY <1>5 DEF EnsureReread, OwnFind, OwnCreate, GoOnWith, At, Goto, Return, Goes, Takes
<1>6. ASSUME NEW r \in Requests, CreateAddMember(r) \/ JoinAddMember(r) \/ JoinCapital(r)
      PROVE  Goes(r) \/ Takes(r)
  BY <1>6 DEF CreateAddMember, JoinAddMember, JoinCapital, At, Goto, Return, Goes, Takes
<1>7. ASSUME NEW r \in Requests, SetActiveClassroom(r) \/ GiftNext(r) \/ GiftPay(r)
      PROVE  Goes(r) \/ Takes(r)
  BY <1>7 DEF SetActiveClassroom, GiftNext, GiftPay, At, Goto, Return, Goes, Takes
<1>8. ASSUME NEW r \in Requests, TransferDebit(r) \/ TransferCredit(r) \/ AdminApprove(r)
      PROVE  Goes(r) \/ Takes(r)
  BY <1>8 DEF TransferDebit, TransferCredit, AdminApprove, At, Goto, Return, Goes, Takes
<1>9. ASSUME NEW r \in Requests, CreateClassroom(r) \/ JoinClassroom(r) \/ ActivateClassroom(r)
      PROVE  Goes(r) \/ Takes(r)
  BY <1>9 DEF CreateClassroom, JoinClassroom, ActivateClassroom, At, Goto, Return, Goes,
     Takes
<1>10. ASSUME NEW r \in Requests, Transfer(r) \/ AdminTransfer(r)
      PROVE  Goes(r) \/ Takes(r)
  BY <1>10 DEF Transfer, AdminTransfer, At, Goto, Return, Goes, Takes
<1>. QED
  BY <1>1, <1>2, <1>3, <1>4, <1>5, <1>6, <1>7, <1>8, <1>9, <1>10 DEF OneMoves,
     ClassroomNext, AuthRequest, ClassroomStep, AdmissionRequest, ClassroomRequest,
     WalletRequest

LEMMA BankOne ==
  ASSUME BankNext
  PROVE  OneMoves
<1>1. ASSUME WeekPasses PROVE Rests
  BY <1>1 DEF WeekPasses, AnswerAtOnce, Arrives, Rests, server, handlers, control
<1>2. ASSUME ApplyLoan PROVE Rests
  BY <1>2 DEF ApplyLoan, AnswerAtOnce, Arrives, Rests, server, handlers, control
<1>3. ASSUME NEW r \in Requests, LoanApprove(r) \/ LoanCredit(r) \/ LoanReject(r)
      PROVE  Goes(r) \/ Takes(r)
  BY <1>3 DEF LoanApprove, LoanCredit, LoanReject, At, Goto, Return, Goes, Takes
<1>4. ASSUME NEW r \in Requests, RepayReadWallet(r) \/ RepayDebit(r) \/ RepayRemaining(r)
      PROVE  Goes(r) \/ Takes(r)
  BY <1>4 DEF RepayReadWallet, RepayDebit, RepayRemaining, At, Goto, Return, Goes, Takes
<1>5. ASSUME NEW r \in Requests, RepayRecord(r) \/ RepayPaid(r) \/ RepayDate(r)
      PROVE  Goes(r) \/ Takes(r)
  BY <1>5 DEF RepayRecord, RepayPaid, RepayDate, At, Goto, Return, Goes, Takes
<1>6. ASSUME NEW r \in Requests, RepayActive(r) \/ InterestNext(r) \/ InterestDebit(r)
      PROVE  Goes(r) \/ Takes(r)
  BY <1>6 DEF RepayActive, InterestNext, InterestDebit, At, Goto, Return, Goes, Takes
<1>7. ASSUME NEW r \in Requests, InterestRecord(r) \/ InterestDate(r) \/ InterestOverdue(r)
      PROVE  Goes(r) \/ Takes(r)
  BY <1>7 DEF InterestRecord, InterestDate, InterestOverdue, At, Goto, Return, Goes, Takes
<1>8. ASSUME NEW r \in Requests, ApproveLoan(r) \/ RejectLoan(r) \/ RepayLoan(r)
      PROVE  Goes(r) \/ Takes(r)
  BY <1>8 DEF ApproveLoan, RejectLoan, RepayLoan, At, Goto, Return, Goes, Takes
<1>9. ASSUME NEW r \in Requests, ProcessWeeklyInterest(r)
      PROVE  Goes(r) \/ Takes(r)
  BY <1>9 DEF ProcessWeeklyInterest, At, Goto, Return, Goes, Takes
<1>. QED
  BY <1>1, <1>2, <1>3, <1>4, <1>5, <1>6, <1>7, <1>8, <1>9 DEF OneMoves, BankNext, BankStep,
     BankRequest

LEMMA GrantsOne ==
  ASSUME GrantsNext
  PROVE  OneMoves
<1>1. ASSUME CreateGrant PROVE Rests
  BY <1>1 DEF CreateGrant, AnswerAtOnce, Arrives, Rests, server, handlers, control
<1>2. ASSUME CloseGrant PROVE Rests
  BY <1>2 DEF CloseGrant, AnswerAtOnce, Arrives, Rests, server, handlers, control
<1>3. ASSUME NEW r \in Requests, ApplyInsert(r) \/ UnapplyDelete(r) \/ GrantStatus(r)
      PROVE  Goes(r) \/ Takes(r)
  BY <1>3 DEF ApplyInsert, UnapplyDelete, GrantStatus, At, Goto, Return, Goes, Takes
<1>4. ASSUME NEW r \in Requests, GrantDebit(r) \/ GrantCredit(r) \/ ApplyToGrant(r)
      PROVE  Goes(r) \/ Takes(r)
  BY <1>4 DEF GrantDebit, GrantCredit, ApplyToGrant, AfterRefusedDebit, At, Goto, Return,
     Goes, Takes
<1>5. ASSUME NEW r \in Requests, DeleteApplication(r) \/ ApproveApplication(r) \/ RevokeApplication(r)
      PROVE  Goes(r) \/ Takes(r)
  BY <1>5 DEF DeleteApplication, ApproveApplication, RevokeApplication, At, Goto, Return,
     Goes, Takes
<1>. QED
  BY <1>1, <1>2, <1>3, <1>4, <1>5 DEF OneMoves, GrantsNext, GrantsStep, GrantsRequest

LEMMA PostsOne ==
  ASSUME PostsNext
  PROVE  OneMoves
<1>1. ASSUME NEW r \in Requests, RewardPay(r) \/ UnpostComments(r) \/ UnpostLikes(r)
      PROVE  Goes(r) \/ Takes(r)
  BY <1>1 DEF RewardPay, UnpostComments, UnpostLikes, GoNext, At, Goto, Return, Goes,
     Takes
<1>2. ASSUME NEW r \in Requests, UnpostRow(r) \/ LikeInsert(r) \/ LikeDelete(r)
      PROVE  Goes(r) \/ Takes(r)
  BY <1>2 DEF UnpostRow, LikeInsert, LikeDelete, Reward, At, Goto, Return, Goes, Takes
<1>3. ASSUME NEW r \in Requests, LikeUp(r) \/ LikeDown(r) \/ CommentInsert(r)
      PROVE  Goes(r) \/ Takes(r)
  BY <1>3 DEF LikeUp, LikeDown, CommentInsert, LikeRewarded, Reward, At, Goto, Return,
     Goes, Takes
<1>4. ASSUME NEW r \in Requests, CommentCount(r) \/ CommentSubmit(r) \/ UncommentDelete(r)
      PROVE  Goes(r) \/ Takes(r)
  BY <1>4 DEF CommentCount, CommentSubmit, UncommentDelete, GoNext, Reward, At, Goto,
     Return, Goes, Takes
<1>5. ASSUME NEW r \in Requests, UncommentCount(r) \/ AssignInsert(r) \/ SubmitComment(r)
      PROVE  Goes(r) \/ Takes(r)
  BY <1>5 DEF UncommentCount, AssignInsert, SubmitComment, Reward, At, Goto, Return, Goes,
     Takes
<1>6. ASSUME NEW r \in Requests, SubmitCount(r) \/ GradeSave(r) \/ CreatePost(r)
      PROVE  Goes(r) \/ Takes(r)
  BY <1>6 DEF SubmitCount, GradeSave, CreatePost, At, Goto, Return, Goes, Takes
<1>7. ASSUME NEW r \in Requests, DeletePost(r) \/ LikePost(r) \/ CreateComment(r)
      PROVE  Goes(r) \/ Takes(r)
  BY <1>7 DEF DeletePost, LikePost, CreateComment, At, Goto, Return, Goes, Takes
<1>8. ASSUME NEW r \in Requests, DeleteComment(r) \/ CreateAssignment(r) \/ SubmitAssignment(r)
      PROVE  Goes(r) \/ Takes(r)
  BY <1>8 DEF DeleteComment, CreateAssignment, SubmitAssignment, At, Goto, Return, Goes,
     Takes
<1>9. ASSUME NEW r \in Requests, GradeAssignment(r)
      PROVE  Goes(r) \/ Takes(r)
  BY <1>9 DEF GradeAssignment, At, Goto, Return, Goes, Takes
<1>. QED
  BY <1>1, <1>2, <1>3, <1>4, <1>5, <1>6, <1>7, <1>8, <1>9 DEF OneMoves, PostsNext,
     PostsStep, PostRequest, CommentRequest, AssignmentRequest

LEMMA BillingOne ==
  ASSUME BillingNext
  PROVE  OneMoves
<1>1. ASSUME NEW r \in Requests, KeyInsert(r) \/ KeyRevoke(r) \/ KeyFind(r)
      PROVE  Goes(r) \/ Takes(r)
  BY <1>1 DEF KeyInsert, KeyRevoke, KeyFind, At, Goto, Return, Goes, Takes
<1>2. ASSUME NEW r \in Requests, BillNext(r) \/ BillDebit(r) \/ BillRecord(r)
      PROVE  Goes(r) \/ Takes(r)
  BY <1>2 DEF BillNext, BillDebit, BillRecord, At, Goto, Return, Goes, Takes
<1>3. ASSUME NEW r \in Requests, EnsureKey(r) \/ RotateKey(r) \/ BillAll(r)
      PROVE  Goes(r) \/ Takes(r)
  BY <1>3 DEF EnsureKey, RotateKey, BillAll, At, Goto, Return, Goes, Takes
<1>. QED
  BY <1>1, <1>2, <1>3 DEF OneMoves, BillingNext, BillingStep, BillingRequest

LEMMA ChatOne ==
  ASSUME ChatNext
  PROVE  OneMoves
<1>1. ASSUME CreateSession PROVE Rests
  BY <1>1 DEF CreateSession, AnswerAtOnce, Arrives, Rests, server, handlers, control
<1>2. ASSUME DeleteSession PROVE Rests
  BY <1>2 DEF DeleteSession, AnswerAtOnce, Arrives, Rests, server, handlers, control
<1>3. ASSUME NEW r \in Requests, AskSave(r) \/ FaqSave(r) \/ AskHistory(r)
      PROVE  Goes(r) \/ Takes(r)
  BY <1>3 DEF AskSave, FaqSave, AskHistory, At, Goto, Return, Goes, Takes
<1>4. ASSUME NEW r \in Requests, AskAcquire(r) \/ AskFails(r) \/ AskAnswer(r)
      PROVE  Goes(r) \/ Takes(r)
  BY <1>4 DEF AskAcquire, AskFails, AskAnswer, At, Goto, Return, Goes, Takes
<1>5. ASSUME NEW r \in Requests, AskStore(r) \/ AskTool(r) \/ StreamEnds(r)
      PROVE  Goes(r) \/ Takes(r)
  BY <1>5 DEF AskStore, AskTool, StreamEnds, At, Goto, Return, Goes, Takes
<1>6. ASSUME NEW r \in Requests, StreamStore(r) \/ AskTokens(r) \/ AskUsage(r)
      PROVE  Goes(r) \/ Takes(r)
  BY <1>6 DEF StreamStore, AskTokens, AskUsage, At, Goto, Return, Goes, Takes
<1>7. ASSUME NEW r \in Requests, Ask(r)
      PROVE  Goes(r) \/ Takes(r)
  BY <1>7 DEF Ask, At, Goto, Return, Goes, Takes
<1>. QED
  BY <1>1, <1>2, <1>3, <1>4, <1>5, <1>6, <1>7 DEF OneMoves, ChatNext, ChatStep,
     ChatRequest

LEMMA DatabasesOne ==
  ASSUME DatabasesNext
  PROVE  OneMoves
<1>1. ASSUME DropByHand PROVE Rests
  BY <1>1 DEF DropByHand, AnswerAtOnce, Arrives, Rests, server, handlers, control
<1>2. ASSUME NEW r \in Requests, CreateRole(r) \/ CreateDb(r) \/ GrantDb(r)
      PROVE  Goes(r) \/ Takes(r)
  BY <1>2 DEF CreateRole, CreateDb, GrantDb, At, Goto, Return, Goes, Takes
<1>3. ASSUME NEW r \in Requests, InsertDb(r) \/ DropDb(r) \/ DropRole(r)
      PROVE  Goes(r) \/ Takes(r)
  BY <1>3 DEF InsertDb, DropDb, DropRole, At, Goto, Return, Goes, Takes
<1>4. ASSUME NEW r \in Requests, DropRow(r) \/ ByNameExists(r) \/ ReconcileNext(r)
      PROVE  Goes(r) \/ Takes(r)
  BY <1>4 DEF DropRow, ByNameExists, ReconcileNext, At, Goto, Return, Goes, Takes
<1>5. ASSUME NEW r \in Requests, ReconcileRemove(r) \/ RotateRole(r) \/ RotateMark(r)
      PROVE  Goes(r) \/ Takes(r)
  BY <1>5 DEF ReconcileRemove, RotateRole, RotateMark, At, Goto, Return, Goes, Takes
<1>6. ASSUME NEW r \in Requests, CreateDatabase(r) \/ DeleteDatabase(r) \/ AdminDeleteByDBName(r)
      PROVE  Goes(r) \/ Takes(r)
  BY <1>6 DEF CreateDatabase, DeleteDatabase, AdminDeleteByDBName, At, Goto, Return, Goes,
     Takes
<1>7. ASSUME NEW r \in Requests, AdminReconcile(r) \/ RotatePassword(r)
      PROVE  Goes(r) \/ Takes(r)
  BY <1>7 DEF AdminReconcile, RotatePassword, At, Goto, Return, Goes, Takes
<1>. QED
  BY <1>1, <1>2, <1>3, <1>4, <1>5, <1>6, <1>7 DEF OneMoves, DatabasesNext, DatabasesStep,
     DatabasesRequest

LEMMA MailOne ==
  ASSUME MailNext
  PROVE  OneMoves
<1>1. ASSUME CreateSharedAddress PROVE Rests
  BY <1>1 DEF CreateSharedAddress, AnswerAtOnce, Arrives, Rests, server, handlers, control
<1>2. ASSUME ShareAddress PROVE Rests
  BY <1>2 DEF ShareAddress, AnswerAtOnce, Arrives, Rests, server, handlers, control
<1>3. ASSUME GetEmail PROVE Rests
  BY <1>3 DEF GetEmail, AnswerAtOnce, Arrives, Rests, server, handlers, control
<1>4. ASSUME NEW r \in Requests, ClaimWrite(r) \/ VerdictWrite(r) \/ SendOut(r)
      PROVE  Goes(r) \/ Takes(r)
  BY <1>4 DEF ClaimWrite, VerdictWrite, SendOut, At, Goto, Return, Goes, Takes
<1>5. ASSUME NEW r \in Requests, MailStore(r) \/ ClaimAddress(r) \/ JudgeAddress(r)
      PROVE  Goes(r) \/ Takes(r)
  BY <1>5 DEF MailStore, ClaimAddress, JudgeAddress, At, Goto, Return, Goes, Takes
<1>6. ASSUME NEW r \in Requests, Send(r) \/ ReceiveInbound(r)
      PROVE  Goes(r) \/ Takes(r)
  BY <1>6 DEF Send, ReceiveInbound, At, Goto, Return, Goes, Takes
<1>. QED
  BY <1>1, <1>2, <1>3, <1>4, <1>5, <1>6 DEF OneMoves, MailNext, SharedRequest, MailStep,
     MailRequest

LEMMA MilestonesOne ==
  ASSUME MilestonesNext
  PROVE  OneMoves
<1>1. ASSUME FindAddresses PROVE Rests
  BY <1>1 DEF FindAddresses, AnswerAtOnce, Arrives, Rests, server, handlers, control
<1>2. ASSUME JudgeMilestone PROVE Rests
  BY <1>2 DEF JudgeMilestone, AnswerAtOnce, Arrives, Rests, server, handlers, control
<1>3. ASSUME NEW r \in Requests, EssayScore(r) \/ SyncFind(r) \/ SyncWrite(r)
      PROVE  Goes(r) \/ Takes(r)
  BY <1>3 DEF EssayScore, SyncFind, SyncWrite, At, Goto, Return, Goes, Takes
<1>4. ASSUME NEW r \in Requests, SubmitManual(r) \/ SyncAuto(r)
      PROVE  Rests \/ Goes(r) \/ Takes(r)
  BY <1>4 DEF SubmitManual, SyncAuto, At, Goto, Return, Goes, Takes, AnswerAtOnce, Arrives,
     Rests
<1>. QED
  BY <1>1, <1>2, <1>3, <1>4 DEF OneMoves, MilestonesNext, MilestonesStep,
     MilestonesRequest

LEMMA ServicesOne ==
  ASSUME ServicesNext
  PROVE  OneMoves
<1>1. ASSUME ChecksExpire PROVE Rests
  BY <1>1 DEF ChecksExpire, AnswerAtOnce, Arrives, Rests, server, handlers, control
<1>2. ASSUME CreateService PROVE Rests
  BY <1>2 DEF CreateService, AnswerAtOnce, Arrives, Rests, server, handlers, control
<1>3. ASSUME DeleteService PROVE Rests
  BY <1>3 DEF DeleteService, AnswerAtOnce, Arrives, Rests, server, handlers, control
<1>4. ASSUME NEW r \in Requests, ServiceWrite(r) \/ ServiceCheck(r) \/ ConnectList(r)
      PROVE  Goes(r) \/ Takes(r)
  BY <1>4 DEF ServiceWrite, ServiceCheck, ConnectList, At, Goto, Return, Goes, Takes
<1>5. ASSUME NEW r \in Requests, ConnectProvision(r) \/ ConnectWrite(r) \/ RybbitNext(r)
      PROVE  Goes(r) \/ Takes(r)
  BY <1>5 DEF ConnectProvision, ConnectWrite, RybbitNext, At, Goto, Return, Goes, Takes
<1>6. ASSUME NEW r \in Requests, UpdateService(r) \/ ValidateService(r) \/ ConnectRybbit(r)
      PROVE  Goes(r) \/ Takes(r)
  BY <1>6 DEF UpdateService, ValidateService, ConnectRybbit, At, Goto, Return, Goes, Takes
<1>7. ASSUME NEW r \in Requests, AdminReconcileRybbit(r)
      PROVE  Goes(r) \/ Takes(r)
  BY <1>7 DEF AdminReconcileRybbit, At, Goto, Return, Goes, Takes
<1>. QED
  BY <1>1, <1>2, <1>3, <1>4, <1>5, <1>6, <1>7 DEF OneMoves, ServicesNext, ServicesStep,
     ServicesRequest

LEMMA OAuthOne ==
  ASSUME OAuthNext
  PROVE  OneMoves
<1>1. ASSUME RegisterClient PROVE Rests
  BY <1>1 DEF RegisterClient, AnswerAtOnce, Arrives, Rests, server, handlers, control
<1>2. ASSUME RevokeToken PROVE Rests
  BY <1>2 DEF RevokeToken, AnswerAtOnce, Arrives, Rests, server, handlers, control
<1>3. ASSUME TokensExpire PROVE Rests
  BY <1>3 DEF TokensExpire, AnswerAtOnce, Arrives, Rests, server, handlers, control
<1>4. ASSUME NEW r \in Requests, RevokeTokensByClient(r) \/ DeleteApp(r) \/ CreateAuthorizationCode(r)
      PROVE  Goes(r) \/ Takes(r)
  BY <1>4 DEF RevokeTokensByClient, DeleteApp, CreateAuthorizationCode, At, Goto, Return,
     Goes, Takes
<1>5. ASSUME NEW r \in Requests, ExchangeFindsApp(r) \/ MarkCodeUsed(r) \/ CreateToken(r)
      PROVE  Goes(r) \/ Takes(r)
  BY <1>5 DEF ExchangeFindsApp, MarkCodeUsed, CreateToken, At, Goto, Return, Goes, Takes
<1>6. ASSUME NEW r \in Requests, RefreshFindsApp(r) \/ RefreshRevokes(r) \/ DeleteClient(r)
      PROVE  Goes(r) \/ Takes(r)
  BY <1>6 DEF RefreshFindsApp, RefreshRevokes, DeleteClient, At, Goto, Return, Goes, Takes
<1>7. ASSUME NEW r \in Requests, Authorize(r) \/ ExchangeCode(r) \/ RefreshAccessToken(r)
      PROVE  Goes(r) \/ Takes(r)
  BY <1>7 DEF Authorize, ExchangeCode, RefreshAccessToken, At, Goto, Return, Goes, Takes
<1>. QED
  BY <1>1, <1>2, <1>3, <1>4, <1>5, <1>6, <1>7 DEF OneMoves, OAuthNext, AppRequest,
     RevokeRequest, OAuthStep, DropRequest, ConsentRequest, TokenRequest

LEMMA AccountsOne ==
  ASSUME AccountsNext
  PROVE  OneMoves
<1>1. ASSUME RefreshToken PROVE Rests
  BY <1>1 DEF RefreshToken, AnswerAtOnce, Arrives, Rests, server, handlers, control
<1>2. ASSUME ImpersonateUser PROVE Rests
  BY <1>2 DEF ImpersonateUser, AnswerAtOnce, Arrives, Rests, server, handlers, control
<1>3. ASSUME LinksExpire PROVE Rests
  BY <1>3 DEF LinksExpire, AnswerAtOnce, Arrives, Rests, server, handlers, control
<1>3a. ASSUME ResetRefused PROVE Rests
  BY <1>3a DEF ResetRefused, AnswerAtOnce, Arrives, Rests, server, handlers, control
<1>4. ASSUME NEW r \in Requests, SaveResetToken(r) \/ ForgotMail(r) \/ UpdatePassword(r)
      PROVE  Goes(r) \/ Takes(r)
  BY <1>4 DEF SaveResetToken, ForgotMail, UpdatePassword, At, Goto, Return, Goes, Takes
<1>5. ASSUME NEW r \in Requests, ForgotPassword(r) \/ ResetPassword(r) \/ ChangePassword(r)
      PROVE  Goes(r) \/ Takes(r)
  BY <1>5 DEF ForgotPassword, ResetPassword, ChangePassword, At, Goto, Return, Goes, Takes
<1>. QED
  BY <1>1, <1>2, <1>3, <1>3a, <1>4, <1>5 DEF OneMoves, AccountsNext, RefreshRequest,
     ImpersonateRequest, AccountsStep, ForgotRequest, ResetRequest, PasswordRequest

LEMMA KnowledgeOne ==
  ASSUME KnowledgeNext
  PROVE  OneMoves
<1>1. ASSUME OperatorRemoves PROVE Rests
  BY <1>1 DEF OperatorRemoves, AnswerAtOnce, Arrives, Rests, server, handlers, control
<1>2. ASSUME AdminUpdateSkill PROVE Rests
  BY <1>2 DEF AdminUpdateSkill, AnswerAtOnce, Arrives, Rests, server, handlers, control
<1>3. ASSUME AdminDeleteSkill PROVE Rests
  BY <1>3 DEF AdminDeleteSkill, AnswerAtOnce, Arrives, Rests, server, handlers, control
<1>4. ASSUME NEW r \in Requests, WikiLoad(r) \/ WikiDoc(r) \/ WikiMeta(r)
      PROVE  Goes(r) \/ Takes(r)
  BY <1>4 DEF WikiLoad, WikiDoc, WikiMeta, At, Goto, Return, Goes, Takes
<1>5. ASSUME NEW r \in Requests, WikiUndoc(r) \/ WikiUnmeta(r) \/ EditDoc(r)
      PROVE  Goes(r) \/ Takes(r)
  BY <1>5 DEF WikiUndoc, WikiUnmeta, EditDoc, At, Goto, Return, Goes, Takes
<1>6. ASSUME NEW r \in Requests, EditMeta(r) \/ EditFile(r) \/ NotionFind(r)
      PROVE  Goes(r) \/ Takes(r)
  BY <1>6 DEF EditMeta, EditFile, NotionFind, AfterEdit, At, Goto, Return, Goes, Takes
<1>7. ASSUME NEW r \in Requests, NotionFetched(r) \/ SkillInsert(r) \/ SkillUpdate(r)
      PROVE  Goes(r) \/ Takes(r)
  BY <1>7 DEF NotionFetched, SkillInsert, SkillUpdate, AfterEdit, At, Goto, Return, Goes,
     Takes
<1>8. ASSUME NEW r \in Requests, AdminReindexWiki(r) \/ AdminUpdateWikiDoc(r) \/ AdminSyncNotionOne(r)
      PROVE  Goes(r) \/ Takes(r)
  BY <1>8 DEF AdminReindexWiki, AdminUpdateWikiDoc, AdminSyncNotionOne, FetchAll, At, Goto,
     Return, Goes, Takes
<1>9. ASSUME NEW r \in Requests, AdminSyncNotionAll(r) \/ AdminCreateSkill(r)
      PROVE  Goes(r) \/ Takes(r)
  BY <1>9 DEF AdminSyncNotionAll, AdminCreateSkill, FetchAll, At, Goto, Return, Goes,
     Takes
<1>. QED
  BY <1>1, <1>2, <1>3, <1>4, <1>5, <1>6, <1>7, <1>8, <1>9 DEF OneMoves, KnowledgeNext,
     KnowledgeStep, ReindexRequest, WikiRequest, NotionRequest, SkillRequest

LEMMA FilesOne ==
  ASSUME FilesNext
  PROVE  OneMoves
<1>1. ASSUME NEW r \in Requests, WriteFile(r) \/ CheckFile(r) \/ CleanFiles(r)
      PROVE  Goes(r) \/ Takes(r)
  BY <1>1 DEF WriteFile, CheckFile, CleanFiles, At, Goto, Return, Goes, Takes
<1>2. ASSUME NEW r \in Requests, DeleteFileRow(r) \/ RemoveFile(r) \/ Upload(r)
      PROVE  Goes(r) \/ Takes(r)
  BY <1>2 DEF DeleteFileRow, RemoveFile, Upload, At, Goto, Return, Goes, Takes
<1>3. ASSUME NEW r \in Requests, UploadFile(r) \/ DeleteFile(r) \/ CreateUpload(r)
      PROVE  Goes(r) \/ Takes(r)
  BY <1>3 DEF UploadFile, DeleteFile, CreateUpload, FileRow, At, Goto, Return, Goes, Takes
<1>4. ASSUME NEW r \in Requests, AddFile(r)
      PROVE  Goes(r) \/ Takes(r)
  BY <1>4 DEF AddFile, FileRow, At, Goto, Return, Goes, Takes
<1>. QED
  BY <1>1, <1>2, <1>3, <1>4 DEF OneMoves, FilesNext, FilesStep, UploadRequest, PlanRequest,
     DeleteRequest

LEMMA MessagesOne ==
  ASSUME MessagesNext
  PROVE  OneMoves
<1>1. ASSUME NEW n \in NoticeIds, PushLookup(n) PROVE Rests
  BY <1>1 DEF PushLookup, AnswerAtOnce, Arrives, Rests, server, handlers, control
<1>2. ASSUME NEW n \in NoticeIds, SendEmailNotification(n) PROVE Rests
  BY <1>2 DEF SendEmailNotification, AnswerAtOnce, Arrives, Rests, server, handlers,
     control
<1>3. ASSUME NEW n \in NoticeIds, NEW e \in Endpoints, Deliver(n, e) PROVE Rests
  BY <1>3 DEF Deliver, AnswerAtOnce, Arrives, Rests, server, handlers, control
<1>4. ASSUME NEW n \in NoticeIds, NEW e \in Endpoints, DeleteSubscriptionByEndpoint(n, e) PROVE Rests
  BY <1>4 DEF DeleteSubscriptionByEndpoint, AnswerAtOnce, Arrives, Rests, server, handlers,
     control
<1>5. ASSUME EndpointExpires PROVE Rests
  BY <1>5 DEF EndpointExpires, AnswerAtOnce, Arrives, Rests, server, handlers, control
<1>6. ASSUME MarkAsRead PROVE Rests
  BY <1>6 DEF MarkAsRead, AnswerAtOnce, Arrives, Rests, server, handlers, control
<1>7. ASSUME MarkRead PROVE Rests
  BY <1>7 DEF MarkRead, AnswerAtOnce, Arrives, Rests, server, handlers, control
<1>8. ASSUME MarkAllRead PROVE Rests
  BY <1>8 DEF MarkAllRead, AnswerAtOnce, Arrives, Rests, server, handlers, control
<1>9. ASSUME SubscribePush PROVE Rests
  BY <1>9 DEF SubscribePush, AnswerAtOnce, Arrives, Rests, server, handlers, control
<1>10. ASSUME UnsubscribePush PROVE Rests
  BY <1>10 DEF UnsubscribePush, AnswerAtOnce, Arrives, Rests, server, handlers, control
<1>11. ASSUME UpdateEmailPreference PROVE Rests
  BY <1>11 DEF UpdateEmailPreference, AnswerAtOnce, Arrives, Rests, server, handlers,
     control
<1>12. ASSUME NEW r \in Requests, NoticeInsert(r) \/ NoticeStart(r) \/ DmInsert(r)
      PROVE  Goes(r) \/ Takes(r)
  BY <1>12 DEF NoticeInsert, NoticeStart, DmInsert, Inserted, AfterHub, Pushes,
     SubscribePush, Mails, UpdateEmailPreference, At, Goto, Return, Goes, Takes
<1>13. ASSUME NEW r \in Requests, TellPost(r) \/ TellNext(r) \/ CreateNotification(r)
      PROVE  Goes(r) \/ Takes(r)
  BY <1>13 DEF TellPost, TellNext, CreateNotification, Inserted, AfterHub, Pushes,
     SubscribePush, Mails, UpdateEmailPreference, At, Goto, Return, Goes, Takes
<1>14. ASSUME NEW r \in Requests, SendMessage(r) \/ SendAnnouncement(r)
      PROVE  Goes(r) \/ Takes(r)
  BY <1>14 DEF SendMessage, SendAnnouncement, Pushes, SubscribePush, Mails,
     UpdateEmailPreference, At, Goto, Return, Goes, Takes
<1>. QED
  BY <1>1, <1>2, <1>3, <1>4, <1>5, <1>6, <1>7, <1>8, <1>9, <1>10, <1>11, <1>12, <1>13,
     <1>14 DEF OneMoves, MessagesNext, Background, ReadRequest, NotificationRequest,
     PreferenceRequest, MessagesStep, DmRequest, AnnounceRequest

LEMMA SuggestionsOne ==
  ASSUME SuggestionsNext
  PROVE  OneMoves
<1>1. ASSUME AdminUpdateProposal PROVE Rests
  BY <1>1 DEF AdminUpdateProposal, AnswerAtOnce, Arrives, Rests, server, handlers, control
<1>2. ASSUME NEW r \in Requests, SaveProposal(r)
      PROVE  Rests \/ Goes(r) \/ Takes(r)
  BY <1>2 DEF SaveProposal, At, Goto, Return, Goes, Takes, AnswerAtOnce, Arrives, Rests
<1>. QED
  BY <1>1, <1>2 DEF OneMoves, SuggestionsNext

LEMMA HubOne ==
  ASSUME HubNext
  PROVE  OneMoves
<1>1. ASSUME NEW c \in Clients, RunReceives(c) PROVE Rests
  BY <1>1 DEF RunReceives, AnswerAtOnce, Arrives, Rests, server, handlers, control
<1>2. ASSUME RunRegisters PROVE Rests
  BY <1>2 DEF RunRegisters, AnswerAtOnce, Arrives, Rests, server, handlers, control
<1>3. ASSUME RunUnregisters PROVE Rests
  BY <1>3 DEF RunUnregisters, AnswerAtOnce, Arrives, Rests, server, handlers, control
<1>4. ASSUME Broadcast PROVE Rests
  BY <1>4 DEF Broadcast, AnswerAtOnce, Arrives, Rests, server, handlers, control
<1>5. ASSUME NEW c \in Clients, ServeWS(c) PROVE Rests
  BY <1>5 DEF ServeWS, AnswerAtOnce, Arrives, Rests, server, handlers, control
<1>6. ASSUME NEW c \in Clients, Hangup(c) PROVE Rests
  BY <1>6 DEF Hangup, AnswerAtOnce, Arrives, Rests, server, handlers, control
<1>7. ASSUME NEW c \in Clients, WritePump(c) PROVE Rests
  BY <1>7 DEF WritePump, AnswerAtOnce, Arrives, Rests, server, handlers, control
<1>8. ASSUME NEW c \in Clients, WritePumpEnds(c) PROVE Rests
  BY <1>8 DEF WritePumpEnds, AnswerAtOnce, Arrives, Rests, server, handlers, control
<1>9. ASSUME NEW r \in Requests, SendLookup(r) \/ SendNext(r) \/ SendPut(r)
      PROVE  Goes(r) \/ Takes(r)
  BY <1>9 DEF SendLookup, SendNext, SendPut, At, Goto, Return, Goes, Takes
<1>10. ASSUME NEW r \in Requests, SendDrop(r)
      PROVE  Goes(r) \/ Takes(r)
  BY <1>10 DEF SendDrop, At, Goto, Return, Goes, Takes
<1>. QED
  BY <1>1, <1>2, <1>3, <1>4, <1>5, <1>6, <1>7, <1>8, <1>9, <1>10 DEF OneMoves, HubNext,
     RunStep, HubStep

-----------------------------------------------------------------------------
\* Every step of Next is one handler's, or nobody's; but for starts.
Starts ==
  /\ UNCHANGED <<workload, served, overlapped>>
  /\ \/ UNCHANGED <<handlers, restarts>>
     \/ UNCHANGED handlers /\ restarts' = restarts + 1
     \/ restarts' = restarts + 1 /\ pc' = [r \in Requests |-> "idle"]

LEMMA NextOne ==
  ASSUME [Next]_vars
  PROVE  OneMoves \/ Starts
<1>1. CASE ClassroomNext
  BY <1>1, ClassroomOne
<1>2. CASE EarningNext
  BY <1>2, BankOne, GrantsOne, PostsOne, BillingOne DEF EarningNext
<1>3. CASE ToolsNext
  BY <1>3, ChatOne, DatabasesOne, MailOne, MilestonesOne, ServicesOne DEF ToolsNext
<1>4. CASE TalkNext
  BY <1>4, FilesOne, MessagesOne, SuggestionsOne DEF TalkNext
<1>5. CASE AdmissionNext
  BY <1>5, OAuthOne, AccountsOne, KnowledgeOne DEF AdmissionNext
<1>6. CASE HubNext
  BY <1>6, HubOne
<1>7. CASE StartupNext
  <2>1. CASE StopsAtStart
    BY <2>1 DEF StopsAtStart, Starts
  <2>2. CASE ~StopsAtStart
    BY <1>7, <2>2 DEF StartupNext, CreateFirst, AlterTables, RebuildWallets, FillHomes,
      CreateMiddle, CreateChat, CreateLatest, FillLoans, FillGrants, Reach, Backfill, server,
      handlers, control, Starts
  <2>. QED  BY <2>1, <2>2
<1>8. CASE Restart
  BY <1>8 DEF Restart, ServerRestart, Starts
<1>9. CASE UNCHANGED vars
  BY <1>9 DEF vars, server, handlers, control, Starts
<1>. QED
  BY <1>1, <1>2, <1>3, <1>4, <1>5, <1>6, <1>7, <1>8, <1>9 DEF Next, Quiet

\* As long as no two requests have been in flight together, one handler is busy.
Alone ==
  /\ restarts \in Nat /\ served \in Nat
  /\ ~overlapped => \A r, q \in Requests : ~Idle(r) /\ ~Idle(q) => r = q

LEMMA AloneInit == Init => Alone
BY DEF Init, ServerInit, Alone, Idle

\* What a step of one handler finds: before it every other one is idle.
LEMMA AloneStep ==
  ASSUME Handlers, Alone, [Next]_vars
  PROVE  Alone' /\ workload' = workload /\ (overlapped => overlapped')
<1>1. CASE Rests
  BY <1>1 DEF Rests, Alone, Idle, handlers
<1>2. ASSUME NEW r \in Requests, Goes(r) PROVE Alone' /\ workload' = workload /\ (overlapped => overlapped')
  <2> PICK p, t : GotoWith(r, p, t)
    BY <1>2 DEF Goes
  <2>1. UNCHANGED control /\ \A q \in Requests : pc'[q] = (IF q = r THEN p ELSE pc[q])
    BY DEF GotoWith, Handlers
  <2>. QED  BY <1>2, <2>1 DEF Goes, Alone, Idle, control
<1>3. ASSUME NEW r \in Requests, Takes(r) PROVE Alone' /\ workload' = workload /\ (overlapped => overlapped')
  <2> PICK kind, p, t : Receive(r, kind, p, t)
    BY <1>3 DEF Takes
  <2>1. /\ overlapped' = (overlapped \/ ~AllIdle) /\ restarts' = restarts
        /\ served' = served + 1 /\ workload' = workload
        /\ \A q \in Requests : pc'[q] = (IF q = r THEN p ELSE pc[q])
    BY DEF Receive, Arrives, Handlers
  <2>2. ~overlapped' => ~overlapped /\ AllIdle
    BY <2>1
  <2>. QED  BY <2>1, <2>2 DEF Alone, Idle, AllIdle
<1>4. CASE Starts
  BY <1>4 DEF Starts, Alone, Idle, handlers
<1>. QED  BY <1>1, <1>2, <1>3, <1>4, NextOne DEF OneMoves

-----------------------------------------------------------------------------
(* What the steps of other parts leave alone *)

\* Whoever is at one of these labels stays there, and nobody comes.
Away(L) ==
  \A q \in Requests :
    pc[q] \in L \/ pc'[q] \in L => pc'[q] = pc[q] /\ task'[q] = task[q]

\* Labels of the parts that hand over to each other.
Shared ==
  ClassroomLabels \cup EnsureThens \cup BankLabels \cup GrantsLabels \cup PostsLabels
    \cup FilesLabels \cup MessagesTo \cup HubTo \cup {"ensure:select", "dm:insert", "notice:insert"}

LEMMA MovedAway ==
  ASSUME NEW L, NEW from, NEW to, "idle" \notin L, from \cap L = {}, to \cap L = {},
         \A q \in Requests : HandlerMoved(q, from, to)
  PROVE  Away(L)
BY DEF Away, HandlerMoved

LEMMA AwayFrom ==
  ASSUME Handlers, [Next]_vars, NEW L, "idle" \notin L, L \cap Shared = {}
  PROVE  \/ Away(L) \/ Restart
         \/ BillingNext /\ BillingLabels \cap L # {}
         \/ ChatNext /\ ChatLabels \cap L # {}
         \/ DatabasesNext /\ DatabasesLabels \cap L # {}
         \/ MailNext /\ MailLabels \cap L # {}
         \/ MilestonesNext /\ MilestonesLabels \cap L # {}
         \/ ServicesNext /\ ServicesLabels \cap L # {}
         \/ OAuthNext /\ OAuthLabels \cap L # {}
         \/ AccountsNext /\ AccountsLabels \cap L # {}
         \/ KnowledgeNext /\ KnowledgeLabels \cap L # {}
<1>1. CASE ClassroomNext
  <2>1. ClassroomLabels \cap L = {} /\ (ClassroomLabels \cup EnsureThens) \cap L = {}
    BY DEF Shared
  <2>. QED  BY <1>1, <2>1, ClassroomMoves, MovedAway
<1>2. CASE BankNext
  <2>1. BankLabels \cap L = {} /\ (BankLabels \cup {"ensure:select"}) \cap L = {}
    BY DEF Shared
  <2>. QED  BY <1>2, <2>1, BankMoves, MovedAway
<1>3. CASE GrantsNext
  <2>1. GrantsLabels \cap L = {} /\ (GrantsLabels \cup {"ensure:select"}) \cap L = {}
    BY DEF Shared
  <2>. QED  BY <1>3, <2>1, GrantsMoves, MovedAway
<1>4. CASE PostsNext
  <2>1. PostsLabels \cap L = {} /\ (PostsLabels \cup {"ensure:select"}) \cap L = {}
    BY DEF Shared
  <2>. QED  BY <1>4, <2>1, PostsMoves, MovedAway
<1>5. CASE FilesNext
  <2>1. FilesLabels \cap L = {} /\ (FilesLabels \cup {"dm:insert"}) \cap L = {}
    BY DEF Shared
  <2>. QED  BY <1>5, <2>1, FilesMoves, MovedAway
<1>6. CASE MessagesNext
  <2>1. MessagesLabels \cap L = {} /\ MessagesTo \cap L = {}
    BY DEF Shared, MessagesTo
  <2>. QED  BY <1>6, <2>1, MessagesMoves, MovedAway
<1>7. CASE SuggestionsNext
  <2>1. {} \cap L = {} /\ {"notice:insert"} \cap L = {}
    BY DEF Shared
  <2>. QED  BY <1>7, <2>1, SuggestionsMoves, MovedAway
<1>8. CASE HubNext
  <2>1. HubLabels \cap L = {} /\ HubTo \cap L = {}
    BY DEF Shared, HubTo
  <2>. QED  BY <1>8, <2>1, HubMoves, MovedAway
<1>9. CASE BillingNext \/ ToolsNext
  <2>1. CASE BillingNext
    BY <2>1, BillingMoves, MovedAway
  <2>2. CASE ChatNext
    BY <2>2, ChatMoves, MovedAway
  <2>3. CASE DatabasesNext
    BY <2>3, DatabasesMoves, MovedAway
  <2>4. CASE MailNext
    BY <2>4, MailMoves, MovedAway
  <2>5. CASE MilestonesNext
    BY <2>5, MilestonesMoves, MovedAway
  <2>6. CASE ServicesNext
    BY <2>6, ServicesMoves, MovedAway
  <2>. QED  BY <1>9, <2>1, <2>2, <2>3, <2>4, <2>5, <2>6 DEF ToolsNext
<1>10. CASE AdmissionNext
  <2>1. CASE OAuthNext
    BY <2>1, OAuthMoves, MovedAway
  <2>2. CASE AccountsNext
    BY <2>2, AccountsMoves, MovedAway
  <2>3. CASE KnowledgeNext
    BY <2>3, KnowledgeMoves, MovedAway
  <2>. QED  BY <1>10, <2>1, <2>2, <2>3 DEF AdmissionNext
<1>11. CASE StartupNext
  BY <1>11, StartupKeeps DEF Away, handlers
<1>12. CASE UNCHANGED vars
  BY <1>12 DEF Away, vars, server, handlers
<1>. QED
  BY <1>1, <1>2, <1>3, <1>4, <1>5, <1>6, <1>7, <1>8, <1>9, <1>10, <1>11, <1>12
  DEF Next, Quiet, EarningNext, TalkNext

LEMMA FreeIdIsFree ==
  ASSUME NEW table, NEW i \in FreeId(table)
  PROVE  i \in DOMAIN table /\ table[i] = None
<1> DEFINE free == {j \in DOMAIN table : table[j] = None}
<1>1. free # {} /\ i = CHOOSE j \in free : TRUE
  BY DEF FreeId
<1>2. i \in free
  BY <1>1
<1>. QED  BY <1>2


\* Where handlers are after a step of one.
LEMMA OneGoes ==
  ASSUME Handlers, NEW r \in Requests, NEW p, NEW t,
         GotoWith(r, p, t) \/ \E kind : Receive(r, kind, p, t)
  PROVE  /\ \A q \in Requests : /\ pc'[q] = (IF q = r THEN p ELSE pc[q])
                                /\ task'[q] = (IF q = r THEN t ELSE task[q])
         /\ restarts' = restarts
BY DEF GotoWith, Receive, Handlers, control, Arrives


\* A history of no restart is not made by one.
LEMMA Unrestarted ==
  ASSUME Alone, [Next]_vars, restarts' = 0
  PROVE  restarts = 0
<1>1. CASE OneMoves
  BY <1>1 DEF OneMoves, Rests, Goes, Takes, GotoWith, Receive, Arrives, control
<1>2. CASE Starts
  BY <1>2 DEF Starts, Alone
<1>. QED  BY <1>1, <1>2, NextOne


\* A handler that is not idle is the only one, and the others stay idle.
LEMMA OthersIdle ==
  ASSUME Handlers, Alone, ~overlapped, NEW r \in Requests, NEW p, NEW t, pc[r] # "idle",
         GotoWith(r, p, t)
  PROVE  /\ ~overlapped'
         /\ pc'[r] = p /\ task'[r] = t
         /\ \A q \in Requests : q # r => pc'[q] = "idle"
<1>1. /\ overlapped' = overlapped
      /\ \A q \in Requests : /\ pc'[q] = (IF q = r THEN p ELSE pc[q])
                             /\ task'[q] = (IF q = r THEN t ELSE task[q])
  BY DEF GotoWith, control, Handlers
<1>. QED  BY <1>1 DEF Alone, Idle

\* The sequence of a finite set has its elements, once each.
LEMMA SetToSeqIs ==
  ASSUME NEW S, IsFiniteSet(S)
  PROVE  /\ Cardinality(S) \in Nat
         /\ SetToSeq(S) \in [1 .. Cardinality(S) -> S]
         /\ SetToSeq(S) \in Seq(S) /\ Len(SetToSeq(S)) = Cardinality(S)
         /\ \A m, n \in 1 .. Cardinality(S) : SetToSeq(S)[m] = SetToSeq(S)[n] => m = n
         /\ \A x \in S : \E n \in 1 .. Cardinality(S) : SetToSeq(S)[n] = x
<1> DEFINE N == Cardinality(S)
<1>1. N \in Nat /\ ExistsBijection(1 .. N, S)
  BY FS_CardinalityType
<1>2. \E f \in [1 .. N -> S] : IsInjective(f)
  BY <1>1, Zenon DEF ExistsBijection, Bijection, Injection
<1>3. SetToSeq(S) \in [1 .. N -> S] /\ IsInjective(SetToSeq(S))
  BY <1>2, Zenon DEF SetToSeq
<1>4. \A m, n \in 1 .. N : SetToSeq(S)[m] = SetToSeq(S)[n] => m = n
  BY <1>3 DEF IsInjective
<1>5. SetToSeq(S) \in Seq(S) /\ Len(SetToSeq(S)) = N
  BY <1>1, <1>3
<1>6. \A x \in S : \E n \in 1 .. N : SetToSeq(S)[n] = x
  <2> DEFINE q == SetToSeq(S)  T == {q[n] : n \in 1 .. N}
  <2>1. T \subseteq S
    BY <1>3
  <2>2. q \in Bijection(1 .. N, T)
    <3>1. q \in [1 .. N -> T] /\ \A m, n \in 1 .. N : q[m] = q[n] => m = n
      BY <1>3, <1>4
    <3>2. \A x \in T : \E n \in 1 .. N : q[n] = x
      OBVIOUS
    <3> HIDE DEF q, T
    <3>. QED  BY <3>1, <3>2 DEF Bijection, Injection, Surjection, IsInjective
  <2>3. Cardinality(T) = N
    <3> HIDE DEF q, T
    <3>1. ExistsBijection(1 .. N, T)
      BY <2>2 DEF ExistsBijection
    <3>. QED  BY <1>1, <3>1, FS_CountingElements, FS_Interval, FS_CardinalityType
  <2>4. T = S
    <3> HIDE DEF T
    <3>. QED  BY <2>1, <2>3, FS_Subset
  <2>. QED  BY <2>4
<1>. QED  BY <1>1, <1>3, <1>4, <1>5, <1>6

=============================================================================
