----------------------------- MODULE Freelance -----------------------------
(***************************************************************************)
(* The freelance market: application/freelance_usecase.go over              *)
(* freelance_repo.go and wallet_repo.go.  A client's job attracts           *)
(* applications; accepting one takes its price out of the client's wallet   *)
(* into the job's escrow column, approving the finished work pays it to the *)
(* freelancer, cancelling returns it.                                       *)
(*                                                                         *)
(* No handler of this use case opens a transaction: each reads the job row, *)
(* judges it, and then writes one statement after the other from what it    *)
(* read (task[r].seen).  Requests interleave between the statements, and a  *)
(* restart may cut a handler off after any of them.  Titles, reports,       *)
(* budgets (no handler reads them) and notifications are abstracted away.   *)
(***************************************************************************)
EXTENDS Integers, FiniteSets, Sums

CONSTANTS
  Users,
  Jobs,          \* job ids
  Classrooms,
  Requests,      \* the handler goroutines that may be in flight at once
  Prices,        \* prices applicants send; the code accepts any integer
  InitialFunds,  \* wallet balances at the start
  HomeRoom,      \* users.active_classroom_id at the start
  Spendings,     \* amounts other handlers debit
  MaxEvents,     \* bound on steps of the rest of the program
  MaxRestarts,   \* bound on restarts
  None

ASSUME FreelanceAssumption ==
  /\ IsFiniteSet(Users) /\ IsFiniteSet(Jobs)
  /\ Prices \subseteq Int /\ Spendings \subseteq Nat
  /\ InitialFunds \in [Users \X Classrooms -> Nat]
  /\ HomeRoom \in [Users -> Classrooms]
  /\ MaxEvents \in Nat /\ MaxRestarts \in Nat
  /\ None \notin Users

VARIABLES
  job,       \* freelance_jobs rows, None while there is none
  app,       \* job_applications rows by <<job, applicant>>, which are UNIQUE
  review,    \* freelance_reviews rows, as UNIQUE <<job, reviewer>>
  wallet,    \* balances by <<user, classroom>>; no row is a balance of 0
  active,    \* users.active_classroom_id
  pc,        \* where each handler is
  task,      \* what it was asked, and the job row as it read it
  todo,      \* applicants whose application it still has to reject
  funded,    \* history: applications whose price was debited
  paid,      \* history: <<job, payee>> of every freelance payment
  payouts,   \* history: how often a job's escrow was paid out or refunded
  spent,     \* history: what other handlers debited from each wallet
  events,
  restarts

rows    == <<job, app, review, wallet>>
locals  == <<pc, task, todo>>
history == <<funded, paid, payouts, spent>>
vars    == <<rows, active, locals, history, events, restarts>>

JobStatus == {"open", "in_progress", "completed", "disputed", "cancelled"}
AppStatus == {"pending", "accepted", "rejected"}

Job == [client: Users, room: Classrooms, status: JobStatus,
        freelancer: Users \cup {None}, escrow: Int, agreed: Int,
        workCompleted: BOOLEAN]

Application == [price: Int, status: AppStatus]

ASSUME NoneAssumption == None \notin Job /\ None \notin Application

\* A handler's locals: the job, the user who asks, the applicant and price of
\* the application concerned, the job row it read.
Task == [job: Jobs, by: Users, applicant: Users, price: Int, seen: Job]

Steps == {"idle", "apply", "debit", "accept", "assign", "hold", "others",
          "rejectOthers", "report", "pay", "clear", "complete", "withdraw",
          "rejectAll", "refund", "release", "close", "dispute", "review"}

-----------------------------------------------------------------------------
(* Wallet statements: Debit and Credit refuse amounts that are not positive. *)

\* Mutants: a definition named X_Y is X with the defect Y; the model never uses
\* it, the runs of PROJECT.json's "mutants" put it in X's place.

CanDebit_Overdraw(w, amount) == amount > 0

CanDebit(w, amount) == amount > 0 /\ wallet[w] >= amount

Debit(w, amount)  == wallet' = [wallet EXCEPT ![w] = @ - amount]
Credit(w, amount) == wallet' = [wallet EXCEPT ![w] = @ + amount]

-----------------------------------------------------------------------------
(* Handlers: what they share *)

Goto(r, to) == pc' = [pc EXCEPT ![r] = to]

Return(r) ==
  /\ Goto(r, "idle")
  /\ task' = [task EXCEPT ![r] = None]
  /\ todo' = [todo EXCEPT ![r] = {}]

\* The handler has read job j and passed its checks.
Begin(r, u, j, to) ==
  /\ pc[r] = "idle"
  /\ job[j] # None
  /\ task' = [task EXCEPT ![r] =
       [job |-> j, by |-> u, applicant |-> u, price |-> 0, seen |-> job[j]]]
  /\ Goto(r, to)
  /\ UNCHANGED <<rows, active, todo, history, events, restarts>>

\* One UPDATE of the job row, and on to the next statement.
UpdateJob(r, from, row, to) ==
  /\ pc[r] = from
  /\ job' = [job EXCEPT ![task[r].job] = row]
  /\ Goto(r, to)
  /\ UNCHANGED <<app, review, wallet, active, task, todo, history, events,
                 restarts>>

\* The last UPDATE of the job row.
FinishJob(r, from, row) ==
  /\ pc[r] = from
  /\ job' = [job EXCEPT ![task[r].job] = row]
  /\ Return(r)
  /\ UNCHANGED <<app, review, wallet, active, history, events, restarts>>

\* The job row as it stands, whatever the handler remembers.
Row(r) == job[task[r].job]

ApplicationOf(r) == <<task[r].job, task[r].applicant>>

\* The wallets of the job's parties in the job's own classroom (#159).
ClientWallet(r) == <<task[r].seen.client, task[r].seen.room>>

FreelancerWallet_Active(r) ==
  <<task[r].seen.freelancer, active[task[r].seen.freelancer]>>

FreelancerWallet(r) == <<task[r].seen.freelancer, task[r].seen.room>>

ApplicantsIn_Outer(j, statuses) ==
  {u \in Users : app[<<j, u>>] = None \/ app[<<j, u>>].status \in statuses}

ApplicantsIn(j, statuses) ==
  {u \in Users : app[<<j, u>>] # None /\ app[<<j, u>>].status \in statuses}

Reject(r, u) ==
  app' = [app EXCEPT ![<<task[r].job, u>>].status = "rejected"]

-----------------------------------------------------------------------------
(* CreateJob and ApplyToJob *)

\* Reads the user's classroom, then inserts; nobody else can see the job between.
CreateJob(u, j) ==
  /\ job[j] = None
  /\ job' = [job EXCEPT ![j] =
       [client |-> u, room |-> active[u], status |-> "open",
        freelancer |-> None, escrow |-> 0, agreed |-> 0,
        workCompleted |-> FALSE]]
  /\ UNCHANGED <<app, review, wallet, active, locals, history, events, restarts>>

\* The job, the user's classroom and his earlier application are read; no
\* application is ever deleted, so the reads commute and are one action.
BeginApply(r, u, j, p) ==
  /\ pc[r] = "idle"
  /\ job[j] # None
  /\ job[j].status = "open" /\ job[j].client # u
  /\ job[j].room = active[u]
  /\ app[<<j, u>>] = None
  /\ task' = [task EXCEPT ![r] =
       [job |-> j, by |-> u, applicant |-> u, price |-> p, seen |-> job[j]]]
  /\ Goto(r, "apply")
  /\ UNCHANGED <<rows, active, todo, history, events, restarts>>

\* UNIQUE(job_id, user_id) refuses a second application.
CreateApplication(r) ==
  /\ pc[r] = "apply"
  /\ app' = [app EXCEPT ![ApplicationOf(r)] =
       IF @ = None THEN [price |-> task[r].price, status |-> "pending"] ELSE @]
  /\ Return(r)
  /\ UNCHANGED <<job, review, wallet, active, history, events, restarts>>

-----------------------------------------------------------------------------
(* AcceptApplication *)

\* Reads the job, then the application; nothing ever writes what is used of the
\* application (its price), so the two reads are one action.
BeginAccept(r, u, j, v) ==
  /\ pc[r] = "idle"
  /\ job[j] # None /\ app[<<j, v>>] # None
  /\ job[j].client = u
  /\ job[j].status = "open"
  /\ task' = [task EXCEPT ![r] =
       [job |-> j, by |-> u, applicant |-> v, price |-> app[<<j, v>>].price,
        seen |-> job[j]]]
  /\ Goto(r, "debit")
  /\ UNCHANGED <<rows, active, todo, history, events, restarts>>

DebitEscrow(r) ==
  /\ pc[r] = "debit"
  /\ CanDebit(ClientWallet(r), task[r].price)
  /\ Debit(ClientWallet(r), task[r].price)
  /\ funded' = funded \cup {ApplicationOf(r)}
  /\ Goto(r, "accept")
  /\ UNCHANGED <<job, app, review, active, task, todo, paid, payouts, spent,
                 events, restarts>>

RefuseEscrow_Ignored(r) ==
  /\ pc[r] = "debit"
  /\ ~CanDebit(ClientWallet(r), task[r].price)
  /\ Goto(r, "accept")
  /\ UNCHANGED <<rows, active, task, todo, history, events, restarts>>

RefuseEscrow(r) ==
  /\ pc[r] = "debit"
  /\ ~CanDebit(ClientWallet(r), task[r].price)
  /\ Return(r)
  /\ UNCHANGED <<rows, active, history, events, restarts>>

AcceptApplication(r) ==
  /\ pc[r] = "accept"
  /\ app' = [app EXCEPT ![ApplicationOf(r)].status = "accepted"]
  /\ Goto(r, "assign")
  /\ UNCHANGED <<job, review, wallet, active, task, todo, history, events,
                 restarts>>

SetFreelancer_StatusOnly(r) ==
  UpdateJob(r, "assign",
    [Row(r) EXCEPT !.agreed = task[r].price, !.status = "in_progress"], "hold")

SetFreelancer(r) ==
  UpdateJob(r, "assign",
    [Row(r) EXCEPT !.freelancer = task[r].applicant, !.agreed = task[r].price,
                   !.status = "in_progress"], "hold")

HoldEscrow(r) ==
  UpdateJob(r, "hold", [Row(r) EXCEPT !.escrow = task[r].price], "others")

ListOthers_None(r) ==
  /\ pc[r] = "others"
  /\ Return(r)
  /\ UNCHANGED <<rows, active, history, events, restarts>>

\* The other applications still pending are read, then rejected one by one.
ListOthers(r) ==
  LET others == ApplicantsIn(task[r].job, {"pending"}) \ {task[r].applicant} IN
  /\ pc[r] = "others"
  /\ IF others = {}
       THEN Return(r)
       ELSE /\ todo' = [todo EXCEPT ![r] = others]
            /\ Goto(r, "rejectOthers")
            /\ UNCHANGED task
  /\ UNCHANGED <<rows, active, history, events, restarts>>

RejectOther(r) ==
  /\ pc[r] = "rejectOthers"
  /\ \E u \in todo[r] :
       /\ Reject(r, u)
       /\ IF todo[r] = {u}
            THEN Return(r)
            ELSE /\ todo' = [todo EXCEPT ![r] = @ \ {u}]
                 /\ UNCHANGED <<pc, task>>
  /\ UNCHANGED <<job, review, wallet, active, history, events, restarts>>

-----------------------------------------------------------------------------
(* CompleteWork, ApproveJob, DisputeJob, ReviewJob *)

BeginComplete(r, u, j) ==
  /\ Begin(r, u, j, "report")
  /\ job[j].status = "in_progress" /\ job[j].freelancer = u

SetWorkCompleted(r) ==
  FinishJob(r, "report", [Row(r) EXCEPT !.workCompleted = TRUE])

BeginApprove_Unfinished(r, u, j) ==
  /\ Begin(r, u, j, "pay")
  /\ job[j].client = u
  /\ job[j].status = "in_progress"

BeginApprove(r, u, j) ==
  /\ Begin(r, u, j, "pay")
  /\ job[j].client = u
  /\ job[j].status = "in_progress"
  /\ job[j].workCompleted

\* The escrow is credited as it was when the job was read.
PayFreelancer(r) ==
  /\ pc[r] = "pay"
  /\ task[r].seen.escrow > 0
  /\ Credit(FreelancerWallet(r), task[r].seen.escrow)
  /\ paid' = paid \cup {<<task[r].job, task[r].seen.freelancer>>}
  /\ payouts' = [payouts EXCEPT ![task[r].job] = @ + 1]
  /\ Goto(r, "clear")
  /\ UNCHANGED <<job, app, review, active, task, todo, funded, spent, events,
                 restarts>>

RefusePay_Ignored(r) ==
  /\ pc[r] = "pay"
  /\ task[r].seen.escrow <= 0
  /\ Goto(r, "complete")
  /\ UNCHANGED <<rows, active, task, todo, history, events, restarts>>

\* Credit refuses an empty escrow.
RefusePay(r) ==
  /\ pc[r] = "pay"
  /\ task[r].seen.escrow <= 0
  /\ Return(r)
  /\ UNCHANGED <<rows, active, history, events, restarts>>

ClearEscrow(r) ==
  UpdateJob(r, "clear", [Row(r) EXCEPT !.escrow = 0], "complete")

SetCompleted(r) ==
  FinishJob(r, "complete", [Row(r) EXCEPT !.status = "completed"])

BeginDispute(r, u, j) ==
  /\ Begin(r, u, j, "dispute")
  /\ job[j].status = "in_progress"
  /\ u \in {job[j].client, job[j].freelancer}

SetDisputed(r) ==
  FinishJob(r, "dispute", [Row(r) EXCEPT !.status = "disputed"])

\* No review is ever deleted either.
BeginReview(r, u, j) ==
  /\ Begin(r, u, j, "review")
  /\ job[j].status = "completed"
  /\ u \in {job[j].client, job[j].freelancer}
  /\ <<j, u>> \notin review

\* UNIQUE(job_id, reviewer_id) refuses a second review.
CreateReview(r) ==
  /\ pc[r] = "review"
  /\ review' = review \cup {<<task[r].job, task[r].by>>}
  /\ Return(r)
  /\ UNCHANGED <<job, app, wallet, active, history, events, restarts>>

-----------------------------------------------------------------------------
(* CancelJob *)

BeginCancel(r, u, j) ==
  /\ Begin(r, u, j, "withdraw")
  /\ job[j].client = u
  /\ job[j].status \in {"open", "in_progress"}

\* Applications pending or accepted are read, to be rejected one by one.
ListAll(r) ==
  LET all == ApplicantsIn(task[r].job, {"pending", "accepted"}) IN
  /\ pc[r] = "withdraw"
  /\ todo' = [todo EXCEPT ![r] = all]
  /\ Goto(r, IF all = {} THEN "refund" ELSE "rejectAll")
  /\ UNCHANGED <<rows, active, task, history, events, restarts>>

RejectEvery(r) ==
  /\ pc[r] = "rejectAll"
  /\ \E u \in todo[r] :
       /\ Reject(r, u)
       /\ todo' = [todo EXCEPT ![r] = @ \ {u}]
       /\ Goto(r, IF todo[r] = {u} THEN "refund" ELSE "rejectAll")
  /\ UNCHANGED <<job, review, wallet, active, task, history, events, restarts>>

RefundClient(r) ==
  /\ pc[r] = "refund"
  /\ IF task[r].seen.escrow > 0
       THEN /\ Credit(ClientWallet(r), task[r].seen.escrow)
            /\ payouts' = [payouts EXCEPT ![task[r].job] = @ + 1]
            /\ Goto(r, "release")
       ELSE /\ Goto(r, "close")
            /\ UNCHANGED <<wallet, payouts>>
  /\ UNCHANGED <<job, app, review, active, task, todo, funded, paid, spent,
                 events, restarts>>

ReleaseEscrow(r) ==
  UpdateJob(r, "release", [Row(r) EXCEPT !.escrow = 0], "close")

SetCancelled(r) ==
  FinishJob(r, "close", [Row(r) EXCEPT !.status = "cancelled"])

-----------------------------------------------------------------------------
(* The rest of the program *)

Happens == events < MaxEvents /\ events' = events + 1

\* Any other handler's Debit.
OtherDebit(w, amount) ==
  /\ Happens
  /\ CanDebit(w, amount)
  /\ Debit(w, amount)
  /\ spent' = [spent EXCEPT ![w] = @ + amount]
  /\ UNCHANGED <<job, app, review, active, locals, funded, paid, payouts,
                 restarts>>

ActivateClassroom(u, k) ==
  /\ Happens
  /\ k # active[u]
  /\ active' = [active EXCEPT ![u] = k]
  /\ UNCHANGED <<rows, locals, history, restarts>>

\* The server is redeployed: handlers vanish between two statements.
Restart ==
  /\ restarts < MaxRestarts
  /\ \E r \in Requests : pc[r] # "idle"
  /\ restarts' = restarts + 1
  /\ pc' = [r \in Requests |-> "idle"]
  /\ task' = [r \in Requests |-> None]
  /\ todo' = [r \in Requests |-> {}]
  /\ UNCHANGED <<rows, active, history, events>>

-----------------------------------------------------------------------------
Init ==
  /\ job = [j \in Jobs |-> None]
  /\ app = [x \in Jobs \X Users |-> None]
  /\ review = {}
  /\ wallet = InitialFunds
  /\ active = HomeRoom
  /\ pc = [r \in Requests |-> "idle"]
  /\ task = [r \in Requests |-> None]
  /\ todo = [r \in Requests |-> {}]
  /\ funded = {}
  /\ paid = {}
  /\ payouts = [j \in Jobs |-> 0]
  /\ spent = [w \in Users \X Classrooms |-> 0]
  /\ events = 0
  /\ restarts = 0

Client(r) ==
  \E u \in Users, j \in Jobs :
    \/ \E p \in Prices : BeginApply(r, u, j, p)
    \/ \E v \in Users : BeginAccept(r, u, j, v)
    \/ BeginComplete(r, u, j)
    \/ BeginApprove(r, u, j)
    \/ BeginDispute(r, u, j)
    \/ BeginReview(r, u, j)
    \/ BeginCancel(r, u, j)

Handler(r) ==
  \/ CreateApplication(r)
  \/ DebitEscrow(r) \/ RefuseEscrow(r) \/ AcceptApplication(r)
  \/ SetFreelancer(r) \/ HoldEscrow(r) \/ ListOthers(r) \/ RejectOther(r)
  \/ SetWorkCompleted(r)
  \/ PayFreelancer(r) \/ RefusePay(r) \/ ClearEscrow(r) \/ SetCompleted(r)
  \/ SetDisputed(r) \/ CreateReview(r)
  \/ ListAll(r) \/ RejectEvery(r) \/ RefundClient(r) \/ ReleaseEscrow(r)
  \/ SetCancelled(r)

Environment ==
  \/ \E u \in Users, k \in Classrooms, amount \in Spendings :
       OtherDebit(<<u, k>>, amount)
  \/ \E u \in Users, k \in Classrooms : ActivateClassroom(u, k)
  \/ Restart

\* Nobody sends a request: the server waits.  (A handler that cannot move is a
\* deadlock, a server without requests is not.)
Quiet ==
  /\ \A r \in Requests : pc[r] = "idle"
  /\ UNCHANGED vars

Next ==
  \/ \E u \in Users, j \in Jobs : CreateJob(u, j)
  \/ \E r \in Requests : Client(r) \/ Handler(r)
  \/ Environment
  \/ Quiet

Spec == Init /\ [][Next]_vars

-----------------------------------------------------------------------------
(* Properties that hold however requests interleave and restarts cut them *)

\* What the program counter says about a handler's locals.
LocalsTyped(r) ==
  /\ pc[r] # "idle" => task[r] \in Task /\ Row(r) \in Job
  /\ pc[r] \in {"debit", "accept"} => app[ApplicationOf(r)] \in Application
  /\ \A u \in todo[r] :
       pc[r] # "idle" /\ app[<<task[r].job, u>>] \in Application

RowsTyped ==
  /\ job \in [Jobs -> Job \cup {None}]
  /\ app \in [Jobs \X Users -> Application \cup {None}]
  /\ review \subseteq Jobs \X Users
  /\ wallet \in [Users \X Classrooms -> Int]
  /\ active \in [Users -> Classrooms]

HandlersTyped ==
  /\ pc \in [Requests -> Steps]
  /\ task \in [Requests -> Task \cup {None}]
  /\ todo \in [Requests -> SUBSET Users]

HistoryTyped ==
  /\ funded \subseteq Jobs \X Users
  /\ paid \subseteq Jobs \X (Users \cup {None})
  /\ payouts \in [Jobs -> Nat]
  /\ spent \in [Users \X Classrooms -> Nat]
  /\ events \in 0 .. MaxEvents
  /\ restarts \in 0 .. MaxRestarts

\* Types of the rows, the handlers' locals and the histories: in particular no
\* statement of a handler ever finds the row it writes missing.
TypeOK ==
  /\ RowsTyped
  /\ HandlersTyped
  /\ HistoryTyped
  /\ \A r \in Requests : LocalsTyped(r)

\* No wallet is overdrawn by contracts accepted at the same time (usecase
\* comment: "the balance is verified by Debit").
NoOverdraft == \A w \in Users \X Classrooms : wallet[w] >= 0

\* Nobody is contracted for free: when an application counts as accepted, or
\* its applicant as the job's freelancer, its price has left the client's
\* wallet -- even if the handler was cut off or lost a race afterwards.
ContractsAreFunded ==
  \A j \in Jobs, u \in Users :
    \/ app[<<j, u>>] # None /\ app[<<j, u>>].status = "accepted"
    \/ job[j] # None /\ job[j].freelancer = u
    => <<j, u>> \in funded

\* A job past "open" has a freelancer: ApproveJob, DisputeJob and ReviewJob
\* dereference job.FreelancerID without looking.
FreelancerKnown ==
  \A j \in Jobs :
    job[j] # None /\ job[j].status \in {"in_progress", "completed", "disputed"}
    => job[j].freelancer # None

\* Money reaches only applicants whom the client contracted and paid for, and
\* only after work on the job was reported complete.
PaymentsAreEarned ==
  \A x \in paid : x \in funded /\ job[x[1]] # None /\ job[x[1]].workCompleted

\* A job never counts as completed before its freelancer's payment is made.
CompletedIsPaid ==
  \A j \in Jobs :
    job[j] # None /\ job[j].status = "completed" =>
      \E u \in Users : <<j, u>> \in paid

-----------------------------------------------------------------------------
(* Properties of one request at a time without restarts *)

Idle == \A r \in Requests : pc[r] = "idle"

InWallets(f, k) == SumOf([u \in Users |-> f[<<u, k>>]], Users)

JobsIn(k) == {j \in Jobs : job[j] # None /\ job[j].room = k}

InEscrow(k) == SumOf([j \in JobsIn(k) |-> job[j].escrow], JobsIn(k))

\* In every classroom, what left the wallets is what the jobs hold in escrow:
\* contracts neither create nor destroy money, nor move it between classrooms
\* (docs/specs/06-market.md: the agreed amount is taken and frozen).
EscrowConserved ==
  Idle => \A k \in Classrooms :
    InWallets(wallet, k) + InEscrow(k) + InWallets(spent, k)
      = InWallets(InitialFunds, k)

\* What the applications of job j say while its row is o.
Tells(j, o) ==
  /\ o.status = "open" =>
       ApplicantsIn(j, {"accepted"}) = {} /\ o.escrow = 0 /\ o.freelancer = None
  /\ o.status \in {"in_progress", "disputed"} =>
       /\ ApplicantsIn(j, {"accepted"}) = {o.freelancer}
       /\ ApplicantsIn(j, {"pending"}) = {}
       /\ o.escrow = app[<<j, o.freelancer>>].price
       /\ o.escrow > 0
  /\ o.status = "completed" =>
       ApplicantsIn(j, {"accepted"}) = {o.freelancer} /\ o.escrow = 0
  /\ o.status = "cancelled" =>
       ApplicantsIn(j, {"accepted", "pending"}) = {} /\ o.escrow = 0

\* A job's columns and its applications tell the same story: one accepted
\* application, the freelancer's, while the contract stands; none before it
\* and none after a cancellation; the escrow is its price until it is settled,
\* which happens at most once, to the freelancer or back to the client.
ContractConsistent ==
  /\ \A j \in Jobs : payouts[j] <= 1
  /\ Idle => \A j \in Jobs : job[j] # None => Tells(j, job[j])

=============================================================================
