-------------------------- MODULE FreelanceProofs --------------------------
(***************************************************************************)
(* Theorems about the freelance market, for every set of users, jobs,       *)
(* requests and prices, any interleaving of handlers and any number of      *)
(* restarts: its type invariant, that nobody is contracted for free, that   *)
(* payments are earned, that a completed job is paid, and that no wallet is *)
(* overdrawn.                                                               *)
(*                                                                         *)
(* A handler writes from the row it read, so the properties hold because of *)
(* facts that no other handler can undo: histories only grow, the work of a *)
(* job stays reported, and its freelancer may be replaced but never         *)
(* forgotten.  LocalsSound records which of these facts each handler has    *)
(* established on its way.                                                  *)
(*                                                                         *)
(* Where requests come one at a time, contracts conserve money and a job's  *)
(* row and its applications agree (second part).  SerialInv says what the   *)
(* one handler in flight has made of the row it read (Expected), what it    *)
(* has taken from the wallets that no job holds yet (Transit), and how far  *)
(* it has got with the applications (AppsMoved).                            *)
(***************************************************************************)
EXTENDS SerialFreelance, SumsProofs, TLAPS

AfterDebit == {"accept", "assign", "hold", "others", "rejectOthers"}

\* What the handler at r knows, whatever the others have done since.
LocalsSound(r) ==
  /\ pc[r] \in AfterDebit => ApplicationOf(r) \in funded
  /\ pc[r] \in {"pay", "clear", "complete"} =>
       /\ task[r].seen.freelancer \in Users
       /\ <<task[r].job, task[r].seen.freelancer>> \in funded
       /\ Row(r).workCompleted
  /\ pc[r] \in {"pay", "clear", "complete", "dispute"} =>
       Row(r).freelancer # None
  /\ pc[r] \in {"clear", "complete"} =>
       <<task[r].job, task[r].seen.freelancer>> \in paid

IInv ==
  /\ TypeOK
  /\ NoOverdraft
  /\ ContractsAreFunded
  /\ FreelancerKnown
  /\ PaymentsAreEarned
  /\ CompletedIsPaid
  /\ \A r \in Requests : LocalsSound(r)

-----------------------------------------------------------------------------
(* What no step undoes *)

Grows ==
  /\ funded \subseteq funded' /\ paid \subseteq paid'
  /\ \A j \in Jobs : job[j] \in Job =>
       /\ job'[j] \in Job
       /\ job[j].workCompleted => job'[j].workCompleted
       /\ job[j].freelancer # None => job'[j].freelancer # None
  /\ \A x \in Jobs \X Users : app[x] \in Application => app'[x] \in Application

\* A handler that does not move stays sound while the rest grows.
LEMMA Persists ==
  ASSUME NEW q \in Requests, TypeOK, LocalsSound(q), Grows,
         pc'[q] = pc[q], task'[q] = task[q], todo'[q] = todo[q]
  PROVE  LocalsTyped(q)' /\ LocalsSound(q)'
<1>1. LocalsTyped(q)
  BY DEF TypeOK
<1>2. pc[q] # "idle" =>
        /\ task[q] \in Task /\ task[q].job \in Jobs
        /\ ApplicationOf(q) \in Jobs \X Users
        /\ \A u \in Users : <<task[q].job, u>> \in Jobs \X Users
  BY <1>1 DEF LocalsTyped, Task, ApplicationOf
<1>3. todo[q] \subseteq Users
  BY DEF TypeOK, HandlersTyped
<1>4. LocalsTyped(q)'
  BY <1>1, <1>2, <1>3 DEF LocalsTyped, Row, ApplicationOf, Grows
<1>5. LocalsSound(q)'
  BY <1>1, <1>2 DEF LocalsTyped, LocalsSound, Row, ApplicationOf, Grows, AfterDebit
<1> QED
  BY <1>4, <1>5

RowsSound ==
  /\ NoOverdraft
  /\ ContractsAreFunded
  /\ FreelancerKnown
  /\ PaymentsAreEarned
  /\ CompletedIsPaid

Sound == RowsTyped /\ HistoryTyped /\ RowsSound

\* The effect of every UPDATE of a job row, and of its INSERT.
LEMMA JobWritten ==
  ASSUME Sound, NEW j \in Jobs, NEW row \in Job,
         job' = [job EXCEPT ![j] = row],
         UNCHANGED <<app, review, wallet, active, history, events, restarts>>,
         job[j] # None =>
           /\ job[j].workCompleted => row.workCompleted
           /\ job[j].freelancer # None => row.freelancer # None,
         row.freelancer # None => <<j, row.freelancer>> \in funded,
         row.status \in {"in_progress", "completed", "disputed"}
           => row.freelancer # None,
         row.status = "completed" => \E u \in Users : <<j, u>> \in paid
  PROVE  Sound' /\ Grows
<1> USE DEF history
<1>1. job' \in [Jobs -> Job \cup {None}] /\ job'[j] = row
      /\ \A i \in Jobs \ {j} : job'[i] = job[i]
  BY DEF Sound, RowsTyped
<1>2. NoOverdraft'
  BY DEF Sound, RowsSound, NoOverdraft
<1>3. ContractsAreFunded'
  BY <1>1, FreelanceAssumption DEF Sound, RowsSound, ContractsAreFunded
<1>4. FreelancerKnown'
  BY <1>1 DEF Sound, RowsSound, FreelancerKnown
<1>5. PaymentsAreEarned'
  <2> SUFFICES ASSUME NEW x \in paid
               PROVE  /\ x \in funded
                      /\ job'[x[1]] # None /\ job'[x[1]].workCompleted
    BY DEF PaymentsAreEarned
  <2> DEFINE i == x[1]
  <2>1. x \in funded /\ job[i] # None /\ job[i].workCompleted
    BY DEF Sound, RowsSound, PaymentsAreEarned
  <2>2. i \in Jobs
    BY <2>1 DEF Sound, HistoryTyped
  <2>3. CASE i = j
    BY <1>1, <2>1, <2>3, NoneAssumption
  <2>4. CASE i # j
    BY <1>1, <2>1, <2>2, <2>4
  <2> QED
    BY <2>3, <2>4
<1>6. CompletedIsPaid'
  BY <1>1 DEF Sound, RowsSound, CompletedIsPaid
<1>7. Grows
  BY <1>1, NoneAssumption DEF Grows
<1>8. RowsTyped' /\ HistoryTyped'
  BY <1>1 DEF Sound, RowsTyped, HistoryTyped
<1> QED
  BY <1>2, <1>3, <1>4, <1>5, <1>6, <1>7, <1>8 DEF Sound, RowsSound

\* The effect of every INSERT and UPDATE of an application.
LEMMA ApplicationWritten ==
  ASSUME Sound, NEW x \in Jobs \X Users, NEW row \in Application,
         app' = [app EXCEPT ![x] = row],
         UNCHANGED <<job, review, wallet, active, history, events, restarts>>,
         row.status = "accepted" => x \in funded
  PROVE  Sound' /\ Grows
<1> USE DEF history
<1>1. app' \in [Jobs \X Users -> Application \cup {None}] /\ app'[x] = row
      /\ \A y \in (Jobs \X Users) \ {x} : app'[y] = app[y]
  BY DEF Sound, RowsTyped
<1>2. ContractsAreFunded'
  <2> SUFFICES ASSUME NEW j \in Jobs, NEW u \in Users,
                      \/ app'[<<j, u>>] # None
                         /\ app'[<<j, u>>].status = "accepted"
                      \/ job[j] # None /\ job[j].freelancer = u
               PROVE  <<j, u>> \in funded
    BY DEF ContractsAreFunded
  <2>1. CASE <<j, u>> = x
    BY <1>1, <2>1 DEF Sound, RowsSound, ContractsAreFunded
  <2>2. CASE <<j, u>> # x
    BY <1>1, <2>2 DEF Sound, RowsSound, ContractsAreFunded
  <2> QED
    BY <2>1, <2>2
<1>3. NoOverdraft' /\ FreelancerKnown' /\ PaymentsAreEarned' /\ CompletedIsPaid'
  BY DEF Sound, RowsSound, NoOverdraft, FreelancerKnown, PaymentsAreEarned,
         CompletedIsPaid
<1>4. Grows
  BY <1>1 DEF Grows
<1>5. RowsTyped' /\ HistoryTyped'
  BY <1>1 DEF Sound, RowsTyped, HistoryTyped
<1> QED
  BY <1>2, <1>3, <1>4, <1>5 DEF Sound, RowsSound

\* The effect of the steps that write neither jobs nor applications.
LEMMA ContractsUntouched ==
  ASSUME Sound, UNCHANGED <<job, app>>,
         RowsTyped', HistoryTyped', NoOverdraft',
         funded \subseteq funded', paid \subseteq paid',
         \A x \in paid' \ paid :
           x \in funded /\ job[x[1]] # None /\ job[x[1]].workCompleted
  PROVE  Sound' /\ Grows
<1>1. ContractsAreFunded' /\ FreelancerKnown' /\ CompletedIsPaid'
  BY DEF Sound, RowsSound, ContractsAreFunded, FreelancerKnown, CompletedIsPaid
<1>2. PaymentsAreEarned'
  BY DEF Sound, RowsSound, PaymentsAreEarned
<1>3. Grows
  BY DEF Grows
<1> QED
  BY <1>1, <1>2, <1>3 DEF Sound, RowsSound

LEMMA NothingWritten ==
  ASSUME Sound, UNCHANGED <<rows, active, history, events, restarts>>
  PROVE  Sound' /\ Grows
<1>1. RowsTyped' /\ HistoryTyped' /\ NoOverdraft'
  BY DEF Sound, RowsTyped, HistoryTyped, RowsSound, NoOverdraft, rows, history
<1> QED
  BY <1>1, ContractsUntouched DEF rows, history

-----------------------------------------------------------------------------
(* The step of one handler *)

Others(r) ==
  \A q \in Requests \ {r} :
    pc'[q] = pc[q] /\ task'[q] = task[q] /\ todo'[q] = todo[q]

\* What is left to show of a step of the handler at r.
LEMMA HandlerStep ==
  ASSUME IInv, NEW r \in Requests, Sound' /\ Grows,
         HandlersTyped' /\ Others(r), LocalsTyped(r)', LocalsSound(r)'
  PROVE  IInv'
<1>1. ASSUME NEW q \in Requests \ {r}
      PROVE  LocalsTyped(q)' /\ LocalsSound(q)'
  BY Persists DEF IInv, Others
<1>2. \A q \in Requests : LocalsTyped(q)' /\ LocalsSound(q)'
  BY <1>1
<1> QED
  BY <1>2 DEF IInv, TypeOK, Sound, RowsSound

LEMMA Returned ==
  ASSUME HandlersTyped, NEW r \in Requests, Return(r)
  PROVE  /\ HandlersTyped' /\ Others(r)
         /\ LocalsTyped(r)' /\ LocalsSound(r)'
<1>1. HandlersTyped' /\ Others(r) /\ pc'[r] = "idle" /\ todo'[r] = {}
  BY DEF HandlersTyped, Return, Goto, Others, Steps
<1> QED
  BY <1>1 DEF LocalsTyped, LocalsSound, AfterDebit

\* On to the next statement, with the same locals.
LEMMA Advanced ==
  ASSUME IInv, NEW r \in Requests, NEW to \in Steps \ {"idle"},
         pc[r] # "idle", Goto(r, to), UNCHANGED <<task, todo>>, Grows,
         to \in {"debit", "accept"} => pc[r] = "debit"
  PROVE  /\ HandlersTyped' /\ Others(r)
         /\ LocalsTyped(r)' /\ pc'[r] = to
<1>1. HandlersTyped' /\ Others(r) /\ pc'[r] = to
  BY DEF IInv, TypeOK, HandlersTyped, Goto, Others
<1>2. LocalsTyped(r)
  BY DEF IInv, TypeOK
<1>3. /\ task[r] \in Task /\ task[r].job \in Jobs
      /\ ApplicationOf(r) \in Jobs \X Users
      /\ \A u \in Users : <<task[r].job, u>> \in Jobs \X Users
  BY <1>2 DEF LocalsTyped, Task, ApplicationOf
<1>4. todo[r] \subseteq Users
  BY DEF IInv, TypeOK, HandlersTyped
<1>5. LocalsTyped(r)'
  BY <1>1, <1>2, <1>3, <1>4 DEF LocalsTyped, Row, ApplicationOf, Grows
<1> QED
  BY <1>1, <1>5

\* The start of a handler.
LEMMA Begun ==
  ASSUME IInv, NEW r \in Requests, NEW t \in Task,
         NEW to \in {"apply", "debit", "report", "pay", "dispute", "review",
                     "withdraw"},
         pc[r] = "idle", job[t.job] # None,
         task' = [task EXCEPT ![r] = t], Goto(r, to),
         UNCHANGED <<rows, active, todo, history, events, restarts>>,
         to = "debit" => app[<<t.job, t.applicant>>] # None,
         to = "pay" => /\ t.seen.freelancer \in Users
                       /\ <<t.job, t.seen.freelancer>> \in funded
                       /\ job[t.job].workCompleted,
         to \in {"pay", "dispute"} => job[t.job].freelancer # None
  PROVE  IInv'
<1>1. Sound' /\ Grows
  BY NothingWritten DEF IInv, TypeOK, Sound, RowsSound
<1>2. /\ HandlersTyped' /\ Others(r)
      /\ pc'[r] = to /\ task'[r] = t /\ todo'[r] = {}
  BY DEF IInv, TypeOK, HandlersTyped, LocalsTyped, Goto, Others, Steps
<1>3. LocalsTyped(r)'
  <2>1. t.job \in Jobs /\ <<t.job, t.applicant>> \in Jobs \X Users
    BY DEF Task
  <2>2. /\ job[t.job] \in Job
        /\ to = "debit" => app[<<t.job, t.applicant>>] \in Application
    BY <2>1 DEF IInv, TypeOK, RowsTyped
  <2>3. job' = job /\ app' = app
    BY DEF rows
  <2> QED
    BY <1>2, <2>2, <2>3 DEF LocalsTyped, Row, ApplicationOf
<1>4. LocalsSound(r)'
  BY <1>2 DEF LocalsSound, Row, ApplicationOf, AfterDebit, rows, history
<1> QED
  BY <1>1, <1>2, <1>3, <1>4, HandlerStep

\* The steps that leave every handler where it is.
LEMMA Unhandled ==
  ASSUME IInv, Sound' /\ Grows, UNCHANGED locals
  PROVE  IInv'
<1>1. HandlersTyped'
  BY DEF IInv, TypeOK, HandlersTyped, locals
<1>2. \A q \in Requests : LocalsTyped(q)' /\ LocalsSound(q)'
  BY Persists DEF IInv, locals
<1> QED
  BY <1>1, <1>2 DEF IInv, TypeOK, Sound, RowsSound

\* What a running handler can rely on.
LEMMA Running ==
  ASSUME IInv, NEW r \in Requests, pc[r] # "idle"
  PROVE  /\ Sound
         /\ task[r] \in Task /\ task[r].job \in Jobs
         /\ task[r].seen \in Job /\ task[r].price \in Int
         /\ Row(r) \in Job /\ job[task[r].job] = Row(r)
         /\ ApplicationOf(r) \in Jobs \X Users
         /\ ClientWallet(r) \in Users \X Classrooms
         /\ Row(r).freelancer # None
              => <<task[r].job, Row(r).freelancer>> \in funded
<1>1. Sound /\ LocalsTyped(r)
  BY DEF IInv, TypeOK, Sound, RowsSound
<1>2. task[r] \in Task /\ Row(r) \in Job /\ job[task[r].job] = Row(r)
  BY <1>1 DEF LocalsTyped, Row
<1>3. task[r].job \in Jobs /\ task[r].seen \in Job /\ task[r].applicant \in Users
      /\ task[r].price \in Int
  BY <1>2 DEF Task
<1>4. /\ ApplicationOf(r) \in Jobs \X Users
      /\ ClientWallet(r) \in Users \X Classrooms
  BY <1>3 DEF ApplicationOf, ClientWallet, Job
<1>5. Row(r).freelancer # None => <<task[r].job, Row(r).freelancer>> \in funded
  BY <1>2, <1>3, NoneAssumption DEF IInv, ContractsAreFunded, Job
<1> QED
  BY <1>1, <1>2, <1>3, <1>4, <1>5

-----------------------------------------------------------------------------
(* The steps that start a handler *)

LEMMA BeginStep ==
  ASSUME IInv, NEW r \in Requests, NEW u \in Users, NEW j \in Jobs,
         NEW to \in {"report", "pay", "dispute", "review", "withdraw"},
         Begin(r, u, j, to),
         to = "pay" => job[j].workCompleted,
         to \in {"pay", "dispute"} => job[j].status = "in_progress"
  PROVE  IInv'
<1> DEFINE t == [job |-> j, by |-> u, applicant |-> u, price |-> 0,
                 seen |-> job[j]]
<1>1. pc[r] = "idle" /\ job[j] # None /\ job[j] \in Job
  BY DEF Begin, IInv, TypeOK, RowsTyped
<1>2. t \in Task
  BY <1>1 DEF Task
<1>3. t.job = j /\ t.seen = job[j]
  OBVIOUS
<1>4. to \in {"pay", "dispute"} => job[j].freelancer # None
  BY <1>1 DEF IInv, FreelancerKnown
<1>5. to = "pay" => /\ job[j].freelancer \in Users
                    /\ <<j, job[j].freelancer>> \in funded
  BY <1>1, <1>4 DEF IInv, ContractsAreFunded, Job
<1>6. /\ task' = [task EXCEPT ![r] = t] /\ Goto(r, to)
      /\ UNCHANGED <<rows, active, todo, history, events, restarts>>
  BY DEF Begin
<1> HIDE DEF t
<1> QED
  BY <1>1, <1>2, <1>3, <1>4, <1>5, <1>6, Begun

LEMMA BeginApplyStep ==
  ASSUME IInv, NEW r \in Requests, NEW u \in Users, NEW j \in Jobs,
         NEW p \in Prices, BeginApply(r, u, j, p)
  PROVE  IInv'
<1> DEFINE t == [job |-> j, by |-> u, applicant |-> u, price |-> p,
                 seen |-> job[j]]
<1>1. pc[r] = "idle" /\ job[j] # None /\ job[j] \in Job
  BY DEF BeginApply, IInv, TypeOK, RowsTyped
<1>2. t \in Task /\ t.job = j
  BY <1>1, FreelanceAssumption DEF Task
<1>3. /\ task' = [task EXCEPT ![r] = t] /\ Goto(r, "apply")
      /\ UNCHANGED <<rows, active, todo, history, events, restarts>>
  BY DEF BeginApply
<1> HIDE DEF t
<1> QED
  BY <1>1, <1>2, <1>3, Begun

LEMMA BeginAcceptStep ==
  ASSUME IInv, NEW r \in Requests, NEW u \in Users, NEW j \in Jobs,
         NEW v \in Users, BeginAccept(r, u, j, v)
  PROVE  IInv'
<1> DEFINE t == [job |-> j, by |-> u, applicant |-> v,
                 price |-> app[<<j, v>>].price, seen |-> job[j]]
<1>1. /\ pc[r] = "idle" /\ job[j] # None /\ job[j] \in Job
      /\ app[<<j, v>>] # None /\ app[<<j, v>>] \in Application
  BY DEF BeginAccept, IInv, TypeOK, RowsTyped
<1>2. app[<<j, v>>].price \in Int
  BY <1>1 DEF Application
<1>3. t \in Task /\ t.job = j /\ t.applicant = v
  BY <1>1, <1>2 DEF Task
<1>4. /\ task' = [task EXCEPT ![r] = t] /\ Goto(r, "debit")
      /\ UNCHANGED <<rows, active, todo, history, events, restarts>>
  BY DEF BeginAccept
<1> HIDE DEF t
<1> QED
  BY <1>1, <1>3, <1>4, Begun

LEMMA ClientStep ==
  ASSUME IInv, NEW r \in Requests, Client(r)
  PROVE  IInv'
<1>1. PICK u \in Users, j \in Jobs :
        \/ \E p \in Prices : BeginApply(r, u, j, p)
        \/ \E v \in Users : BeginAccept(r, u, j, v)
        \/ BeginComplete(r, u, j)
        \/ BeginApprove(r, u, j)
        \/ BeginDispute(r, u, j)
        \/ BeginReview(r, u, j)
        \/ BeginCancel(r, u, j)
  BY DEF Client
<1>2. CASE \E p \in Prices : BeginApply(r, u, j, p)
  BY <1>2, BeginApplyStep
<1>3. CASE \E v \in Users : BeginAccept(r, u, j, v)
  BY <1>3, BeginAcceptStep
<1>4. CASE BeginComplete(r, u, j)
  BY <1>4, BeginStep DEF BeginComplete
<1>5. CASE BeginApprove(r, u, j)
  BY <1>5, BeginStep DEF BeginApprove
<1>6. CASE BeginDispute(r, u, j)
  BY <1>6, BeginStep DEF BeginDispute
<1>7. CASE BeginReview(r, u, j)
  BY <1>7, BeginStep DEF BeginReview
<1>8. CASE BeginCancel(r, u, j)
  BY <1>8, BeginStep DEF BeginCancel
<1> QED
  BY <1>1, <1>2, <1>3, <1>4, <1>5, <1>6, <1>7, <1>8

-----------------------------------------------------------------------------
(* The statements of the handlers *)

LEMMA CreateApplicationStep ==
  ASSUME IInv, NEW r \in Requests, CreateApplication(r)
  PROVE  IInv'
<1> DEFINE x   == ApplicationOf(r)
           new == [price |-> task[r].price, status |-> "pending"]
<1>1. Sound /\ x \in Jobs \X Users /\ task[r].price \in Int
  BY Running DEF CreateApplication
<1>2. app' = [app EXCEPT ![x] = IF @ = None THEN new ELSE @]
      /\ UNCHANGED <<job, review, wallet, active, history, events, restarts>>
  BY DEF CreateApplication
<1>3. Sound' /\ Grows
  <2>1. new \in Application /\ new.status = "pending"
    BY <1>1 DEF Application, AppStatus
  <2>2. app[x] # None => /\ app[x] \in Application
                         /\ app[x].status = "accepted" => x \in funded
    BY <1>1 DEF IInv, ContractsAreFunded, Sound, RowsTyped
  <2> HIDE DEF x, new
  <2>3. CASE app[x] = None
    <3>1. app' = [app EXCEPT ![x] = new]
      BY <1>2, <2>3
    <3> QED
      BY <1>1, <1>2, <2>1, <3>1, ApplicationWritten
  <2>4. CASE app[x] # None
    <3> DEFINE old == app[x]
    <3>1. app' = [app EXCEPT ![x] = old]
      BY <1>2, <2>4
    <3>2. old \in Application /\ (old.status = "accepted" => x \in funded)
      BY <2>2, <2>4
    <3> HIDE DEF old
    <3> QED
      BY <1>1, <1>2, <3>1, <3>2, ApplicationWritten
  <2> QED
    BY <2>3, <2>4
<1>4. Return(r) /\ HandlersTyped
  BY DEF CreateApplication, IInv, TypeOK
<1> QED
  BY <1>3, <1>4, Returned, HandlerStep

\* A debit of what the wallet holds, or a credit, keeps the wallets sound.
LEMMA WalletWritten ==
  ASSUME Sound, NEW w \in Users \X Classrooms, NEW change \in Int,
         wallet' = [wallet EXCEPT ![w] = @ + change], wallet[w] + change >= 0,
         UNCHANGED <<job, app, review, active>>
  PROVE  RowsTyped' /\ NoOverdraft'
<1>1. wallet \in [Users \X Classrooms -> Int]
      /\ \A v \in Users \X Classrooms : wallet[v] >= 0
  BY DEF Sound, RowsTyped, RowsSound, NoOverdraft
<1> DEFINE W == Users \X Classrooms
<1> HIDE DEF W
<1>2. wallet' \in [W -> Int] /\ \A v \in W : wallet'[v] >= 0
  BY <1>1 DEF W
<1> QED
  BY <1>2 DEF Sound, RowsTyped, NoOverdraft, W

LEMMA DebitEscrowStep ==
  ASSUME IInv, NEW r \in Requests, DebitEscrow(r)
  PROVE  IInv'
<1>1. /\ Sound /\ pc[r] = "debit" /\ ApplicationOf(r) \in Jobs \X Users
      /\ ClientWallet(r) \in Users \X Classrooms /\ task[r].price \in Int
  BY Running DEF DebitEscrow
<1>2. RowsTyped' /\ NoOverdraft'
  <2>1. wallet[ClientWallet(r)] \in Int
    BY <1>1 DEF Sound, RowsTyped
  <2>2. -task[r].price \in Int /\ wallet[ClientWallet(r)] + (-task[r].price) >= 0
    BY <1>1, <2>1 DEF DebitEscrow, CanDebit
  <2>3. wallet' = [wallet EXCEPT ![ClientWallet(r)] = @ + (-task[r].price)]
    BY <1>1, <2>1 DEF DebitEscrow, Debit
  <2> QED
    BY <1>1, <2>2, <2>3, WalletWritten DEF DebitEscrow
<1>3. HistoryTyped'
  BY <1>1 DEF Sound, HistoryTyped, DebitEscrow
<1>4. Sound' /\ Grows
  BY <1>1, <1>2, <1>3, ContractsUntouched DEF DebitEscrow
<1>5. /\ HandlersTyped' /\ Others(r)
      /\ LocalsTyped(r)' /\ pc'[r] = "accept"
  BY <1>1, <1>4, Advanced DEF DebitEscrow, Steps
<1>6. LocalsSound(r)'
  BY <1>5 DEF DebitEscrow, LocalsSound, ApplicationOf, AfterDebit
<1> QED
  BY <1>4, <1>5, <1>6, HandlerStep

\* A handler that returns without writing.
LEMMA QuietReturn ==
  ASSUME IInv, NEW r \in Requests, Return(r),
         UNCHANGED <<rows, active, history, events, restarts>>
  PROVE  IInv'
<1>1. Sound' /\ Grows
  BY NothingWritten DEF IInv, TypeOK, Sound, RowsSound
<1> QED
  BY <1>1, Returned, HandlerStep DEF IInv, TypeOK

\* An application of the handler's job gets a new status.
LEMMA StatusWritten ==
  ASSUME IInv, NEW x \in Jobs \X Users, app[x] \in Application,
         NEW s \in AppStatus, app' = [app EXCEPT ![x].status = s],
         s = "accepted" => x \in funded,
         UNCHANGED <<job, review, wallet, active, history, events, restarts>>
  PROVE  Sound' /\ Grows
<1> DEFINE row == [app[x] EXCEPT !.status = s]
<1>1. row \in Application /\ row.status = s
  BY DEF Application
<1>2. app' = [app EXCEPT ![x] = row] /\ Sound
  BY DEF IInv, TypeOK, Sound, RowsSound
<1> HIDE DEF row
<1> QED
  BY <1>1, <1>2, ApplicationWritten

LEMMA AcceptApplicationStep ==
  ASSUME IInv, NEW r \in Requests, AcceptApplication(r)
  PROVE  IInv'
<1>1. /\ pc[r] = "accept" /\ ApplicationOf(r) \in Jobs \X Users
      /\ app[ApplicationOf(r)] \in Application
  BY Running DEF AcceptApplication, IInv, TypeOK, LocalsTyped
<1>2. ApplicationOf(r) \in funded
  BY <1>1 DEF IInv, LocalsSound, AfterDebit
<1>3. Sound' /\ Grows
  BY <1>1, <1>2, StatusWritten DEF AcceptApplication, AppStatus
<1>4. /\ HandlersTyped' /\ Others(r)
      /\ LocalsTyped(r)' /\ pc'[r] = "assign"
  BY <1>1, <1>3, Advanced DEF AcceptApplication, Steps
<1>5. LocalsSound(r)'
  BY <1>2, <1>4 DEF AcceptApplication, LocalsSound, ApplicationOf, AfterDebit,
                    history
<1> QED
  BY <1>3, <1>4, <1>5, HandlerStep

LEMMA SetFreelancerStep ==
  ASSUME IInv, NEW r \in Requests, SetFreelancer(r)
  PROVE  IInv'
<1> DEFINE row == [Row(r) EXCEPT !.freelancer = task[r].applicant,
                                 !.agreed = task[r].price,
                                 !.status = "in_progress"]
<1>1. /\ Sound /\ pc[r] = "assign" /\ task[r] \in Task /\ task[r].job \in Jobs
      /\ task[r].price \in Int /\ Row(r) \in Job /\ job[task[r].job] = Row(r)
  BY Running DEF SetFreelancer, UpdateJob
<1>2. task[r].applicant \in Users /\ task[r].applicant # None
      /\ <<task[r].job, task[r].applicant>> \in funded
  BY <1>1, FreelanceAssumption
  DEF Task, IInv, LocalsSound, AfterDebit, ApplicationOf
<1>3. /\ row \in Job /\ row.freelancer = task[r].applicant
      /\ row.workCompleted = Row(r).workCompleted
      /\ row.status = "in_progress"
  BY <1>1, <1>2 DEF Job, JobStatus
<1>4. job' = [job EXCEPT ![task[r].job] = row] /\ Goto(r, "hold")
      /\ UNCHANGED <<app, review, wallet, active, task, todo, history, events,
                     restarts>>
  BY DEF SetFreelancer, UpdateJob
<1> HIDE DEF row
<1>5. Sound' /\ Grows
  BY <1>1, <1>2, <1>3, <1>4, JobWritten
<1>6. /\ HandlersTyped' /\ Others(r)
      /\ LocalsTyped(r)' /\ pc'[r] = "hold"
  BY <1>1, <1>4, <1>5, Advanced DEF Steps
<1>7. LocalsSound(r)'
  BY <1>2, <1>4, <1>6 DEF LocalsSound, ApplicationOf, AfterDebit, history
<1> QED
  BY <1>5, <1>6, <1>7, HandlerStep

\* The other updates of a job row keep its freelancer.
LEMMA JobUpdated ==
  ASSUME IInv, NEW r \in Requests, pc[r] # "idle", NEW row \in Job,
         job' = [job EXCEPT ![task[r].job] = row],
         UNCHANGED <<app, review, wallet, active, history, events, restarts>>,
         row.freelancer = Row(r).freelancer,
         Row(r).workCompleted => row.workCompleted,
         \/ row.status \in {Row(r).status, "cancelled"}
         \/ row.status = "disputed" /\ row.freelancer # None
         \/ row.status = "completed" /\ row.freelancer # None
            /\ \E u \in Users : <<task[r].job, u>> \in paid
  PROVE  Sound' /\ Grows
<1>1. /\ Sound /\ task[r].job \in Jobs
      /\ Row(r) \in Job /\ job[task[r].job] = Row(r) /\ Row(r) # None
      /\ Row(r).freelancer # None => <<task[r].job, Row(r).freelancer>> \in funded
  BY Running, NoneAssumption
<1>2. row.status \in {"in_progress", "completed", "disputed"}
        => row.freelancer # None
  BY <1>1 DEF Sound, RowsSound, FreelancerKnown
<1>3. row.status = "completed" => \E u \in Users : <<task[r].job, u>> \in paid
  BY <1>1 DEF Sound, RowsSound, CompletedIsPaid
<1> QED
  BY <1>1, <1>2, <1>3, JobWritten

LEMMA HoldEscrowStep ==
  ASSUME IInv, NEW r \in Requests, HoldEscrow(r)
  PROVE  IInv'
<1> DEFINE row == [Row(r) EXCEPT !.escrow = task[r].price]
<1>1. /\ pc[r] = "hold" /\ task[r].price \in Int /\ Row(r) \in Job
  BY Running DEF HoldEscrow, UpdateJob
<1>2. ApplicationOf(r) \in funded
  BY <1>1 DEF IInv, LocalsSound, AfterDebit
<1>3. /\ row \in Job /\ row.freelancer = Row(r).freelancer
      /\ row.workCompleted = Row(r).workCompleted /\ row.status = Row(r).status
  BY <1>1 DEF Job
<1>4. job' = [job EXCEPT ![task[r].job] = row] /\ Goto(r, "others")
      /\ UNCHANGED <<app, review, wallet, active, task, todo, history, events,
                     restarts>>
  BY DEF HoldEscrow, UpdateJob
<1> HIDE DEF row
<1>5. Sound' /\ Grows
  BY <1>1, <1>3, <1>4, JobUpdated
<1>6. /\ HandlersTyped' /\ Others(r)
      /\ LocalsTyped(r)' /\ pc'[r] = "others"
  BY <1>1, <1>4, <1>5, Advanced DEF Steps
<1>7. LocalsSound(r)'
  BY <1>2, <1>4, <1>6 DEF LocalsSound, ApplicationOf, AfterDebit, history
<1> QED
  BY <1>5, <1>6, <1>7, HandlerStep

\* ClearEscrow and ReleaseEscrow.
LEMMA EmptyEscrowStep ==
  ASSUME IInv, NEW r \in Requests, ClearEscrow(r) \/ ReleaseEscrow(r)
  PROVE  IInv'
<1> DEFINE row == [Row(r) EXCEPT !.escrow = 0]
           to  == IF pc[r] = "clear" THEN "complete" ELSE "close"
<1>1. pc[r] \in {"clear", "release"} /\ Row(r) \in Job
  BY Running DEF ClearEscrow, ReleaseEscrow, UpdateJob
<1>2. /\ row \in Job /\ row.freelancer = Row(r).freelancer
      /\ row.workCompleted = Row(r).workCompleted /\ row.status = Row(r).status
  BY <1>1 DEF Job
<1>3. job' = [job EXCEPT ![task[r].job] = row] /\ Goto(r, to)
      /\ UNCHANGED <<app, review, wallet, active, task, todo, history, events,
                     restarts>>
  BY DEF ClearEscrow, ReleaseEscrow, UpdateJob
<1> HIDE DEF row
<1>4. Sound' /\ Grows
  BY <1>1, <1>2, <1>3, JobUpdated
<1>5. /\ HandlersTyped' /\ Others(r)
      /\ LocalsTyped(r)' /\ pc'[r] = to
  BY <1>1, <1>3, <1>4, Advanced DEF Steps
<1>6. LocalsSound(r)'
  <2>1. CASE pc[r] = "clear"
    <3>1. /\ task[r].seen.freelancer \in Users
          /\ <<task[r].job, task[r].seen.freelancer>> \in funded
          /\ Row(r).workCompleted /\ Row(r).freelancer # None
          /\ <<task[r].job, task[r].seen.freelancer>> \in paid
      BY <2>1 DEF IInv, LocalsSound
    <3>2. /\ Row(r)'.workCompleted /\ Row(r)'.freelancer # None
      BY <1>1, <1>2, <1>3, <3>1, Running DEF Row, Sound, RowsTyped
    <3> QED
      BY <1>3, <1>5, <2>1, <3>1, <3>2
      DEF LocalsSound, AfterDebit, history
  <2>2. CASE pc[r] = "release"
    BY <1>5, <2>2 DEF LocalsSound, AfterDebit
  <2> QED
    BY <1>1, <2>1, <2>2
<1> QED
  BY <1>4, <1>5, <1>6, HandlerStep

\* The handlers whose last statement updates the job row.
LEMMA FinishStep ==
  ASSUME IInv, NEW r \in Requests, NEW row \in Job,
         pc[r] # "idle",
         job' = [job EXCEPT ![task[r].job] = row], Return(r),
         UNCHANGED <<app, review, wallet, active, history, events, restarts>>,
         row.freelancer = Row(r).freelancer,
         Row(r).workCompleted => row.workCompleted,
         \/ row.status \in {Row(r).status, "cancelled"}
         \/ row.status = "disputed" /\ row.freelancer # None
         \/ row.status = "completed" /\ row.freelancer # None
            /\ \E u \in Users : <<task[r].job, u>> \in paid
  PROVE  IInv'
<1>1. Sound' /\ Grows
  BY JobUpdated
<1> QED
  BY <1>1, Returned, HandlerStep DEF IInv, TypeOK

LEMMA SetWorkCompletedStep ==
  ASSUME IInv, NEW r \in Requests, SetWorkCompleted(r)
  PROVE  IInv'
<1> DEFINE row == [Row(r) EXCEPT !.workCompleted = TRUE]
<1>1. pc[r] # "idle" /\ Row(r) \in Job
  BY Running DEF SetWorkCompleted, FinishJob
<1>2. row \in Job /\ row.freelancer = Row(r).freelancer /\ row.workCompleted
      /\ row.status = Row(r).status
  BY <1>1 DEF Job
<1>3. /\ job' = [job EXCEPT ![task[r].job] = row] /\ Return(r)
      /\ UNCHANGED <<app, review, wallet, active, history, events, restarts>>
  BY DEF SetWorkCompleted, FinishJob
<1> HIDE DEF row
<1> QED
  BY <1>1, <1>2, <1>3, FinishStep

\* SetCompleted, SetDisputed and SetCancelled.
LEMMA SetStatusStep ==
  ASSUME IInv, NEW r \in Requests,
         SetCompleted(r) \/ SetDisputed(r) \/ SetCancelled(r)
  PROVE  IInv'
<1> DEFINE status == IF pc[r] = "complete" THEN "completed"
                     ELSE IF pc[r] = "dispute" THEN "disputed"
                     ELSE "cancelled"
           row == [Row(r) EXCEPT !.status = status]
<1>1. pc[r] \in {"complete", "dispute", "close"} /\ Row(r) \in Job
      /\ task[r].job \in Jobs
  BY Running DEF SetCompleted, SetDisputed, SetCancelled, FinishJob
<1>2. row \in Job /\ row.freelancer = Row(r).freelancer
      /\ row.workCompleted = Row(r).workCompleted /\ row.status = status
  BY <1>1 DEF Job, JobStatus
<1>3. /\ job' = [job EXCEPT ![task[r].job] = row] /\ Return(r)
      /\ UNCHANGED <<app, review, wallet, active, history, events, restarts>>
  BY DEF SetCompleted, SetDisputed, SetCancelled, FinishJob
<1>4. pc[r] \in {"complete", "dispute"} => row.freelancer # None
  BY <1>2 DEF IInv, LocalsSound
<1>5. pc[r] = "complete" => \E u \in Users : <<task[r].job, u>> \in paid
  BY DEF IInv, LocalsSound
<1>6. \/ status = "cancelled"
      \/ status = "disputed" /\ pc[r] = "dispute"
      \/ status = "completed" /\ pc[r] = "complete"
  BY <1>1
<1> HIDE DEF row, status
<1> QED
  BY <1>1, <1>2, <1>3, <1>4, <1>5, <1>6, FinishStep

\* A handler goes on with a new list of applications, or with the rest of it.
LEMMA Listed ==
  ASSUME IInv, NEW r \in Requests, pc[r] # "idle", Sound' /\ Grows,
         NEW to \in {"rejectOthers", "rejectAll", "refund"},
         Goto(r, to), UNCHANGED <<task, job, funded>>,
         NEW us \in SUBSET Users, todo' = [todo EXCEPT ![r] = us],
         \A u \in us : app'[<<task[r].job, u>>] \in Application,
         to = "rejectOthers" => pc[r] \in AfterDebit
  PROVE  IInv'
<1>1. task[r] \in Task /\ Row(r) \in Job
  BY Running
<1>2. /\ HandlersTyped' /\ Others(r)
      /\ pc'[r] = to /\ todo'[r] = us /\ task'[r] = task[r]
  BY DEF IInv, TypeOK, HandlersTyped, Goto, Others, Steps
<1>3. LocalsTyped(r)'
  BY <1>1, <1>2 DEF LocalsTyped, Row, ApplicationOf
<1>4. LocalsSound(r)'
  BY <1>2 DEF IInv, LocalsSound, ApplicationOf, AfterDebit
<1> QED
  BY <1>2, <1>3, <1>4, HandlerStep

LEMMA Applicants ==
  ASSUME IInv, NEW j \in Jobs, NEW statuses, NEW u \in ApplicantsIn(j, statuses)
  PROVE  u \in Users /\ app[<<j, u>>] \in Application
BY DEF ApplicantsIn, IInv, TypeOK, RowsTyped

LEMMA ListStep ==
  ASSUME IInv, NEW r \in Requests, ListOthers(r) \/ ListAll(r)
  PROVE  IInv'
<1>1. pc[r] \in {"others", "withdraw"} /\ task[r].job \in Jobs /\ Sound
  BY Running DEF ListOthers, ListAll
<1>2. UNCHANGED <<rows, active, history, events, restarts>>
  BY DEF ListOthers, ListAll
<1>3. Sound' /\ Grows
  BY <1>1, <1>2, NothingWritten
<1>4. CASE ListOthers(r)
  <2> DEFINE others == ApplicantsIn(task[r].job, {"pending"}) \ {task[r].applicant}
  <2>1. /\ others \in SUBSET Users
        /\ \A u \in others : app[<<task[r].job, u>>] \in Application
    BY <1>1, Applicants
  <2>2. pc[r] = "others" /\
        \/ Return(r)
        \/ /\ todo' = [todo EXCEPT ![r] = others]
           /\ Goto(r, "rejectOthers") /\ UNCHANGED task
    BY <1>4 DEF ListOthers
  <2> HIDE DEF others
  <2>3. CASE Return(r)
    BY <1>2, <2>3, QuietReturn
  <2>4. CASE ~Return(r)
    BY <1>1, <1>2, <1>3, <2>1, <2>2, <2>4, Listed DEF AfterDebit, rows, history
  <2> QED
    BY <2>3, <2>4
<1>5. CASE ListAll(r)
  <2> DEFINE all == ApplicantsIn(task[r].job, {"pending", "accepted"})
             to  == IF all = {} THEN "refund" ELSE "rejectAll"
  <2>1. /\ all \in SUBSET Users
        /\ \A u \in all : app[<<task[r].job, u>>] \in Application
    BY <1>1, Applicants
  <2>2. /\ todo' = [todo EXCEPT ![r] = all]
        /\ Goto(r, to) /\ UNCHANGED task
    BY <1>5 DEF ListAll
  <2> HIDE DEF all
  <2>3. to \in {"refund", "rejectAll"}
    OBVIOUS
  <2> HIDE DEF to
  <2> QED
    BY <1>1, <1>2, <1>3, <2>1, <2>2, <2>3, Listed DEF rows, history
<1> QED
  BY <1>4, <1>5

LEMMA RejectStep ==
  ASSUME IInv, NEW r \in Requests, RejectOther(r) \/ RejectEvery(r)
  PROVE  IInv'
<1>1. /\ pc[r] \in {"rejectOthers", "rejectAll"} /\ task[r].job \in Jobs
      /\ UNCHANGED <<job, review, wallet, active, history, events, restarts>>
  BY Running DEF RejectOther, RejectEvery
<1>2. PICK u \in todo[r] :
        /\ Reject(r, u)
        /\ \/ Return(r)
           \/ /\ todo' = [todo EXCEPT ![r] = @ \ {u}]
              /\ UNCHANGED <<pc, task>>
              /\ pc[r] = "rejectOthers"
           \/ /\ todo' = [todo EXCEPT ![r] = @ \ {u}]
              /\ UNCHANGED task
              /\ Goto(r, IF todo[r] = {u} THEN "refund" ELSE "rejectAll")
  BY DEF RejectOther, RejectEvery
<1> DEFINE x    == <<task[r].job, u>>
           rest == todo[r] \ {u}
<1>3. /\ x \in Jobs \X Users /\ app[x] \in Application
      /\ rest \in SUBSET Users
      /\ \A v \in rest : v \in Users /\ app[<<task[r].job, v>>] \in Application
  BY <1>1 DEF IInv, TypeOK, HandlersTyped, LocalsTyped
<1>4. Sound' /\ Grows
  <2>1. app' = [app EXCEPT ![x].status = "rejected"]
    BY <1>2 DEF Reject
  <2> HIDE DEF x
  <2> QED
    BY <1>1, <1>3, <2>1, StatusWritten DEF AppStatus
<1>5. \A v \in rest : app'[<<task[r].job, v>>] \in Application
  BY <1>1, <1>3, <1>4 DEF Grows
<1>6. CASE Return(r)
  BY <1>4, <1>6, Returned, HandlerStep DEF IInv, TypeOK
<1>7. CASE ~Return(r)
  <2>1. todo' = [todo EXCEPT ![r] = rest] /\ UNCHANGED <<task, job, funded>>
    BY <1>1, <1>2, <1>7 DEF history
  <2>2. PICK to \in {"rejectOthers", "rejectAll", "refund"} :
          Goto(r, to) /\ (to = "rejectOthers" => pc[r] = "rejectOthers")
    <3>1. CASE UNCHANGED <<pc, task>> /\ pc[r] = "rejectOthers"
      <4>1. Goto(r, "rejectOthers")
        BY <3>1 DEF Goto, IInv, TypeOK, HandlersTyped
      <4> QED
        BY <3>1, <4>1
    <3>2. CASE Goto(r, IF todo[r] = {u} THEN "refund" ELSE "rejectAll")
      BY <3>2
    <3> QED
      BY <1>2, <1>7, <3>1, <3>2
  <2> HIDE DEF rest, x
  <2> QED
    BY <1>1, <1>3, <1>4, <1>5, <2>1, <2>2, Listed DEF AfterDebit
<1> QED
  BY <1>6, <1>7

LEMMA PayFreelancerStep ==
  ASSUME IInv, NEW r \in Requests, PayFreelancer(r)
  PROVE  IInv'
<1> DEFINE payee == task[r].seen.freelancer
           sum   == task[r].seen.escrow
<1>1. /\ Sound /\ pc[r] = "pay" /\ task[r].job \in Jobs
      /\ task[r].seen \in Job /\ job[task[r].job] = Row(r) /\ Row(r) # None
  BY Running, NoneAssumption DEF PayFreelancer
<1>2. /\ payee \in Users /\ <<task[r].job, payee>> \in funded
      /\ Row(r).workCompleted /\ Row(r).freelancer # None
  BY <1>1 DEF IInv, LocalsSound
<1>3. /\ FreelancerWallet(r) \in Users \X Classrooms
      /\ sum \in Int /\ sum > 0
  BY <1>1, <1>2 DEF FreelancerWallet, PayFreelancer, Job
<1>4. RowsTyped' /\ NoOverdraft'
  <2>1. wallet[FreelancerWallet(r)] \in Int /\ wallet[FreelancerWallet(r)] >= 0
    BY <1>1, <1>3 DEF Sound, RowsTyped, RowsSound, NoOverdraft
  <2>2. wallet[FreelancerWallet(r)] + sum >= 0
    BY <1>3, <2>1
  <2>3. wallet' = [wallet EXCEPT ![FreelancerWallet(r)] = @ + sum]
    BY DEF PayFreelancer, Credit
  <2>4. UNCHANGED <<job, app, review, active>>
    BY DEF PayFreelancer
  <2> HIDE DEF sum
  <2> QED
    BY <1>1, <1>3, <2>2, <2>3, <2>4, WalletWritten
<1>5. paid' = paid \cup {<<task[r].job, payee>>} /\ UNCHANGED <<job, app, funded>>
  BY DEF PayFreelancer
<1>6. HistoryTyped'
  BY <1>1, <1>2, <1>5 DEF Sound, HistoryTyped, PayFreelancer
<1>7. Sound' /\ Grows
  BY <1>1, <1>2, <1>4, <1>5, <1>6, ContractsUntouched
<1>8. /\ HandlersTyped' /\ Others(r)
      /\ LocalsTyped(r)' /\ pc'[r] = "clear"
  BY <1>1, <1>7, Advanced DEF PayFreelancer, Steps
<1>9. LocalsSound(r)'
  BY <1>2, <1>5, <1>8 DEF PayFreelancer, LocalsSound, AfterDebit, Row
<1> QED
  BY <1>7, <1>8, <1>9, HandlerStep

LEMMA RefundClientStep ==
  ASSUME IInv, NEW r \in Requests, RefundClient(r)
  PROVE  IInv'
<1> DEFINE sum == task[r].seen.escrow
           to  == IF sum > 0 THEN "release" ELSE "close"
<1>1. /\ Sound /\ pc[r] = "refund" /\ task[r].job \in Jobs
      /\ task[r].seen \in Job /\ ClientWallet(r) \in Users \X Classrooms
  BY Running DEF RefundClient
<1>2. sum \in Int
  BY <1>1 DEF Job
<1>3. RowsTyped' /\ NoOverdraft'
  <2>1. CASE sum > 0
    <3>1. /\ wallet[ClientWallet(r)] \in Int
          /\ wallet[ClientWallet(r)] >= 0
      BY <1>1 DEF Sound, RowsTyped, RowsSound, NoOverdraft
    <3>2. wallet[ClientWallet(r)] + sum >= 0
      BY <1>2, <2>1, <3>1
    <3>3. wallet' = [wallet EXCEPT ![ClientWallet(r)] = @ + sum]
      BY <2>1 DEF RefundClient, Credit
    <3>4. UNCHANGED <<job, app, review, active>>
      BY DEF RefundClient
    <3> HIDE DEF sum
    <3> QED
      BY <1>1, <1>2, <3>2, <3>3, <3>4, WalletWritten
  <2>2. CASE ~(sum > 0)
    BY <1>1, <2>2 DEF RefundClient, Sound, RowsTyped, RowsSound, NoOverdraft
  <2> QED
    BY <2>1, <2>2
<1>4. HistoryTyped'
  BY <1>1 DEF Sound, HistoryTyped, RefundClient
<1>5. Sound' /\ Grows
  BY <1>1, <1>3, <1>4, ContractsUntouched DEF RefundClient
<1>6. Goto(r, to) /\ UNCHANGED <<task, todo>> /\ to \in {"release", "close"}
  BY DEF RefundClient
<1> HIDE DEF to
<1>7. /\ HandlersTyped' /\ Others(r)
      /\ LocalsTyped(r)' /\ pc'[r] = to
  BY <1>1, <1>5, <1>6, Advanced DEF Steps
<1>8. LocalsSound(r)'
  BY <1>6, <1>7 DEF LocalsSound, AfterDebit
<1> QED
  BY <1>5, <1>7, <1>8, HandlerStep

LEMMA CreateReviewStep ==
  ASSUME IInv, NEW r \in Requests, CreateReview(r)
  PROVE  IInv'
<1>1. Sound /\ task[r].job \in Jobs /\ task[r] \in Task
  BY Running DEF CreateReview
<1>2. /\ UNCHANGED <<job, app, wallet, active, history, events, restarts>>
      /\ review' = review \cup {<<task[r].job, task[r].by>>} /\ Return(r)
  BY DEF CreateReview
<1>3. RowsTyped' /\ HistoryTyped' /\ NoOverdraft'
  BY <1>1, <1>2
  DEF Sound, RowsTyped, HistoryTyped, RowsSound, NoOverdraft, Task, history
<1>4. Sound' /\ Grows
  BY <1>1, <1>2, <1>3, ContractsUntouched DEF history
<1> QED
  BY <1>2, <1>4, Returned, HandlerStep DEF IInv, TypeOK

LEMMA HandlerSteps ==
  ASSUME IInv, NEW r \in Requests, Handler(r)
  PROVE  IInv'
BY CreateApplicationStep, DebitEscrowStep, QuietReturn, AcceptApplicationStep,
   SetFreelancerStep, HoldEscrowStep, ListStep, RejectStep,
   SetWorkCompletedStep, PayFreelancerStep, EmptyEscrowStep, SetStatusStep,
   CreateReviewStep, RefundClientStep
DEF Handler, RefuseEscrow, RefusePay

-----------------------------------------------------------------------------
(* The other steps *)

LEMMA CreateJobStep ==
  ASSUME IInv, NEW u \in Users, NEW j \in Jobs, CreateJob(u, j)
  PROVE  IInv'
<1> DEFINE row == [client |-> u, room |-> active[u], status |-> "open",
                   freelancer |-> None, escrow |-> 0, agreed |-> 0,
                   workCompleted |-> FALSE]
<1>1. row \in Job /\ row.freelancer = None /\ row.status = "open"
  BY DEF Job, JobStatus, IInv, TypeOK, RowsTyped
<1>2. /\ job[j] = None /\ job' = [job EXCEPT ![j] = row] /\ UNCHANGED locals
      /\ UNCHANGED <<app, review, wallet, active, history, events, restarts>>
  BY DEF CreateJob
<1>3. Sound
  BY DEF IInv, TypeOK, Sound, RowsSound
<1> HIDE DEF row
<1>4. Sound' /\ Grows
  BY <1>1, <1>2, <1>3, JobWritten
<1> QED
  BY <1>2, <1>4, Unhandled

LEMMA OtherDebitStep ==
  ASSUME IInv, NEW u \in Users, NEW k \in Classrooms, NEW amount \in Spendings,
         OtherDebit(<<u, k>>, amount)
  PROVE  IInv'
<1> DEFINE w == <<u, k>>
           change == -amount
<1>1. w \in Users \X Classrooms /\ amount \in Nat /\ change \in Int /\ Sound
  BY FreelanceAssumption DEF IInv, TypeOK, Sound, RowsSound
<1>2. /\ wallet[w] >= amount /\ wallet' = [wallet EXCEPT ![w] = @ - amount]
      /\ UNCHANGED <<job, app, review, active, funded, paid>>
      /\ UNCHANGED locals
  BY DEF OtherDebit, CanDebit, Debit
<1>3. RowsTyped' /\ NoOverdraft'
  <2>1. wallet[w] \in Int
    BY <1>1 DEF Sound, RowsTyped
  <2>2. wallet[w] + change >= 0
    BY <1>1, <1>2, <2>1
  <2>3. wallet' = [wallet EXCEPT ![w] = @ + change]
    BY <1>1, <1>2, <2>1
  <2> HIDE DEF w, change
  <2> QED
    BY <1>1, <1>2, <2>2, <2>3, WalletWritten
<1>4. HistoryTyped'
  <2>1. spent' \in [Users \X Classrooms -> Nat]
    <3> DEFINE W == Users \X Classrooms
    <3>1. spent \in [W -> Nat] /\ spent[w] + amount \in Nat
      BY <1>1 DEF Sound, HistoryTyped
    <3>2. spent' = [spent EXCEPT ![w] = @ + amount]
      BY DEF OtherDebit
    <3> HIDE DEF W, w
    <3>3. spent' \in [W -> Nat]
      BY <3>1, <3>2
    <3> QED
      BY <3>3 DEF W
  <2>2. events' \in 0 .. MaxEvents
    BY <1>1, FreelanceAssumption DEF Sound, HistoryTyped, OtherDebit, Happens
  <2> QED
    BY <1>1, <2>1, <2>2 DEF Sound, HistoryTyped, OtherDebit
<1>5. Sound' /\ Grows
  BY <1>1, <1>2, <1>3, <1>4, ContractsUntouched
<1> QED
  BY <1>2, <1>5, Unhandled

LEMMA ActivateClassroomStep ==
  ASSUME IInv, NEW u \in Users, NEW k \in Classrooms, ActivateClassroom(u, k)
  PROVE  IInv'
<1>1. Sound
  BY DEF IInv, TypeOK, Sound, RowsSound
<1>2. RowsTyped' /\ NoOverdraft'
  BY <1>1 DEF Sound, RowsTyped, RowsSound, NoOverdraft, ActivateClassroom, rows
<1>3. HistoryTyped'
  BY <1>1, FreelanceAssumption
  DEF Sound, HistoryTyped, ActivateClassroom, Happens, history
<1>4. Sound' /\ Grows
  BY <1>1, <1>2, <1>3, ContractsUntouched DEF ActivateClassroom, rows, history
<1> QED
  BY <1>4, Unhandled DEF ActivateClassroom

LEMMA RestartStep ==
  ASSUME IInv, Restart
  PROVE  IInv'
<1>1. Sound
  BY DEF IInv, TypeOK, Sound, RowsSound
<1>2. RowsTyped' /\ NoOverdraft'
  BY <1>1 DEF Sound, RowsTyped, RowsSound, NoOverdraft, Restart, rows
<1>3. HistoryTyped'
  BY <1>1, FreelanceAssumption DEF Sound, HistoryTyped, Restart, history
<1>4. Sound'
  BY <1>1, <1>2, <1>3, ContractsUntouched DEF Restart, rows, history
<1>5. HandlersTyped'
  BY DEF Restart, HandlersTyped, Steps
<1>6. ASSUME NEW r \in Requests
      PROVE  LocalsTyped(r)' /\ LocalsSound(r)'
  BY DEF Restart, LocalsTyped, LocalsSound, AfterDebit
<1> QED
  BY <1>4, <1>5, <1>6 DEF IInv, TypeOK, Sound, RowsSound

\* The invariant holds at the start ...
THEOREM InitSound == Init => IInv
<1> SUFFICES ASSUME Init PROVE IInv
  OBVIOUS
<1>1. RowsTyped /\ NoOverdraft
  <2> DEFINE W == Users \X Classrooms
  <2>1. InitialFunds \in [W -> Nat] /\ wallet = InitialFunds
    BY FreelanceAssumption DEF Init
  <2> HIDE DEF W
  <2>2. wallet \in [W -> Int] /\ \A w \in W : wallet[w] >= 0
    BY <2>1
  <2> QED
    BY <2>2, FreelanceAssumption DEF Init, RowsTyped, NoOverdraft, W
<1>2. HandlersTyped /\ HistoryTyped
  BY FreelanceAssumption DEF Init, HandlersTyped, HistoryTyped, Steps
<1>3. /\ ContractsAreFunded /\ FreelancerKnown
      /\ PaymentsAreEarned /\ CompletedIsPaid
  BY DEF Init, ContractsAreFunded, FreelancerKnown, PaymentsAreEarned,
         CompletedIsPaid
<1>4. \A r \in Requests : LocalsTyped(r) /\ LocalsSound(r)
  BY DEF Init, LocalsTyped, LocalsSound, AfterDebit
<1> QED
  BY <1>1, <1>2, <1>3, <1>4 DEF IInv, TypeOK

\* ... and no step of a handler, of the rest of the program or of a restart
\* breaks it.
THEOREM StepSound == IInv /\ [Next]_vars => IInv'
<1> SUFFICES ASSUME IInv, [Next]_vars PROVE IInv'
  OBVIOUS
<1>1. ASSUME NEW u \in Users, NEW j \in Jobs, CreateJob(u, j) PROVE IInv'
  BY <1>1, CreateJobStep
<1>2. ASSUME NEW r \in Requests, Client(r) \/ Handler(r) PROVE IInv'
  BY <1>2, ClientStep, HandlerSteps
<1>3. CASE Environment
  BY <1>3, OtherDebitStep, ActivateClassroomStep, RestartStep DEF Environment
<1>4. CASE UNCHANGED vars
  <2>1. /\ UNCHANGED <<rows, active, history, events, restarts>>
        /\ UNCHANGED locals
    BY <1>4 DEF vars, rows, locals, history
  <2>2. Sound' /\ Grows
    BY <2>1, NothingWritten DEF IInv, TypeOK, Sound, RowsSound
  <2> QED
    BY <2>1, <2>2, Unhandled
<1> QED
  BY <1>1, <1>2, <1>3, <1>4 DEF Next, Quiet

THEOREM Invariance == Spec => []IInv
BY InitSound, StepSound, PTL DEF Spec

\* Every row, local and history keeps its type: in particular no statement of
\* a handler finds the row it writes missing.
THEOREM TypeCorrectness == Spec => []TypeOK
<1>1. IInv => TypeOK
  BY DEF IInv
<1> QED
  BY <1>1, Invariance, PTL

\* No number of contracts accepted at the same time overdraws a wallet.
THEOREM WalletsNeverOverdrawn == Spec => []NoOverdraft
<1>1. IInv => NoOverdraft
  BY DEF IInv
<1> QED
  BY <1>1, Invariance, PTL

\* Nobody is contracted for free, whatever races and restarts there were.
THEOREM ContractsFunded == Spec => []ContractsAreFunded
<1>1. IInv => ContractsAreFunded
  BY DEF IInv
<1> QED
  BY <1>1, Invariance, PTL

\* ApproveJob, DisputeJob and ReviewJob never dereference a nil FreelancerID.
THEOREM FreelancerNeverNil == Spec => []FreelancerKnown
<1>1. IInv => FreelancerKnown
  BY DEF IInv
<1> QED
  BY <1>1, Invariance, PTL

\* Freelance payments reach only contracted applicants whose work is reported.
THEOREM OnlyEarnedPayments == Spec => []PaymentsAreEarned
<1>1. IInv => PaymentsAreEarned
  BY DEF IInv
<1> QED
  BY <1>1, Invariance, PTL

\* A job counts as completed only after a payment.
THEOREM CompletionPaid == Spec => []CompletedIsPaid
<1>1. IInv => CompletedIsPaid
  BY DEF IInv
<1> QED
  BY <1>1, Invariance, PTL

-----------------------------------------------------------------------------
(* One request at a time *)

\* The job row of the one handler in flight: what it has read, and what it has
\* written of it so far.
Contracted(t) ==
  [t.seen EXCEPT !.freelancer = t.applicant, !.agreed = t.price, !.status = "in_progress"]

Expected(p, t) ==
  IF p = "hold" THEN Contracted(t)
  ELSE IF p \in {"others", "rejectOthers"} THEN [Contracted(t) EXCEPT !.escrow = t.price]
  ELSE IF p \in {"complete", "close"} THEN [t.seen EXCEPT !.escrow = 0]
  ELSE t.seen

\* What it has taken out of the wallets that no job holds.
Transit(p, t) ==
  IF p \in {"accept", "assign", "hold"} THEN t.price
  ELSE IF p \in {"clear", "release"} THEN -t.seen.escrow
  ELSE 0

Unwritten == {"apply", "debit", "accept", "report", "pay", "clear", "dispute", "review", "withdraw"}

Hiring == {"apply", "debit", "accept", "assign", "hold", "others", "rejectOthers"}

Signing == {"assign", "hold", "others", "rejectOthers"}

Cancelling == {"withdraw", "rejectAll", "refund", "release", "close"}

Settling == {"clear", "complete", "release", "close"}

StatusSeen(p, t) ==
  /\ p \in Hiring => t.seen.status = "open"
  /\ p \in {"report", "pay", "clear", "complete", "dispute"} => t.seen.status = "in_progress"
  /\ p = "review" => t.seen.status = "completed"
  /\ p \in Cancelling => t.seen.status \in {"open", "in_progress"}

\* How far it has got with the applications.
AppsMoved(p, t, left) ==
  /\ p \in Unwritten => Tells(t.job, t.seen)
  /\ p \in Signing =>
       /\ t.seen.escrow = 0 /\ t.seen.freelancer = None
       /\ ApplicantsIn(t.job, {"accepted"}) = {t.applicant}
  /\ p \in {"debit", "accept"} \cup Signing => app[<<t.job, t.applicant>>].price = t.price
  /\ p \in {"accept"} \cup Signing => t.price > 0
  /\ p = "rejectOthers" => ApplicantsIn(t.job, {"pending"}) = left /\ left # {}
  /\ p = "complete" => ApplicantsIn(t.job, {"accepted"}) = {t.seen.freelancer}
  /\ p = "rejectAll" => ApplicantsIn(t.job, {"accepted", "pending"}) = left /\ left # {}
  /\ p \in {"rejectAll", "refund"} => t.seen.escrow >= 0
  /\ p \in {"refund", "release", "close"} =>
       ApplicantsIn(t.job, {"accepted", "pending"}) = {}

Telling == \A j \in Jobs : job[j] # None =>
  \/ Tells(j, job[j])
  \/ \E r \in InFlight : task[r].job = j /\ pc[r] \notin Unwritten

Total(k) == InWallets(wallet, k) + InEscrow(k) + InWallets(spent, k)

Start(k) == InWallets(InitialFunds, k)

InTransit(p, t, k) == IF t.seen.room = k THEN Transit(p, t) ELSE 0

Balanced ==
  /\ InFlight = {} => \A k \in Classrooms : Total(k) = Start(k)
  /\ \A r \in InFlight, k \in Classrooms :
       Total(k) + InTransit(pc[r], task[r], k) = Start(k)

SettledOnce ==
  \A j \in Jobs :
    \/ payouts[j] = 0
    \/ payouts[j] = 1 /\ \/ job[j] # None /\ job[j].status \in {"completed", "cancelled"}
                         \/ \E r \in InFlight : task[r].job = j /\ pc[r] \in Settling

\* No other handler is in flight, every job nobody is at work on tells its story,
\* the money adds up, and the handler in flight has done what its place says.
SerialInv ==
  /\ OneByOne
  /\ Telling /\ Balanced /\ SettledOnce
  /\ \A r \in InFlight :
       /\ job[task[r].job] = Expected(pc[r], task[r])
       /\ StatusSeen(pc[r], task[r])
       /\ AppsMoved(pc[r], task[r], todo[r])

-----------------------------------------------------------------------------
(* Sums *)

LEMMA UsersSum ==
  ASSUME NEW F, NEW G, NEW u \in Users, \A v \in Users : F[v] \in Int, G[u] \in Int,
         \A v \in Users : v # u => G[v] = F[v]
  PROVE  SumOf(G, Users) = SumOf(F, Users) - F[u] + G[u]
<1>1. IsFiniteSet(Users)
  BY FreelanceAssumption
<1>. QED  BY <1>1, SumWrite

\* What a statement on one wallet does to the sum of a classroom.
LEMMA WalletsChange ==
  ASSUME NEW f, NEW u \in Users, NEW g, NEW k,
         \A v \in Users : f[<<v, k>>] \in Int, g[<<u, k>>] \in Int,
         \A v \in Users : v # u => g[<<v, k>>] = f[<<v, k>>]
  PROVE  InWallets(g, k) = InWallets(f, k) - f[<<u, k>>] + g[<<u, k>>]
<1> DEFINE F == [v \in Users |-> f[<<v, k>>]]
           G == [v \in Users |-> g[<<v, k>>]]
<1>1. \A v \in Users : F[v] \in Int
  OBVIOUS
<1>2. G[u] = g[<<u, k>>] /\ F[u] = f[<<u, k>>]
  OBVIOUS
<1>3. InWallets(f, k) = SumOf(F, Users) /\ InWallets(g, k) = SumOf(G, Users)
  BY Zenon DEF InWallets
<1>4. IsFiniteSet(Users)
  BY FreelanceAssumption
<1>5. \A v \in Users : v # u => G[v] = F[v]
  OBVIOUS
<1>6. G[u] \in Int
  OBVIOUS
<1> HIDE DEF F, G
<1>7. SumOf(G, Users) = SumOf(F, Users) - F[u] + G[u]
  BY <1>1, <1>5, <1>6, UsersSum
<1>. QED  BY <1>2, <1>3, <1>7

LEMMA WalletsInt ==
  ASSUME NEW f \in [Users \X Classrooms -> Int], NEW k \in Classrooms
  PROVE  InWallets(f, k) \in Int
<1> DEFINE F == [v \in Users |-> f[<<v, k>>]]
<1>1. \A v \in Users : F[v] \in Int
  OBVIOUS
<1>2. InWallets(f, k) = SumOf(F, Users)
  BY Zenon DEF InWallets
<1> HIDE DEF F
<1>. QED  BY <1>1, <1>2, SumIsInt, FreelanceAssumption

\* The escrow of a set of rows, before and after one of them is written.
LEMMA EscrowInt ==
  ASSUME RowsTyped, NEW k \in Classrooms
  PROVE  InEscrow(k) \in Int
<1> DEFINE S == JobsIn(k)  F == [j \in S |-> job[j].escrow]
<1>1. \A j \in S : F[j] \in Int
  BY DEF RowsTyped, JobsIn, Job
<1>2. IsFiniteSet(S)
  BY FreelanceAssumption, FS_Subset DEF JobsIn
<1>3. InEscrow(k) = SumOf(F, S)
  BY Zenon DEF InEscrow
<1> HIDE DEF F, S
<1>. QED  BY <1>1, <1>2, <1>3, SumIsInt

LEMMA EscrowMoves ==
  ASSUME RowsTyped, NEW j \in Jobs, job[j] # None, NEW row \in Job,
         job' = [job EXCEPT ![j] = row], row.room = job[j].room, NEW k \in Classrooms
  PROVE  InEscrow(k)' = InEscrow(k) + (IF k = row.room THEN row.escrow - job[j].escrow ELSE 0)
<1> PICK S : S = JobsIn(k)
  OBVIOUS
<1>1. JobsIn(k)' = S
  BY NoneAssumption DEF JobsIn, RowsTyped
<1> PICK f : f = [i \in S |-> job[i].escrow]
  OBVIOUS
<1> PICK g : g = [i \in S |-> job'[i].escrow]
  OBVIOUS
<1>2. InEscrow(k) = SumOf(f, S) /\ InEscrow(k)' = SumOf(g, S)
  BY <1>1 DEF InEscrow
<1>3. S \subseteq Jobs /\ IsFiniteSet(S) /\ (j \in S <=> k = row.room)
  BY FreelanceAssumption, FS_Subset DEF JobsIn
<1>4. \A i \in S : f[i] \in Int /\ (i # j => g[i] = f[i])
  BY <1>3 DEF RowsTyped, JobsIn, Job
<1>5. j \in S => g[j] = row.escrow /\ f[j] = job[j].escrow /\ g[j] \in Int
  BY <1>3 DEF RowsTyped, Job
<1>6. SumOf(f, S) \in Int
  BY <1>3, <1>4, SumIsInt
<1>7. CASE j \in S
  <2>1. SumOf(g, S) = SumOf(f, S) - f[j] + g[j]
    BY <1>3, <1>4, <1>5, <1>7, SumWrite
  <2>. QED  BY <1>2, <1>3, <1>4, <1>5, <1>6, <1>7, <2>1
<1>8. CASE j \notin S
  <2>1. \A i \in S : f[i] \in Int /\ f[i] = g[i]
    BY <1>4, <1>8
  <2>2. SumOf(f, S) = SumOf(g, S)
    BY <1>3, <2>1, SumsAgree
  <2>. QED  BY <1>2, <1>3, <1>6, <1>8, <2>2
<1>. QED  BY <1>7, <1>8

\* A new job holds nothing.
LEMMA EscrowStarts ==
  ASSUME RowsTyped, NEW j \in Jobs, job[j] = None, NEW row \in Job, row.escrow = 0,
         job' = [job EXCEPT ![j] = row], NEW k \in Classrooms
  PROVE  InEscrow(k)' = InEscrow(k)
<1> DEFINE S == JobsIn(k)
           T == JobsIn(k)'
           f == [i \in S |-> job[i].escrow]
           g == [i \in T |-> job'[i].escrow]
<1>1. InEscrow(k) = SumOf(f, S) /\ InEscrow(k)' = SumOf(g, T)
  BY DEF InEscrow
<1>2. S \subseteq Jobs /\ IsFiniteSet(S) /\ j \notin S /\ T = (IF row.room = k THEN S \cup {j} ELSE S)
  BY FreelanceAssumption, NoneAssumption, FS_Subset DEF JobsIn, RowsTyped
<1>3. \A i \in S : f[i] \in Int /\ g[i] = f[i]
  BY <1>2 DEF RowsTyped, JobsIn, Job
<1>4. row.room = k => g[j] = 0
  BY <1>2 DEF RowsTyped
<1> HIDE DEF S, T, f, g
<1>5. CASE row.room = k
  <2>1. /\ T = S \cup {j} /\ IsFiniteSet(S) /\ j \notin S /\ g[j] \in Int
        /\ \A i \in S : f[i] \in Int /\ g[i] = f[i]
    BY <1>2, <1>3, <1>4, <1>5
  <2>2. SumOf(g, T) = SumOf(f, S) + g[j]
    BY <2>1, SumInsert
  <2>3. SumOf(f, S) \in Int
    BY <2>1, SumIsInt
  <2>. QED  BY <1>1, <1>4, <1>5, <2>2, <2>3
<1>6. CASE row.room # k
  <2>1. SumOf(f, S) = SumOf(g, S)
    <3>1. \A i \in S : f[i] \in Int /\ f[i] = g[i]
      BY <1>3
    <3>. QED  BY <1>2, <3>1, SumsAgree, Zenon
  <2>. QED  BY <1>1, <1>2, <1>6, <2>1
<1>. QED  BY <1>5, <1>6

\* Credits, debits and the spendings of other handlers.
LEMMA Moved ==
  ASSUME RowsTyped, NEW u \in Users, NEW c \in Classrooms, NEW n \in Int,
         Credit(<<u, c>>, n), NEW k \in Classrooms
  PROVE  InWallets(wallet, k)' = InWallets(wallet, k) + (IF k = c THEN n ELSE 0)
<1>1. wallet \in [Users \X Classrooms -> Int] /\ wallet' = [wallet EXCEPT ![<<u, c>>] = @ + n]
  BY DEF RowsTyped, Credit
<1> PICK g : g = wallet'
  OBVIOUS
<1>2. /\ \A v \in Users : wallet[<<v, k>>] \in Int
      /\ \A v \in Users : v # u => g[<<v, k>>] = wallet[<<v, k>>]
  BY <1>1
<1>3. g[<<u, k>>] = wallet[<<u, k>>] + (IF k = c THEN n ELSE 0)
  BY <1>1
<1>4. g[<<u, k>>] \in Int
  BY <1>2, <1>3
<1>5. InWallets(g, k) = InWallets(wallet, k) - wallet[<<u, k>>] + g[<<u, k>>]
  BY <1>2, <1>4, WalletsChange
<1>6. InWallets(wallet, k) \in Int
  BY <1>1, WalletsInt
<1>7. InWallets(wallet, k)' = InWallets(g, k)
  BY DEF InWallets
<1>. QED  BY <1>2, <1>3, <1>5, <1>6, <1>7

-----------------------------------------------------------------------------
(* What a step of the one handler has to show *)

\* Applications of a job nobody has touched tell the same story.
LEMMA TellsSame ==
  ASSUME NEW CONSTANT j, NEW CONSTANT o, Tells(j, o),
         \A u \in Users : app'[<<j, u>>] = app[<<j, u>>]
  PROVE  Tells(j, o)'
<1>1. \A S : ApplicantsIn(j, S)' = ApplicantsIn(j, S)
  BY DEF ApplicantsIn
<1>2. ApplicantsIn(j, {"accepted"}) \subseteq Users
  BY DEF ApplicantsIn
<1>. QED  BY <1>1, <1>2 DEF Tells

LEMMA OneBusy ==
  ASSUME OneByOne, NEW r \in InFlight
  PROVE  InFlight = {r}
BY DEF OneByOne

\* Other jobs, their applications and their settlements stay as they are.
Elsewhere(j) ==
  \A i \in Jobs \ {j} : /\ job'[i] = job[i] /\ payouts'[i] = payouts[i]
                        /\ \A u \in Users : app'[<<i, u>>] = app[<<i, u>>]

\* The handler goes on at p.
GoesOn(r, t, p, left) ==
  /\ t = task[r] /\ t \in Task /\ UNCHANGED task
  /\ pc' = [pc EXCEPT ![r] = p] /\ p # "idle" /\ todo'[r] = left
  /\ Elsewhere(t.job)
  /\ job'[t.job] = Expected(p, t) /\ StatusSeen(p, t) /\ AppsMoved(p, t, left)'
  /\ payouts'[t.job] = 0 \/ (payouts'[t.job] = 1 /\ p \in Settling)
  /\ \A k \in Classrooms : Total(k)' + InTransit(p, t, k) = Start(k)

LEMMA StillBusy ==
  ASSUME IInv, SerialInv, OneByOne', NEW r \in InFlight,
         NEW CONSTANT t, NEW CONSTANT p, NEW CONSTANT left, GoesOn(r, t, p, left)
  PROVE  SerialInv'
<1> PICK j : j = t.job
  OBVIOUS
<1> USE DEF GoesOn, Elsewhere
<1>1. r \in Requests /\ InFlight = {r} /\ pc \in [Requests -> Steps]
  BY OneBusy DEF SerialInv, InFlight, IInv, TypeOK, HandlersTyped
<1>2. InFlight' = {r} /\ pc'[r] = p /\ task'[r] = t
  BY <1>1 DEF InFlight
<1>3. Telling'
  <2> SUFFICES ASSUME NEW i \in Jobs, job'[i] # None
               PROVE  Tells(i, job[i])' \/ \E q \in InFlight' : task'[q].job = i /\ pc'[q] \notin Unwritten
    BY DEF Telling
  <2>1. CASE i = j /\ p \notin Unwritten
    BY <1>2, <2>1
  <2>2. CASE i = j /\ p \in Unwritten
    <3>1. job'[j] = t.seen
      BY <2>2 DEF Expected, Unwritten
    <3>2. Tells(j, t.seen)'
      BY <2>2 DEF AppsMoved
    <3>. QED  BY <2>2, <3>1, <3>2 DEF Tells
  <2>3. CASE i # j
    <3> PICK o : o = job[i]
      OBVIOUS
    <3>1. Tells(i, o) /\ job'[i] = o
      BY <1>1, <2>3 DEF SerialInv, Telling
    <3>2. Tells(i, o)'
      BY <2>3, <3>1, TellsSame
    <3>. QED  BY <3>1, <3>2 DEF Tells
  <2>. QED  BY <2>1, <2>2, <2>3
<1>4. Balanced'
  BY <1>2 DEF Balanced, Start, InWallets, InTransit, Transit
<1>5. SettledOnce'
  <2> SUFFICES ASSUME NEW i \in Jobs
               PROVE  \/ payouts'[i] = 0
                      \/ payouts'[i] = 1 /\ \/ job'[i] # None /\ job'[i].status \in {"completed", "cancelled"}
                                            \/ \E q \in InFlight' : task'[q].job = i /\ pc'[q] \in Settling
    BY DEF SettledOnce
  <2>1. CASE i = j
    BY <1>2, <2>1
  <2>2. CASE i # j
    BY <1>1, <2>2 DEF SerialInv, SettledOnce
  <2>. QED  BY <2>1, <2>2
<1>6. \A q \in InFlight' : /\ job'[task'[q].job] = Expected(pc'[q], task'[q])
                           /\ StatusSeen(pc'[q], task'[q])
  BY <1>2
<1>7. \A q \in InFlight' : q = r /\ pc'[q] = p /\ task'[q] = t /\ todo'[q] = left
  BY <1>2
<1>8. \A q \in InFlight' : AppsMoved(pc[q], task[q], todo[q])'
  <2>1. AppsMoved(pc[r], task[r], todo[r])'
    BY <1>2 DEF AppsMoved, Tells, ApplicantsIn
  <2>. QED  BY <1>2, <2>1
<1>. QED  BY <1>3, <1>4, <1>5, <1>6, <1>8 DEF SerialInv, Expected, Contracted, StatusSeen

\* The handler has answered.
Ends(r, t, o) ==
  /\ t = task[r] /\ t \in Task /\ pc' = [pc EXCEPT ![r] = "idle"]
  /\ Elsewhere(t.job)
  /\ job'[t.job] = o /\ Tells(t.job, o)'
  /\ \/ payouts'[t.job] = 0
     \/ payouts'[t.job] = 1 /\ o # None /\ o.status \in {"completed", "cancelled"}
  /\ \A k \in Classrooms : Total(k)' = Start(k)

LEMMA NowIdle ==
  ASSUME IInv, SerialInv, OneByOne', NEW r \in InFlight,
         NEW CONSTANT t, NEW CONSTANT o, Ends(r, t, o)
  PROVE  SerialInv'
<1> PICK j : j = t.job
  OBVIOUS
<1> USE DEF Ends, Elsewhere
<1>1. r \in Requests /\ InFlight = {r} /\ pc \in [Requests -> Steps]
  BY OneBusy DEF SerialInv, InFlight, IInv, TypeOK, HandlersTyped
<1>2. InFlight' = {}
  BY <1>1 DEF InFlight
<1>3. Telling'
  <2> SUFFICES ASSUME NEW i \in Jobs, job'[i] # None
               PROVE  Tells(i, job[i])'
    BY DEF Telling
  <2>1. CASE i = j
    BY <2>1 DEF Tells
  <2>2. CASE i # j
    <3> PICK x : x = job[i]
      OBVIOUS
    <3>1. Tells(i, x) /\ job'[i] = x
      BY <1>1, <2>2 DEF SerialInv, Telling
    <3>2. Tells(i, x)'
      BY <2>2, <3>1, TellsSame
    <3>. QED  BY <3>1, <3>2 DEF Tells
  <2>. QED  BY <2>1, <2>2
<1>4. Balanced'
  BY <1>2 DEF Balanced, Start, InWallets
<1>5. SettledOnce'
  <2> SUFFICES ASSUME NEW i \in Jobs
               PROVE  \/ payouts'[i] = 0
                      \/ payouts'[i] = 1 /\ job'[i] # None /\ job'[i].status \in {"completed", "cancelled"}
    BY DEF SettledOnce
  <2>1. CASE i = j
    BY <2>1
  <2>2. CASE i # j
    BY <1>1, <2>2 DEF SerialInv, SettledOnce
  <2>. QED  BY <2>1, <2>2
<1>. QED  BY <1>2, <1>3, <1>4, <1>5 DEF SerialInv

\* A request whose job was read and judged.
Judged == {"apply", "debit", "report", "pay", "dispute", "review", "withdraw"}

LEMMA NowBusy ==
  ASSUME IInv, SerialInv, OneByOne', NEW r \in Requests, InFlight = {},
         NEW CONSTANT t, t \in Task, task'[r] = t, job[t.job] = t.seen,
         NEW CONSTANT p \in Judged, pc' = [pc EXCEPT ![r] = p],
         UNCHANGED <<rows, history>>, StatusSeen(p, t),
         p = "debit" => app[<<t.job, t.applicant>>].price = t.price
  PROVE  SerialInv'
<1>1. pc \in [Requests -> Steps] /\ t.job \in Jobs /\ t.seen # None /\ p # "idle"
  BY NoneAssumption DEF IInv, TypeOK, HandlersTyped, Task, Judged
<1>2. InFlight' = {r} /\ pc'[r] = p /\ task'[r] = t
  BY <1>1 DEF InFlight
<1>3. Tells(t.job, t.seen)
  BY <1>1 DEF SerialInv, Telling
<1>4. Telling' /\ SettledOnce'
  BY <1>2 DEF SerialInv, Telling, SettledOnce, rows, history, Tells, ApplicantsIn
<1>5. Balanced'
  <2>1. \A k \in Classrooms : Total(k)' = Total(k)
    BY DEF Total, InWallets, InEscrow, JobsIn, rows, history
  <2>2. \A k \in Classrooms : Total(k) = Start(k) /\ Start(k) \in Int
    <3>1. InitialFunds \in [Users \X Classrooms -> Int]
      BY FreelanceAssumption
    <3>. QED  BY <3>1, WalletsInt DEF SerialInv, Balanced, Start
  <2>3. \A k \in Classrooms : InTransit(p, t, k) = 0
    BY DEF InTransit, Transit, Judged
  <2>4. \A k \in Classrooms : Total(k)' + InTransit(p, t, k) = Start(k)
    BY <2>1, <2>2, <2>3
  <2>. QED  BY <1>2, <2>4 DEF Balanced, Start, InWallets, InTransit, Transit
<1>6. t.seen = Expected(p, t) /\ AppsMoved(p, t, {})
  BY <1>3 DEF Expected, Judged, AppsMoved, Unwritten, Signing
<1>7. \A q \in InFlight' : /\ job'[task'[q].job] = Expected(pc'[q], task'[q])
                           /\ StatusSeen(pc'[q], task'[q])
  BY <1>2, <1>6 DEF rows
<1>8. \A q \in InFlight' : AppsMoved(pc[q], task[q], todo[q])'
  <2>1. AppsMoved(p, t, {})'
    BY <1>6 DEF AppsMoved, Tells, ApplicantsIn, rows
  <2>2. AppsMoved(pc[r], task[r], todo[r])'
    BY <1>2, <2>1 DEF AppsMoved, Tells, ApplicantsIn, Judged, Signing
  <2>. QED  BY <1>2, <2>2
<1>. QED  BY <1>4, <1>5, <1>7, <1>8 DEF SerialInv, Expected, Contracted, StatusSeen

-----------------------------------------------------------------------------
(* The steps, one request at a time *)

LEMMA Knows ==
  ASSUME IInv, SerialInv, NEW r \in InFlight
  PROVE  /\ r \in Requests /\ task[r] \in Task /\ task[r].job \in Jobs /\ task[r].seen \in Job
         /\ task[r].price \in Int /\ task[r].applicant \in Users /\ pc[r] \in Steps
         /\ todo[r] \subseteq Users
         /\ job[task[r].job] = Expected(pc[r], task[r]) /\ job[task[r].job] \in Job
         /\ StatusSeen(pc[r], task[r]) /\ AppsMoved(pc[r], task[r], todo[r])
         /\ \A k \in Classrooms : Total(k) + InTransit(pc[r], task[r], k) = Start(k)
         /\ \/ payouts[task[r].job] = 0
            \/ /\ payouts[task[r].job] = 1
               /\ \/ job[task[r].job].status \in {"completed", "cancelled"}
                  \/ pc[r] \in Settling
<1>1. r \in Requests /\ pc[r] # "idle" /\ pc[r] \in Steps /\ InFlight = {r}
  BY OneBusy DEF InFlight, IInv, TypeOK, HandlersTyped, SerialInv
<1>2. task[r] \in Task /\ job[task[r].job] \in Job /\ todo[r] \subseteq Users
  BY <1>1 DEF IInv, TypeOK, LocalsTyped, Row, HandlersTyped
<1>3. /\ job[task[r].job] = Expected(pc[r], task[r])
      /\ StatusSeen(pc[r], task[r]) /\ AppsMoved(pc[r], task[r], todo[r])
      /\ \A k \in Classrooms : Total(k) + InTransit(pc[r], task[r], k) = Start(k)
  BY DEF SerialInv, Balanced
<1>4. task[r].job \in Jobs /\ task[r].seen \in Job /\ task[r].price \in Int
      /\ task[r].applicant \in Users
  BY <1>2 DEF Task
<1>5. \/ payouts[task[r].job] = 0
      \/ /\ payouts[task[r].job] = 1
         /\ \/ job[task[r].job].status \in {"completed", "cancelled"}
            \/ pc[r] \in Settling
  BY <1>1, <1>4 DEF SerialInv, SettledOnce
<1>. QED  BY <1>1, <1>2, <1>3, <1>4, <1>5

LEMMA TotalInt ==
  ASSUME RowsTyped, HistoryTyped, NEW k \in Classrooms
  PROVE  /\ Total(k) \in Int /\ Start(k) \in Int
         /\ InWallets(wallet, k) \in Int /\ InEscrow(k) \in Int /\ InWallets(spent, k) \in Int
<1>1. /\ wallet \in [Users \X Classrooms -> Int] /\ spent \in [Users \X Classrooms -> Int]
      /\ InitialFunds \in [Users \X Classrooms -> Int]
  BY FreelanceAssumption DEF RowsTyped, HistoryTyped
<1>2. InWallets(wallet, k) \in Int /\ InWallets(spent, k) \in Int /\ Start(k) \in Int
  BY <1>1, WalletsInt DEF Start
<1>3. InEscrow(k) \in Int
  BY EscrowInt
<1>. QED  BY <1>2, <1>3 DEF Total

LEMMA TotalSame ==
  ASSUME UNCHANGED <<wallet, job, spent>>
  PROVE  \A k \in Classrooms : Total(k)' = Total(k)
BY DEF Total, InWallets, InEscrow, JobsIn

LEMMA TotalJob ==
  ASSUME RowsTyped, HistoryTyped, UNCHANGED <<wallet, spent>>, NEW j \in Jobs, job[j] # None,
         NEW row \in Job, job' = [job EXCEPT ![j] = row], row.room = job[j].room,
         NEW k \in Classrooms
  PROVE  Total(k)' = Total(k) + (IF k = row.room THEN row.escrow - job[j].escrow ELSE 0)
<1>1. InWallets(wallet, k)' = InWallets(wallet, k) /\ InWallets(spent, k)' = InWallets(spent, k)
  BY DEF InWallets
<1>2. InEscrow(k)' = InEscrow(k) + (IF k = row.room THEN row.escrow - job[j].escrow ELSE 0)
  BY EscrowMoves
<1>3. Total(k)' = InWallets(wallet, k)' + InEscrow(k)' + InWallets(spent, k)'
  BY DEF Total
<1>4. row.escrow \in Int /\ job[j].escrow \in Int
  BY DEF RowsTyped, Job
<1>. QED  BY <1>1, <1>2, <1>3, <1>4, TotalInt DEF Total

LEMMA TotalWallet ==
  ASSUME RowsTyped, HistoryTyped, UNCHANGED <<job, spent>>, NEW u \in Users, NEW c \in Classrooms,
         NEW n \in Int, Credit(<<u, c>>, n), NEW k \in Classrooms
  PROVE  Total(k)' = Total(k) + (IF k = c THEN n ELSE 0)
<1>1. InEscrow(k)' = InEscrow(k) /\ InWallets(spent, k)' = InWallets(spent, k)
  BY DEF InWallets, InEscrow, JobsIn
<1>2. InWallets(wallet, k)' = InWallets(wallet, k) + (IF k = c THEN n ELSE 0)
  BY Moved
<1>3. Total(k)' = InWallets(wallet, k)' + InEscrow(k)' + InWallets(spent, k)'
  BY DEF Total
<1>. QED  BY <1>1, <1>2, <1>3, TotalInt DEF Total

LEMMA DebitIsCredit ==
  ASSUME RowsTyped, NEW w \in Users \X Classrooms, NEW n \in Int, Debit(w, n)
  PROVE  Credit(w, -n)
<1>1. wallet[w] - n = wallet[w] + (-n)
  BY DEF RowsTyped
<1>. QED  BY <1>1 DEF Debit, Credit

\* An UPDATE of the job's row, and on.
Updates(r, t, from, row, to) ==
  /\ UpdateJob(r, from, row, to) /\ to # "idle" /\ t = task[r]
  /\ row \in Job /\ row = Expected(to, t)
  /\ row.room = t.seen.room /\ job[t.job].room = t.seen.room
  /\ StatusSeen(to, t) /\ AppsMoved(to, t, todo[r])
  /\ payouts[t.job] = 0 \/ (payouts[t.job] = 1 /\ to \in Settling)
  /\ row.escrow - job[t.job].escrow + Transit(to, t) = Transit(from, t)
  /\ Transit(to, t) \in Int

LEMMA UpdateSerial ==
  ASSUME IInv, SerialInv, OneByOne', NEW r \in InFlight, NEW CONSTANT from, NEW CONSTANT row,
         NEW CONSTANT to, NEW CONSTANT t, Updates(r, t, from, row, to)
  PROVE  SerialInv'
<1> USE DEF Updates
<1> PICK j : j = t.job
  OBVIOUS
<1> PICK left : left = todo[r]
  OBVIOUS
<1>1. /\ pc' = [pc EXCEPT ![r] = to] /\ job' = [job EXCEPT ![j] = row] /\ pc[r] = from
      /\ UNCHANGED <<app, wallet, task, todo, payouts, spent>>
  BY DEF UpdateJob, Goto, history
<1>2. j \in Jobs /\ job[j] \in Job /\ t \in Task /\ RowsTyped /\ HistoryTyped
      /\ \A k \in Classrooms : Total(k) + InTransit(from, t, k) = Start(k)
  BY <1>1, Knows DEF IInv, TypeOK
<1>3. job'[j] = row /\ \A i \in Jobs \ {j} : job'[i] = job[i]
  BY <1>1, <1>2 DEF RowsTyped
<1>4. AppsMoved(to, t, left)'
  BY <1>1 DEF AppsMoved, Tells, ApplicantsIn
<1>5. \A k \in Classrooms : Total(k)' + InTransit(to, t, k) = Start(k)
  <2> TAKE k \in Classrooms
  <2>1. Total(k)' = Total(k) + (IF k = row.room THEN row.escrow - job[j].escrow ELSE 0)
    <3>1. UNCHANGED <<wallet, spent>> /\ job' = [job EXCEPT ![j] = row]
      BY <1>1
    <3>2. RowsTyped /\ HistoryTyped /\ j \in Jobs /\ job[j] # None /\ row.room = job[j].room
      BY <1>2, NoneAssumption
    <3>. QED  BY <3>1, <3>2, TotalJob, Zenon
  <2>2. Total(k) \in Int /\ Total(k) + InTransit(from, t, k) = Start(k) /\ row.escrow \in Int
        /\ job[j].escrow \in Int
    BY <1>2, TotalInt DEF Job
  <2>. QED  BY <2>1, <2>2 DEF InTransit
<1>6. \A i \in Jobs \ {j} : /\ job'[i] = job[i] /\ payouts'[i] = payouts[i]
                             /\ \A u \in Users : app'[<<i, u>>] = app[<<i, u>>]
  BY <1>1, <1>3
<1>7. /\ todo'[r] = left /\ UNCHANGED task /\ job'[j] = Expected(to, t)
      /\ payouts'[j] = 0 \/ (payouts'[j] = 1 /\ to \in Settling)
  BY <1>1, <1>3
<1>8. GoesOn(r, t, to, left)
  BY <1>1, <1>2, <1>4, <1>5, <1>6, <1>7 DEF GoesOn, Elsewhere
<1>. QED  BY <1>8, StillBusy

\* The last UPDATE.
Finishes(r, t, from, row) ==
  /\ FinishJob(r, from, row) /\ t = task[r] /\ row \in Job
  /\ row.room = t.seen.room /\ job[t.job].room = t.seen.room /\ Tells(t.job, row)
  /\ payouts[t.job] = 0 \/ (payouts[t.job] = 1 /\ row.status \in {"completed", "cancelled"})
  /\ row.escrow - job[t.job].escrow = Transit(from, t)

LEMMA FinishSerial ==
  ASSUME IInv, SerialInv, OneByOne', NEW r \in InFlight, NEW CONSTANT from, NEW CONSTANT row,
         NEW CONSTANT t, Finishes(r, t, from, row)
  PROVE  SerialInv'
<1> USE DEF Finishes
<1> PICK j : j = t.job
  OBVIOUS
<1>1. /\ pc' = [pc EXCEPT ![r] = "idle"] /\ job' = [job EXCEPT ![j] = row] /\ pc[r] = from
      /\ UNCHANGED <<app, wallet, payouts, spent>>
  BY DEF FinishJob, Return, Goto, history
<1>2. j \in Jobs /\ job[j] \in Job /\ t \in Task /\ RowsTyped /\ HistoryTyped
      /\ \A k \in Classrooms : Total(k) + InTransit(from, t, k) = Start(k)
  BY <1>1, Knows DEF IInv, TypeOK
<1>3. job'[j] = row /\ row # None /\ \A i \in Jobs \ {j} : job'[i] = job[i]
  BY <1>1, <1>2, NoneAssumption DEF RowsTyped
<1>4. Tells(j, row)'
  BY <1>1, TellsSame
<1>5. \A k \in Classrooms : Total(k)' = Start(k)
  <2> TAKE k \in Classrooms
  <2>1. Total(k)' = Total(k) + (IF k = row.room THEN row.escrow - job[j].escrow ELSE 0)
    <3>1. UNCHANGED <<wallet, spent>> /\ job' = [job EXCEPT ![j] = row]
      BY <1>1
    <3>2. RowsTyped /\ HistoryTyped /\ j \in Jobs /\ job[j] # None /\ row.room = job[j].room
      BY <1>2, NoneAssumption
    <3>. QED  BY <3>1, <3>2, TotalJob, Zenon
  <2>2. Total(k) \in Int /\ Total(k) + InTransit(from, t, k) = Start(k) /\ row.escrow \in Int
        /\ job[j].escrow \in Int
    BY <1>2, TotalInt DEF Job
  <2>. QED  BY <2>1, <2>2 DEF InTransit
<1>6. Ends(r, t, row)
  BY <1>1, <1>2, <1>3, <1>4, <1>5 DEF Ends, Elsewhere
<1>. QED  BY <1>6, NowIdle

-----------------------------------------------------------------------------
(* Steps that leave the job's row and the wallets alone *)

\* On to p, with `left` of the applications still to reject.
Proceeds(r, t, p, left) ==
  /\ t = task[r] /\ UNCHANGED task
  /\ pc' = [pc EXCEPT ![r] = p] /\ p # "idle" /\ todo'[r] = left
  /\ UNCHANGED <<job, wallet, payouts, spent>>
  /\ \A i \in Jobs \ {t.job}, u \in Users : app'[<<i, u>>] = app[<<i, u>>]
  /\ Expected(p, t) = Expected(pc[r], t) /\ Transit(p, t) = Transit(pc[r], t)
  /\ StatusSeen(p, t) /\ AppsMoved(p, t, left)'
  /\ job[t.job].status \in {"open", "in_progress"} /\ pc[r] \notin Settling

LEMMA ProceedsSerial ==
  ASSUME IInv, SerialInv, OneByOne', NEW r \in InFlight,
         NEW CONSTANT t, NEW CONSTANT p, NEW CONSTANT left, Proceeds(r, t, p, left)
  PROVE  SerialInv'
<1> USE DEF Proceeds
<1>1. /\ t \in Task /\ job[t.job] = Expected(pc[r], t)
      /\ \A k \in Classrooms : Total(k) + InTransit(pc[r], t, k) = Start(k)
      /\ payouts[t.job] = 0
  BY Knows
<1>2. \A k \in Classrooms : Total(k)' = Total(k)
  BY TotalSame
<1>3. \A k \in Classrooms : Total(k)' + InTransit(p, t, k) = Start(k)
  BY <1>1, <1>2 DEF InTransit
<1>4. Elsewhere(t.job)
  BY DEF Elsewhere
<1>5. GoesOn(r, t, p, left)
  BY <1>1, <1>3, <1>4 DEF GoesOn
<1>. QED  BY <1>5, StillBusy

\* The answer of a handler whose row, o, tells what the applications say.
Answers(r, t, o) ==
  /\ t = task[r] /\ o = Expected(pc[r], t) /\ pc' = [pc EXCEPT ![r] = "idle"]
  /\ UNCHANGED <<job, wallet, payouts, spent>>
  /\ \A i \in Jobs \ {t.job}, u \in Users : app'[<<i, u>>] = app[<<i, u>>]
  /\ Tells(t.job, o)' /\ Transit(pc[r], t) = 0 /\ pc[r] \notin Settling

LEMMA AnswersSerial ==
  ASSUME IInv, SerialInv, OneByOne', NEW r \in InFlight, NEW CONSTANT t, NEW CONSTANT o,
         Answers(r, t, o)
  PROVE  SerialInv'
<1> USE DEF Answers
<1>1. /\ t \in Task /\ o = job[t.job] /\ o \in Job
      /\ \A k \in Classrooms : Total(k) + InTransit(pc[r], t, k) = Start(k)
      /\ payouts[t.job] = 0 \/ (payouts[t.job] = 1 /\ o.status \in {"completed", "cancelled"})
  BY Knows
<1>2. \A k \in Classrooms : Total(k)' = Total(k) /\ Total(k) \in Int
  BY TotalSame, TotalInt DEF IInv, TypeOK
<1>3. \A k \in Classrooms : Total(k)' = Start(k)
  BY <1>1, <1>2 DEF InTransit
<1>4. Elsewhere(t.job) /\ o # None
  BY <1>1, NoneAssumption DEF Elsewhere
<1>5. Ends(r, t, o)
  BY <1>1, <1>3, <1>4 DEF Ends
<1>. QED  BY <1>5, NowIdle

\* An application is rejected.
LEMMA Rejected ==
  ASSUME RowsTyped, NEW CONSTANT j \in Jobs, NEW CONSTANT u \in Users,
         app[<<j, u>>] \in Application,
         app' = [app EXCEPT ![<<j, u>>].status = "rejected"]
  PROVE  /\ \A S \in SUBSET {"accepted", "pending"} :
              ApplicantsIn(j, S)' = ApplicantsIn(j, S) \ {u}
         /\ \A v \in Users : app'[<<j, v>>].price = app[<<j, v>>].price
         /\ \A i \in Jobs \ {j}, v \in Users : app'[<<i, v>>] = app[<<i, v>>]
<1>1. /\ app'[<<j, u>>] = [app[<<j, u>>] EXCEPT !.status = "rejected"]
      /\ \A x \in Jobs \X Users : x # <<j, u>> => app'[x] = app[x]
  BY DEF RowsTyped
<1>2. app'[<<j, u>>] # None /\ app'[<<j, u>>].status = "rejected"
      /\ app'[<<j, u>>].price = app[<<j, u>>].price
  BY <1>1, NoneAssumption DEF Application, AppStatus
<1>3. \A v \in Users : app'[<<j, v>>].price = app[<<j, v>>].price
  BY <1>1, <1>2
<1>4. \A S \in SUBSET {"accepted", "pending"} : "rejected" \notin S
  OBVIOUS
<1>5. \A S \in SUBSET {"accepted", "pending"} : ApplicantsIn(j, S)' = ApplicantsIn(j, S) \ {u}
  BY <1>1, <1>2, <1>4 DEF ApplicantsIn
<1>. QED  BY <1>1, <1>3, <1>5

LEMMA CreateApplicationSerial ==
  ASSUME IInv, SerialInv, OneByOne', NEW r \in InFlight, CreateApplication(r)
  PROVE  SerialInv'
<1> PICK t : t = task[r]
  OBVIOUS
<1> PICK o : o = Expected("apply", t)
  OBVIOUS
<1>1. /\ t.job \in Jobs /\ t.applicant \in Users /\ pc[r] = "apply" /\ o = t.seen
      /\ Tells(t.job, o) /\ o.status = "open" /\ RowsTyped
  BY Knows DEF CreateApplication, Expected, StatusSeen, AppsMoved, Unwritten, Hiring, IInv, TypeOK
<1>2. /\ UNCHANGED <<job, wallet, payouts, spent>> /\ pc' = [pc EXCEPT ![r] = "idle"]
      /\ app' = [app EXCEPT ![<<t.job, t.applicant>>] =
           IF @ = None THEN [price |-> t.price, status |-> "pending"] ELSE @]
  BY DEF CreateApplication, Return, Goto, ApplicationOf, history
<1>3. \A i \in Jobs, u \in Users :
        \/ app'[<<i, u>>] = app[<<i, u>>]
        \/ i = t.job /\ app'[<<i, u>>].status = "pending"
  BY <1>1, <1>2 DEF RowsTyped
<1>4. ApplicantsIn(t.job, {"accepted"})' = {}
  BY <1>1, <1>3 DEF Tells, ApplicantsIn
<1>5. Tells(t.job, o)'
  BY <1>1, <1>4 DEF Tells
<1>6. Answers(r, t, o)
  BY <1>1, <1>2, <1>3, <1>5 DEF Answers, Transit, Settling
<1>. QED  BY <1>6, AnswersSerial

\* A refusal, or the last answer of a handler that wrote nothing.
Refuses(r) ==
  /\ pc[r] \in Unwritten /\ pc[r] \notin Settling \cup {"accept"}
  /\ pc' = [pc EXCEPT ![r] = "idle"] /\ UNCHANGED <<job, app, wallet, payouts, spent>>

LEMMA RefusesSerial ==
  ASSUME IInv, SerialInv, OneByOne', NEW r \in InFlight, Refuses(r)
  PROVE  SerialInv'
<1> USE DEF Refuses
<1> PICK t : t = task[r]
  OBVIOUS
<1> PICK o : o = Expected(pc[r], t)
  OBVIOUS
<1>1. o = t.seen /\ Tells(t.job, o)
  BY Knows DEF Expected, AppsMoved, Unwritten, Settling
<1>2. Tells(t.job, o)'
  BY <1>1, TellsSame
<1>3. Answers(r, t, o)
  BY <1>1, <1>2 DEF Answers, Transit, Settling, Unwritten
<1>. QED  BY <1>3, AnswersSerial

LEMMA QuietEnds ==
  ASSUME IInv, SerialInv, OneByOne', NEW r \in InFlight,
         RefuseEscrow(r) \/ RefusePay(r) \/ CreateReview(r)
  PROVE  SerialInv'
<1>1. Refuses(r)
  BY DEF RefuseEscrow, RefusePay, CreateReview, Refuses, Return, Goto, rows, history, Unwritten,
         Settling
<1>. QED  BY <1>1, RefusesSerial

LEMMA AcceptApplicationSerial ==
  ASSUME IInv, SerialInv, OneByOne', NEW r \in InFlight, AcceptApplication(r)
  PROVE  SerialInv'
<1> PICK t : t = task[r]
  OBVIOUS
<1> PICK left : left = todo[r]
  OBVIOUS
<1> PICK x : x = <<t.job, t.applicant>>
  OBVIOUS
<1>1. /\ t.job \in Jobs /\ t.applicant \in Users /\ pc[r] = "accept" /\ r \in Requests
      /\ Tells(t.job, t.seen) /\ t.seen.status = "open" /\ RowsTyped
      /\ app[x].price = t.price /\ t.price > 0 /\ job[t.job] = t.seen
  BY Knows DEF AcceptApplication, Expected, StatusSeen, AppsMoved, Unwritten, Hiring, IInv, TypeOK
<1>2. /\ UNCHANGED <<job, wallet, payouts, spent, task, todo>> /\ pc' = [pc EXCEPT ![r] = "assign"]
      /\ app' = [app EXCEPT ![x].status = "accepted"]
  BY DEF AcceptApplication, Goto, ApplicationOf, history
<1>3. app[x] \in Application
  BY <1>1 DEF IInv, TypeOK, LocalsTyped, ApplicationOf
<1>4. /\ app'[x] = [app[x] EXCEPT !.status = "accepted"]
      /\ \A y \in Jobs \X Users : y # x => app'[y] = app[y]
  BY <1>1, <1>2 DEF RowsTyped
<1>5. app'[x] # None /\ app'[x].status = "accepted" /\ app'[x].price = t.price
  BY <1>1, <1>3, <1>4, NoneAssumption DEF Application, AppStatus
<1>6. ApplicantsIn(t.job, {"accepted"})' = {t.applicant}
  <2>1. ApplicantsIn(t.job, {"accepted"}) = {}
    BY <1>1 DEF Tells
  <2>2. \A v \in Users : v # t.applicant => app'[<<t.job, v>>] = app[<<t.job, v>>]
    BY <1>1, <1>4
  <2>3. \A v \in Users : app[<<t.job, v>>] = None \/ app[<<t.job, v>>].status # "accepted"
    BY <2>1 DEF ApplicantsIn
  <2>. QED  BY <1>1, <1>5, <2>2, <2>3 DEF ApplicantsIn
<1>7. AppsMoved("assign", t, left)'
  BY <1>1, <1>5, <1>6 DEF AppsMoved, Unwritten, Signing, Tells
<1>8. /\ Expected("assign", t) = Expected("accept", t) /\ Transit("assign", t) = Transit("accept", t)
      /\ StatusSeen("assign", t)
  BY <1>1 DEF Expected, Transit, StatusSeen, Hiring, Cancelling
<1>9. \A i \in Jobs \ {t.job}, u \in Users : app'[<<i, u>>] = app[<<i, u>>]
  BY <1>4
<1>10. Proceeds(r, t, "assign", left)
  BY <1>1, <1>2, <1>7, <1>8, <1>9 DEF Proceeds, Settling
<1>. QED  BY <1>10, ProceedsSerial

LEMMA ListOthersSerial ==
  ASSUME IInv, SerialInv, OneByOne', NEW r \in InFlight, ListOthers(r)
  PROVE  SerialInv'
<1> PICK t : t = task[r]
  OBVIOUS
<1> PICK o : o = Expected("others", t)
  OBVIOUS
<1> PICK others : others = ApplicantsIn(t.job, {"pending"}) \ {t.applicant}
  OBVIOUS
<1>1. /\ t.job \in Jobs /\ t.applicant \in Users /\ pc[r] = "others" /\ r \in Requests
      /\ t.seen \in Job /\ t.price > 0 /\ app[<<t.job, t.applicant>>].price = t.price
      /\ ApplicantsIn(t.job, {"accepted"}) = {t.applicant} /\ job[t.job] = o
      /\ t.seen.escrow = 0 /\ t.seen.freelancer = None /\ t.seen.status = "open"
      /\ todo \in [Requests -> SUBSET Users]
  BY Knows DEF ListOthers, StatusSeen, AppsMoved, Signing, Hiring, IInv, TypeOK, HandlersTyped
<1>2. /\ UNCHANGED <<job, app, wallet, payouts, spent>>
      /\ \/ others = {} /\ Return(r)
         \/ /\ others # {} /\ todo' = [todo EXCEPT ![r] = others]
            /\ Goto(r, "rejectOthers") /\ UNCHANGED task
  BY DEF ListOthers, rows, history
<1>3. others = ApplicantsIn(t.job, {"pending"})
  BY <1>1 DEF ApplicantsIn
<1>4. o.status = "in_progress" /\ o.freelancer = t.applicant /\ o.escrow = t.price
  BY <1>1 DEF Expected, Contracted, Job
<1>5. CASE others = {}
  <2>1. Tells(t.job, o)
    BY <1>1, <1>3, <1>4, <1>5 DEF Tells
  <2>2. Tells(t.job, o)'
    BY <1>2, <2>1, TellsSame
  <2>3. Answers(r, t, o)
    BY <1>1, <1>2, <1>5, <2>2 DEF Answers, Transit, Settling, Return, Goto
  <2>. QED  BY <2>3, AnswersSerial
<1>6. CASE others # {}
  <2>1. /\ Expected("rejectOthers", t) = o /\ Transit("rejectOthers", t) = Transit("others", t)
        /\ StatusSeen("rejectOthers", t)
    BY <1>1 DEF Expected, Transit, StatusSeen, Hiring, Cancelling
  <2>2. AppsMoved("rejectOthers", t, others)'
    BY <1>1, <1>2, <1>3, <1>6 DEF AppsMoved, Unwritten, Signing, ApplicantsIn
  <2>3. Proceeds(r, t, "rejectOthers", others)
    BY <1>1, <1>2, <1>4, <1>6, <2>1, <2>2 DEF Proceeds, Settling, Goto
  <2>. QED  BY <2>3, ProceedsSerial
<1>. QED  BY <1>5, <1>6

LEMMA RejectOtherSerial ==
  ASSUME IInv, SerialInv, OneByOne', NEW r \in InFlight, RejectOther(r)
  PROVE  SerialInv'
<1> PICK t : t = task[r]
  OBVIOUS
<1> PICK o : o = Expected("rejectOthers", t)
  OBVIOUS
<1> PICK left : left = todo[r]
  OBVIOUS
<1>1. /\ t.job \in Jobs /\ t.applicant \in Users /\ pc[r] = "rejectOthers" /\ r \in Requests
      /\ t.seen \in Job /\ t.price > 0 /\ app[<<t.job, t.applicant>>].price = t.price
      /\ ApplicantsIn(t.job, {"accepted"}) = {t.applicant} /\ job[t.job] = o
      /\ t.seen.escrow = 0 /\ t.seen.freelancer = None /\ t.seen.status = "open"
      /\ todo \in [Requests -> SUBSET Users] /\ RowsTyped /\ pc \in [Requests -> Steps]
      /\ ApplicantsIn(t.job, {"pending"}) = left
  BY Knows DEF RejectOther, StatusSeen, AppsMoved, Signing, Hiring, IInv, TypeOK, HandlersTyped
<1> PICK u \in left :
      /\ Reject(r, u)
      /\ IF todo[r] = {u} THEN Return(r)
         ELSE todo' = [todo EXCEPT ![r] = @ \ {u}] /\ UNCHANGED <<pc, task>>
  BY DEF RejectOther
<1>2. UNCHANGED <<job, wallet, payouts, spent>>
  BY DEF RejectOther, history
<1>3. u \in Users /\ app[<<t.job, u>>] \in Application /\ u # t.applicant
  BY <1>1 DEF IInv, TypeOK, LocalsTyped, HandlersTyped, ApplicantsIn
<1>4. app' = [app EXCEPT ![<<t.job, u>>].status = "rejected"]
  BY DEF Reject
<1>5. /\ \A S \in SUBSET {"accepted", "pending"} :
           ApplicantsIn(t.job, S)' = ApplicantsIn(t.job, S) \ {u}
      /\ \A v \in Users : app'[<<t.job, v>>].price = app[<<t.job, v>>].price
      /\ \A i \in Jobs \ {t.job}, v \in Users : app'[<<i, v>>] = app[<<i, v>>]
  BY <1>1, <1>3, <1>4, Rejected
<1>6. /\ ApplicantsIn(t.job, {"accepted"})' = {t.applicant}
      /\ ApplicantsIn(t.job, {"pending"})' = left \ {u}
      /\ app'[<<t.job, t.applicant>>].price = t.price
  BY <1>1, <1>3, <1>5
<1>7. o.status = "in_progress" /\ o.freelancer = t.applicant /\ o.escrow = t.price
  BY <1>1 DEF Expected, Contracted, Job
<1>8. CASE left = {u}
  <2>1. Tells(t.job, o)'
    BY <1>1, <1>6, <1>7, <1>8 DEF Tells
  <2>2. pc' = [pc EXCEPT ![r] = "idle"]
    BY <1>8 DEF Return, Goto
  <2>3. Answers(r, t, o)
    BY <1>1, <1>2, <1>5, <2>1, <2>2 DEF Answers, Transit, Settling
  <2>. QED  BY <2>3, AnswersSerial
<1>9. CASE left # {u}
  <2> PICK rest : rest = left \ {u}
    OBVIOUS
  <2>1. AppsMoved("rejectOthers", t, rest)'
    BY <1>1, <1>6, <1>9 DEF AppsMoved, Unwritten, Signing
  <2>2. StatusSeen("rejectOthers", t)
    BY <1>1 DEF StatusSeen, Hiring, Cancelling
  <2>3. /\ UNCHANGED task /\ pc' = [pc EXCEPT ![r] = "rejectOthers"] /\ todo'[r] = rest
    BY <1>1, <1>9
  <2>4. Proceeds(r, t, "rejectOthers", rest)
    BY <1>1, <1>2, <1>5, <1>7, <2>1, <2>2, <2>3 DEF Proceeds, Settling
  <2>. QED  BY <2>4, ProceedsSerial
<1>. QED  BY <1>8, <1>9

LEMMA ListAllSerial ==
  ASSUME IInv, SerialInv, OneByOne', NEW r \in InFlight, ListAll(r)
  PROVE  SerialInv'
<1> PICK t : t = task[r]
  OBVIOUS
<1> PICK all : all = ApplicantsIn(t.job, {"accepted", "pending"})
  OBVIOUS
<1> PICK p : p = IF all = {} THEN "refund" ELSE "rejectAll"
  OBVIOUS
<1>1. /\ t.job \in Jobs /\ pc[r] = "withdraw" /\ r \in Requests /\ t.seen \in Job
      /\ Tells(t.job, t.seen) /\ t.seen.status \in {"open", "in_progress"}
      /\ job[t.job] = t.seen /\ todo \in [Requests -> SUBSET Users]
  BY Knows DEF ListAll, Expected, StatusSeen, AppsMoved, Unwritten, Cancelling, IInv, TypeOK,
       HandlersTyped
<1>2. {"pending", "accepted"} = {"accepted", "pending"}
  OBVIOUS
<1>3. /\ UNCHANGED <<job, app, wallet, payouts, spent, task>>
      /\ todo' = [todo EXCEPT ![r] = all] /\ pc' = [pc EXCEPT ![r] = p]
  BY <1>2 DEF ListAll, Goto, rows, history
<1>4. t.seen.escrow >= 0
  BY <1>1 DEF Tells, Job
<1>5. AppsMoved(p, t, all)'
  BY <1>1, <1>3, <1>4 DEF AppsMoved, Unwritten, Signing, ApplicantsIn
<1>6. /\ Expected(p, t) = Expected("withdraw", t) /\ Transit(p, t) = Transit("withdraw", t)
      /\ StatusSeen(p, t) /\ p # "idle"
  BY <1>1 DEF Expected, Transit, StatusSeen, Hiring, Cancelling
<1>7. Proceeds(r, t, p, all)
  BY <1>1, <1>3, <1>5, <1>6 DEF Proceeds, Settling
<1>. QED  BY <1>7, ProceedsSerial

LEMMA RejectEverySerial ==
  ASSUME IInv, SerialInv, OneByOne', NEW r \in InFlight, RejectEvery(r)
  PROVE  SerialInv'
<1> PICK t : t = task[r]
  OBVIOUS
<1> PICK left : left = todo[r]
  OBVIOUS
<1>1. /\ t.job \in Jobs /\ pc[r] = "rejectAll" /\ r \in Requests /\ t.seen \in Job
      /\ t.seen.status \in {"open", "in_progress"} /\ t.seen.escrow >= 0
      /\ job[t.job] = t.seen /\ todo \in [Requests -> SUBSET Users] /\ RowsTyped
      /\ ApplicantsIn(t.job, {"accepted", "pending"}) = left
  BY Knows DEF RejectEvery, Expected, StatusSeen, AppsMoved, Signing, Cancelling, IInv, TypeOK,
       HandlersTyped
<1> PICK u \in left :
      /\ Reject(r, u) /\ todo' = [todo EXCEPT ![r] = @ \ {u}]
      /\ Goto(r, IF todo[r] = {u} THEN "refund" ELSE "rejectAll")
  BY DEF RejectEvery
<1> PICK p : p = IF left = {u} THEN "refund" ELSE "rejectAll"
  OBVIOUS
<1> PICK rest : rest = left \ {u}
  OBVIOUS
<1>2. /\ UNCHANGED <<job, wallet, payouts, spent, task>> /\ pc' = [pc EXCEPT ![r] = p]
      /\ todo'[r] = rest
  BY <1>1 DEF RejectEvery, Goto, history
<1>3. u \in Users /\ app[<<t.job, u>>] \in Application
  BY <1>1 DEF IInv, TypeOK, LocalsTyped, HandlersTyped
<1>4. app' = [app EXCEPT ![<<t.job, u>>].status = "rejected"]
  BY DEF Reject
<1>5. /\ \A S \in SUBSET {"accepted", "pending"} :
           ApplicantsIn(t.job, S)' = ApplicantsIn(t.job, S) \ {u}
      /\ \A v \in Users : app'[<<t.job, v>>].price = app[<<t.job, v>>].price
      /\ \A i \in Jobs \ {t.job}, v \in Users : app'[<<i, v>>] = app[<<i, v>>]
  BY <1>1, <1>3, <1>4, Rejected
<1>6. ApplicantsIn(t.job, {"accepted", "pending"})' = rest
  BY <1>1, <1>5
<1>7. p = "refund" => rest = {}
  OBVIOUS
<1>8. p # "refund" => rest # {}
  OBVIOUS
<1>9. AppsMoved(p, t, rest)'
  BY <1>1, <1>6, <1>7, <1>8 DEF AppsMoved, Unwritten, Signing
<1>10. /\ Expected(p, t) = Expected("rejectAll", t) /\ Transit(p, t) = Transit("rejectAll", t)
       /\ StatusSeen(p, t) /\ p # "idle"
  BY <1>1 DEF Expected, Transit, StatusSeen, Hiring, Cancelling
<1>11. Proceeds(r, t, p, rest)
  BY <1>1, <1>2, <1>5, <1>9, <1>10 DEF Proceeds, Settling
<1>. QED  BY <1>11, ProceedsSerial

-----------------------------------------------------------------------------
(* Steps that move money *)

LEMMA DebitEscrowSerial ==
  ASSUME IInv, SerialInv, OneByOne', NEW r \in InFlight, DebitEscrow(r)
  PROVE  SerialInv'
<1> PICK t : t = task[r]
  OBVIOUS
<1> PICK left : left = todo[r]
  OBVIOUS
<1>1. /\ t.job \in Jobs /\ t \in Task /\ pc[r] = "debit" /\ t.seen \in Job /\ t.price \in Int
      /\ Tells(t.job, t.seen) /\ t.seen.status = "open" /\ RowsTyped /\ HistoryTyped
      /\ app[<<t.job, t.applicant>>].price = t.price /\ job[t.job] = t.seen
  BY Knows DEF DebitEscrow, Expected, StatusSeen, AppsMoved, Unwritten, Hiring, IInv, TypeOK
<1>0. /\ payouts[t.job] = 0
      /\ \A k \in Classrooms : Total(k) + InTransit("debit", t, k) = Start(k)
  BY <1>1, Knows DEF Settling
<1>2. /\ UNCHANGED <<job, app, payouts, spent, task, todo>> /\ pc' = [pc EXCEPT ![r] = "accept"]
      /\ t.price > 0 /\ Debit(<<t.seen.client, t.seen.room>>, t.price)
  BY DEF DebitEscrow, Goto, ClientWallet, CanDebit
<1>3. t.seen.client \in Users /\ t.seen.room \in Classrooms /\ -t.price \in Int
  BY <1>0, <1>1 DEF Job
<1>4. Credit(<<t.seen.client, t.seen.room>>, -t.price)
  BY <1>0, <1>1, <1>2, <1>3, DebitIsCredit
<1>5. \A k \in Classrooms : Total(k)' + InTransit("accept", t, k) = Start(k)
  <2> TAKE k \in Classrooms
  <2>1. Total(k)' = Total(k) + (IF k = t.seen.room THEN -t.price ELSE 0)
    BY <1>0, <1>1, <1>2, <1>3, <1>4, TotalWallet
  <2>2. Total(k) \in Int /\ Total(k) + InTransit("debit", t, k) = Start(k)
    BY <1>0, <1>1, TotalInt
  <2>. QED  BY <1>0, <1>1, <2>1, <2>2 DEF InTransit, Transit
<1>6. AppsMoved("accept", t, left)'
  <2>1. Tells(t.job, t.seen)'
    BY <1>0, <1>1, <1>2, TellsSame
  <2>. QED  BY <1>0, <1>1, <1>2, <2>1 DEF AppsMoved, Unwritten, Signing
<1>7. Expected("accept", t) = t.seen /\ StatusSeen("accept", t)
  BY <1>0, <1>1 DEF Expected, StatusSeen, Hiring, Cancelling
<1>8. Elsewhere(t.job) /\ todo'[r] = left
  BY <1>2 DEF Elsewhere
<1>9. GoesOn(r, t, "accept", left)
  BY <1>0, <1>1, <1>2, <1>5, <1>6, <1>7, <1>8 DEF GoesOn
<1>. QED  BY <1>9, StillBusy

LEMMA PayFreelancerSerial ==
  ASSUME IInv, SerialInv, OneByOne', NEW r \in InFlight, PayFreelancer(r)
  PROVE  SerialInv'
<1> PICK t : t = task[r]
  OBVIOUS
<1> PICK left : left = todo[r]
  OBVIOUS
<1>1. /\ t.job \in Jobs /\ t \in Task /\ pc[r] = "pay" /\ t.seen \in Job /\ r \in Requests
      /\ Tells(t.job, t.seen) /\ t.seen.status = "in_progress" /\ RowsTyped /\ HistoryTyped
      /\ job[t.job] = t.seen
  BY Knows DEF PayFreelancer, Expected, StatusSeen, AppsMoved, Unwritten, IInv, TypeOK
<1>0. /\ payouts[t.job] = 0
      /\ \A k \in Classrooms : Total(k) + InTransit("pay", t, k) = Start(k)
  BY <1>1, Knows DEF Settling
<1>2. /\ UNCHANGED <<job, app, spent, task, todo>> /\ pc' = [pc EXCEPT ![r] = "clear"]
      /\ Credit(<<t.seen.freelancer, t.seen.room>>, t.seen.escrow)
      /\ payouts' = [payouts EXCEPT ![t.job] = @ + 1]
  BY DEF PayFreelancer, Goto, FreelancerWallet
<1>3. t.seen.freelancer \in Users
  BY <1>0, <1>1 DEF IInv, LocalsSound
<1>4. t.seen.room \in Classrooms /\ t.seen.escrow \in Int
  BY <1>0, <1>1 DEF Job
<1>5. \A k \in Classrooms : Total(k)' + InTransit("clear", t, k) = Start(k)
  <2> TAKE k \in Classrooms
  <2>1. Total(k)' = Total(k) + (IF k = t.seen.room THEN t.seen.escrow ELSE 0)
    BY <1>0, <1>1, <1>2, <1>3, <1>4, TotalWallet
  <2>2. Total(k) \in Int /\ Total(k) + InTransit("pay", t, k) = Start(k)
    BY <1>0, <1>1, TotalInt
  <2>. QED  BY <1>4, <2>1, <2>2 DEF InTransit, Transit
<1>6. AppsMoved("clear", t, left)'
  <2>1. Tells(t.job, t.seen)'
    BY <1>0, <1>1, <1>2, TellsSame
  <2>. QED  BY <2>1 DEF AppsMoved, Unwritten, Signing
<1>7. Expected("clear", t) = t.seen /\ StatusSeen("clear", t)
  BY <1>0, <1>1 DEF Expected, StatusSeen, Hiring, Cancelling
<1>8. payouts'[t.job] = 1 /\ \A i \in Jobs \ {t.job} : payouts'[i] = payouts[i]
  BY <1>0, <1>1, <1>2 DEF HistoryTyped
<1>9. Elsewhere(t.job) /\ todo'[r] = left
  BY <1>2, <1>8 DEF Elsewhere
<1>10. GoesOn(r, t, "clear", left)
  BY <1>0, <1>1, <1>2, <1>5, <1>6, <1>7, <1>8, <1>9 DEF GoesOn, Settling
<1>. QED  BY <1>10, StillBusy

LEMMA RefundClientSerial ==
  ASSUME IInv, SerialInv, OneByOne', NEW r \in InFlight, RefundClient(r)
  PROVE  SerialInv'
<1> PICK t : t = task[r]
  OBVIOUS
<1> PICK left : left = todo[r]
  OBVIOUS
<1>1. /\ t.job \in Jobs /\ t \in Task /\ pc[r] = "refund" /\ t.seen \in Job /\ r \in Requests
      /\ t.seen.status \in {"open", "in_progress"} /\ RowsTyped /\ HistoryTyped
      /\ job[t.job] = t.seen /\ t.seen.escrow >= 0
      /\ ApplicantsIn(t.job, {"accepted", "pending"}) = {}
  BY Knows DEF RefundClient, Expected, StatusSeen, AppsMoved, Cancelling, IInv, TypeOK
<1>0. /\ payouts[t.job] = 0
      /\ \A k \in Classrooms : Total(k) + InTransit("refund", t, k) = Start(k)
  BY <1>1, Knows DEF Settling
<1>2. /\ UNCHANGED <<job, app, spent, task, todo>>
      /\ \/ /\ t.seen.escrow > 0 /\ Credit(<<t.seen.client, t.seen.room>>, t.seen.escrow)
            /\ payouts' = [payouts EXCEPT ![t.job] = @ + 1] /\ pc' = [pc EXCEPT ![r] = "release"]
         \/ /\ ~(t.seen.escrow > 0) /\ pc' = [pc EXCEPT ![r] = "close"]
            /\ UNCHANGED <<wallet, payouts>>
  BY DEF RefundClient, Goto, ClientWallet
<1>3. t.seen.client \in Users /\ t.seen.room \in Classrooms /\ t.seen.escrow \in Int
  BY <1>0, <1>1 DEF Job
<1>4. \A p \in {"release", "close"} : AppsMoved(p, t, left)' /\ StatusSeen(p, t)
  BY <1>0, <1>1, <1>2 DEF AppsMoved, Unwritten, Signing, ApplicantsIn, StatusSeen, Hiring, Cancelling
<1>5. CASE t.seen.escrow > 0
  <2>1. \A k \in Classrooms : Total(k)' + InTransit("release", t, k) = Start(k)
    <3> TAKE k \in Classrooms
    <3>1. Total(k)' = Total(k) + (IF k = t.seen.room THEN t.seen.escrow ELSE 0)
      BY <1>0, <1>1, <1>2, <1>3, <1>5, TotalWallet
    <3>2. Total(k) \in Int /\ Total(k) + InTransit("refund", t, k) = Start(k)
      BY <1>0, <1>1, TotalInt
    <3>. QED  BY <1>3, <3>1, <3>2 DEF InTransit, Transit
  <2>2. Expected("release", t) = t.seen
    BY DEF Expected
  <2>3. payouts'[t.job] = 1 /\ \A i \in Jobs \ {t.job} : payouts'[i] = payouts[i]
    BY <1>0, <1>1, <1>2, <1>5 DEF HistoryTyped
  <2>4. Elsewhere(t.job) /\ todo'[r] = left
    BY <1>2, <2>3 DEF Elsewhere
  <2>5. GoesOn(r, t, "release", left)
    BY <1>0, <1>1, <1>2, <1>4, <1>5, <2>1, <2>2, <2>3, <2>4 DEF GoesOn, Settling
  <2>. QED  BY <2>5, StillBusy
<1>6. CASE ~(t.seen.escrow > 0)
  <2>1. t.seen.escrow = 0
    BY <1>0, <1>1, <1>3, <1>6
  <2>2. Expected("close", t) = t.seen /\ Expected("refund", t) = t.seen
    BY <1>0, <1>1, <2>1 DEF Expected, Job
  <2>3. Transit("close", t) = Transit("refund", t)
    BY DEF Transit
  <2>4. AppsMoved("close", t, left)' /\ StatusSeen("close", t)
    BY <1>4
  <2>5. Proceeds(r, t, "close", left)
    BY <1>0, <1>1, <1>2, <1>6, <2>2, <2>3, <2>4 DEF Proceeds, Settling
  <2>. QED  BY <2>5, ProceedsSerial
<1>. QED  BY <1>5, <1>6

-----------------------------------------------------------------------------
(* Steps that write the job's row *)

LEMMA SetFreelancerSerial ==
  ASSUME IInv, SerialInv, OneByOne', NEW r \in InFlight, SetFreelancer(r)
  PROVE  SerialInv'
<1> PICK t : t = task[r]
  OBVIOUS
<1> PICK row : row = Contracted(t)
  OBVIOUS
<1>1. /\ t.seen \in Job /\ t.applicant \in Users /\ t.price \in Int /\ pc[r] = "assign"
      /\ job[t.job] = t.seen /\ payouts[t.job] = 0 /\ t.seen.status = "open"
      /\ AppsMoved("assign", t, todo[r]) /\ Row(r) = t.seen
  BY Knows DEF SetFreelancer, UpdateJob, Expected, StatusSeen, Hiring, Settling, Row
<1>2. UpdateJob(r, "assign", row, "hold")
  BY <1>1 DEF SetFreelancer, Contracted
<1>3. row \in Job /\ row.room = t.seen.room /\ row.escrow = t.seen.escrow /\ row = Expected("hold", t)
  BY <1>1 DEF Job, JobStatus, Contracted, Expected
<1>4. StatusSeen("hold", t) /\ AppsMoved("hold", t, todo[r])
  BY <1>1 DEF StatusSeen, AppsMoved, Unwritten, Signing, Hiring, Cancelling
<1>5. /\ row.escrow - job[t.job].escrow + Transit("hold", t) = Transit("assign", t)
      /\ Transit("hold", t) \in Int
  BY <1>1, <1>3 DEF Transit, Job
<1>6. Updates(r, t, "assign", row, "hold")
  BY <1>1, <1>2, <1>3, <1>4, <1>5 DEF Updates
<1>. QED  BY <1>6, UpdateSerial

LEMMA HoldEscrowSerial ==
  ASSUME IInv, SerialInv, OneByOne', NEW r \in InFlight, HoldEscrow(r)
  PROVE  SerialInv'
<1> PICK t : t = task[r]
  OBVIOUS
<1> PICK row : row = [Contracted(t) EXCEPT !.escrow = t.price]
  OBVIOUS
<1>1. /\ t.seen \in Job /\ t.applicant \in Users /\ t.price \in Int /\ pc[r] = "hold"
      /\ job[t.job] = Contracted(t) /\ t.seen.status = "open" /\ t.seen.escrow = 0
      /\ AppsMoved("hold", t, todo[r]) /\ Row(r) = Contracted(t)
      /\ payouts[t.job] = 0 \/ job[t.job].status \in {"completed", "cancelled"}
  BY Knows DEF HoldEscrow, UpdateJob, Expected, StatusSeen, Hiring, Settling, Row, AppsMoved, Signing
<1>2. UpdateJob(r, "hold", row, "others")
  BY <1>1 DEF HoldEscrow
<1>3. /\ row \in Job /\ row.room = t.seen.room /\ row.escrow = t.price /\ row = Expected("others", t)
      /\ job[t.job].room = t.seen.room /\ job[t.job].escrow = 0
      /\ job[t.job].status = "in_progress"
  BY <1>1 DEF Job, JobStatus, Contracted, Expected
<1>4. StatusSeen("others", t) /\ AppsMoved("others", t, todo[r])
  BY <1>1 DEF StatusSeen, AppsMoved, Unwritten, Signing, Hiring, Cancelling
<1>5. /\ row.escrow - job[t.job].escrow + Transit("others", t) = Transit("hold", t)
      /\ Transit("others", t) \in Int
  BY <1>1, <1>3 DEF Transit
<1>6. payouts[t.job] = 0
  BY <1>1, <1>3
<1>7. Updates(r, t, "hold", row, "others")
  BY <1>2, <1>3, <1>4, <1>5, <1>6 DEF Updates
<1>. QED  BY <1>7, UpdateSerial

LEMMA EscrowOutSerial ==
  ASSUME IInv, SerialInv, OneByOne', NEW r \in InFlight, ClearEscrow(r) \/ ReleaseEscrow(r)
  PROVE  SerialInv'
<1> PICK from : from = pc[r]
  OBVIOUS
<1> PICK to : to = IF from = "clear" THEN "complete" ELSE "close"
  OBVIOUS
<1>1. /\ UpdateJob(r, from, [Row(r) EXCEPT !.escrow = 0], to)
      /\ \/ from = "clear" /\ to = "complete"
         \/ from = "release" /\ to = "close"
  BY DEF ClearEscrow, ReleaseEscrow, UpdateJob
<1> PICK t : t = task[r]
  OBVIOUS
<1> PICK row : row = [t.seen EXCEPT !.escrow = 0]
  OBVIOUS
<1>2. /\ t.seen \in Job /\ pc[r] = from /\ job[t.job] = t.seen /\ Row(r) = t.seen
      /\ StatusSeen(from, t) /\ AppsMoved(from, t, todo[r])
      /\ payouts[t.job] \in {0, 1}
  BY <1>1, Knows DEF UpdateJob, Expected, Row
<1>3. UpdateJob(r, from, row, to)
  BY <1>1, <1>2
<1>4. /\ row \in Job /\ row.room = t.seen.room /\ row.escrow = 0 /\ row = Expected(to, t)
      /\ t.seen.escrow \in Int
  BY <1>1, <1>2 DEF Job, Expected
<1>5. StatusSeen(to, t)
  BY <1>1, <1>2 DEF StatusSeen, Hiring, Cancelling
<1>6. AppsMoved(to, t, todo[r])
  BY <1>1, <1>2, <1>5 DEF AppsMoved, Unwritten, Signing, Tells, StatusSeen
<1>7. /\ row.escrow - job[t.job].escrow + Transit(to, t) = Transit(from, t)
      /\ Transit(to, t) \in Int /\ to \in Settling /\ to # "idle"
  BY <1>1, <1>2, <1>4 DEF Transit, Settling
<1>8. Updates(r, t, from, row, to)
  BY <1>1, <1>2, <1>3, <1>4, <1>5, <1>6, <1>7 DEF Updates
<1>. QED  BY <1>8, UpdateSerial

\* The UPDATEs that change what a job says before its escrow has moved.
LEMMA MarkSerial ==
  ASSUME IInv, SerialInv, OneByOne', NEW r \in InFlight, SetWorkCompleted(r) \/ SetDisputed(r)
  PROVE  SerialInv'
<1> PICK t : t = task[r]
  OBVIOUS
<1> PICK from : from = pc[r]
  OBVIOUS
<1> PICK row : row = IF from = "report" THEN [Row(r) EXCEPT !.workCompleted = TRUE]
                                        ELSE [Row(r) EXCEPT !.status = "disputed"]
  OBVIOUS
<1>1. FinishJob(r, from, row) /\ from \in {"report", "dispute"}
  BY DEF SetWorkCompleted, SetDisputed, FinishJob
<1>2. /\ t.seen \in Job /\ job[t.job] = t.seen /\ Row(r) = t.seen
      /\ t.seen.status = "in_progress" /\ Tells(t.job, t.seen)
  BY <1>1, Knows DEF Expected, Row, StatusSeen, AppsMoved, Unwritten
<1>3. payouts[t.job] = 0
  BY <1>1, <1>2, Knows DEF Settling
<1>4. /\ row \in Job /\ row.room = t.seen.room /\ row.escrow = t.seen.escrow
      /\ row.freelancer = t.seen.freelancer /\ row.status \in {"in_progress", "disputed"}
      /\ t.seen.escrow \in Int
  BY <1>1, <1>2 DEF Job, JobStatus
<1>5. Tells(t.job, row)
  BY <1>2, <1>4 DEF Tells
<1>6. row.escrow - job[t.job].escrow = Transit(from, t)
  BY <1>1, <1>2, <1>4 DEF Transit
<1>7. Finishes(r, t, from, row)
  BY <1>1, <1>2, <1>3, <1>4, <1>5, <1>6 DEF Finishes
<1>. QED  BY <1>7, FinishSerial

LEMMA CloseSerial ==
  ASSUME IInv, SerialInv, OneByOne', NEW r \in InFlight, SetCompleted(r) \/ SetCancelled(r)
  PROVE  SerialInv'
<1> PICK t : t = task[r]
  OBVIOUS
<1> PICK from : from = pc[r]
  OBVIOUS
<1> PICK last : last = IF from = "complete" THEN "completed" ELSE "cancelled"
  OBVIOUS
<1> PICK row : row = [Row(r) EXCEPT !.status = last]
  OBVIOUS
<1>1. FinishJob(r, from, row) /\ from \in {"complete", "close"}
  BY DEF SetCompleted, SetCancelled, FinishJob
<1>2. /\ t.seen \in Job /\ job[t.job] = [t.seen EXCEPT !.escrow = 0]
      /\ Row(r) = [t.seen EXCEPT !.escrow = 0] /\ AppsMoved(from, t, todo[r])
      /\ payouts[t.job] \in {0, 1}
  BY <1>1, Knows DEF Expected, Row
<1>7. last \in {"completed", "cancelled"}
  OBVIOUS
<1>3. /\ row \in Job /\ row.room = t.seen.room /\ row.escrow = 0 /\ row.status = last
      /\ row.freelancer = t.seen.freelancer
  <2> PICK o : o = [t.seen EXCEPT !.escrow = 0]
    OBVIOUS
  <2>1. /\ o \in Job /\ o.room = t.seen.room /\ o.escrow = 0
        /\ o.freelancer = t.seen.freelancer
    BY <1>2 DEF Job
  <2>2. row = [o EXCEPT !.status = last] /\ last \in JobStatus
    BY <1>2, <1>7 DEF JobStatus
  <2>. QED  BY <2>1, <2>2 DEF Job
<1>4. job[t.job].escrow = 0 /\ job[t.job].room = t.seen.room
  BY <1>2 DEF Job
<1>5. Tells(t.job, row)
  BY <1>1, <1>2, <1>3 DEF Tells, AppsMoved
<1>6. row.escrow - job[t.job].escrow = Transit(from, t)
  BY <1>1, <1>3, <1>4 DEF Transit
<1>8. Finishes(r, t, from, row)
  BY <1>1, <1>2, <1>3, <1>4, <1>5, <1>6, <1>7 DEF Finishes
<1>. QED  BY <1>8, FinishSerial

LEMMA HandlerSerial ==
  ASSUME IInv, SerialInv, OneByOne', NEW r \in Requests, Handler(r)
  PROVE  SerialInv'
<1>1. r \in InFlight
  BY DEF InFlight, Handler, CreateApplication, DebitEscrow, RefuseEscrow, AcceptApplication,
         SetFreelancer, HoldEscrow, ListOthers, RejectOther, SetWorkCompleted, PayFreelancer,
         RefusePay, ClearEscrow, SetCompleted, SetDisputed, CreateReview, ListAll, RejectEvery,
         RefundClient, ReleaseEscrow, SetCancelled, UpdateJob, FinishJob
<1>. QED
  BY <1>1, CreateApplicationSerial, DebitEscrowSerial, QuietEnds, AcceptApplicationSerial,
     SetFreelancerSerial, HoldEscrowSerial, ListOthersSerial, RejectOtherSerial, MarkSerial,
     PayFreelancerSerial, EscrowOutSerial, CloseSerial, ListAllSerial, RejectEverySerial,
     RefundClientSerial
  DEF Handler

-----------------------------------------------------------------------------
(* Requests *)

\* The handler has read its job, and nothing is written yet.
Starts(r, t, p) ==
  /\ t \in Task /\ task'[r] = t /\ job[t.job] = t.seen /\ p \in Judged
  /\ pc' = [pc EXCEPT ![r] = p] /\ UNCHANGED <<rows, history>> /\ StatusSeen(p, t)
  /\ p = "debit" => app[<<t.job, t.applicant>>].price = t.price

LEMMA StartsSerial ==
  ASSUME IInv, SerialInv, OneByOne', NEW r \in Requests, pc[r] = "idle",
         NEW CONSTANT t, NEW CONSTANT p, Starts(r, t, p)
  PROVE  SerialInv'
<1>1. InFlight = {}
  <2> SUFFICES ASSUME NEW q \in InFlight PROVE FALSE
    OBVIOUS
  <2>1. pc \in [Requests -> Steps] /\ p # "idle" /\ pc' = [pc EXCEPT ![r] = p]
    BY DEF Starts, Judged, IInv, TypeOK, HandlersTyped
  <2>2. q # r /\ q \in InFlight' /\ r \in InFlight'
    BY <2>1 DEF InFlight
  <2>. QED  BY <2>2 DEF OneByOne
<1>2. /\ t \in Task /\ task'[r] = t /\ job[t.job] = t.seen /\ p \in Judged
      /\ pc' = [pc EXCEPT ![r] = p] /\ UNCHANGED <<rows, history>> /\ StatusSeen(p, t)
      /\ p = "debit" => app[<<t.job, t.applicant>>].price = t.price
  BY DEF Starts
<1>. QED  BY <1>1, <1>2, NowBusy

LEMMA BeginSerial ==
  ASSUME IInv, SerialInv, OneByOne', NEW r \in Requests, NEW u \in Users, NEW j \in Jobs,
         NEW CONSTANT p \in Judged \ {"debit"}, Begin(r, u, j, p),
         p \in {"report", "pay", "dispute"} => job[j].status = "in_progress",
         p = "review" => job[j].status = "completed",
         p = "withdraw" => job[j].status \in {"open", "in_progress"},
         p # "apply"
  PROVE  SerialInv'
<1> PICK o : o = job[j]
  OBVIOUS
<1> PICK t : t = [job |-> j, by |-> u, applicant |-> u, price |-> 0, seen |-> o]
  OBVIOUS
<1>1. /\ pc[r] = "idle" /\ o \in Job /\ task' = [task EXCEPT ![r] = t]
      /\ pc' = [pc EXCEPT ![r] = p] /\ UNCHANGED <<rows, history>>
      /\ task \in [Requests -> Task \cup {None}]
  BY DEF Begin, Goto, IInv, TypeOK, RowsTyped, HandlersTyped
<1>2. t \in Task /\ t.job = j /\ t.seen = o /\ task'[r] = t
  BY <1>1 DEF Task
<1>3. StatusSeen(p, t)
  BY <1>2 DEF StatusSeen, Hiring, Cancelling, Judged
<1>4. Starts(r, t, p)
  BY <1>1, <1>2, <1>3 DEF Starts
<1>. QED  BY <1>1, <1>4, StartsSerial

LEMMA ClientSerial ==
  ASSUME IInv, SerialInv, OneByOne', NEW r \in Requests, Client(r)
  PROVE  SerialInv'
<1>1. PICK u \in Users, j \in Jobs :
        \/ \E p \in Prices : BeginApply(r, u, j, p)
        \/ \E v \in Users : BeginAccept(r, u, j, v)
        \/ BeginComplete(r, u, j) \/ BeginApprove(r, u, j) \/ BeginDispute(r, u, j)
        \/ BeginReview(r, u, j) \/ BeginCancel(r, u, j)
  BY DEF Client
<1> PICK o : o = job[j]
  OBVIOUS
<1>2. ASSUME NEW n \in Prices, BeginApply(r, u, j, n) PROVE SerialInv'
  <2> PICK t : t = [job |-> j, by |-> u, applicant |-> u, price |-> n, seen |-> o]
    OBVIOUS
  <2>1. /\ pc[r] = "idle" /\ o \in Job /\ task' = [task EXCEPT ![r] = t]
        /\ pc' = [pc EXCEPT ![r] = "apply"] /\ UNCHANGED <<rows, history>>
        /\ task \in [Requests -> Task \cup {None}] /\ o.status = "open" /\ n \in Int
    BY <1>2, FreelanceAssumption DEF BeginApply, Goto, IInv, TypeOK, RowsTyped, HandlersTyped
  <2>2. t \in Task /\ t.job = j /\ t.seen = o /\ task'[r] = t
    BY <2>1 DEF Task
  <2>3. StatusSeen("apply", t)
    BY <2>1, <2>2 DEF StatusSeen, Hiring, Cancelling
  <2>4. Starts(r, t, "apply")
    BY <2>1, <2>2, <2>3 DEF Starts, Judged
  <2>. QED  BY <2>1, <2>4, StartsSerial
<1>3. ASSUME NEW v \in Users, BeginAccept(r, u, j, v) PROVE SerialInv'
  <2> PICK n : n = app[<<j, v>>].price
    OBVIOUS
  <2> PICK t : t = [job |-> j, by |-> u, applicant |-> v, price |-> n, seen |-> o]
    OBVIOUS
  <2>1. /\ pc[r] = "idle" /\ o \in Job /\ task' = [task EXCEPT ![r] = t]
        /\ pc' = [pc EXCEPT ![r] = "debit"] /\ UNCHANGED <<rows, history>>
        /\ task \in [Requests -> Task \cup {None}] /\ o.status = "open"
        /\ app[<<j, v>>] \in Application
    BY <1>3 DEF BeginAccept, Goto, IInv, TypeOK, RowsTyped, HandlersTyped
  <2>2. n \in Int
    BY <2>1 DEF Application
  <2>3. /\ t \in Task /\ t.job = j /\ t.seen = o /\ task'[r] = t
        /\ app[<<t.job, t.applicant>>].price = t.price
    BY <2>1, <2>2 DEF Task
  <2>4. StatusSeen("debit", t)
    BY <2>1, <2>3 DEF StatusSeen, Hiring, Cancelling
  <2>5. Starts(r, t, "debit")
    BY <2>1, <2>3, <2>4 DEF Starts, Judged
  <2>. QED  BY <2>1, <2>5, StartsSerial
<1>4. CASE BeginComplete(r, u, j)
  BY <1>4, BeginSerial DEF BeginComplete, Judged
<1>5. CASE BeginApprove(r, u, j)
  BY <1>5, BeginSerial DEF BeginApprove, Judged
<1>6. CASE BeginDispute(r, u, j)
  BY <1>6, BeginSerial DEF BeginDispute, Judged
<1>7. CASE BeginReview(r, u, j)
  BY <1>7, BeginSerial DEF BeginReview, Judged
<1>8. CASE BeginCancel(r, u, j)
  BY <1>8, BeginSerial DEF BeginCancel, Judged
<1>. QED  BY <1>1, <1>2, <1>3, <1>4, <1>5, <1>6, <1>7, <1>8

-----------------------------------------------------------------------------
(* The other steps *)

\* Applications are filed with jobs that exist.
Filed == \A j \in Jobs, u \in Users : app[<<j, u>>] # None => job[j] # None

LEMMA UntouchedSerial ==
  ASSUME SerialInv, UNCHANGED <<rows, locals, history, restarts>>
  PROVE  SerialInv'
<1> USE DEF rows, locals, history
<1>1. InFlight' = InFlight
  BY DEF InFlight
<1>2. OneByOne' /\ Telling' /\ SettledOnce'
  BY <1>1 DEF SerialInv, OneByOne, Telling, SettledOnce, Tells, ApplicantsIn
<1>3. Balanced'
  <2>1. \A k \in Classrooms : Total(k)' = Total(k)
    BY TotalSame
  <2>. QED  BY <1>1, <2>1 DEF SerialInv, Balanced, Start, InWallets, InTransit, Transit
<1>4. \A r \in InFlight' : /\ job'[task'[r].job] = Expected(pc[r], task[r])'
                           /\ StatusSeen(pc[r], task[r])'
  BY <1>1 DEF SerialInv, Expected, Contracted, StatusSeen
<1>5. \A r \in InFlight' : AppsMoved(pc[r], task[r], todo[r])'
  BY <1>1 DEF SerialInv, AppsMoved, Tells, ApplicantsIn
<1>. QED  BY <1>2, <1>3, <1>4, <1>5 DEF SerialInv

LEMMA CreateJobSerial ==
  ASSUME IInv, Filed, SerialInv, NEW u \in Users, NEW j \in Jobs, CreateJob(u, j)
  PROVE  SerialInv'
<1> USE DEF locals, history
<1> PICK row : row = [client |-> u, room |-> active[u], status |-> "open",
                      freelancer |-> None, escrow |-> 0, agreed |-> 0, workCompleted |-> FALSE]
  OBVIOUS
<1>1. /\ job[j] = None /\ job' = [job EXCEPT ![j] = row]
      /\ UNCHANGED <<app, wallet, pc, task, todo, payouts, spent, restarts>>
  BY DEF CreateJob
<1>2. /\ row \in Job /\ row # None /\ row.status = "open" /\ row.freelancer = None
      /\ row.escrow = 0 /\ RowsTyped /\ HistoryTyped
  <2>1. RowsTyped /\ HistoryTyped
    BY DEF IInv, TypeOK
  <2>2. active[u] \in Classrooms
    BY <2>1 DEF RowsTyped
  <2>3. row \in Job
    BY <2>2 DEF Job, JobStatus
  <2>. QED  BY <2>1, <2>3, NoneAssumption
<1>3. InFlight' = InFlight
  BY <1>1 DEF InFlight
<1>4. job'[j] = row /\ \A i \in Jobs \ {j} : job'[i] = job[i]
  BY <1>1, <1>2 DEF RowsTyped
<1>5. \A i : \A S : ApplicantsIn(i, S)' = ApplicantsIn(i, S)
  BY <1>1 DEF ApplicantsIn
<1>6. Telling'
  <2> SUFFICES ASSUME NEW i \in Jobs, job'[i] # None
               PROVE  Tells(i, job[i])' \/ \E q \in InFlight' : task'[q].job = i /\ pc'[q] \notin Unwritten
    BY DEF Telling
  <2>1. CASE i = j
    <3>1. ApplicantsIn(j, {"accepted"}) = {}
      BY <1>1 DEF Filed, ApplicantsIn
    <3>2. ApplicantsIn(j, {"accepted"})' = {}
      BY <1>5, <3>1
    <3>. QED  BY <1>2, <1>4, <2>1, <3>2 DEF Tells
  <2>2. CASE i # j
    <3> PICK o : o = job[i]
      OBVIOUS
    <3>1. job'[i] = o /\ o # None
      BY <1>4, <2>2
    <3>2. CASE Tells(i, o)
      <4>1. Tells(i, o)'
        BY <1>1, <3>2, TellsSame
      <4>. QED  BY <3>1, <4>1 DEF Tells
    <3>3. CASE ~Tells(i, o)
      BY <1>1, <1>3, <3>1, <3>3 DEF SerialInv, Telling
    <3>. QED  BY <3>2, <3>3
  <2>. QED  BY <2>1, <2>2
<1>7. \A r \in InFlight : task[r].job \in Jobs \ {j}
  BY <1>1, NoneAssumption, Knows
<1>8. SettledOnce' /\ OneByOne'
  BY <1>1, <1>3, <1>4 DEF SerialInv, SettledOnce, OneByOne
<1>9. Balanced'
  <2>1. \A k \in Classrooms : Total(k)' = Total(k)
    <3> TAKE k \in Classrooms
    <3>1. InEscrow(k)' = InEscrow(k)
      BY <1>1, <1>2, EscrowStarts
    <3>. QED  BY <1>1, <3>1 DEF Total, InWallets
  <2>. QED  BY <1>1, <1>3, <2>1 DEF SerialInv, Balanced, Start, InWallets, InTransit, Transit
<1>10. \A r \in InFlight' : /\ job'[task'[r].job] = Expected(pc[r], task[r])'
                            /\ StatusSeen(pc[r], task[r])'
  <2> SUFFICES ASSUME NEW r \in InFlight
               PROVE  /\ job'[task'[r].job] = Expected(pc[r], task[r])'
                      /\ StatusSeen(pc[r], task[r])'
    BY <1>3
  <2>1. /\ Expected(pc[r], task[r])' = Expected(pc[r], task[r])
        /\ StatusSeen(pc[r], task[r])' = StatusSeen(pc[r], task[r])
    BY <1>1 DEF Expected, Contracted, StatusSeen
  <2>2. job'[task'[r].job] = job[task[r].job]
    BY <1>1, <1>4, <1>7
  <2>. QED  BY <2>1, <2>2 DEF SerialInv
<1>11. \A r \in InFlight' : AppsMoved(pc[r], task[r], todo[r])'
  BY <1>1, <1>3 DEF SerialInv, AppsMoved, Tells, ApplicantsIn
<1>. QED  BY <1>6, <1>8, <1>9, <1>10, <1>11 DEF SerialInv

LEMMA OtherDebitSerial ==
  ASSUME IInv, SerialInv, NEW u \in Users, NEW c \in Classrooms, NEW n \in Spendings,
         OtherDebit(<<u, c>>, n)
  PROVE  SerialInv'
<1> USE DEF locals
<1>1. /\ UNCHANGED <<app, job, pc, task, todo, payouts, restarts>>
      /\ Debit(<<u, c>>, n) /\ spent' = [spent EXCEPT ![<<u, c>>] = @ + n]
      /\ RowsTyped /\ HistoryTyped /\ n \in Int /\ -n \in Int
  BY FreelanceAssumption DEF OtherDebit, IInv, TypeOK
<1>2. Credit(<<u, c>>, -n)
  BY <1>1, DebitIsCredit
<1>3. \A k \in Classrooms : Total(k)' = Total(k)
  <2> TAKE k \in Classrooms
  <2>1. InWallets(wallet, k)' = InWallets(wallet, k) + (IF k = c THEN -n ELSE 0)
    BY <1>1, <1>2, Moved
  <2>2. InWallets(spent, k)' = InWallets(spent, k) + (IF k = c THEN n ELSE 0)
    <3>1. spent \in [Users \X Classrooms -> Int]
      BY <1>1 DEF HistoryTyped
    <3> PICK g : g = spent'
      OBVIOUS
    <3>2. /\ \A v \in Users : spent[<<v, k>>] \in Int
          /\ \A v \in Users : v # u => g[<<v, k>>] = spent[<<v, k>>]
      BY <1>1, <3>1
    <3>3. g[<<u, k>>] = spent[<<u, k>>] + (IF k = c THEN n ELSE 0)
      BY <1>1, <3>1
    <3>4. g[<<u, k>>] \in Int
      BY <1>1, <3>2, <3>3
    <3>5. InWallets(g, k) = InWallets(spent, k) - spent[<<u, k>>] + g[<<u, k>>]
      BY <3>2, <3>4, WalletsChange
    <3>6. InWallets(spent, k) \in Int
      BY <3>1, WalletsInt
    <3>7. InWallets(spent, k)' = InWallets(g, k)
      BY DEF InWallets
    <3>. QED  BY <1>1, <3>2, <3>3, <3>5, <3>6, <3>7
  <2>3. InEscrow(k)' = InEscrow(k)
    BY <1>1 DEF InEscrow, JobsIn
  <2>4. Total(k)' = InWallets(wallet, k)' + InEscrow(k)' + InWallets(spent, k)'
    BY DEF Total
  <2>. QED  BY <1>1, <2>1, <2>2, <2>3, <2>4, TotalInt DEF Total
<1>4. InFlight' = InFlight
  BY <1>1 DEF InFlight
<1>5. OneByOne' /\ Telling' /\ SettledOnce'
  BY <1>1, <1>4 DEF SerialInv, OneByOne, Telling, SettledOnce, Tells, ApplicantsIn
<1>6. Balanced'
  BY <1>1, <1>3, <1>4 DEF SerialInv, Balanced, Start, InWallets, InTransit, Transit
<1>7. \A r \in InFlight' : /\ job'[task'[r].job] = Expected(pc[r], task[r])'
                           /\ StatusSeen(pc[r], task[r])'
  BY <1>1, <1>4 DEF SerialInv, Expected, Contracted, StatusSeen
<1>8. \A r \in InFlight' : AppsMoved(pc[r], task[r], todo[r])'
  BY <1>1, <1>4 DEF SerialInv, AppsMoved, Tells, ApplicantsIn
<1>. QED  BY <1>5, <1>6, <1>7, <1>8 DEF SerialInv

\* A job row, once inserted, is only ever updated, and every application a
\* handler writes belongs to the job it read.
LEMMA FiledKept ==
  ASSUME IInv, Filed, [Next]_vars
  PROVE  Filed'
<1> USE DEF rows, locals, history
<1>1. ASSUME UNCHANGED <<job, app>> PROVE Filed'
  BY <1>1 DEF Filed
<1>2. ASSUME NEW j \in Jobs, NEW row \in Job, job' = [job EXCEPT ![j] = row], UNCHANGED app
      PROVE  Filed'
  BY <1>2, NoneAssumption DEF Filed, IInv, TypeOK, RowsTyped
<1>3. ASSUME NEW r \in Requests, NEW u \in Users, NEW row, pc[r] # "idle", UNCHANGED job,
             app' = [app EXCEPT ![<<task[r].job, u>>] = row]
      PROVE  Filed'
  <2>1. task[r].job \in Jobs /\ job[task[r].job] # None /\ RowsTyped
    BY <1>3, Running, NoneAssumption DEF IInv, TypeOK
  <2>2. \A i \in Jobs, v \in Users : i # task[r].job => app'[<<i, v>>] = app[<<i, v>>]
    BY <1>3, <2>1 DEF RowsTyped
  <2>. QED  BY <1>3, <2>1, <2>2 DEF Filed
<1>4. ASSUME NEW u \in Users, NEW j \in Jobs, CreateJob(u, j) PROVE Filed'
  <2> PICK row : row = [client |-> u, room |-> active[u], status |-> "open",
                        freelancer |-> None, escrow |-> 0, agreed |-> 0, workCompleted |-> FALSE]
    OBVIOUS
  <2>1. active[u] \in Classrooms
    BY DEF IInv, TypeOK, RowsTyped
  <2>2. row \in Job
    BY <2>1 DEF Job, JobStatus
  <2>. QED  BY <1>2, <1>4, <2>2 DEF CreateJob
<1>5. ASSUME NEW r \in Requests, Client(r) PROVE Filed'
  <2>1. PICK u \in Users, j \in Jobs :
          \/ \E p \in Prices : BeginApply(r, u, j, p)
          \/ \E v \in Users : BeginAccept(r, u, j, v)
          \/ \E to : Begin(r, u, j, to)
    BY <1>5 DEF Client, BeginComplete, BeginApprove, BeginDispute, BeginReview, BeginCancel
  <2>2. UNCHANGED <<job, app>>
    BY <2>1 DEF BeginApply, BeginAccept, Begin
  <2>. QED  BY <1>1, <2>2
<1>6. ASSUME NEW r \in Requests, Handler(r) PROVE Filed'
  <2>2. CASE \/ CreateApplication(r) \/ AcceptApplication(r)
             \/ RejectOther(r) \/ RejectEvery(r)
    <3>1. /\ pc[r] # "idle" /\ task[r].applicant \in Users /\ todo[r] \subseteq Users
          /\ UNCHANGED job
      BY <2>2, Running DEF CreateApplication, AcceptApplication, RejectOther, RejectEvery, Task,
                           IInv, TypeOK, HandlersTyped
    <3>2. CASE CreateApplication(r)
      BY <1>3, <3>1, <3>2 DEF CreateApplication, ApplicationOf
    <3>3. CASE AcceptApplication(r)
      BY <1>3, <3>1, <3>3 DEF AcceptApplication, ApplicationOf
    <3>4. CASE RejectOther(r) \/ RejectEvery(r)
      BY <1>3, <3>1, <3>4 DEF RejectOther, RejectEvery, Reject
    <3>. QED  BY <2>2, <3>2, <3>3, <3>4
  <2>3. ASSUME NEW from, NEW to, NEW row \in Job,
               UpdateJob(r, from, row, to) \/ FinishJob(r, from, row), from # "idle"
        PROVE  Filed'
    <3>1. task[r].job \in Jobs /\ job' = [job EXCEPT ![task[r].job] = row] /\ UNCHANGED app
      BY <2>3, Running DEF UpdateJob, FinishJob
    <3>. QED  BY <1>2, <3>1
  <2>4. pc[r] # "idle" => Row(r) \in Job /\ task[r].price \in Int /\ task[r].applicant \in Users
    BY Running DEF Task
  <2> PICK row : row = Row(r)
    OBVIOUS
  <2>5. CASE SetFreelancer(r) \/ HoldEscrow(r)
    <3>1. row \in Job /\ task[r].price \in Int /\ task[r].applicant \in Users
      BY <2>4, <2>5 DEF SetFreelancer, HoldEscrow, UpdateJob
    <3>2. /\ [row EXCEPT !.freelancer = task[r].applicant, !.agreed = task[r].price,
                          !.status = "in_progress"] \in Job
          /\ [row EXCEPT !.escrow = task[r].price] \in Job
      BY <3>1 DEF Job, JobStatus
    <3>. QED  BY <2>3, <2>5, <3>2 DEF SetFreelancer, HoldEscrow
  <2>6. CASE ClearEscrow(r) \/ ReleaseEscrow(r)
    <3>1. row \in Job
      BY <2>4, <2>6 DEF ClearEscrow, ReleaseEscrow, UpdateJob
    <3>2. [row EXCEPT !.escrow = 0] \in Job
      BY <3>1 DEF Job
    <3>. QED  BY <2>3, <2>6, <3>2 DEF ClearEscrow, ReleaseEscrow
  <2>7. CASE SetWorkCompleted(r)
    <3>1. row \in Job
      BY <2>4, <2>7 DEF SetWorkCompleted, FinishJob
    <3>2. [row EXCEPT !.workCompleted = TRUE] \in Job
      BY <3>1 DEF Job
    <3>. QED  BY <2>3, <2>7, <3>2 DEF SetWorkCompleted
  <2>8. CASE SetCompleted(r) \/ SetDisputed(r) \/ SetCancelled(r)
    <3>1. row \in Job
      BY <2>4, <2>8 DEF SetCompleted, SetDisputed, SetCancelled, FinishJob
    <3>2. \A s \in JobStatus : [row EXCEPT !.status = s] \in Job
      BY <3>1 DEF Job
    <3>. QED  BY <2>3, <2>8, <3>2 DEF SetCompleted, SetDisputed, SetCancelled, JobStatus
  <2>9. CASE \/ DebitEscrow(r) \/ RefuseEscrow(r) \/ ListOthers(r) \/ PayFreelancer(r)
             \/ RefusePay(r) \/ CreateReview(r) \/ ListAll(r) \/ RefundClient(r)
    BY <1>1, <2>9 DEF DebitEscrow, RefuseEscrow, ListOthers, PayFreelancer, RefusePay, CreateReview,
                      ListAll, RefundClient
  <2>. QED  BY <1>6, <2>2, <2>5, <2>6, <2>7, <2>8, <2>9 DEF Handler
<1>7. CASE Environment
  BY <1>1, <1>7 DEF Environment, OtherDebit, ActivateClassroom, Restart
<1>8. CASE UNCHANGED vars
  BY <1>1, <1>8 DEF vars
<1>. QED  BY <1>4, <1>5, <1>6, <1>7, <1>8 DEF Next, Quiet

\* A step that leaves one request in flight and the server up.
LEMMA SerialStep ==
  ASSUME IInv, Filed, SerialInv, OneByOne', [Next]_vars
  PROVE  SerialInv'
<1>1. ASSUME NEW u \in Users, NEW j \in Jobs, CreateJob(u, j) PROVE SerialInv'
  BY <1>1, CreateJobSerial
<1>2. ASSUME NEW r \in Requests, Client(r) \/ Handler(r) PROVE SerialInv'
  BY <1>2, ClientSerial, HandlerSerial
<1>3. CASE Environment
  <2>1. ASSUME NEW u \in Users, NEW k \in Classrooms, NEW n \in Spendings,
               OtherDebit(<<u, k>>, n)
        PROVE  SerialInv'
    BY <2>1, OtherDebitSerial
  <2>2. ASSUME NEW u \in Users, NEW k \in Classrooms, ActivateClassroom(u, k)
        PROVE  SerialInv'
    BY <2>2, UntouchedSerial DEF ActivateClassroom
  <2>3. ~Restart
    BY DEF Restart, OneByOne, IInv, TypeOK, HistoryTyped
  <2>. QED  BY <1>3, <2>1, <2>2, <2>3 DEF Environment
<1>4. CASE UNCHANGED vars
  BY <1>4, UntouchedSerial DEF vars
<1>. QED  BY <1>1, <1>2, <1>3, <1>4 DEF Next, Quiet

LEMMA SerialStart ==
  ASSUME Init
  PROVE  Filed /\ SerialInv
<1>1. InFlight = {} /\ OneByOne /\ Filed /\ Telling /\ SettledOnce
  BY DEF Init, InFlight, OneByOne, Filed, Telling, SettledOnce
<1>2. \A k \in Classrooms : Total(k) = Start(k)
  <2> TAKE k \in Classrooms
  <2>1. JobsIn(k) = {}
    BY DEF Init, JobsIn
  <2> PICK f : f = [j \in {} |-> job[j].escrow]
    OBVIOUS
  <2>2. InEscrow(k) = SumOf(f, {})
    BY <2>1 DEF InEscrow
  <2>3. InEscrow(k) = 0
    BY <2>2, SumOfNothing
  <2> PICK z : z = [u \in Users |-> spent[<<u, k>>]]
    OBVIOUS
  <2>4. \A u \in Users : z[u] = 0
    BY DEF Init
  <2>5. SumOf(z, Users) = 0
    BY <2>4, FreelanceAssumption, SumOfZeroes
  <2>6. InWallets(spent, k) = SumOf(z, Users)
    BY DEF InWallets
  <2>7. InWallets(wallet, k) = Start(k)
    BY DEF Init, Start
  <2>8. Start(k) \in Int
    <3>1. InitialFunds \in [Users \X Classrooms -> Int]
      BY FreelanceAssumption
    <3>. QED  BY <3>1, WalletsInt DEF Start
  <2>. QED  BY <2>3, <2>5, <2>6, <2>7, <2>8 DEF Total
<1>. QED  BY <1>1, <1>2 DEF SerialInv, Balanced

\* Where requests come one at a time, in every classroom what left the wallets is
\* what the jobs hold in escrow, a job's columns and its applications tell the
\* same story, and its escrow is settled at most once, to the freelancer or back
\* to the client (freelance_usecase.go:186-408).
THEOREM ContractsStandSerially == SerialSpec => []SerialContracts
<1> DEFINE Inv == IInv /\ Filed /\ (serial => SerialInv)
<1>1. SerialInit => Inv
  BY InitSound, SerialStart DEF SerialInit
<1>2. Inv /\ [SerialNext]_<<vars, serial>> => Inv'
  <2> SUFFICES ASSUME Inv, [SerialNext]_<<vars, serial>> PROVE Inv'
    OBVIOUS
  <2>1. [Next]_vars /\ serial' = serial
    BY DEF SerialNext
  <2>2. IInv' /\ Filed'
    BY <2>1, StepSound, FiledKept
  <2>4. serial => SerialInv'
    <3>1. CASE SerialNext
      BY <2>1, <3>1, SerialStep DEF SerialNext
    <3>2. CASE UNCHANGED <<vars, serial>>
      BY <3>2, UntouchedSerial DEF vars
    <3>. QED  BY <3>1, <3>2
  <2>. QED  BY <2>1, <2>2, <2>4
<1>3. Inv => SerialContracts
  <2> SUFFICES ASSUME SerialInv PROVE EscrowConserved /\ ContractConsistent
    BY DEF SerialContracts
  <2>1. Idle => InFlight = {}
    BY DEF Idle, InFlight
  <2>2. EscrowConserved
    BY <2>1 DEF SerialInv, Balanced, EscrowConserved, Total, Start
  <2>3. ContractConsistent
    <3>1. \A j \in Jobs : payouts[j] <= 1
      BY DEF SerialInv, SettledOnce
    <3>. QED  BY <2>1, <3>1 DEF SerialInv, Telling, ContractConsistent
  <2>. QED  BY <2>2, <2>3
<1>. QED
  <2>1. SerialSpec => []Inv
    BY <1>1, <1>2, PTL DEF SerialSpec
  <2>. QED  BY <1>3, <2>1, PTL

=============================================================================
