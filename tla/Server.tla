------------------------------- MODULE Server -------------------------------
(***************************************************************************)
(* What all use cases of the server share: the goroutines that serve        *)
(* requests, the personal wallets of persistence/wallet_repo.go, and the    *)
(* restart of the process.  Component modules extend this one with the rows *)
(* they keep and the handlers that change them.                             *)
(*                                                                         *)
(* A handler runs one statement after the other (pc says which is next) on  *)
(* what it has read so far (task).  sqlite.go opens a single connection, so *)
(* a statement, or a repository method wrapped in withDBTx, is one action;  *)
(* handlers interleave between them.                                        *)
(*                                                                         *)
(* Mutants: a definition named X_Y is X with the defect Y.  The models never *)
(* use it; the mutants of PROJECT.json put it in X's place.                  *)
(***************************************************************************)
EXTENDS Integers, FiniteSets

CONSTANTS
  Users,
  Classrooms,
  Requests,      \* the handler goroutines that may be in flight at once
  InitialFunds,  \* wallet balances at the start
  HomeRoom,      \* users.active_classroom_id at the start
  Workloads,     \* mixes of request kinds; the clients of a behaviour send one
  MaxRequests,   \* bound on the requests of a behaviour, by workload
  MaxRestarts,   \* bound on restarts
  None

ASSUME ServerAssumption ==
  /\ IsFiniteSet(Users) /\ IsFiniteSet(Requests) /\ Requests # {}
  /\ InitialFunds \in [Users \X Classrooms -> Nat]
  /\ HomeRoom \in [Users -> Classrooms]
  /\ MaxRequests \in [Workloads -> Nat] /\ MaxRestarts \in Nat

VARIABLES
  wallet,      \* wallets.balance by <<user, classroom>>; no row is 0
  log,         \* transactions: sum and number by <<wallet, tx_type, reference>>
  active,      \* users.active_classroom_id
  pc,          \* where each handler is
  task,        \* what it was asked, and what it has read so far
  workload,    \* the kinds of requests the clients send
  served,      \* requests received
  restarts,    \* restarts of the process
  overlapped   \* history: two requests have been in flight together

money     == <<wallet, log>>
handlers  == <<pc, task>>
control   == <<workload, served, restarts, overlapped>>
server    == <<money, active, handlers, control>>

Wallets == Users \X Classrooms

\* A row, or what a handler remembers, with some columns written or added.
With(t, new) ==
  [x \in DOMAIN t \cup DOMAIN new |-> IF x \in DOMAIN new THEN new[x] ELSE t[x]]

ServerInit ==
  /\ wallet = InitialFunds
  /\ log = <<>>
  /\ pc = [r \in Requests |-> "idle"]
  /\ task = [r \in Requests |-> None]
  /\ workload \in Workloads
  /\ served = 0
  /\ restarts = 0
  /\ overlapped = FALSE

-----------------------------------------------------------------------------
(* Handlers *)

Idle(r) == pc[r] = "idle"
AllIdle == \A r \in Requests : Idle(r)

Awaited(kind) == kind \in workload /\ served < MaxRequests[workload]

\* A request of this kind arrives.
Arrives(kind) ==
  /\ Awaited(kind)
  /\ served' = served + 1
  /\ overlapped' = (overlapped \/ ~AllIdle)
  /\ UNCHANGED <<workload, restarts>>

\* Handler r takes it up, has done its first read and goes on to step `to`.
Receive(r, kind, to, t) ==
  /\ Idle(r)
  /\ Arrives(kind)
  /\ pc' = [pc EXCEPT ![r] = to]
  /\ task' = [task EXCEPT ![r] = t]

\* A request whose only change is one statement, all its reads but the one that
\* decides being of rows that never change: received and answered at once.
AnswerAtOnce(kind) == Arrives(kind) /\ UNCHANGED handlers

\* Handler r stands before this step; it goes on, with or without something to
\* remember, or answers, with a result or an error.
At(r, step) == pc[r] = step

GotoWith(r, to, t) ==
  /\ pc' = [pc EXCEPT ![r] = to]
  /\ task' = [task EXCEPT ![r] = t]
  /\ UNCHANGED control

Goto(r, to) == GotoWith(r, to, task[r])

Return(r) == GotoWith(r, "idle", None)

\* The server is redeployed: handlers vanish, every committed statement stays.  What
\* the start that follows writes is its caller's.
ServerRestart ==
  /\ restarts < MaxRestarts
  /\ ~AllIdle
  /\ restarts' = restarts + 1
  /\ pc' = [r \in Requests |-> "idle"]
  /\ task' = [r \in Requests |-> None]
  /\ UNCHANGED <<money, workload, served, overlapped>>

-----------------------------------------------------------------------------
(* Personal wallets.  Credit and Debit write balance and log in one          *)
(* transaction and refuse an amount that is not positive.                   *)

Logged(l, key, amount) ==
  [x \in DOMAIN l \cup {key} |->
     IF x # key THEN l[x]
     ELSE IF x \in DOMAIN l
       THEN [sum |-> l[x].sum + amount, n |-> l[x].n + 1]
       ELSE [sum |-> amount, n |-> 1]]

CanCredit(amount) == amount > 0

CanDebit(w, amount) == amount > 0 /\ wallet[w] >= amount

Credit(w, amount, type, ref) ==
  /\ wallet' = [wallet EXCEPT ![w] = @ + amount]
  /\ log' = Logged(log, <<w, type, ref>>, amount)

Debit(w, amount, type, ref) ==
  /\ wallet' = [wallet EXCEPT ![w] = @ - amount]
  /\ log' = Logged(log, <<w, type, ref>>, -amount)

\* What the log says of one kind of entry, and how often it was written.
LogSum(w, type, ref) ==
  IF <<w, type, ref>> \in DOMAIN log THEN log[<<w, type, ref>>].sum ELSE 0

LogCount(w, type, ref) ==
  IF <<w, type, ref>> \in DOMAIN log THEN log[<<w, type, ref>>].n ELSE 0

-----------------------------------------------------------------------------
ServerTypeOK ==
  /\ wallet \in [Wallets -> Int]
  /\ active \in [Users -> Classrooms]
  /\ workload \in Workloads
  /\ served \in 0 .. MaxRequests[workload]
  /\ restarts \in 0 .. MaxRestarts
  /\ overlapped \in BOOLEAN
=============================================================================
