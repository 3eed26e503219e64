------------------------------ MODULE Classroom -----------------------------
(***************************************************************************)
(* Accounts, classrooms and the wallet rows of their members                 *)
(* (application/auth_usecase.go, classroom_usecase.go, the transfers of      *)
(* wallet_usecase.go, persistence/wallet_repo.go).  A user has at most one   *)
(* wallet per classroom; classroom 0 stands for none.  The row made when an  *)
(* account is approved belongs to 0 and moves to the first classroom that    *)
(* needs a wallet.  Rows never vanish, so <<u, n>> is the n-th row of u.     *)
(***************************************************************************)
EXTENDS Server, TLC, Sequences, SequencesExt

CONSTANTS
  Staff,          \* the user with the admin role
  StartAccount,   \* users.status at the start
  StartSeat,      \* wallets.classroom_id at the start
  StartMember,    \* classroom_members at the start
  StartRooms,     \* classrooms at the start
  InitialCapital, \* classrooms.initial_capital
  Gifts           \* amounts sent, with a sign when an admin sends them

ASSUME ClassroomAssumption ==
  /\ Classrooms = 0 .. Cardinality(Classrooms) - 1
  /\ Staff \in Users /\ StartMember \subseteq StartRooms \X Users /\ 0 \notin StartRooms
  /\ InitialCapital \in Nat \ {0} /\ Gifts \subseteq Int \ {0}

\* Of users, and of whatever else the administrator judges.
Statuses == {"pending", "approved", "rejected"}

VARIABLES
  account,   \* users.status; None: not registered
  token,     \* the status in the user's token, which no later change touches
  rooms,     \* ids of classrooms
  member,    \* classroom_members
  seat       \* wallets.classroom_id by row; None: no such row

classroom == <<account, token, rooms, member, seat>>

ClassroomInit(home, seats) ==
  /\ active = home
  /\ account = StartAccount
  /\ token = StartAccount
  /\ rooms = StartRooms
  /\ member = StartMember
  /\ seat = seats

-----------------------------------------------------------------------------
(* Rows *)

Registered(u) == account[u] # None

\* The id an INSERT takes, if there is one left.
FreeId(table) ==
  LET free == {i \in DOMAIN table : table[i] = None}
  IN  IF free = {} THEN {} ELSE {CHOOSE i \in free : TRUE}

\* The middleware looks at the token only.
MayAct(u) == token[u] = "approved"

RowsOf(u) == {w \in Wallets : w[1] = u /\ seat[w] # None}

\* FindByUserAndClassroom: no row or the one that UNIQUE (user, classroom) allows.
WalletIn(u, k) == {w \in RowsOf(u) : seat[w] = k}

\* FindByUserID: the active classroom's, else the lowest classroom's.
WalletFound(u) ==
  IF WalletIn(u, active[u]) # {} THEN WalletIn(u, active[u])
  ELSE {w \in RowsOf(u) : \A x \in RowsOf(u) : seat[w] <= seat[x]}

TheWallet(s) == CHOOSE w \in s : TRUE

NewRow(u) == <<u, Cardinality(RowsOf(u))>>

\* Handler r goes on at `then` with the wallet it asked for, or answers.
GoOnWith(r, w, isNew) ==
  IF task[r].then = "answer" THEN Return(r)
  ELSE GotoWith(r, task[r].then, With(task[r], [wallet |-> w, isNew |-> isNew]))

-----------------------------------------------------------------------------
(* EnsureClassroomWallet(whom, where), then go on at `then`: the row, and     *)
(* whether the classroom has just got it.                                    *)

EnsureFor(u, k, then, t) == With(t, [whom |-> u, where |-> k, then |-> then])

EnsureSelect(r) ==
  LET t == task[r]  found == WalletIn(t.whom, t.where)
  IN  /\ At(r, "ensure:select")
      /\ IF found # {} THEN GoOnWith(r, TheWallet(found), FALSE) ELSE Goto(r, "ensure:move")
      /\ UNCHANGED <<money, active, classroom>>

\* The unassigned row, unless UNIQUE forbids to move it.
Movable(t) ==
  IF t.where # 0 /\ WalletIn(t.whom, t.where) # {} THEN {} ELSE WalletIn(t.whom, 0)

\* UPDATE it, if there is one.
EnsureMove(r) ==
  LET t == task[r]  free == Movable(t)
  IN  /\ At(r, "ensure:move")
      /\ IF free = {} THEN Goto(r, "ensure:insert") /\ UNCHANGED seat
         ELSE /\ GotoWith(r, "ensure:reread", With(t, [isNew |-> TRUE]))
              /\ seat' = [seat EXCEPT ![TheWallet(free)] = t.where]
      /\ UNCHANGED <<money, active, account, token, rooms, member>>

Conflicts_Never(t) == FALSE

\* UNIQUE (user, classroom): somebody else has inserted the row meanwhile ...
Conflicts(t) == WalletIn(t.whom, t.where) # {}

\* ... and then it is no news.
InsertIsNew_Always(t) == TRUE

InsertIsNew(t) == ~Conflicts(t)

EnsureInsert(r) ==
  LET t == task[r]
  IN  /\ At(r, "ensure:insert")
      /\ IF Conflicts(t)
           THEN GotoWith(r, "ensure:reread", With(t, [isNew |-> InsertIsNew(t)]))
                /\ UNCHANGED seat
           ELSE GoOnWith(r, NewRow(t.whom), TRUE)
                /\ seat' = [seat EXCEPT ![NewRow(t.whom)] = t.where]
      /\ UNCHANGED <<money, active, account, token, rooms, member>>

\* SELECT it back; classroom 0's row may have moved on by now.
EnsureReread(r) ==
  LET t == task[r]  found == WalletIn(t.whom, t.where)
  IN  /\ At(r, "ensure:reread")
      /\ IF found # {} THEN GoOnWith(r, TheWallet(found), t.isNew) ELSE Return(r)
      /\ UNCHANGED <<money, active, classroom>>

\* FindByUserID, and CreateWallet in the active classroom if there is no row.
OwnFind(r) ==
  LET t == task[r]
  IN  /\ At(r, "own:find")
      /\ IF RowsOf(t.whom) # {} THEN GoOnWith(r, TheWallet(WalletFound(t.whom)), FALSE)
         ELSE Goto(r, "own:create")
      /\ UNCHANGED <<money, active, classroom>>

OwnCreate(r) ==
  LET t == task[r]
  IN  /\ At(r, "own:create")
      /\ IF WalletIn(t.whom, active[t.whom]) = {}
           THEN GoOnWith(r, NewRow(t.whom), TRUE)
                /\ seat' = [seat EXCEPT ![NewRow(t.whom)] = active[t.whom]]
           ELSE Goto(r, "own:find") /\ UNCHANGED seat
      /\ UNCHANGED <<money, active, account, token, rooms, member>>

-----------------------------------------------------------------------------
(* Accounts *)

Register ==
  \E u \in Users :
    /\ ~Registered(u)
    /\ AnswerAtOnce("Register")
    /\ account' = [account EXCEPT ![u] = "pending"]
    /\ token' = [token EXCEPT ![u] = "pending"]
    /\ UNCHANGED <<money, active, rooms, member, seat>>

Login ==
  \E u \in Users :
    /\ Registered(u) /\ account[u] # "rejected"
    /\ AnswerAtOnce("Login")
    /\ token' = [token EXCEPT ![u] = account[u]]
    /\ UNCHANGED <<money, active, account, rooms, member, seat>>

AdminApprove(r) ==
  \E u \in Users \ {Staff} :
    /\ Registered(u)
    /\ Receive(r, "AdminApprove", "own:find", [whom |-> u, then |-> "answer"])
    /\ account' = [account EXCEPT ![u] = "approved"]
    /\ UNCHANGED <<money, active, token, rooms, member, seat>>

AdminReject ==
  \E u \in Users \ {Staff} :
    /\ Registered(u)
    /\ AnswerAtOnce("AdminReject")
    /\ account' = [account EXCEPT ![u] = "rejected"]
    /\ UNCHANGED <<money, active, token, rooms, member, seat>>

-----------------------------------------------------------------------------
(* Classrooms *)

CreateClassroom(r) ==
  LET k == Cardinality(rooms) + 1
  IN  /\ k \in Classrooms
      /\ Receive(r, "CreateClassroom", "create:member", [user |-> Staff, room |-> k])
      /\ rooms' = rooms \cup {k}
      /\ UNCHANGED <<money, active, account, token, member, seat>>

AddMember(k, u) == member' = member \cup {<<k, u>>}

CreateAddMember(r) ==
  /\ At(r, "create:member")
  /\ Goto(r, "room:activate")
  /\ AddMember(task[r].room, task[r].user)
  /\ UNCHANGED <<money, active, account, token, rooms, seat>>

JoinClassroom(r) ==
  \E u \in Users, k \in rooms :
    /\ MayAct(u)
    /\ Receive(r, "JoinClassroom",
               IF <<k, u>> \in member THEN "room:activate" ELSE "join:member",
               [user |-> u, room |-> k])
    /\ UNCHANGED <<money, active, classroom>>

JoinAddMember(r) ==
  LET t == task[r]
  IN  /\ At(r, "join:member")
      /\ GotoWith(r, "ensure:select", EnsureFor(t.user, t.room, "join:capital", t))
      /\ AddMember(t.room, t.user)
      /\ UNCHANGED <<money, active, account, token, rooms, seat>>

\* The initial capital comes with the classroom's wallet, when it is new.
JoinCapital(r) ==
  LET t == task[r]
  IN  /\ At(r, "join:capital")
      /\ Goto(r, "room:activate")
      /\ IF t.isNew THEN Credit(t.wallet, InitialCapital, "initial_capital", t.room)
         ELSE UNCHANGED money
      /\ UNCHANGED <<active, classroom>>

ActivateClassroom(r) ==
  \E u \in Users, k \in rooms :
    /\ MayAct(u)
    /\ u = Staff \/ <<k, u>> \in member
    /\ Receive(r, "ActivateClassroom", "room:activate", [user |-> u, room |-> k])
    /\ UNCHANGED <<money, active, classroom>>

SetActiveClassroom(r) ==
  /\ At(r, "room:activate")
  /\ Return(r)
  /\ active' = [active EXCEPT ![task[r].user] = task[r].room]
  /\ UNCHANGED <<money, classroom>>

-----------------------------------------------------------------------------
(* AdminTransfer to one user or to all of them, one after the other, in the   *)
(* admin's classroom if there is one.  A Debit of type admin_transfer does    *)
(* not look at the balance.                                                  *)

AdminTransfer(r) ==
  LET all == {v \in Users : Registered(v)}
  IN  \E users \in {{u} : u \in all} \cup {all}, a \in Gifts :
        /\ Receive(r, "AdminTransfer", "gift:next",
                   [room |-> active[Staff], todo |-> SetToSeq(users), amount |-> a])
        /\ UNCHANGED <<money, active, classroom>>

GiftNext(r) ==
  LET t == task[r]
  IN  /\ At(r, "gift:next")
      /\ IF t.todo = <<>> THEN Return(r)
         ELSE GotoWith(r, IF t.room > 0 THEN "ensure:select" ELSE "own:find",
                EnsureFor(Head(t.todo), t.room, "gift:pay", With(t, [todo |-> Tail(t.todo)])))
      /\ UNCHANGED <<money, active, classroom>>

GiftPay(r) ==
  LET t == task[r]
  IN  /\ At(r, "gift:pay")
      /\ GotoWith(r, "gift:next", [room |-> t.room, todo |-> t.todo, amount |-> t.amount])
      /\ Credit(t.wallet, t.amount, "admin_transfer", "none")
      /\ UNCHANGED <<active, classroom>>

-----------------------------------------------------------------------------
(* Transfer between users: in the classroom of the sender's wallet.          *)

Transfer(r) ==
  /\ Awaited("Transfer")
  /\ \E u, v \in Users, a \in Gifts :
       /\ MayAct(u) /\ Registered(v) /\ a > 0
       /\ RowsOf(u) # {}
       /\ wallet[TheWallet(WalletFound(u))] >= a
       /\ Receive(r, "Transfer", "ensure:select",
            EnsureFor(v, seat[TheWallet(WalletFound(u))], "transfer:debit",
                      [from |-> TheWallet(WalletFound(u)), to |-> v, amount |-> a]))
       /\ UNCHANGED <<money, active, classroom>>

TransferDebit(r) ==
  LET t == task[r]
  IN  /\ At(r, "transfer:debit")
      /\ IF CanDebit(t.from, t.amount)
           THEN Goto(r, "transfer:credit") /\ Debit(t.from, t.amount, "transfer", t.to)
           ELSE Return(r) /\ UNCHANGED money
      /\ UNCHANGED <<active, classroom>>

TransferCredit(r) ==
  LET t == task[r]
  IN  /\ At(r, "transfer:credit")
      /\ Return(r)
      /\ Credit(t.wallet, t.amount, "transfer", t.from[1])
      /\ UNCHANGED <<active, classroom>>

-----------------------------------------------------------------------------
ClassroomStep(r) ==
  \/ EnsureSelect(r) \/ EnsureMove(r) \/ EnsureInsert(r) \/ EnsureReread(r)
  \/ OwnFind(r) \/ OwnCreate(r)
  \/ CreateAddMember(r) \/ JoinAddMember(r) \/ JoinCapital(r) \/ SetActiveClassroom(r)
  \/ GiftNext(r) \/ GiftPay(r) \/ TransferDebit(r) \/ TransferCredit(r)

\* The requests of the handlers for accounts, classrooms and wallets.

AuthRequest == Register \/ Login

AdmissionRequest(r) == AdminApprove(r) \/ AdminReject

ClassroomRequest(r) == CreateClassroom(r) \/ JoinClassroom(r) \/ ActivateClassroom(r)

WalletRequest(r) == Transfer(r) \/ AdminTransfer(r)

ClassroomNext ==
  \/ AuthRequest
  \/ \E r \in Requests :
       ClassroomStep(r) \/ AdmissionRequest(r) \/ ClassroomRequest(r) \/ WalletRequest(r)
=============================================================================
