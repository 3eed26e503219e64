------------------------------- MODULE Grants -------------------------------
(***************************************************************************)
(* Grants (application/grant_usecase.go, persistence/grant_repo.go).  The     *)
(* admin who published a grant pays its reward to the users whose application *)
(* is approved, from and to the wallets of the grant's classroom.  The status *)
(* is written before the money moves, and nothing puts it back.              *)
(***************************************************************************)
EXTENDS Classroom

CONSTANTS
  GrantIds,          \* ids of grants
  StartGrant,        \* grants at the start
  Applications,      \* ids of applications
  StartApplication,  \* grant_applications at the start
  GrantRewards       \* rewards offered

ASSUME GrantAssumption == GrantRewards \subseteq Nat \ {0}

VARIABLES
  grant,         \* grants
  application    \* grant_applications; a row that was deleted keeps its id

grants == <<grant, application>>

GrantsInit(offers) == grant = offers /\ application = StartApplication

Offered(g) == grant[g] # None /\ grant[g].status = "open"

ApplicationIn(x, status) == application[x] # None /\ application[x].status = status

Applied(u, g) ==
  \E x \in Applications :
    /\ application[x] # None /\ application[x].status # "deleted"
    /\ application[x].grant = g /\ application[x].user = u

\* An UPDATE of a row that is gone changes nothing.
UpdateApplicationStatus(x, status) ==
  application' = [application EXCEPT ![x].status = IF @ = "deleted" THEN @ ELSE status]

-----------------------------------------------------------------------------
GrantRow(a) == [admin |-> Staff, room |-> active[Staff], reward |-> a, status |-> "open"]

CreateGrant ==
  \E a \in GrantRewards, g \in FreeId(grant) :
    /\ AnswerAtOnce("CreateGrant")
    /\ grant' = [grant EXCEPT ![g] = GrantRow(a)]
    /\ UNCHANGED <<money, active, classroom, application>>

ApplyToGrant(r) ==
  \E u \in Users, g \in GrantIds :
    /\ MayAct(u) /\ Offered(g)
    /\ grant[g].admin # u
    /\ grant[g].room = active[u]
    /\ ~Applied(u, g)
    /\ Receive(r, "ApplyToGrant", "apply:insert", [user |-> u, g |-> g])
    /\ UNCHANGED <<money, active, classroom, grants>>

\* UNIQUE (grant_id, user_id) refuses a second row.
ApplicationRow(g, u) == [grant |-> g, user |-> u, status |-> "pending"]

ApplyInsert(r) ==
  LET t == task[r]
  IN  /\ At(r, "apply:insert")
      /\ Return(r)
      /\ IF Applied(t.user, t.g) \/ FreeId(application) = {} THEN UNCHANGED application
         ELSE \E x \in FreeId(application) :
                application' = [application EXCEPT ![x] = ApplicationRow(t.g, t.user)]
      /\ UNCHANGED <<money, active, classroom, grant>>

DeleteApplication(r) ==
  \E x \in Applications :
    /\ ApplicationIn(x, "pending")
    /\ Receive(r, "DeleteApplication", "unapply:delete", [x |-> x])
    /\ UNCHANGED <<money, active, classroom, grants>>

UnapplyDelete(r) ==
  /\ At(r, "unapply:delete")
  /\ Return(r)
  /\ UpdateApplicationStatus(task[r].x, "deleted")
  /\ UNCHANGED <<money, active, classroom, grant>>

CloseGrant ==
  \E g \in GrantIds :
    /\ Offered(g)
    /\ AnswerAtOnce("CloseGrant")
    /\ grant' = [grant EXCEPT ![g].status = "closed"]
    /\ UNCHANGED <<money, active, classroom, application>>

-----------------------------------------------------------------------------
(* ApproveApplication pays admin to applicant, RevokeApplication the other    *)
(* way; neither looks at whether the grant is still open.                    *)

Payment(x, payer, payee, status) ==
  [x |-> x, g |-> application[x].grant, room |-> grant[application[x].grant].room,
   reward |-> grant[application[x].grant].reward,
   payer |-> payer, payee |-> payee, status |-> status]

ApproveApplication(r) ==
  \E x \in Applications :
    /\ ApplicationIn(x, "pending")
    /\ Receive(r, "ApproveApplication", "grant:status",
         Payment(x, grant[application[x].grant].admin, application[x].user, "approved"))
    /\ UNCHANGED <<money, active, classroom, grants>>

\* Back to pending first, then the student pays, then the administrator is paid.
Rollback(x) == Payment(x, application[x].user, grant[application[x].grant].admin, "pending")

RevokeApplication(r) ==
  \E x \in Applications :
    /\ ApplicationIn(x, "approved")
    /\ Receive(r, "RevokeApplication", "grant:status", Rollback(x))
    /\ UNCHANGED <<money, active, classroom, grants>>

GrantStatus(r) ==
  LET t == task[r]
  IN  /\ At(r, "grant:status")
      /\ GotoWith(r, "ensure:select", EnsureFor(t.payer, t.room, "grant:debit", t))
      /\ UpdateApplicationStatus(t.x, t.status)
      /\ UNCHANGED <<money, active, classroom, grant>>

\* Where a refused debit leads.
AfterRefusedDebit_GoesOn(r, t) ==
  GotoWith(r, "ensure:select", EnsureFor(t.payee, t.room, "grant:credit", t))

AfterRefusedDebit(r, t) == Return(r)

GrantDebit(r) ==
  LET t == task[r]
  IN  /\ At(r, "grant:debit")
      /\ IF CanDebit(t.wallet, t.reward)
           THEN /\ GotoWith(r, "ensure:select", EnsureFor(t.payee, t.room, "grant:credit", t))
                /\ Debit(t.wallet, t.reward, "freelance_escrow", t.g)
           ELSE AfterRefusedDebit(r, t) /\ UNCHANGED money
      /\ UNCHANGED <<active, classroom, grants>>

GrantCredit(r) ==
  LET t == task[r]
  IN  /\ At(r, "grant:credit")
      /\ Return(r)
      /\ Credit(t.wallet, t.reward, "freelance_pay", t.g)
      /\ UNCHANGED <<active, classroom, grants>>

-----------------------------------------------------------------------------
GrantsStep(r) ==
  ApplyInsert(r) \/ UnapplyDelete(r) \/ GrantStatus(r) \/ GrantDebit(r) \/ GrantCredit(r)

GrantsRequest(r) ==
  \/ ApplyToGrant(r) \/ DeleteApplication(r)
  \/ ApproveApplication(r) \/ RevokeApplication(r) \/ CloseGrant

GrantsNext ==
  \/ CreateGrant
  \/ \E r \in Requests : GrantsStep(r) \/ GrantsRequest(r)
=============================================================================
