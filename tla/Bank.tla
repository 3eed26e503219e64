-------------------------------- MODULE Bank --------------------------------
(***************************************************************************)
(* Bank loans (application/loan_usecase.go, persistence/loan_repo.go,        *)
(* domain/loan/entity.go).  A loan belongs to the classroom its borrower was  *)
(* in and is paid out to, and paid back from, that classroom's wallet.        *)
(* Rates are annual percentages, collected weekly; fractions are cut off.     *)
(***************************************************************************)
EXTENDS Classroom

CONSTANTS
  Loans,        \* ids of loans
  StartLoan,    \* loans at the start
  LoanAmounts,  \* amounts applied for
  Rates,        \* annual interest rates granted
  Repayments    \* amounts repaid

ASSUME BankAssumption ==
  /\ LoanAmounts \subseteq Nat \ {0} /\ Rates \subseteq Nat
  /\ Repayments \subseteq Nat \ {0}

VARIABLES
  loan,      \* loans
  due,       \* loans whose next_payment has passed
  payment,   \* loan_payments: total, principal and number of auto rows, by loan
  weeks      \* weeks that have passed

bank == <<loan, due, payment, weeks>>

NoPayment == [total |-> 0, principal |-> 0, autos |-> 0]

BankInit(loans) ==
  /\ loan = loans
  /\ due = {}
  /\ payment = [l \in Loans |-> NoPayment]
  /\ weeks = 0

LoanIn(l, status) == loan[l] # None /\ loan[l].status = status

Collectable(l) == LoanIn(l, "active") \/ LoanIn(l, "overdue")

\* CalcWeeklyInterest; CalcPenalty is the same with PenaltyRate, twice the rate.
CalcWeekly(remaining, rate) == (remaining * rate) \div (100 * 52)

Least(a, b) == IF a < b THEN a ELSE b

UpdateLoan(l, row) == loan' = [loan EXCEPT ![l] = With(@, row)]

-----------------------------------------------------------------------------
(* ApplyLoan, ApproveLoan, RejectLoan *)

LoanRow(u, a) ==
  [user |-> u, room |-> active[u], amount |-> a, remaining |-> a, rate |-> 0,
   status |-> "pending"]

ApplyLoan ==
  \E u \in Users, a \in LoanAmounts :
    /\ MayAct(u)
    /\ AnswerAtOnce("ApplyLoan")
    /\ \E l \in FreeId(loan) : loan' = [loan EXCEPT ![l] = LoanRow(u, a)]
    /\ UNCHANGED <<money, active, classroom, due, payment, weeks>>

ApproveLoan(r) ==
  \E l \in Loans, rate \in Rates :
    /\ LoanIn(l, "pending")
    /\ Receive(r, "ApproveLoan", "loan:approve", [l |-> l, row |-> loan[l], rate |-> rate])
    /\ UNCHANGED <<money, active, classroom, bank>>

\* Approve writes the row whatever its status is by now.
LoanApprove(r) ==
  LET t == task[r]
  IN  /\ At(r, "loan:approve")
      /\ GotoWith(r, "ensure:select", EnsureFor(t.row.user, t.row.room, "loan:credit", t))
      /\ UpdateLoan(t.l, [rate |-> t.rate, status |-> "active"])
      /\ due' = due \ {t.l}
      /\ UNCHANGED <<money, active, classroom, payment, weeks>>

LoanCredit(r) ==
  LET t == task[r]
  IN  /\ At(r, "loan:credit")
      /\ Return(r)
      /\ Credit(t.wallet, t.row.amount, "loan_disburse", t.l)
      /\ UNCHANGED <<active, classroom, bank>>

RejectLoan(r) ==
  \E l \in Loans :
    /\ LoanIn(l, "pending")
    /\ Receive(r, "RejectLoan", "loan:reject", [l |-> l])
    /\ UNCHANGED <<money, active, classroom, bank>>

LoanReject(r) ==
  /\ At(r, "loan:reject")
  /\ Return(r)
  /\ UpdateLoan(task[r].l, [status |-> "rejected"])
  /\ UNCHANGED <<money, active, classroom, due, payment, weeks>>

-----------------------------------------------------------------------------
(* RepayLoan: the penalty first, then the interest, then the principal.      *)

RepayLoan(r) ==
  \E l \in Loans, a \in Repayments :
    /\ Collectable(l)
    /\ MayAct(loan[l].user)
    /\ Receive(r, "RepayLoan", "repay:wallet", [l |-> l, row |-> loan[l], amount |-> a])
    /\ UNCHANGED <<money, active, classroom, bank>>

Split(row, amount) ==
  LET penalty == IF row.status = "overdue"
                   THEN Least(amount, CalcWeekly(row.remaining, 2 * row.rate)) ELSE 0
      interest == Least(amount - penalty, CalcWeekly(row.remaining, row.rate))
      principal == Least(amount - penalty - interest, row.remaining)
  IN  [total |-> penalty + interest + principal, principal |-> principal]

RepayReadWallet(r) ==
  LET t == task[r]  w == WalletIn(t.row.user, t.row.room)
  IN  /\ At(r, "repay:wallet")
      /\ IF w # {} /\ wallet[TheWallet(w)] >= t.amount
           THEN GotoWith(r, "repay:debit",
                  [l |-> t.l, row |-> t.row, wallet |-> TheWallet(w),
                   pay |-> Split(t.row, t.amount)])
           ELSE Return(r)
      /\ UNCHANGED <<money, active, classroom, bank>>

RepayDebit(r) ==
  LET t == task[r]
  IN  /\ At(r, "repay:debit")
      /\ IF CanDebit(t.wallet, t.pay.total)
           THEN Goto(r, "repay:remaining") /\ Debit(t.wallet, t.pay.total, "loan_repay", t.l)
           ELSE Return(r) /\ UNCHANGED money
      /\ UNCHANGED <<active, classroom, bank>>

RemainingAfter_TakesAll(t) == t.row.remaining - t.pay.total

RemainingAfter(t) == t.row.remaining - t.pay.principal

RepayRemaining(r) ==
  LET t == task[r]
  IN  /\ At(r, "repay:remaining")
      /\ Goto(r, "repay:record")
      /\ UpdateLoan(t.l, [remaining |-> RemainingAfter(t)])
      /\ UNCHANGED <<money, active, classroom, due, payment, weeks>>

RepayRecord(r) ==
  LET t == task[r]
  IN  /\ At(r, "repay:record")
      /\ Goto(r, IF RemainingAfter(t) <= 0 THEN "repay:paid" ELSE "repay:date")
      /\ payment' = [payment EXCEPT ![t.l].total = @ + t.pay.total,
                                    ![t.l].principal = @ + t.pay.principal]
      /\ UNCHANGED <<money, active, classroom, loan, due, weeks>>

RepayPaid(r) ==
  /\ At(r, "repay:paid")
  /\ Return(r)
  /\ UpdateLoan(task[r].l, [status |-> "paid"])
  /\ UNCHANGED <<money, active, classroom, due, payment, weeks>>

RepayDate(r) ==
  LET t == task[r]
  IN  /\ At(r, "repay:date")
      /\ IF t.row.status = "overdue" THEN Goto(r, "repay:active") ELSE Return(r)
      /\ due' = due \ {t.l}
      /\ UNCHANGED <<money, active, classroom, loan, payment, weeks>>

RepayActive(r) ==
  /\ At(r, "repay:active")
  /\ Return(r)
  /\ UpdateLoan(task[r].l, [status |-> "active"])
  /\ UNCHANGED <<money, active, classroom, due, payment, weeks>>

-----------------------------------------------------------------------------
(* ProcessWeeklyInterest *)

\* A week goes by: every loan that has been approved has its next_payment behind it.
WeekPasses ==
  /\ AnswerAtOnce("WeekPasses")
  /\ due' = {l \in Loans : loan[l] # None /\ loan[l].status \notin {"pending", "rejected"}}
  /\ weeks' = weeks + 1
  /\ UNCHANGED <<money, active, classroom, loan, payment>>

Interest(l) == CalcWeekly(loan[l].remaining, loan[l].rate)

\* ListActiveLoans, and what makes the loop skip a loan.
ProcessWeeklyInterest(r) ==
  LET todo == {l \in due : Collectable(l) /\ Interest(l) > 0}
  IN  /\ todo # {}
      /\ Receive(r, "ProcessWeeklyInterest", "interest:next",
           [todo |-> SetToSeq({[l |-> l, user |-> loan[l].user, room |-> loan[l].room,
                                interest |-> Interest(l)] : l \in todo})])
      /\ UNCHANGED <<money, active, classroom, bank>>

InterestNext(r) ==
  LET t == task[r]
      n == Head(t.todo)
      w == WalletIn(n.user, n.room)
      rest == [todo |-> Tail(t.todo), l |-> n.l]
  IN  /\ At(r, "interest:next")
      /\ IF t.todo = <<>> THEN Return(r)
         ELSE IF w # {} /\ wallet[TheWallet(w)] >= n.interest
           THEN GotoWith(r, "interest:debit",
                  With(rest, [wallet |-> TheWallet(w), interest |-> n.interest]))
           ELSE GotoWith(r, "interest:overdue", rest)
      /\ UNCHANGED <<money, active, classroom, bank>>

InterestDebit(r) ==
  LET t == task[r]
  IN  /\ At(r, "interest:debit")
      /\ IF CanDebit(t.wallet, t.interest)
           THEN Goto(r, "interest:record")
                /\ Debit(t.wallet, t.interest, "loan_interest", t.l)
           ELSE Goto(r, "interest:overdue") /\ UNCHANGED money
      /\ UNCHANGED <<active, classroom, bank>>

InterestRecord(r) ==
  LET t == task[r]
  IN  /\ At(r, "interest:record")
      /\ Goto(r, "interest:date")
      /\ payment' = [payment EXCEPT ![t.l].total = @ + t.interest, ![t.l].autos = @ + 1]
      /\ UNCHANGED <<money, active, classroom, loan, due, weeks>>

InterestDate(r) ==
  LET t == task[r]
  IN  /\ At(r, "interest:date")
      /\ GotoWith(r, "interest:next", [todo |-> t.todo])
      /\ due' = due \ {t.l}
      /\ UNCHANGED <<money, active, classroom, loan, payment, weeks>>

InterestOverdue(r) ==
  LET t == task[r]
  IN  /\ At(r, "interest:overdue")
      /\ GotoWith(r, "interest:next", [todo |-> t.todo])
      /\ UpdateLoan(t.l, [status |-> "overdue"])
      /\ UNCHANGED <<money, active, classroom, due, payment, weeks>>

-----------------------------------------------------------------------------
BankStep(r) ==
  \/ LoanApprove(r) \/ LoanCredit(r) \/ LoanReject(r)
  \/ RepayReadWallet(r) \/ RepayDebit(r) \/ RepayRemaining(r) \/ RepayRecord(r)
  \/ RepayPaid(r) \/ RepayDate(r) \/ RepayActive(r)
  \/ InterestNext(r) \/ InterestDebit(r) \/ InterestRecord(r) \/ InterestDate(r)
  \/ InterestOverdue(r)

BankRequest(r) ==
  \/ ApplyLoan \/ ApproveLoan(r) \/ RejectLoan(r) \/ RepayLoan(r)
  \/ ProcessWeeklyInterest(r)

BankNext ==
  \/ WeekPasses
  \/ \E r \in Requests : BankStep(r) \/ BankRequest(r)
=============================================================================
