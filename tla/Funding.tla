------------------------------ MODULE Funding ------------------------------
(***************************************************************************)
(* Investment rounds and dividends (application/investment_usecase.go,       *)
(* persistence/investment_repo.go).  A round offers new shares at target /   *)
(* newShares each; it is filled sale by sale, closed early, or cancelled     *)
(* with a refund.  Aggregates of the company are written back as absolute    *)
(* values computed from the row read at the start of the handler.            *)
(*                                                                         *)
(* CreateRound never sets expires_at, so maybeAutoExpire changes nothing.     *)
(***************************************************************************)
EXTENDS Company

CONSTANTS
  Rounds,     \* ids of rounds
  StartRound, \* investment_rounds at the start
  StartInvestments,
  Offers,     \* [target, num, den]: an amount for num/den of the company
  Lots,       \* numbers of shares investors ask for
  Dividends   \* ids of dividends

RoundRow == [co : Companies, offer : Offers, current : Nat, shares : Nat \ {0},
             status : {"open", "funded", "cancelled"}]

Investment == [round : Rounds, user : Users, amount : Nat, shares : Nat]

Dividend == [co : Companies, amount : Nat, paid : Nat]

\* CreateRound refuses a target that is not positive, and a share of the company
\* that is not strictly between nothing and all of it.
ASSUME FundingAssumption ==
  /\ \A o \in Offers : /\ o.target \in Nat \ {0}
                       /\ o.num \in Nat \ {0} /\ o.den \in Nat \ {0} /\ o.num < o.den
  /\ Lots \subseteq Nat \ {0}
  /\ StartRound \in [Rounds -> RoundRow \cup {None}]
  /\ \A x \in Rounds : StartRound[x] # None => StartFirm[StartRound[x].co] # None
  /\ StartInvestments \in Seq(Investment)
  /\ None \notin RoundRow \cup Dividend

VARIABLES
  round,        \* investment_rounds
  investments,  \* investments, in insertion order
  dividend      \* dividends, with the sum of its dividend_payments

funding == <<round, investments, dividend>>

FundingInit ==
  /\ round = StartRound
  /\ investments = StartInvestments
  /\ dividend = [d \in Dividends |-> None]

-----------------------------------------------------------------------------
(* Arithmetic: math.Round of a quotient of positive numbers, half up *)

Round(a, b) == (2 * a + b) \div (2 * b)

NewShares(offer, total) ==
  LET n == Round(total * offer.num, offer.den - offer.num)
  IN  IF n <= 0 THEN 1 ELSE n

\* int(Round(shares * price)) with price = target / newShares
Price(x, shares) == Round(shares * x.offer.target, x.shares)

\* The buyer of the last shares pays what is missing, whatever rounding did.
InvestAmount(x, shares, remaining) ==
  IF shares = remaining
  THEN IF x.offer.target > x.current THEN x.offer.target - x.current ELSE 0
  ELSE Price(x, shares)

PostMoney(x) == Round(x.offer.target * x.offer.den, x.offer.num)

-----------------------------------------------------------------------------
(* Rows *)

\* The positions of the investments in a round.
InvestedIn(x, s) == {i \in DOMAIN s : s[i].round = x}

InvestedBy(u, x, s) == {i \in InvestedIn(x, s) : s[i].user = u}

SumShares(s, rows)  == SumOf([i \in DOMAIN s |-> s[i].shares], rows)
SumAmounts(s, rows) == SumOf([i \in DOMAIN s |-> s[i].amount], rows)

Sold(x) == SumShares(investments, InvestedIn(x, investments))

Open(x) == round[x] # None /\ round[x].status = "open"

Cancelled(rows, x) == rows[x] # None /\ rows[x].status = "cancelled"

HasOpenRound(c) == \E x \in Rounds : Open(x) /\ round[x].co = c

Owns(u, c) == Exists(c) /\ firm[c].owner = u

\* What the start finds was written by handlers that were not disturbed: companies
\* have their wallets, a company has one open round, and no round has sold more than
\* it offers.
ASSUME StartAssumption ==
  /\ \A c \in Companies : StartFirm[c] # None => StartPot[c] # None
  /\ \A x, y \in Rounds :
       /\ StartRound[x] # None /\ StartRound[x].status = "open"
       /\ StartRound[y] # None /\ StartRound[y].status = "open"
       /\ StartRound[x].co = StartRound[y].co
       => x = y
  /\ \A i \in DOMAIN StartInvestments : StartRound[StartInvestments[i].round] # None
  /\ \A x \in Rounds : StartRound[x] # None =>
       SumShares(StartInvestments, InvestedIn(x, StartInvestments)) <= StartRound[x].shares

-----------------------------------------------------------------------------
CreateRound(r) ==
  \E c \in Companies, offer \in Offers :
    /\ Exists(c)
    /\ Receive(r, "CreateRound", "round:check",
               [co |-> c, offer |-> offer, total |-> firm[c].total])
    /\ UNCHANGED <<money, active, company, funding>>

RoundCheck(r) ==
  /\ At(r, "round:check")
  /\ IF HasOpenRound(task[r].co)
       THEN Return(r)
       ELSE Goto(r, "round:insert")
  /\ UNCHANGED <<money, active, company, funding>>

RoundInsert(r) ==
  LET t == task[r]
  IN  /\ At(r, "round:insert")
      /\ Return(r)
      /\ IF NextId(round) = {} THEN UNCHANGED round
         ELSE \E x \in NextId(round) :
                round' = [round EXCEPT ![x] =
                  [co |-> t.co, offer |-> t.offer, status |-> "open", current |-> 0,
                   shares |-> NewShares(t.offer, t.total)]]
      /\ UNCHANGED <<money, active, company, investments, dividend>>

-----------------------------------------------------------------------------
(* Invest *)

\* The owner is refused; owners do not change.
InvestReadRound(r) ==
  \E u \in Users, x \in Rounds :
    /\ Open(x) /\ ~Owns(u, round[x].co)
    /\ \E n \in Lots :
         Receive(r, "Invest", "invest:company",
                 [user |-> u, x |-> x, n |-> n, row |-> round[x]])
    /\ UNCHANGED <<money, active, company, funding>>

InvestReadCompany(r) ==
  LET t == task[r]
      f == firm[t.row.co]
  IN  /\ At(r, "invest:company")
      /\ IF f.room = active[t.user]
           THEN GotoWith(r, "invest:judge", With(t, [f |-> f]))
           ELSE Return(r)
      /\ UNCHANGED <<money, active, company, funding>>

Fits(n, remaining) == n <= remaining

\* SumSharesByRound, the amount, and the balance it is compared with.
InvestJudge(r) ==
  LET t == task[r]
      remaining == t.row.shares - Sold(t.x)
      amount == InvestAmount(t.row, t.n, remaining)
      w == <<t.user, t.f.room>>
  IN  /\ At(r, "invest:judge")
      /\ IF Fits(t.n, remaining) /\ wallet[w] >= amount
           THEN GotoWith(r, "invest:debit",
                         With(t, [w |-> w, amount |-> amount, final |-> t.n = remaining]))
           ELSE Return(r)
      /\ UNCHANGED <<money, active, company, funding>>

InvestDebit(r) ==
  LET t == task[r]
  IN  /\ At(r, "invest:debit")
      /\ IF CanDebit(t.w, t.amount)
           THEN /\ Goto(r, "invest:round")
                /\ Debit(t.w, t.amount, "investment", t.x)
           ELSE Return(r) /\ UNCHANGED money
      /\ UNCHANGED <<active, company, funding>>

\* UpdateRoundFunded on the last sale, UpdateRoundCurrentAmount otherwise.
InvestUpdateRound(r) ==
  LET t == task[r]
  IN  /\ At(r, "invest:round")
      /\ Goto(r, "invest:total")
      /\ round' = [round EXCEPT ![t.x] =
           With(@, [current |-> t.row.current + t.amount,
                    status |-> IF t.final THEN "funded" ELSE @.status])]
      /\ UNCHANGED <<money, active, company, investments, dividend>>

InvestUpdateTotal(r) ==
  LET t == task[r]
  IN  /\ At(r, "invest:total")
      /\ Goto(r, "invest:capital")
      /\ UpdateTotalShares(t.row.co, t.f.total + t.n)
      /\ UNCHANGED <<money, active, pot, holding, papers, traded, funding>>

InvestUpdateCapital(r) ==
  LET t == task[r]
  IN  /\ At(r, "invest:capital")
      /\ Goto(r, "invest:holder")
      /\ UpdateCapitalAndValuation(t.row.co, t.f.capital + t.amount,
           IF t.final THEN PostMoney(t.row) ELSE t.f.valuation)
      /\ UNCHANGED <<money, active, pot, holding, papers, traded, funding>>

InvestUpsert(r) ==
  LET t == task[r]
  IN  /\ At(r, "invest:holder")
      /\ Goto(r, "invest:credit")
      /\ UpsertShareholder(t.row.co, t.user, t.n)
      /\ UNCHANGED <<money, active, firm, pot, papers, traded, funding>>

InvestCredit(r) ==
  LET t == task[r]
  IN  /\ At(r, "invest:credit")
      /\ IF HasPot(t.row.co)
           THEN /\ Goto(r, "invest:list")
                /\ CreditPot(t.row.co, t.amount, "investment", t.x)
           ELSE Return(r) /\ UNCHANGED <<pot, log>>
      /\ UNCHANGED <<wallet, active, firm, holding, papers, traded, funding>>

InvestList(r) ==
  /\ At(r, "invest:list")
  /\ Goto(r, "invest:insert")
  /\ UpdateListed(task[r].row.co, firm[task[r].row.co].capital)
  /\ UNCHANGED <<money, active, pot, holding, papers, traded, funding>>

Bought(t) == [round |-> t.x, user |-> t.user, amount |-> t.amount, shares |-> t.n]

InvestInsert(r) ==
  LET t == task[r]
  IN  /\ At(r, "invest:insert")
      /\ Return(r)
      /\ investments' = Append(investments, Bought(t))
      /\ UNCHANGED <<money, active, company, round, dividend>>

InvestSteps(r) ==
  \/ InvestReadCompany(r) \/ InvestJudge(r) \/ InvestDebit(r)
  \/ InvestUpdateRound(r) \/ InvestUpdateTotal(r) \/ InvestUpdateCapital(r)
  \/ InvestUpsert(r) \/ InvestCredit(r) \/ InvestList(r) \/ InvestInsert(r)

-----------------------------------------------------------------------------
(* CloseRoundEarly: the owner accepts what has been raised.                  *)

CloseReadRound(r) ==
  \E x \in Rounds :
    /\ Open(x)
    /\ Receive(r, "CloseRoundEarly", "early:company", [x |-> x, row |-> round[x]])
    /\ UNCHANGED <<money, active, company, funding>>

CloseReadCompany(r) ==
  LET t == task[r]
  IN  /\ At(r, "early:company")
      /\ IF Sold(t.x) > 0
           THEN GotoWith(r, "early:round", With(t, [f |-> firm[t.row.co]]))
           ELSE Return(r)
      /\ UNCHANGED <<money, active, company, funding>>

CloseUpdateRound(r) ==
  LET t == task[r]
  IN  /\ At(r, "early:round")
      /\ Goto(r, "early:capital")
      /\ round' = [round EXCEPT ![t.x] =
           With(@, [current |-> t.row.current, status |-> "funded"])]
      /\ UNCHANGED <<money, active, company, investments, dividend>>

\* Revalued at the price of the round; the auto-list check follows.
CloseUpdateCapital(r) ==
  LET t == task[r]
  IN  /\ At(r, "early:capital")
      /\ Goto(r, "early:list")
      /\ UpdateCapitalAndValuation(t.row.co, t.f.capital, Price(t.row, t.f.total))
      /\ UNCHANGED <<money, active, pot, holding, papers, traded, funding>>

CloseList(r) ==
  /\ At(r, "early:list")
  /\ Return(r)
  /\ UpdateListed(task[r].row.co, firm[task[r].row.co].capital)
  /\ UNCHANGED <<money, active, pot, holding, papers, traded, funding>>

CloseSteps(r) ==
  \/ CloseReadCompany(r) \/ CloseUpdateRound(r)
  \/ CloseUpdateCapital(r) \/ CloseList(r)

-----------------------------------------------------------------------------
(* CancelRoundAndRefund: one debit of the pot, a credit and a subtraction of  *)
(* shares per investment, then the aggregates, the status last.             *)

CancelReadRound(r) ==
  \E x \in Rounds :
    /\ Open(x)
    /\ Receive(r, "CancelRound", "cancel:company", [x |-> x, row |-> round[x]])
    /\ UNCHANGED <<money, active, company, funding>>

CancelReadCompany(r) ==
  LET t == task[r]
  IN  /\ At(r, "cancel:company")
      /\ GotoWith(r, "cancel:pot", With(t, [f |-> firm[t.row.co]]))
      /\ UNCHANGED <<money, active, company, funding>>

CancelReadPot(r) ==
  LET t == task[r]
  IN  /\ At(r, "cancel:pot")
      /\ IF HasPot(t.row.co) /\ pot[t.row.co] >= t.row.current
           THEN Goto(r, "cancel:investments")
           ELSE Return(r)
      /\ UNCHANGED <<money, active, company, funding>>

\* The rows of the round; an investment, once written, does not change.
CancelReadInvestments(r) ==
  LET t == task[r]
  IN  /\ At(r, "cancel:investments")
      /\ GotoWith(r, IF t.row.current > 0 THEN "cancel:debit" ELSE "cancel:refund",
                  With(t, [left |-> InvestedIn(t.x, investments), returned |-> 0]))
      /\ UNCHANGED <<money, active, company, funding>>

CancelDebit(r) ==
  LET t == task[r]
  IN  /\ At(r, "cancel:debit")
      /\ IF CanDebitPot(t.row.co, t.row.current)
           THEN /\ Goto(r, "cancel:refund")
                /\ DebitPot(t.row.co, t.row.current, "investment_refund", t.x)
           ELSE Return(r) /\ UNCHANGED <<pot, log>>
      /\ UNCHANGED <<wallet, active, firm, holding, papers, traded, funding>>

\* Refund the investments that are left, in order; a refused credit is skipped
\* with its shares.
First(left) == CHOOSE i \in left : \A j \in left : i <= j

CancelRefund(r) ==
  LET t == task[r]
      i == investments[First(t.left)]
      w == <<i.user, t.f.room>>
  IN  /\ At(r, "cancel:refund")
      /\ t.left # {}
      /\ IF CanCredit(i.amount)
           THEN /\ Goto(r, "cancel:shares")
                /\ Credit(w, i.amount, "investment", t.x)
           ELSE /\ GotoWith(r, "cancel:refund",
                            With(t, [left |-> t.left \ {First(t.left)}]))
                /\ UNCHANGED money
      /\ UNCHANGED <<active, company, funding>>

LeftAfter_Plain(held, n) == held - n

LeftAfter(held, n) == IF held > n THEN held - n ELSE 0

CancelShares_Stops(r) ==
  LET t == task[r]
      i == investments[First(t.left)]
  IN  /\ At(r, "cancel:shares")
      /\ GotoWith(r, "cancel:refund", With(t, [left |-> {}, returned |-> i.shares]))
      /\ holding' = [holding EXCEPT ![<<t.row.co, i.user>>] = LeftAfter(@, i.shares)]
      /\ UNCHANGED <<money, active, firm, pot, papers, traded, funding>>

\* SubtractShareholderShares: a holder who has fewer loses the row.
CancelShares(r) ==
  LET t == task[r]
      i == investments[First(t.left)]
  IN  /\ At(r, "cancel:shares")
      /\ GotoWith(r, "cancel:refund",
                  With(t, [left |-> t.left \ {First(t.left)},
                           returned |-> t.returned + i.shares]))
      /\ holding' = [holding EXCEPT ![<<t.row.co, i.user>>] = LeftAfter(@, i.shares)]
      /\ UNCHANGED <<money, active, firm, pot, papers, traded, funding>>

CancelUpdateTotal(r) ==
  LET t == task[r]
  IN  /\ At(r, "cancel:refund")
      /\ t.left = {}
      /\ Goto(r, "cancel:capital")
      /\ UpdateTotalShares(t.row.co, LeftAfter(t.f.total, t.returned))
      /\ UNCHANGED <<money, active, pot, holding, papers, traded, funding>>

CancelUpdateCapital_Target(r) ==
  LET t == task[r]
  IN  /\ At(r, "cancel:capital")
      /\ Goto(r, "cancel:status")
      /\ UpdateCapitalAndValuation(t.row.co,
           LeftAfter(t.f.capital, t.row.offer.target), t.f.valuation)
      /\ UNCHANGED <<money, active, pot, holding, papers, traded, funding>>

CancelUpdateCapital(r) ==
  LET t == task[r]
  IN  /\ At(r, "cancel:capital")
      /\ Goto(r, "cancel:status")
      /\ UpdateCapitalAndValuation(t.row.co,
           LeftAfter(t.f.capital, t.row.current), t.f.valuation)
      /\ UNCHANGED <<money, active, pot, holding, papers, traded, funding>>

CancelStatus(r) ==
  /\ At(r, "cancel:status")
  /\ Return(r)
  /\ round' = [round EXCEPT ![task[r].x] = With(@, [status |-> "cancelled"])]
  /\ UNCHANGED <<money, active, company, investments, dividend>>

CancelSteps(r) ==
  \/ CancelReadCompany(r) \/ CancelReadPot(r)
  \/ CancelReadInvestments(r) \/ CancelDebit(r) \/ CancelRefund(r)
  \/ CancelShares(r) \/ CancelUpdateTotal(r) \/ CancelUpdateCapital(r)
  \/ CancelStatus(r)

-----------------------------------------------------------------------------
(* ExecuteDividend: the whole amount leaves the pot, each holder is paid the *)
(* floor of a share of it.                                                 *)

DividendReadCompany(r) ==
  \E c \in Companies, n \in Amounts :
    /\ Exists(c) /\ HasPot(c)
    /\ Receive(r, "ExecuteDividend", "dividend:pot",
               [co |-> c, amount |-> n, f |-> firm[c]])
    /\ UNCHANGED <<money, active, company, funding>>

\* The balance check and, in a transaction of its own, the debit.
DividendDebit(r) ==
  LET t == task[r]
  IN  /\ At(r, "dividend:pot")
      /\ IF CanDebitPot(t.co, t.amount)
           THEN /\ Goto(r, "dividend:insert")
                /\ DebitPot(t.co, t.amount, "dividend", "paid")
           ELSE Return(r) /\ UNCHANGED <<pot, log>>
      /\ UNCHANGED <<wallet, active, firm, holding, papers, traded, funding>>

Declared(t) == [co |-> t.co, amount |-> t.amount, paid |-> 0]

DividendInsert(r) ==
  LET t == task[r]
  IN  /\ At(r, "dividend:insert")
      /\ IF NextId(dividend) = {}
           THEN Return(r) /\ UNCHANGED dividend
           ELSE \E d \in NextId(dividend) :
                  /\ GotoWith(r, "dividend:holders", With(t, [id |-> d]))
                  /\ dividend' = [dividend EXCEPT ![d] = Declared(t)]
      /\ UNCHANGED <<money, active, company, round, investments>>

Share(amount, shares, total) == (amount * shares) \div total

Holders(c) == {u \in Users : holding[<<c, u>>] > 0}

\* A holder whose share is below one gets nothing.
Payees(c, amount, total) ==
  {u \in Holders(c) : Share(amount, holding[<<c, u>>], total) > 0}

\* What is paid to whom, in descending order of shares, as the query sorts them.
Payouts(c, amount, total) ==
  {[i \in DOMAIN s |-> [user |-> s[i], amount |-> Share(amount, holding[<<c, s[i]>>], total)]] :
     s \in {s \in SetToSeqs(Payees(c, amount, total)) :
             \A i, j \in DOMAIN s : i < j => holding[<<c, s[i]>>] >= holding[<<c, s[j]>>]}}

\* A company without shares has its holders' part divided by zero: the panic ends
\* the request.
DividendHolders(r) ==
  LET t == task[r]
  IN  /\ At(r, "dividend:holders")
      /\ IF t.f.total = 0
           THEN Return(r)
           ELSE \E left \in Payouts(t.co, t.amount, t.f.total) :
                  GotoWith(r, "dividend:pay", With(t, [left |-> left]))
      /\ UNCHANGED <<money, active, company, funding>>

DividendPay(r) ==
  LET t == task[r]
      p == Head(t.left)
  IN  /\ At(r, "dividend:pay")
      /\ t.left # <<>>
      /\ Goto(r, "dividend:row")
      /\ Credit(<<p.user, t.f.room>>, p.amount, "dividend", t.id)
      /\ UNCHANGED <<active, company, funding>>

DividendRow(r) ==
  LET t == task[r]
  IN  /\ At(r, "dividend:row")
      /\ GotoWith(r, "dividend:pay", With(t, [left |-> Tail(t.left)]))
      /\ dividend' = [dividend EXCEPT ![t.id] =
           With(@, [paid |-> @.paid + Head(t.left).amount])]
      /\ UNCHANGED <<money, active, company, round, investments>>

DividendDone(r) ==
  /\ At(r, "dividend:pay")
  /\ task[r].left = <<>>
  /\ Return(r)
  /\ UNCHANGED <<money, active, company, funding>>

DividendSteps(r) ==
  \/ DividendReadCompany(r) \/ DividendDebit(r) \/ DividendInsert(r)
  \/ DividendHolders(r) \/ DividendPay(r) \/ DividendRow(r) \/ DividendDone(r)

RoundRequest(r) ==
  CreateRound(r) \/ InvestReadRound(r) \/ CloseReadRound(r) \/ CancelReadRound(r)

FundingNext ==
  \E r \in Requests :
    \/ RoundRequest(r) \/ RoundCheck(r) \/ RoundInsert(r)
    \/ InvestSteps(r) \/ CloseSteps(r) \/ CancelSteps(r) \/ DividendSteps(r)

=============================================================================
