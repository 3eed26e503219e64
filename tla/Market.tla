------------------------------- MODULE Market -------------------------------
(***************************************************************************)
(* The companies of the server as a whole: founding, funding and governance  *)
(* over the same rows and wallets, restarts in between, and what must hold.  *)
(* No use case takes a transaction around its statements, so some of the     *)
(* properties are claimed only for histories without two requests in flight  *)
(* together (overlapped), without a restart, or before shares were traded.   *)
(***************************************************************************)
EXTENDS Governance

vars == <<server, company, funding, governance>>

Init == ServerInit /\ CompanyInit /\ FundingInit /\ GovernanceInit

\* Every row has a classroom, so the backfills of a start change nothing.
Restart == ServerRestart /\ UNCHANGED <<active, company, funding, governance>>

\* Nobody is being served.
Quiet == AllIdle /\ UNCHANGED vars

Next ==
  \/ CompanyNext /\ UNCHANGED <<funding, governance>>
  \/ FundingNext /\ UNCHANGED governance
  \/ GovernanceNext
  \/ Restart
  \/ Quiet

Spec == Init /\ [][Next]_vars

-----------------------------------------------------------------------------
(* Properties *)

\* Where a handler can be.
CompanyStops ==
  {"found:wallet", "found:debit", "found:company", "found:pot", "found:shares",
   "found:list", "disclose:insert", "review:status", "review:reward",
   "transfer:debit", "transfer:credit", "kpi:credit", "kpi:insert", "admin:credit"}

FundingStops ==
  {"round:check", "round:insert", "invest:company", "invest:judge", "invest:debit",
   "invest:round", "invest:total", "invest:capital", "invest:holder",
   "invest:credit", "invest:list", "invest:insert", "early:company", "early:round",
   "early:capital", "early:list", "cancel:company", "cancel:pot",
   "cancel:investments", "cancel:debit", "cancel:refund", "cancel:shares",
   "cancel:capital", "cancel:status", "dividend:pot", "dividend:insert",
   "dividend:holders", "dividend:pay", "dividend:row"}

GovernanceStops ==
  {"propose:holder", "propose:unique", "propose:insert", "withdraw:status",
   "vote:holder", "vote:insert", "auto:company", "auto:tally", "close:company",
   "close:tally", "close:status", "execute:company", "execute:holder",
   "liquidate:pot", "liquidate:holders", "liquidate:debit", "liquidate:pay",
   "liquidate:executed", "liquidate:disclose"}

Stops == {"idle"} \cup CompanyStops \cup FundingStops \cup GovernanceStops

\* Every row has its columns, and no count or amount in one is negative, but for a
\* reward, which is stored as it was entered.
TypeOK ==
  /\ ServerTypeOK
  /\ pc \in [Requests -> Stops]
  /\ firm \in [Companies -> Firm \cup {None}]
  /\ pot \in [Companies -> Int \cup {None}]
  /\ holding \in [Companies \X Users -> Nat]
  /\ disclosure \in [Disclosures -> Disclosure \cup {None}]
  /\ kpi \in [Companies -> Nat]
  /\ adminCredit \in [Keys -> CreditRow \cup {None}]
  /\ round \in [Rounds -> RoundRow \cup {None}]
  /\ investments \in Seq(Investment)
  /\ dividend \in [Dividends -> Dividend \cup {None}]
  /\ proposal \in [Proposals -> Proposal \cup {None}]
  /\ vote \in [Proposals -> [Users -> Vote \cup {None}]]
  /\ ended \in SUBSET Proposals
  /\ traded \in BOOLEAN

OneByOne == ~overlapped
Unbroken == ~overlapped /\ restarts = 0

\* Whatever stale balance a handler has decided on, no wallet and no company wallet
\* is overdrawn, in any interleaving and after any restart: every debit checks the
\* balance in its own transaction.
NoOverdraft ==
  /\ \A w \in Wallets : wallet[w] >= 0
  /\ \A c \in Companies : HasPot(c) => pot[c] >= 0

AllMoney(w, p) ==
  SumOf(w, Wallets) + SumOf(p, {c \in Companies : p[c] # None})

\* Rewards on file that are more than nothing, and KPI revenue, on file or not.
Minted ==
  LET rewarded == {d \in Disclosures : disclosure[d] # None /\ disclosure[d].reward > 0}
  IN  SumOf([d \in rewarded |-> disclosure[d].reward], rewarded)
        + SumOf([c \in Companies |-> LogSum(c, "kpi_revenue", "known")
                                      + LogSum(c, "kpi_revenue", "unknown")], Companies)

RoundsOf(c) == {x \in Rounds : round[x] # None /\ round[x].co = c}

\* What the rounds of a company that were not cancelled have raised.
Raised(c) ==
  LET counted == {x \in RoundsOf(c) : round[x].status # "cancelled"}
  IN  SumOf([x \in counted |-> round[x].current], counted)

\* Transfers, investments, refunds, dividends and liquidations bring no money
\* into being: there is never more of it than at the start, plus the rewards on file
\* that are more than nothing and the KPI revenue that was credited, be its rule
\* known or not.  Once every handler has answered, the aggregates that are kept
\* beside the rows agree with them: total_shares with the holdings, current_amount
\* with the investments, total_capital with the rounds that were not cancelled, and
\* the KPI rows with what was credited for known rules (an unknown rule's credit
\* stays, its row is refused).
BooksBalance ==
  Unbroken /\ ~traded =>
    /\ AllMoney(wallet, pot) <= AllMoney(InitialFunds, StartPot) + Minted
    /\ AllIdle =>
         /\ \A c \in Companies : Exists(c) =>
              /\ firm[c].total = Held(c)
              /\ firm[c].capital = firm[c].initial + Raised(c)
              /\ kpi[c] = LogSum(c, "kpi_revenue", "known")
         /\ \A x \in Rounds : round[x] # None =>
              round[x].current = SumAmounts(investments, InvestedIn(x, investments))

\* What a user has been paid, of one kind and for one reason, in all classrooms.
PaidFor(u, type, ref) ==
  SumOf([k \in Classrooms |-> LogSum(<<u, k>>, type, ref)], Classrooms)

\* A round never sells more shares than it offers, a company has one open round at
\* a time (Invest's remaining shares, CreateRound's HasOpenRound), and a round that
\* has been cancelled has given every investor all of the money back, what was
\* invested before the start included.
RoundsKept ==
  /\ OneByOne =>
       /\ \A x \in Rounds : round[x] # None => Sold(x) <= round[x].shares
       /\ \A c \in Companies : Cardinality({x \in RoundsOf(c) : Open(x)}) <= 1
  /\ Unbroken =>
       \A x \in Rounds : Cancelled(round, x) /\ ~Cancelled(StartRound, x) =>
         \A u \in Users :
           PaidFor(u, "investment", x) = SumAmounts(StartInvestments, InvestedBy(u, x, StartInvestments))

\* n of all shares are at least, or at most, so many percent; where they are exactly
\* as many and the code's quotient is not, this is for the quotient to say.
Reaches(n, total, percent) == n * 100 >= percent * total

FallsShort(n, total, percent) ==
  n * 100 <= percent * total /\ (Tied(n, total, percent) => <<n, total>> \in RoundedDown)

Exceeds(n, total, percent) ==
  n * 100 >= percent * total /\ (Tied(n, total, percent) => <<n, total>> \in RoundedUp)

\* What may be written over the status of an active proposal, or a passed one.
Decision(p, to) ==
  LET total == AllShares(firm[proposal[p].co].total)
      needed == proposal[p].threshold
  IN  \/ InStatus(p, "active") /\ to = "cancelled"
      \/ /\ InStatus(p, "active") /\ to = "passed"
         /\ Reaches(VotedShares(p, "yes"), total, needed)
      \/ /\ InStatus(p, "active") /\ to = "rejected"
         /\ FallsShort(VotedShares(p, "yes"), total, needed)
         /\ p \in ended \/ Exceeds(VotedShares(p, "no"), total, 100 - needed)
      \/ InStatus(p, "passed") /\ to = "executed"

\* A proposal is decided once, by the votes on file when its status is written: it
\* passes only with the percentage it asks for of all shares behind it, is rejected
\* only without (one that has exactly as many is if the quotient is rounded down),
\* and before its end only when so many are against it that the others do not
\* suffice (or just would, but the quotient is rounded up); it may be withdrawn
\* while active, and only a passed one is executed.
DecidedOnce ==
  [][~overlapped' =>
       \A p \in Proposals : proposal[p] # None /\ proposal'[p] # proposal[p] =>
         Decision(p, proposal'[p].status)]_vars

PaidOut(type, ref) == SumOf([u \in Users |-> PaidFor(u, type, ref)], Users)

\* An executed liquidation has dissolved its company.
ExecutedIsDissolved ==
  \A p \in Proposals : InStatus(p, "executed") => Dissolved(proposal[p].co)

\* A dividend or a liquidation hands out everything it takes but the tax and less
\* than one unit per shareholder, and an executed liquidation has dissolved its
\* company, also when it was cut short and retried.
PayoutsComplete ==
  /\ ExecutedIsDissolved
  /\ Unbroken /\ ~traded /\ AllIdle =>
       /\ \A d \in Dividends : dividend[d] # None =>
            /\ dividend[d].paid = PaidOut("dividend", d)
            /\ dividend[d].amount - dividend[d].paid \in 0 .. Cardinality(Users) - 1
       /\ \A p \in Proposals : InStatus(p, "executed") =>
            Distributable(-LogSum(proposal[p].co, "liquidation_tax", p))
              - PaidOut("liquidation_payout", p) \in 0 .. Cardinality(Users) - 1

CreditsOf(c) == {k \in Keys : adminCredit[k] # None /\ adminCredit[k].co = c}

\* One idempotency key moves money once, however often and however concurrently
\* it is sent.
KeysMoveMoneyOnce ==
  \A c \in Companies :
    LogSum(c, "admin_company_credit", <<Admin, AdminRoom>>) =
      SumOf([k \in CreditsOf(c) |-> adminCredit[k].amount], CreditsOf(c))

Founded(u) == {c \in Companies : StartFirm[c] = None /\ Owns(u, c)}

\* One key moves money once; one disclosure is rewarded once, even if the server
\* restarts; and however requests to found companies interleave, also for one name,
\* a founder has paid exactly the initial capital of the companies founded.
PaidOnce ==
  /\ KeysMoveMoneyOnce
  /\ OneByOne => \A d \in Disclosures, c \in Companies : LogCount(c, "disclosure_reward", d) <= 1
  /\ restarts = 0 /\ AllIdle =>
       \A u \in Users :
         PaidFor(u, "company_funding", "new") =
           -SumOf([c \in Founded(u) |-> firm[c].initial], Founded(u))

\* The comment on CancelRoundAndRefund: it "undoes every investment", takes the
\* shares back and rolls back total_shares.
CancelUndoesRound ==
  Unbroken /\ AllIdle =>
    \A x \in Rounds : round[x] # None /\ round[x].status = "cancelled" =>
      firm[round[x].co].total = Held(round[x].co)
=============================================================================
