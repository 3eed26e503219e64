----------------------------- MODULE Governance -----------------------------
(***************************************************************************)
(* Shareholder proposals, votes and the liquidation of a company             *)
(* (application/proposal_usecase.go, the proposal half of                    *)
(* persistence/company_repo.go).  A vote counts with the shares held when it *)
(* is cast.  Every vote, and every read after the end date, may close the    *)
(* proposal; closing a passed liquidation pays the company out at once.      *)
(* Percentages are floating-point numbers, compared as such (AtLeast).        *)
(***************************************************************************)
EXTENDS Funding

CONSTANTS
  Proposals,        \* ids of proposals
  StartProposal,    \* shareholder_proposals at the start
  ProposalTypes,    \* subset of {"general", "liquidation"} that is proposed
  DefaultThreshold, \* percentage of the shares a type needs by default
  Thresholds,       \* percentages proposers ask for; 0 and less is the default
  RoundedUp,        \* <<shares, total>> whose quotient times 100 is a whole number,
  RoundedDown,      \* but more, or less, in float64
  TaxPercent        \* LiquidationTaxPercent

Proposal == [co : Companies, by : Users, type : ProposalTypes, threshold : 1 .. 100,
             status : {"active", "passed", "rejected", "cancelled", "executed"}]

Vote == [choice : {"yes", "no"}, shares : Nat]

ASSUME GovernanceAssumption ==
  /\ ProposalTypes \subseteq {"general", "liquidation"}
  /\ DefaultThreshold \in [{"general", "liquidation"} -> 1 .. 100]
  /\ Thresholds \subseteq Int
  /\ RoundedUp \subseteq Nat \X Nat /\ RoundedDown \subseteq Nat \X Nat
  /\ RoundedUp \cap RoundedDown = {}
  /\ TaxPercent \in 0 .. 100
  /\ StartProposal \in [Proposals -> Proposal \cup {None}]
  /\ \A p \in Proposals : StartProposal[p] # None =>
       /\ StartFirm[StartProposal[p].co] # None
       /\ StartProposal[p].status = "executed"
            => StartFirm[StartProposal[p].co].status = "dissolved"
  /\ None \notin Proposal \cup Vote

VARIABLES
  proposal,   \* shareholder_proposals
  vote,       \* shareholder_votes: choice and shares by proposal and user
  ended       \* proposals whose end date has passed

governance == <<proposal, vote, ended>>

GovernanceInit ==
  /\ proposal = StartProposal
  /\ vote = [p \in Proposals |-> [u \in Users |-> None]]
  /\ ended = {}

-----------------------------------------------------------------------------
(* Rows *)

InStatus(p, status) == proposal[p] # None /\ proposal[p].status = status

UpdateProposalStatus(p, status) ==
  proposal' = [proposal EXCEPT ![p] = With(@, [status |-> status])]

VotedShares(p, choice) ==
  LET voters == {u \in Users : vote[p][u] # None /\ vote[p][u].choice = choice}
  IN  SumOf([u \in voters |-> vote[p][u].shares], voters)

\* tallyProposal's projected status, for a company of `total` shares.
AllShares(total) == IF total > 0 THEN total ELSE 1

\* float64(n) / float64(total) * 100 against a whole number: on the wrong side of it
\* only if it should be equal to it, as 29 / 50 * 100 < 58 and 11 / 20 * 100 > 55.
Tied(n, total, percent) == n * 100 = percent * total

AtLeast(n, total, percent) ==
  n * 100 >= percent * total
    /\ ~(Tied(n, total, percent) /\ <<n, total>> \in RoundedDown)

MoreThan(n, total, percent) ==
  n * 100 > percent * total
    \/ (Tied(n, total, percent) /\ <<n, total>> \in RoundedUp)

Enough(p, total) ==
  AtLeast(VotedShares(p, "yes"), AllShares(total), proposal[p].threshold)

Projected(p, total) ==
  IF Enough(p, total) THEN "passed"
  ELSE IF MoreThan(VotedShares(p, "no"), AllShares(total), 100 - proposal[p].threshold)
    THEN "rejected"
  ELSE "pending"

-----------------------------------------------------------------------------
(* CreateProposal: one active proposal of a type at a time.                  *)

\* The threshold of the request, or the default of its type.
Threshold(asked, type) == IF asked <= 0 THEN DefaultThreshold[type] ELSE asked

CreateProposal(r) ==
  \E u \in Users, c \in Companies, type \in ProposalTypes, asked \in Thresholds :
    /\ Exists(c) /\ firm[c].status = "active"
    /\ Threshold(asked, type) <= 100
    /\ Receive(r, "CreateProposal", "propose:holder",
               [user |-> u, co |-> c, type |-> type, threshold |-> Threshold(asked, type)])
    /\ UNCHANGED <<money, active, company, funding, governance>>

ProposeReadHolder(r) ==
  LET t == task[r]
  IN  /\ At(r, "propose:holder")
      /\ IF holding[<<t.co, t.user>>] > 0 THEN Goto(r, "propose:unique") ELSE Return(r)
      /\ UNCHANGED <<money, active, company, funding, governance>>

ProposeReadActive(r) ==
  LET t == task[r]
  IN  /\ At(r, "propose:unique")
      /\ IF \E p \in Proposals : InStatus(p, "active") /\ proposal[p].co = t.co
                                 /\ proposal[p].type = t.type
           THEN Return(r) ELSE Goto(r, "propose:insert")
      /\ UNCHANGED <<money, active, company, funding, governance>>

ProposeInsert(r) ==
  LET t == task[r]
  IN  /\ At(r, "propose:insert")
      /\ Return(r)
      /\ IF NextId(proposal) = {} THEN UNCHANGED proposal
         ELSE \E p \in NextId(proposal) :
                proposal' = [proposal EXCEPT ![p] =
                  [co |-> t.co, by |-> t.user, type |-> t.type,
                   threshold |-> t.threshold, status |-> "active"]]
      /\ UNCHANGED <<money, active, company, funding, vote, ended>>

CancelProposal(r) ==
  \E p \in Proposals :
    /\ InStatus(p, "active")
    /\ Receive(r, "CancelProposal", "withdraw:status", [p |-> p])
    /\ UNCHANGED <<money, active, company, funding, governance>>

WithdrawStatus(r) ==
  /\ At(r, "withdraw:status")
  /\ Return(r)
  /\ UpdateProposalStatus(task[r].p, "cancelled")
  /\ UNCHANGED <<money, active, company, funding, vote, ended>>

-----------------------------------------------------------------------------
(* CastVote *)

\* closeProposal, on the caller's copy of the proposal.
ToClose(p, co) == [p |-> p, co |-> co]

CastVote(r) ==
  \E u \in Users, p \in Proposals, choice \in {"yes", "no"} :
    /\ InStatus(p, "active")
    /\ IF p \in ended
         THEN Receive(r, "CastVote", "close:company", ToClose(p, proposal[p].co))
         ELSE Receive(r, "CastVote", "vote:holder",
                [user |-> u, p |-> p, co |-> proposal[p].co, choice |-> choice])
    /\ UNCHANGED <<money, active, company, funding, governance>>

VoteReadHolder(r) ==
  LET t == task[r]
  IN  /\ At(r, "vote:holder")
      /\ IF holding[<<t.co, t.user>>] > 0
           THEN GotoWith(r, "vote:insert", With(t, [shares |-> holding[<<t.co, t.user>>]]))
           ELSE Return(r)
      /\ UNCHANGED <<money, active, company, funding, governance>>

\* UNIQUE (proposal_id, user_id) refuses a second vote.
VoteRow(t) == [choice |-> t.choice, shares |-> t.shares]

VoteInsert(r) ==
  LET t == task[r]
  IN  /\ At(r, "vote:insert")
      /\ IF vote[t.p][t.user] = None
           THEN /\ Goto(r, "auto:company")
                /\ vote' = [vote EXCEPT ![t.p] = [@ EXCEPT ![t.user] = VoteRow(t)]]
           ELSE Return(r) /\ UNCHANGED vote
      /\ UNCHANGED <<money, active, company, funding, proposal, ended>>

\* maybeAutoClose: a tally that is not final yet leaves the proposal open.
AutoReadCompany(r) ==
  LET t == task[r]
  IN  /\ At(r, "auto:company")
      /\ GotoWith(r, "auto:tally", With(t, [f |-> firm[t.co]]))
      /\ UNCHANGED <<money, active, company, funding, governance>>

AutoTally(r) ==
  LET t == task[r]
  IN  /\ At(r, "auto:tally")
      /\ IF Projected(t.p, t.f.total) = "pending" /\ t.p \notin ended
           THEN Return(r) ELSE GotoWith(r, "close:company", ToClose(t.p, t.co))
      /\ UNCHANGED <<money, active, company, funding, governance>>

VoteSteps(r) ==
  VoteReadHolder(r) \/ VoteInsert(r) \/ AutoReadCompany(r) \/ AutoTally(r)

-----------------------------------------------------------------------------
(* closeProposal.  It trusts the copy of the proposal its caller has read:   *)
(* the status is written whatever the row says by then.                     *)

\* GetProposal and GetProposalsByCompanyID close what has ended.
ReadProposal_Closed(r) ==
  \E p \in ended :
    /\ Receive(r, "ReadProposal", "close:company", [p |-> p, co |-> proposal[p].co])
    /\ UNCHANGED <<money, active, company, funding, governance>>

ReadProposal(r) ==
  \E p \in ended :
    /\ InStatus(p, "active")
    /\ Receive(r, "ReadProposal", "close:company", [p |-> p, co |-> proposal[p].co])
    /\ UNCHANGED <<money, active, company, funding, governance>>

CloseReadFirm(r) ==
  LET t == task[r]
  IN  /\ At(r, "close:company")
      /\ GotoWith(r, "close:tally", With(t, [f |-> firm[t.co]]))
      /\ UNCHANGED <<money, active, company, funding, governance>>

CloseTally(r) ==
  LET t == task[r]
      passed == Projected(t.p, t.f.total) = "passed"
  IN  /\ At(r, "close:tally")
      /\ GotoWith(r, "close:status",
                  With(t, [final |-> IF passed THEN "passed" ELSE "rejected"]))
      /\ UNCHANGED <<money, active, company, funding, governance>>

\* executeLiquidationCore, on the caller's copies of proposal and company.
ToLiquidate(t) == [p |-> t.p, co |-> t.co, f |-> t.f]

CloseStatus(r) ==
  LET t == task[r]
      pays == /\ t.final = "passed" /\ proposal[t.p].type = "liquidation"
              /\ t.f.status = "active"
  IN  /\ At(r, "close:status")
      /\ IF pays THEN GotoWith(r, "liquidate:pot", ToLiquidate(t)) ELSE Return(r)
      /\ UpdateProposalStatus(t.p, t.final)
      /\ UNCHANGED <<money, active, company, funding, vote, ended>>

-----------------------------------------------------------------------------
(* Liquidation, retried by hand when the automatic run was cut short          *)

ExecuteLiquidation(r) ==
  \E u \in Users, p \in Proposals :
    /\ InStatus(p, "passed")
    /\ proposal[p].type = "liquidation"
    /\ Receive(r, "ExecuteLiquidation", "execute:company",
               [user |-> u, p |-> p, co |-> proposal[p].co])
    /\ UNCHANGED <<money, active, company, funding, governance>>

ExecuteReadCompany(r) ==
  LET t == task[r]
  IN  /\ At(r, "execute:company")
      /\ IF Dissolved(t.co) THEN Return(r)
         ELSE GotoWith(r, "execute:holder", With(t, [f |-> firm[t.co]]))
      /\ UNCHANGED <<money, active, company, funding, governance>>

ExecuteReadHolder(r) ==
  LET t == task[r]
  IN  /\ At(r, "execute:holder")
      /\ IF holding[<<t.co, t.user>>] > 0
           THEN GotoWith(r, "liquidate:pot", ToLiquidate(t)) ELSE Return(r)
      /\ UNCHANGED <<money, active, company, funding, governance>>

LiquidateReadPot(r) ==
  LET t == task[r]
  IN  /\ At(r, "liquidate:pot")
      /\ IF HasPot(t.co)
           THEN GotoWith(r, "liquidate:holders", With(t, [balance |-> pot[t.co]]))
           ELSE Return(r)
      /\ UNCHANGED <<money, active, company, funding, governance>>

Distributable(balance) == balance - (balance * TaxPercent) \div 100

LiquidateReadHolders(r) ==
  LET t == task[r]
  IN  /\ At(r, "liquidate:holders")
      /\ LET all == IF t.f.total > 0 THEN t.f.total ELSE Held(t.co)
         IN  \E left \in Payouts(t.co, Distributable(t.balance), all) :
               GotoWith(r, IF t.balance > 0 THEN "liquidate:debit" ELSE "liquidate:pay",
                        With(t, [left |-> left]))
      /\ UNCHANGED <<money, active, company, funding, governance>>

LiquidateDebit(r) ==
  LET t == task[r]
  IN  /\ At(r, "liquidate:debit")
      /\ IF CanDebitPot(t.co, t.balance)
           THEN /\ Goto(r, "liquidate:pay")
                /\ DebitPot(t.co, t.balance, "liquidation_tax", t.p)
           ELSE Return(r) /\ UNCHANGED <<pot, log>>
      /\ UNCHANGED <<wallet, active, firm, holding, papers, traded, funding, governance>>

LiquidatePay_FirstOnly(r) ==
  LET t == task[r]
      pay == Head(t.left)
  IN  /\ At(r, "liquidate:pay")
      /\ t.left # <<>>
      /\ GotoWith(r, "liquidate:pay", With(t, [left |-> <<>>]))
      /\ Credit(<<pay.user, t.f.room>>, pay.amount, "liquidation_payout", t.p)
      /\ UNCHANGED <<active, company, funding, governance>>

LiquidatePay(r) ==
  LET t == task[r]
      pay == Head(t.left)
  IN  /\ At(r, "liquidate:pay")
      /\ t.left # <<>>
      /\ GotoWith(r, "liquidate:pay", With(t, [left |-> Tail(t.left)]))
      /\ Credit(<<pay.user, t.f.room>>, pay.amount, "liquidation_payout", t.p)
      /\ UNCHANGED <<active, company, funding, governance>>

LiquidateDissolve(r) ==
  LET t == task[r]
  IN  /\ At(r, "liquidate:pay")
      /\ t.left = <<>>
      /\ Goto(r, "liquidate:executed")
      /\ firm' = [firm EXCEPT ![t.co] = With(@, [status |-> "dissolved"])]
      /\ UNCHANGED <<money, active, pot, holding, papers, traded, funding, governance>>

LiquidateExecuted(r) ==
  /\ At(r, "liquidate:executed")
  /\ Goto(r, "liquidate:disclose")
  /\ UpdateProposalStatus(task[r].p, "executed")
  /\ UNCHANGED <<money, active, company, funding, vote, ended>>

\* A public record; a failure to write it is ignored.
LiquidateDisclose(r) ==
  /\ At(r, "liquidate:disclose")
  /\ Return(r)
  /\ IF NextId(disclosure) = {} THEN UNCHANGED disclosure
     ELSE \E d \in NextId(disclosure) : InsertDisclosure(d, task[r].co, "approved")
  /\ UNCHANGED <<money, active, books, kpi, adminCredit, traded, funding, governance>>

LiquidateSteps(r) ==
  \/ ExecuteReadCompany(r) \/ ExecuteReadHolder(r)
  \/ LiquidateReadPot(r) \/ LiquidateReadHolders(r) \/ LiquidateDebit(r)
  \/ LiquidatePay(r) \/ LiquidateDissolve(r) \/ LiquidateExecuted(r)
  \/ LiquidateDisclose(r)

\* The voting period of a proposal runs out.
VotingEnds ==
  /\ "VotingEnds" \in workload
  /\ \E p \in Proposals \ ended : InStatus(p, "active") /\ ended' = ended \cup {p}
  /\ UNCHANGED <<server, company, funding, proposal, vote>>

ShareholderRequest(r) == CastVote(r) \/ ExecuteLiquidation(r) \/ CancelProposal(r)

GovernanceNext ==
  \/ \E r \in Requests :
       \/ CreateProposal(r) \/ ProposeReadHolder(r) \/ ProposeReadActive(r) \/ ProposeInsert(r)
       \/ ShareholderRequest(r) \/ WithdrawStatus(r) \/ VoteSteps(r)
       \/ ReadProposal(r) \/ CloseReadFirm(r) \/ CloseTally(r) \/ CloseStatus(r)
       \/ LiquidateSteps(r)
  \/ VotingEnds

=============================================================================
