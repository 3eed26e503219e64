---------------------------- MODULE MarketProofs ----------------------------
(***************************************************************************)
(* Theorems about companies, rounds and proposals, for every set of users,   *)
(* companies, rounds, requests and amounts, any interleaving of handlers     *)
(* and any number of restarts: the type invariant, that no wallet is         *)
(* overdrawn, and that an executed liquidation has dissolved its company;     *)
(* and what the logs of money and the rows they belong to say about each      *)
(* other.                                                                     *)
(*                                                                         *)
(* No use case has a transaction around its statements: a handler writes     *)
(* with what it has read so far.  TaskOK records what that is worth at each  *)
(* statement: the copies have the columns of a row, and the rows they were   *)
(* read from are still there, because no handler deletes one (Grows).        *)
(*                                                                         *)
(* What the second half proves is mostly claimed only while no two requests  *)
(* are in flight together: then what a handler has read is what the rows     *)
(* still say, since whoever could change them is idle (One handler at a time)  *)
(***************************************************************************)
EXTENDS Market, SumsProofs, TLAPS

Places == Companies \cup Wallets

Payout == [user : Users, amount : Nat]

\* The row that was read of a round, and what never changes of it.
CopyOf(row, x) == round[x] # None /\ round[x].co = row.co /\ Exists(row.co)

Decides(p, co) == proposal[p] # None /\ proposal[p].co = co /\ Exists(co)

CompanyTaskOK(r) ==
  LET t == task[r]
  IN  /\ pc[r] = "found:wallet" =>
           t \in [user : Users, co : Companies, capital : Capitals, room : Classrooms]
      /\ pc[r] \in {"found:debit", "found:company", "found:pot", "found:shares", "found:list"} =>
           /\ t \in [user : Users, co : Companies, capital : Capitals, room : Classrooms,
                     w : Wallets]
           /\ t.w[1] = t.user
      /\ pc[r] \in {"found:pot", "found:shares", "found:list"} => Exists(t.co)
      /\ pc[r] = "disclose:insert" => t \in [co : Companies]
      /\ pc[r] \in {"review:status", "review:reward"} =>
           /\ t \in [id : Disclosures, verdict : {"approved", "rejected"}, co : Companies,
                     reward : Int]
           /\ disclosure[t.id] # None
      /\ pc[r] = "review:reward" => t.reward > 0
      /\ pc[r] \in {"transfer:debit", "transfer:credit"} =>
           /\ t \in [src : Places, dst : Places, amount : Amounts]
           /\ t.dst \in Companies => HasPot(t.dst)
      /\ pc[r] \in {"kpi:credit", "kpi:insert"} =>
           t \in [co : Companies, amount : Amounts, rule : KpiRules] /\ HasPot(t.co)
      /\ pc[r] = "admin:credit" =>
           t \in [co : Companies, amount : Amounts, key : Keys] /\ HasPot(t.co)

InvestLabels == {"invest:debit", "invest:round", "invest:total", "invest:capital",
                 "invest:holder", "invest:credit", "invest:list", "invest:insert"}
EarlyLabels  == {"early:round", "early:capital", "early:list"}
CancelLabels == {"cancel:debit", "cancel:refund", "cancel:shares", "cancel:capital",
                 "cancel:status"}

FundingTaskOK(r) ==
  LET t == task[r]
  IN  /\ pc[r] \in {"round:check", "round:insert"} =>
           t \in [co : Companies, offer : Offers, total : Nat] /\ Exists(t.co)
      /\ pc[r] = "invest:company" =>
           t \in [user : Users, x : Rounds, n : Lots, row : RoundRow]
      /\ pc[r] = "invest:judge" =>
           t \in [user : Users, x : Rounds, n : Lots, row : RoundRow, f : Firm]
      /\ pc[r] \in InvestLabels =>
           t \in [user : Users, x : Rounds, n : Lots, row : RoundRow, f : Firm,
                  w : Wallets, amount : Nat, final : BOOLEAN]
      /\ pc[r] \in {"early:company", "cancel:company"} => t \in [x : Rounds, row : RoundRow]
      /\ pc[r] \in EarlyLabels \cup {"cancel:pot", "cancel:investments"} =>
           t \in [x : Rounds, row : RoundRow, f : Firm]
      /\ pc[r] \in CancelLabels =>
           /\ t \in [x : Rounds, row : RoundRow, f : Firm, left : SUBSET Nat, returned : Nat]
           /\ t.left \subseteq DOMAIN investments
      /\ pc[r] = "cancel:shares" => t.left # {}
      /\ pc[r] \in {"invest:company", "invest:judge", "early:company", "cancel:company",
                    "cancel:pot", "cancel:investments"}
                   \cup InvestLabels \cup EarlyLabels \cup CancelLabels => CopyOf(t.row, t.x)

DividendTaskOK(r) ==
  LET t == task[r]
  IN  /\ pc[r] \in {"dividend:pot", "dividend:insert"} =>
           t \in [co : Companies, amount : Amounts, f : Firm]
      /\ pc[r] = "dividend:holders" =>
           t \in [co : Companies, amount : Amounts, f : Firm, id : Dividends]
      /\ pc[r] \in {"dividend:pay", "dividend:row"} =>
           t \in [co : Companies, amount : Amounts, f : Firm, id : Dividends,
                  left : Seq(Payout)]
      /\ pc[r] = "dividend:row" => t.left # <<>>
      /\ pc[r] \in {"dividend:holders", "dividend:pay", "dividend:row"} =>
           dividend[t.id] # None

ProposalTaskOK(r) ==
  LET t == task[r]
  IN  /\ pc[r] \in {"propose:holder", "propose:unique", "propose:insert"} =>
           /\ t \in [user : Users, co : Companies, type : ProposalTypes, threshold : 1 .. 100]
           /\ Exists(t.co)
      /\ pc[r] = "withdraw:status" => t \in [p : Proposals] /\ proposal[t.p] # None
      /\ pc[r] = "vote:holder" =>
           t \in [user : Users, p : Proposals, co : Companies, choice : {"yes", "no"}]
      /\ pc[r] \in {"vote:insert", "auto:company"} =>
           t \in [user : Users, p : Proposals, co : Companies, choice : {"yes", "no"},
                  shares : Nat]
      /\ pc[r] = "auto:tally" =>
           t \in [user : Users, p : Proposals, co : Companies, choice : {"yes", "no"},
                  shares : Nat, f : Firm]
      /\ pc[r] = "close:company" => t \in [p : Proposals, co : Companies]
      /\ pc[r] = "close:tally" => t \in [p : Proposals, co : Companies, f : Firm]
      /\ pc[r] = "close:status" =>
           t \in [p : Proposals, co : Companies, f : Firm, final : {"passed", "rejected"}]
      /\ pc[r] \in {"vote:holder", "vote:insert", "auto:company", "auto:tally",
                    "close:company", "close:tally", "close:status"} => Decides(t.p, t.co)

PayLabels == {"liquidate:debit", "liquidate:pay", "liquidate:executed", "liquidate:disclose"}

LiquidationTaskOK(r) ==
  LET t == task[r]
  IN  /\ pc[r] = "execute:company" => t \in [user : Users, p : Proposals, co : Companies]
      /\ pc[r] = "execute:holder" =>
           t \in [user : Users, p : Proposals, co : Companies, f : Firm]
      /\ pc[r] = "liquidate:pot" => t \in [p : Proposals, co : Companies, f : Firm]
      /\ pc[r] = "liquidate:holders" =>
           t \in [p : Proposals, co : Companies, f : Firm, balance : Nat]
      /\ pc[r] \in PayLabels =>
           t \in [p : Proposals, co : Companies, f : Firm, balance : Nat, left : Seq(Payout)]
      /\ pc[r] \in {"execute:company", "execute:holder", "liquidate:pot",
                    "liquidate:holders"} \cup PayLabels => Decides(t.p, t.co)
      /\ pc[r] \in {"liquidate:executed", "liquidate:disclose"} => Dissolved(t.co)

\* What the handler at r remembers, and what still holds of the rows it was read from.
TaskOK(r) ==
  /\ CompanyTaskOK(r)
  /\ FundingTaskOK(r)
  /\ DividendTaskOK(r)
  /\ ProposalTaskOK(r)
  /\ LiquidationTaskOK(r)

ControlOK ==
  /\ workload \in Workloads
  /\ served \in 0 .. MaxRequests[workload]
  /\ restarts \in 0 .. MaxRestarts
  /\ overlapped \in BOOLEAN

HandlersOK ==
  /\ pc \in [Requests -> Stops]
  /\ task = [r \in Requests |-> task[r]]

RowsTyped ==
  /\ wallet \in [Wallets -> Int]
  /\ active \in [Users -> Classrooms]
  /\ firm \in [Companies -> Firm \cup {None}]
  /\ pot \in [Companies -> Int \cup {None}]
  /\ holding \in [Companies \X Users -> Nat]
  /\ disclosure \in [Disclosures -> Disclosure \cup {None}]
  /\ kpi \in [Companies -> Nat]
  /\ adminCredit \in [Keys -> CreditRow \cup {None}]
  /\ round \in [Rounds -> RoundRow \cup {None}]
  /\ investments \in Seq(Investment)
  /\ dividend \in [Dividends -> Dividend \cup {None}]
  /\ proposal \in [Proposals -> Proposal \cup {None}]
  /\ vote \in [Proposals -> [Users -> Vote \cup {None}]]
  /\ ended \in SUBSET Proposals
  /\ traded \in BOOLEAN

\* Rounds and proposals are of companies that exist.
RowsRefer ==
  /\ \A x \in Rounds : round[x] # None => Exists(round[x].co)
  /\ \A p \in Proposals : proposal[p] # None => Exists(proposal[p].co)

Rows == RowsTyped /\ RowsRefer /\ NoOverdraft /\ ExecutedIsDissolved

IInv ==
  /\ ControlOK
  /\ HandlersOK
  /\ Rows
  /\ \A r \in Requests : TaskOK(r)

LEMMA InvariantIsTyped ==
  ASSUME IInv
  PROVE  TypeOK
BY DEF IInv, ControlOK, HandlersOK, Rows, RowsTyped, TypeOK, ServerTypeOK

-----------------------------------------------------------------------------
(* What no step undoes *)

Grows ==
  /\ \A c \in Companies : Exists(c) =>
       /\ Exists(c)' /\ (Dissolved(c) => Dissolved(c)')
       /\ firm'[c].owner = firm[c].owner /\ firm'[c].initial = firm[c].initial
  /\ \A c \in Companies : HasPot(c) => HasPot(c)'
  /\ \A d \in Disclosures : disclosure[d] # None => disclosure'[d] # None
  /\ \A x \in Rounds : round[x] # None =>
       round'[x] # None /\ round'[x].co = round[x].co /\ round'[x].shares = round[x].shares
  /\ DOMAIN investments \subseteq DOMAIN investments'
  /\ \A i \in DOMAIN investments : investments'[i] = investments[i]
  /\ \A d \in Dividends : dividend[d] # None => dividend'[d] # None
  /\ \A p \in Proposals :
       proposal[p] # None => proposal'[p] # None /\ proposal'[p].co = proposal[p].co

\* A handler that does not move knows what it knew while the rows grow.
LEMMA Persists ==
  ASSUME NEW q \in Requests, TaskOK(q), Grows, pc'[q] = pc[q], task'[q] = task[q]
  PROVE  TaskOK(q)'
<1>1. CompanyTaskOK(q)'
  BY DEF TaskOK, CompanyTaskOK, Grows
<1>2. FundingTaskOK(q)'
  BY DEF TaskOK, FundingTaskOK, Grows, CopyOf, RoundRow
<1>3. DividendTaskOK(q)'
  BY DEF TaskOK, DividendTaskOK, Grows
<1>4. ProposalTaskOK(q)'
  BY DEF TaskOK, ProposalTaskOK, Grows, Decides
<1>5. LiquidationTaskOK(q)'
  BY DEF TaskOK, LiquidationTaskOK, Grows, Decides, PayLabels
<1> QED
  BY <1>1, <1>2, <1>3, <1>4, <1>5 DEF TaskOK

Moves(r, to, t) ==
  /\ pc' = [pc EXCEPT ![r] = to]
  /\ task' = [task EXCEPT ![r] = t]

\* What is left to show of a step of the handler at r.
LEMMA Step ==
  ASSUME IInv, NEW r \in Requests, NEW to \in Stops, NEW t,
         Moves(r, to, t), ControlOK', Rows', Grows, TaskOK(r)'
  PROVE  IInv' /\ Grows
<1>1. HandlersOK'
  BY DEF IInv, HandlersOK, Moves
<1>2. ASSUME NEW q \in Requests, q # r
      PROVE  TaskOK(q)'
  <2>1. pc'[q] = pc[q] /\ task'[q] = task[q]
    BY <1>2 DEF IInv, HandlersOK, Moves
  <2> QED
    BY <2>1, Persists DEF IInv
<1> QED
  BY <1>1, <1>2 DEF IInv


\* The steps that leave every handler where it is.
LEMMA Unhandled ==
  ASSUME IInv, UNCHANGED handlers, ControlOK', Rows', Grows
  PROVE  IInv' /\ Grows
<1>1. HandlersOK'
  BY DEF IInv, HandlersOK, handlers
<1>2. ASSUME NEW q \in Requests
      PROVE  TaskOK(q)'
  <2>1. pc'[q] = pc[q] /\ task'[q] = task[q]
    BY DEF handlers
  <2> QED
    BY <2>1, Persists DEF IInv
<1> QED
  BY <1>1, <1>2 DEF IInv

LEMMA Received ==
  ASSUME IInv, NEW r \in Requests, NEW kind, NEW to, NEW t, Receive(r, kind, to, t)
  PROVE  ControlOK' /\ Moves(r, to, t)
BY ServerAssumption DEF IInv, ControlOK, Receive, Arrives, Awaited, Moves

LEMMA Answered ==
  ASSUME IInv, NEW kind, AnswerAtOnce(kind)
  PROVE  ControlOK' /\ UNCHANGED handlers
BY ServerAssumption DEF IInv, ControlOK, AnswerAtOnce, Arrives, Awaited

LEMMA Went ==
  ASSUME IInv, NEW r \in Requests, NEW to, NEW t, GotoWith(r, to, t)
  PROVE  ControlOK' /\ Moves(r, to, t)
BY DEF IInv, ControlOK, GotoWith, control, Moves

LEMMA Moved ==
  ASSUME IInv, NEW r \in Requests, NEW to, NEW t, Moves(r, to, t)
  PROVE  pc'[r] = to /\ task'[r] = t
BY DEF IInv, HandlersOK, Moves

LEMMA NothingToKnow ==
  ASSUME NEW r \in Requests, pc'[r] = "idle"
  PROVE  TaskOK(r)'
BY DEF TaskOK, CompanyTaskOK, FundingTaskOK, DividendTaskOK, ProposalTaskOK,
       LiquidationTaskOK, InvestLabels, EarlyLabels, CancelLabels, PayLabels

\* A handler answers.
LEMMA Returned ==
  ASSUME IInv, NEW r \in Requests, Return(r), Rows', Grows
  PROVE  IInv' /\ Grows
<1>1. ControlOK' /\ Moves(r, "idle", None)
  BY Went DEF Return
<1>2. pc'[r] = "idle"
  BY <1>1, Moved
<1>3. TaskOK(r)'
  BY <1>2, NothingToKnow
<1>4. "idle" \in Stops
  BY DEF Stops
<1> QED
  BY <1>1, <1>3, <1>4, Step, Zenon

\* Each handler is described by one of the parts of TaskOK.
DividendStops == {"dividend:pot", "dividend:insert", "dividend:holders", "dividend:pay",
                  "dividend:row"}
PayoutStops   == {"execute:company", "execute:holder", "liquidate:pot",
                  "liquidate:holders"} \cup PayLabels

LEMMA CompanyTask ==
  ASSUME NEW r \in Requests, pc'[r] \in CompanyStops, CompanyTaskOK(r)'
  PROVE  TaskOK(r)'
BY DEF TaskOK, CompanyStops, FundingTaskOK, DividendTaskOK, ProposalTaskOK,
       LiquidationTaskOK, InvestLabels, EarlyLabels, CancelLabels, PayLabels

LEMMA FundingTask ==
  ASSUME NEW r \in Requests, pc'[r] \in FundingStops \ DividendStops, FundingTaskOK(r)'
  PROVE  TaskOK(r)'
BY DEF TaskOK, FundingStops, DividendStops, CompanyTaskOK, DividendTaskOK, ProposalTaskOK,
       LiquidationTaskOK, PayLabels

LEMMA DividendTask ==
  ASSUME NEW r \in Requests, pc'[r] \in DividendStops, DividendTaskOK(r)'
  PROVE  TaskOK(r)'
BY DEF TaskOK, DividendStops, CompanyTaskOK, FundingTaskOK, ProposalTaskOK,
       LiquidationTaskOK, InvestLabels, EarlyLabels, CancelLabels, PayLabels

LEMMA ProposalTask ==
  ASSUME NEW r \in Requests, pc'[r] \in GovernanceStops \ PayoutStops, ProposalTaskOK(r)'
  PROVE  TaskOK(r)'
BY DEF TaskOK, GovernanceStops, PayoutStops, CompanyTaskOK, FundingTaskOK, DividendTaskOK,
       LiquidationTaskOK, InvestLabels, EarlyLabels, CancelLabels, PayLabels

LEMMA LiquidationTask ==
  ASSUME NEW r \in Requests, pc'[r] \in PayoutStops, LiquidationTaskOK(r)'
  PROVE  TaskOK(r)'
BY DEF TaskOK, PayoutStops, CompanyTaskOK, FundingTaskOK, DividendTaskOK, ProposalTaskOK,
       InvestLabels, EarlyLabels, CancelLabels, PayLabels

-----------------------------------------------------------------------------
(* The effect of each kind of write on the rows *)

LEMMA NothingWritten ==
  ASSUME Rows, UNCHANGED <<wallet, active, company, funding, governance>>
  PROVE  Rows' /\ Grows
<1> USE DEF company, books, papers, funding, governance
<1>1. RowsTyped'
  BY DEF Rows, RowsTyped
<1>2. RowsRefer' /\ NoOverdraft' /\ ExecutedIsDissolved'
  BY DEF Rows, RowsRefer, NoOverdraft, ExecutedIsDissolved, InStatus, Dissolved, Exists,
         HasPot
<1>3. Grows
  BY DEF Grows, Exists, HasPot, Dissolved
<1> QED
  BY <1>1, <1>2, <1>3 DEF Rows

LEMMA WalletWritten ==
  ASSUME Rows, NEW w \in Wallets, NEW n \in Nat, wallet' = [wallet EXCEPT ![w] = n],
         UNCHANGED <<active, company, funding, governance>>
  PROVE  Rows' /\ Grows
<1> USE DEF company, books, papers, funding, governance
<1>1. RowsTyped' /\ NoOverdraft'
  BY DEF Rows, RowsTyped, NoOverdraft, HasPot
<1>2. RowsRefer' /\ ExecutedIsDissolved'
  BY DEF Rows, RowsRefer, ExecutedIsDissolved, InStatus, Dissolved, Exists
<1>3. Grows
  BY DEF Grows, Exists, HasPot, Dissolved
<1> QED
  BY <1>1, <1>2, <1>3 DEF Rows

LEMMA PotWritten ==
  ASSUME Rows, NEW c \in Companies, NEW n \in Nat, pot' = [pot EXCEPT ![c] = n],
         UNCHANGED <<wallet, active, firm, holding, papers, traded, funding, governance>>
  PROVE  Rows' /\ Grows
<1> USE DEF papers, funding, governance
<1>1. RowsTyped' /\ NoOverdraft'
  BY DEF Rows, RowsTyped, NoOverdraft, HasPot
<1>2. RowsRefer' /\ ExecutedIsDissolved'
  BY DEF Rows, RowsRefer, ExecutedIsDissolved, InStatus, Dissolved, Exists
<1>3. Grows
  BY CompanyAssumption DEF Rows, RowsTyped, Grows, Exists, HasPot, Dissolved
<1> QED
  BY <1>1, <1>2, <1>3 DEF Rows

LEMMA FirmWritten ==
  ASSUME Rows, NEW c \in Companies, NEW row \in Firm, firm' = [firm EXCEPT ![c] = row],
         UNCHANGED <<wallet, active, pot, holding, papers, traded, funding, governance>>,
         Exists(c) =>
           /\ Dissolved(c) => row.status = "dissolved"
           /\ row.owner = firm[c].owner /\ row.initial = firm[c].initial
  PROVE  Rows' /\ Grows
<1> USE DEF papers, funding, governance
<1>0. row # None
  BY CompanyAssumption
<1>1. RowsTyped' /\ NoOverdraft'
  BY DEF Rows, RowsTyped, NoOverdraft, HasPot
<1>2. /\ firm'[c] = row
      /\ \A d \in Companies \ {c} : firm'[d] = firm[d]
  BY DEF Rows, RowsTyped
<1>3. RowsRefer'
  BY <1>0, <1>2 DEF Rows, RowsRefer, RowsTyped, RoundRow, Proposal, Exists
<1>4. ExecutedIsDissolved'
  <2> SUFFICES ASSUME NEW p \in Proposals, proposal[p] # None, proposal[p].status = "executed"
               PROVE  firm'[proposal[p].co].status = "dissolved"
    BY DEF ExecutedIsDissolved, InStatus, Dissolved
  <2>1. proposal[p].co \in Companies /\ Exists(proposal[p].co) /\ Dissolved(proposal[p].co)
    BY DEF Rows, RowsTyped, RowsRefer, ExecutedIsDissolved, InStatus, Proposal
  <2> QED
    BY <1>2, <2>1 DEF Dissolved
<1>5. Grows
  BY <1>0, <1>2 DEF Grows, Exists, HasPot, Dissolved
<1> QED
  BY <1>1, <1>3, <1>4, <1>5 DEF Rows

LEMMA HoldingsWritten ==
  ASSUME Rows, holding' \in [Companies \X Users -> Nat], traded' \in BOOLEAN,
         UNCHANGED <<wallet, active, firm, pot, papers, funding, governance>>
  PROVE  Rows' /\ Grows
<1> USE DEF papers, funding, governance
<1>1. RowsTyped' /\ NoOverdraft'
  BY DEF Rows, RowsTyped, NoOverdraft, HasPot
<1>2. RowsRefer' /\ ExecutedIsDissolved'
  BY DEF Rows, RowsRefer, ExecutedIsDissolved, InStatus, Dissolved, Exists
<1>3. Grows
  BY DEF Grows, Exists, HasPot, Dissolved
<1> QED
  BY <1>1, <1>2, <1>3 DEF Rows

\* Disclosures, KPI revenue and credits on file, which nothing else refers to.
LEMMA PapersWritten ==
  ASSUME Rows, UNCHANGED <<wallet, active, books, traded, funding, governance>>,
         disclosure' \in [Disclosures -> Disclosure \cup {None}],
         kpi' \in [Companies -> Nat],
         adminCredit' \in [Keys -> CreditRow \cup {None}],
         \A d \in Disclosures : disclosure[d] # None => disclosure'[d] # None
  PROVE  Rows' /\ Grows
<1> USE DEF books, funding, governance
<1>1. RowsTyped' /\ NoOverdraft'
  BY DEF Rows, RowsTyped, NoOverdraft, HasPot
<1>2. RowsRefer' /\ ExecutedIsDissolved'
  BY DEF Rows, RowsRefer, ExecutedIsDissolved, InStatus, Dissolved, Exists
<1>3. Grows
  BY DEF Grows, Exists, HasPot, Dissolved
<1> QED
  BY <1>1, <1>2, <1>3 DEF Rows

LEMMA RoundWritten ==
  ASSUME Rows, NEW x \in Rounds, NEW row \in RoundRow, round' = [round EXCEPT ![x] = row],
         UNCHANGED <<wallet, active, company, investments, dividend, governance>>,
         Exists(row.co), round[x] # None => row.co = round[x].co /\ row.shares = round[x].shares
  PROVE  Rows' /\ Grows
<1> USE DEF company, books, papers, governance
<1>0. row # None
  BY FundingAssumption
<1>1. RowsTyped' /\ NoOverdraft'
  BY DEF Rows, RowsTyped, NoOverdraft, HasPot
<1>2. RowsRefer' /\ ExecutedIsDissolved'
  BY DEF Rows, RowsTyped, RowsRefer, ExecutedIsDissolved, InStatus, Dissolved, Exists
<1>3. Grows
  BY <1>0 DEF Rows, RowsTyped, Grows, Exists, HasPot, Dissolved
<1> QED
  BY <1>1, <1>2, <1>3 DEF Rows

LEMMA InvestmentWritten ==
  ASSUME Rows, NEW row \in Investment, investments' = Append(investments, row),
         UNCHANGED <<wallet, active, company, round, dividend, governance>>
  PROVE  Rows' /\ Grows
<1> USE DEF company, books, papers, governance
<1>0. /\ investments' \in Seq(Investment)
      /\ DOMAIN investments \subseteq DOMAIN investments'
      /\ \A i \in DOMAIN investments : investments'[i] = investments[i]
  BY DEF Rows, RowsTyped
<1>1. RowsTyped' /\ NoOverdraft'
  BY <1>0 DEF Rows, RowsTyped, NoOverdraft, HasPot
<1>2. RowsRefer' /\ ExecutedIsDissolved'
  BY DEF Rows, RowsTyped, RowsRefer, ExecutedIsDissolved, InStatus, Dissolved, Exists
<1>3. Grows
  BY <1>0 DEF Grows, Exists, HasPot, Dissolved
<1> QED
  BY <1>1, <1>2, <1>3 DEF Rows

LEMMA DividendWritten ==
  ASSUME Rows, NEW d \in Dividends, NEW row \in Dividend,
         dividend' = [dividend EXCEPT ![d] = row],
         UNCHANGED <<wallet, active, company, round, investments, governance>>
  PROVE  Rows' /\ Grows
<1> USE DEF company, books, papers, governance
<1>0. row # None
  BY FundingAssumption
<1>1. RowsTyped' /\ NoOverdraft'
  BY DEF Rows, RowsTyped, NoOverdraft, HasPot
<1>2. RowsRefer' /\ ExecutedIsDissolved'
  BY DEF Rows, RowsRefer, ExecutedIsDissolved, InStatus, Dissolved, Exists
<1>3. Grows
  BY <1>0 DEF Rows, RowsTyped, Grows, Exists, HasPot, Dissolved
<1> QED
  BY <1>1, <1>2, <1>3 DEF Rows

LEMMA ProposalWritten ==
  ASSUME Rows, NEW p \in Proposals, NEW row \in Proposal,
         proposal' = [proposal EXCEPT ![p] = row],
         UNCHANGED <<wallet, active, company, funding, vote, ended>>,
         Exists(row.co), proposal[p] # None => row.co = proposal[p].co,
         row.status = "executed" => Dissolved(row.co)
  PROVE  Rows' /\ Grows
<1> USE DEF company, books, papers, funding
<1>0. row # None
  BY GovernanceAssumption
<1>1. RowsTyped' /\ NoOverdraft'
  BY DEF Rows, RowsTyped, NoOverdraft, HasPot
<1>2. RowsRefer' /\ ExecutedIsDissolved'
  BY DEF Rows, RowsTyped, RowsRefer, ExecutedIsDissolved, InStatus, Dissolved, Exists
<1>3. Grows
  BY <1>0 DEF Rows, RowsTyped, Grows, Exists, HasPot, Dissolved
<1> QED
  BY <1>1, <1>2, <1>3 DEF Rows

\* Votes, and the end of a voting period.
LEMMA VotesWritten ==
  ASSUME Rows, UNCHANGED <<wallet, active, company, funding, proposal>>,
         vote' \in [Proposals -> [Users -> Vote \cup {None}]],
         ended' \in SUBSET Proposals
  PROVE  Rows' /\ Grows
<1> USE DEF company, books, papers, funding
<1>1. RowsTyped' /\ NoOverdraft'
  BY DEF Rows, RowsTyped, NoOverdraft, HasPot
<1>2. RowsRefer' /\ ExecutedIsDissolved'
  BY DEF Rows, RowsRefer, ExecutedIsDissolved, InStatus, Dissolved, Exists
<1>3. Grows
  BY DEF Grows, Exists, HasPot, Dissolved
<1> QED
  BY <1>1, <1>2, <1>3 DEF Rows

-----------------------------------------------------------------------------
(* Companies *)

\* A handler starts, or goes on, having written nothing.
LEMMA Started ==
  ASSUME IInv, NEW r \in Requests, NEW kind, NEW to \in Stops, NEW t,
         Receive(r, kind, to, t), UNCHANGED <<wallet, active, company, funding, governance>>,
         pc'[r] = to /\ task'[r] = t => TaskOK(r)'
  PROVE  IInv' /\ Grows
<1>1. ControlOK' /\ Moves(r, to, t)
  BY Received
<1>2. Rows' /\ Grows
  BY NothingWritten DEF IInv
<1>3. TaskOK(r)'
  BY <1>1, Moved
<1> QED
  BY <1>1, <1>2, <1>3, Step

LEMMA Continued ==
  ASSUME IInv, NEW r \in Requests, NEW to \in Stops, NEW t, GotoWith(r, to, t),
         Rows', Grows, pc'[r] = to /\ task'[r] = t => TaskOK(r)'
  PROVE  IInv' /\ Grows
<1>1. ControlOK' /\ Moves(r, to, t)
  BY Went
<1>2. TaskOK(r)'
  BY <1>1, Moved
<1> QED
  BY <1>1, <1>2, Step

LEMMA NothingRead ==
  ASSUME IInv, UNCHANGED <<wallet, active, company, funding, governance>>
  PROVE  Rows' /\ Grows
BY NothingWritten DEF IInv

LEMMA CreateCompanyStep ==
  ASSUME IInv, NEW r \in Requests, CreateCompany(r), UNCHANGED <<funding, governance>>
  PROVE  IInv' /\ Grows
<1>1. PICK u \in Users, c \in Companies, capital \in Capitals :
        Receive(r, "CreateCompany", "found:wallet",
                [user |-> u, co |-> c, capital |-> capital, room |-> active[u]])
  BY DEF CreateCompany
<1> DEFINE t == [user |-> u, co |-> c, capital |-> capital, room |-> active[u]]
<1>2. t \in [user : Users, co : Companies, capital : Capitals, room : Classrooms]
  BY DEF IInv, Rows, RowsTyped
<1>3. UNCHANGED <<wallet, active, company, funding, governance>>
  BY DEF CreateCompany, money
<1>4. Receive(r, "CreateCompany", "found:wallet", t)
  BY <1>1
<1> HIDE DEF t
<1>5. ASSUME pc'[r] = "found:wallet", task'[r] = t
      PROVE  TaskOK(r)'
  BY <1>2, <1>5, CompanyTask DEF CompanyTaskOK, CompanyStops
<1>6. "found:wallet" \in Stops
  BY DEF Stops, CompanyStops
<1> QED
  BY <1>3, <1>4, <1>5, <1>6, Started

LEMMA FoundFindWalletStep ==
  ASSUME IInv, NEW r \in Requests, FoundFindWallet(r), UNCHANGED <<funding, governance>>
  PROVE  IInv' /\ Grows
<1> DEFINE t == task[r]
           w == <<t.user, active[t.user]>>
           n == With(t, [w |-> w])
<1>1. /\ t \in [user : Users, co : Companies, capital : Capitals, room : Classrooms]
      /\ w \in Wallets
  BY DEF FoundFindWallet, At, IInv, TaskOK, CompanyTaskOK, Rows, RowsTyped, Wallets
<1>2. Rows' /\ Grows
  BY NothingRead DEF FoundFindWallet, money
<1>3. /\ n \in [user : Users, co : Companies, capital : Capitals, room : Classrooms,
                w : Wallets]
      /\ n.w[1] = n.user
  BY <1>1 DEF With
<1>4. Return(r) \/ GotoWith(r, "found:debit", n)
  BY DEF FoundFindWallet
<1> HIDE DEF n
<1>5. ASSUME pc'[r] = "found:debit", task'[r] = n
      PROVE  TaskOK(r)'
  BY <1>3, <1>5, CompanyTask DEF CompanyTaskOK, CompanyStops
<1>6. "found:debit" \in Stops
  BY DEF Stops, CompanyStops
<1> QED
  BY <1>2, <1>4, <1>5, <1>6, Returned, Continued

\* A credit or a debit of a wallet, and of a company wallet.
LEMMA Paid ==
  ASSUME IInv, NEW w \in Wallets, NEW n \in Nat, NEW type, NEW ref,
         \/ Credit(w, n, type, ref)
         \/ Debit(w, n, type, ref) /\ CanDebit(w, n),
         UNCHANGED <<active, company, funding, governance>>
  PROVE  Rows' /\ Grows
<1>1. wallet[w] \in Nat
  BY DEF IInv, Rows, RowsTyped, NoOverdraft
<1>2. CASE Credit(w, n, type, ref)
  <2>1. wallet' = [wallet EXCEPT ![w] = wallet[w] + n] /\ wallet[w] + n \in Nat
    BY <1>1, <1>2 DEF Credit
  <2> QED
    BY <2>1, WalletWritten DEF IInv
<1>3. CASE Debit(w, n, type, ref) /\ CanDebit(w, n)
  <2>1. wallet' = [wallet EXCEPT ![w] = wallet[w] - n] /\ wallet[w] - n \in Nat
    BY <1>1, <1>3 DEF Debit, CanDebit
  <2> QED
    BY <2>1, WalletWritten DEF IInv
<1> QED
  BY <1>2, <1>3

LEMMA PotPaid ==
  ASSUME IInv, NEW c \in Companies, NEW n \in Nat, NEW type, NEW ref,
         \/ CreditPot(c, n, type, ref) /\ HasPot(c)
         \/ DebitPot(c, n, type, ref) /\ CanDebitPot(c, n),
         UNCHANGED <<wallet, active, firm, holding, papers, traded, funding, governance>>
  PROVE  Rows' /\ Grows
<1>1. HasPot(c) => pot[c] \in Nat
  BY DEF IInv, Rows, RowsTyped, NoOverdraft, HasPot
<1>2. CASE CreditPot(c, n, type, ref) /\ HasPot(c)
  <2>1. pot' = [pot EXCEPT ![c] = pot[c] + n] /\ pot[c] + n \in Nat
    BY <1>1, <1>2 DEF CreditPot
  <2> QED
    BY <2>1, PotWritten DEF IInv
<1>3. CASE DebitPot(c, n, type, ref) /\ CanDebitPot(c, n)
  <2>1. pot' = [pot EXCEPT ![c] = pot[c] - n] /\ pot[c] - n \in Nat
    BY <1>1, <1>3 DEF DebitPot, CanDebitPot
  <2> QED
    BY <2>1, PotWritten DEF IInv
<1> QED
  BY <1>2, <1>3

LEMMA FoundDebitStep ==
  ASSUME IInv, NEW r \in Requests, FoundDebit(r), UNCHANGED <<funding, governance>>
  PROVE  IInv' /\ Grows
<1> DEFINE t == task[r]
<1>1. /\ t \in [user : Users, co : Companies, capital : Capitals, room : Classrooms,
                w : Wallets]
      /\ t.w[1] = t.user
  BY DEF FoundDebit, At, IInv, TaskOK, CompanyTaskOK
<1>2. t.w \in Wallets /\ t.capital \in Nat
  BY <1>1, CompanyAssumption
<1>3. CASE CanDebit(t.w, t.capital)
  <2>1. GotoWith(r, "found:company", t) /\ Debit(t.w, t.capital, "company_funding", "new")
    BY <1>3 DEF FoundDebit, Goto
  <2>2. Rows' /\ Grows
    BY <1>2, <1>3, <2>1, Paid DEF FoundDebit
  <2>3. ASSUME pc'[r] = "found:company", task'[r] = t
        PROVE  TaskOK(r)'
    BY <1>1, <2>3, CompanyTask DEF CompanyTaskOK, CompanyStops
  <2>4. "found:company" \in Stops
    BY DEF Stops, CompanyStops
  <2> QED
    BY <2>1, <2>2, <2>3, <2>4, Continued
<1>4. CASE ~CanDebit(t.w, t.capital)
  <2>1. Return(r) /\ Rows' /\ Grows
    BY <1>4, NothingRead DEF FoundDebit, money
  <2> QED
    BY <2>1, Returned
<1> QED
  BY <1>3, <1>4

LEMMA FoundCreateStep ==
  ASSUME IInv, NEW r \in Requests, FoundCreate(r), UNCHANGED <<funding, governance>>
  PROVE  IInv' /\ Grows
<1> DEFINE t == task[r]
<1>1. /\ t \in [user : Users, co : Companies, capital : Capitals, room : Classrooms,
                w : Wallets]
      /\ t.w[1] = t.user
  BY DEF FoundCreate, At, IInv, TaskOK, CompanyTaskOK
<1>2. t.w \in Wallets /\ t.capital \in Nat /\ t.co \in Companies
  BY <1>1, CompanyAssumption
<1>3. CASE Exists(t.co)
  <2>1. Return(r) /\ Credit(t.w, t.capital, "company_funding", "new")
    BY <1>3 DEF FoundCreate
  <2>2. Rows' /\ Grows
    BY <1>2, <1>3, <2>1, Paid DEF FoundCreate, company, books
  <2> QED
    BY <2>1, <2>2, Returned
<1>4. CASE ~Exists(t.co)
  <2>1. /\ GotoWith(r, "found:pot", t)
        /\ firm' = [firm EXCEPT ![t.co] = NewFirm(t)]
        /\ UNCHANGED <<wallet, active, pot, holding, papers, traded, funding, governance>>
    BY <1>4 DEF FoundCreate, Goto, money
  <2>2. NewFirm(t) \in Firm
    BY <1>1, CompanyAssumption DEF NewFirm, Firm
  <2>3. Rows' /\ Grows
    BY <1>2, <1>4, <2>1, <2>2, FirmWritten DEF IInv
  <2>4. firm'[t.co] # None
    BY <1>2, <2>1, <2>2, CompanyAssumption DEF IInv, Rows, RowsTyped
  <2>5. ASSUME pc'[r] = "found:pot", task'[r] = t
        PROVE  TaskOK(r)'
    BY <1>1, <2>4, <2>5, CompanyTask DEF CompanyTaskOK, CompanyStops, Exists
  <2>6. "found:pot" \in Stops
    BY DEF Stops, CompanyStops
  <2> QED
    BY <2>1, <2>3, <2>5, <2>6, Continued
<1> QED
  BY <1>3, <1>4

\* The statements after the insert of the company.
LEMMA FoundedTask ==
  ASSUME IInv, NEW r \in Requests, pc[r] \in {"found:pot", "found:shares", "found:list"}
  PROVE  /\ task[r] \in [user : Users, co : Companies, capital : Capitals, room : Classrooms,
                         w : Wallets]
         /\ task[r].w[1] = task[r].user
         /\ Exists(task[r].co) /\ firm[task[r].co] \in Firm
         /\ task[r].capital \in Nat
<1>1. CompanyTaskOK(r) /\ firm \in [Companies -> Firm \cup {None}]
  BY DEF IInv, TaskOK, Rows, RowsTyped
<1>. QED  BY <1>1, CompanyAssumption DEF CompanyTaskOK, Exists

LEMMA FoundWalletStep ==
  ASSUME IInv, NEW r \in Requests, FoundWallet(r), UNCHANGED <<funding, governance>>
  PROVE  IInv' /\ Grows
<1> DEFINE t == task[r]
<1>1. /\ t \in [user : Users, co : Companies, capital : Capitals, room : Classrooms,
                w : Wallets]
      /\ t.w[1] = t.user /\ Exists(t.co) /\ t.capital \in Nat
  BY FoundedTask DEF FoundWallet, At
<1>2. /\ GotoWith(r, "found:shares", t)
      /\ pot' = [pot EXCEPT ![t.co] = t.capital]
      /\ UNCHANGED <<wallet, active, firm, holding, papers, traded, funding, governance>>
  BY DEF FoundWallet, Goto, money
<1>3. Rows' /\ Grows
  BY <1>1, <1>2, PotWritten DEF IInv
<1>4. ASSUME pc'[r] = "found:shares", task'[r] = t
      PROVE  TaskOK(r)'
  BY <1>1, <1>2, <1>4, CompanyTask DEF CompanyTaskOK, CompanyStops, Exists
<1>5. "found:shares" \in Stops
  BY DEF Stops, CompanyStops
<1> QED
  BY <1>2, <1>3, <1>4, <1>5, Continued

\* An upsert of a shareholder.
LEMMA HoldingAdded ==
  ASSUME IInv, NEW c \in Companies, NEW u \in Users, NEW n \in Nat, UpsertShareholder(c, u, n),
         UNCHANGED <<wallet, active, firm, pot, papers, traded, funding, governance>>
  PROVE  Rows' /\ Grows
<1>1. /\ holding' = [holding EXCEPT ![<<c, u>>] = holding[<<c, u>>] + n]
      /\ holding[<<c, u>>] + n \in Nat
  BY DEF UpsertShareholder, IInv, Rows, RowsTyped
<1>2. holding' \in [Companies \X Users -> Nat]
  BY <1>1 DEF IInv, Rows, RowsTyped
<1> QED
  BY <1>2, HoldingsWritten DEF IInv, Rows, RowsTyped

LEMMA FoundShareholderStep ==
  ASSUME IInv, NEW r \in Requests, FoundShareholder(r), UNCHANGED <<funding, governance>>
  PROVE  IInv' /\ Grows
<1> DEFINE t == task[r]
<1>1. /\ t \in [user : Users, co : Companies, capital : Capitals, room : Classrooms,
                w : Wallets]
      /\ t.w[1] = t.user /\ Exists(t.co)
  BY FoundedTask DEF FoundShareholder, At
<1>2. /\ GotoWith(r, "found:list", t)
      /\ UpsertShareholder(t.co, t.user, FoundingShares)
      /\ UNCHANGED <<wallet, active, firm, pot, papers, traded, funding, governance>>
  BY DEF FoundShareholder, Goto, money
<1>3. Rows' /\ Grows
  BY <1>1, <1>2, HoldingAdded, CompanyAssumption
<1>4. ASSUME pc'[r] = "found:list", task'[r] = t
      PROVE  TaskOK(r)'
  BY <1>1, <1>2, <1>4, CompanyTask DEF CompanyTaskOK, CompanyStops, Exists
<1>5. "found:list" \in Stops
  BY DEF Stops, CompanyStops
<1> QED
  BY <1>2, <1>3, <1>4, <1>5, Continued

\* The updates of a company's aggregates.
LEMMA FirmUpdated ==
  ASSUME IInv, NEW c \in Companies, Exists(c), NEW new,
         firm' = [firm EXCEPT ![c] = With(@, new)],
         \/ \E b \in BOOLEAN : new = [listed |-> b]
         \/ \E n \in Nat : new = [total |-> n]
         \/ \E m, n \in Nat : new = [capital |-> m, valuation |-> n]
         \/ new = [status |-> "dissolved"],
         UNCHANGED <<wallet, active, pot, holding, papers, traded, funding, governance>>
  PROVE  Rows' /\ Grows
<1> DEFINE row == With(firm[c], new)
<1>1. firm[c] \in Firm
  BY DEF IInv, Rows, RowsTyped, Exists
<1>2. /\ row \in Firm /\ (Dissolved(c) => row.status = "dissolved")
      /\ row.owner = firm[c].owner /\ row.initial = firm[c].initial
  BY <1>1 DEF With, Firm, Dissolved
<1>3. firm' = [firm EXCEPT ![c] = row]
  OBVIOUS
<1> HIDE DEF row
<1> QED
  BY <1>2, <1>3, FirmWritten DEF IInv

LEMMA Listed ==
  ASSUME IInv, NEW c \in Companies, Exists(c), NEW n, UpdateListed(c, n),
         UNCHANGED <<wallet, active, pot, holding, papers, traded, funding, governance>>
  PROVE  Rows' /\ Grows
<1> DEFINE b == firm[c].listed \/ n >= ListingThreshold
<1>1. b \in BOOLEAN
  OBVIOUS
<1>2. firm' = [firm EXCEPT ![c] = With(@, [listed |-> b])]
  BY DEF UpdateListed
<1> HIDE DEF b
<1> QED
  BY <1>1, <1>2, FirmUpdated

LEMMA FoundListStep ==
  ASSUME IInv, NEW r \in Requests, FoundList(r), UNCHANGED <<funding, governance>>
  PROVE  IInv' /\ Grows
<1>1. Exists(task[r].co) /\ task[r].co \in Companies
  BY FoundedTask DEF FoundList, At
<1>2. Rows' /\ Grows
  BY <1>1, Listed DEF FoundList, money
<1> QED
  BY <1>2, Returned DEF FoundList

-----------------------------------------------------------------------------
(* Disclosures *)

LEMMA CreateDisclosureStep ==
  ASSUME IInv, NEW r \in Requests, CreateDisclosure(r), UNCHANGED <<funding, governance>>
  PROVE  IInv' /\ Grows
<1>1. PICK c \in Companies :
        Receive(r, "CreateDisclosure", "disclose:insert", [co |-> c])
  BY DEF CreateDisclosure
<1> DEFINE t == [co |-> c]
<1>2. t \in [co : Companies] /\ Receive(r, "CreateDisclosure", "disclose:insert", t)
  BY <1>1
<1>3. UNCHANGED <<wallet, active, company, funding, governance>>
  BY DEF CreateDisclosure, money
<1> HIDE DEF t
<1>4. ASSUME pc'[r] = "disclose:insert", task'[r] = t
      PROVE  TaskOK(r)'
  BY <1>2, <1>4, CompanyTask DEF CompanyTaskOK, CompanyStops
<1>5. "disclose:insert" \in Stops
  BY DEF Stops, CompanyStops
<1> QED
  BY <1>2, <1>3, <1>4, <1>5, Started

\* The insert of a disclosure, with an id that is left or none.
LEMMA DisclosureAdded ==
  ASSUME IInv, NEW c \in Companies, NEW status \in {"pending", "approved"},
         IF NextId(disclosure) = {} THEN UNCHANGED disclosure
         ELSE \E d \in NextId(disclosure) : InsertDisclosure(d, c, status),
         UNCHANGED <<wallet, active, books, kpi, adminCredit, traded, funding, governance>>
  PROVE  Rows' /\ Grows
<1> DEFINE row == [co |-> c, status |-> status, reward |-> 0]
<1>1. row \in Disclosure /\ row # None
  BY CompanyAssumption DEF Disclosure
<1>2. disclosure \in [Disclosures -> Disclosure \cup {None}]
  BY DEF IInv, Rows, RowsTyped
<1>3. \/ disclosure' = disclosure
      \/ \E d \in Disclosures : disclosure' = [disclosure EXCEPT ![d] = row]
  BY <1>2 DEF NextId, InsertDisclosure
<1> HIDE DEF row
<1>4. /\ disclosure' \in [Disclosures -> Disclosure \cup {None}]
      /\ \A d \in Disclosures : disclosure[d] # None => disclosure'[d] # None
  BY <1>1, <1>2, <1>3
<1>5. kpi' \in [Companies -> Nat] /\ adminCredit' \in [Keys -> CreditRow \cup {None}]
  BY DEF IInv, Rows, RowsTyped
<1> QED
  BY <1>4, <1>5, PapersWritten DEF IInv

LEMMA DiscloseInsertStep ==
  ASSUME IInv, NEW r \in Requests, DiscloseInsert(r), UNCHANGED <<funding, governance>>
  PROVE  IInv' /\ Grows
<1>1. task[r].co \in Companies
  BY DEF DiscloseInsert, At, IInv, TaskOK, CompanyTaskOK
<1>2. Rows' /\ Grows
  BY <1>1, DisclosureAdded DEF DiscloseInsert, money
<1> QED
  BY <1>2, Returned DEF DiscloseInsert

LEMMA ReviewDisclosureStep ==
  ASSUME IInv, NEW r \in Requests, ReviewDisclosure(r), UNCHANGED <<funding, governance>>
  PROVE  IInv' /\ Grows
<1>1. PICK d \in Disclosures, verdict \in {"approved", "rejected"}, reward \in Rewards :
        /\ Reviewable(d)
        /\ Receive(r, "ReviewDisclosure", "review:status",
                   [id |-> d, verdict |-> verdict, co |-> disclosure[d].co,
                    reward |-> IF verdict = "approved" THEN reward ELSE 0])
  BY DEF ReviewDisclosure
<1> DEFINE t == [id |-> d, verdict |-> verdict, co |-> disclosure[d].co,
                 reward |-> IF verdict = "approved" THEN reward ELSE 0]
<1>2. disclosure[d] \in Disclosure
  BY <1>1 DEF Reviewable, IInv, Rows, RowsTyped
<1>3. /\ t \in [id : Disclosures, verdict : {"approved", "rejected"}, co : Companies,
                reward : Int]
      /\ t.id = d
  BY <1>2, CompanyAssumption DEF Disclosure
<1>4. Receive(r, "ReviewDisclosure", "review:status", t)
  BY <1>1
<1>5. UNCHANGED <<wallet, active, company, funding, governance>>
  BY DEF ReviewDisclosure, money
<1> HIDE DEF t
<1>6. ASSUME pc'[r] = "review:status", task'[r] = t
      PROVE  TaskOK(r)'
  BY <1>1, <1>3, <1>5, <1>6, CompanyTask
     DEF CompanyTaskOK, CompanyStops, company, papers, Reviewable
<1>7. "review:status" \in Stops
  BY DEF Stops, CompanyStops
<1> QED
  BY <1>4, <1>5, <1>6, <1>7, Started

LEMMA ReviewTask ==
  ASSUME IInv, NEW r \in Requests, pc[r] \in {"review:status", "review:reward"}
  PROVE  /\ task[r] \in [id : Disclosures, verdict : {"approved", "rejected"},
                         co : Companies, reward : Int]
         /\ pc[r] = "review:reward" => task[r].reward > 0
         /\ disclosure[task[r].id] # None /\ disclosure[task[r].id] \in Disclosure
BY DEF IInv, TaskOK, CompanyTaskOK, Rows, RowsTyped

LEMMA ReviewStatusStep ==
  ASSUME IInv, NEW r \in Requests, ReviewStatus(r), UNCHANGED <<funding, governance>>
  PROVE  IInv' /\ Grows
<1> DEFINE t == task[r]
           row == With(disclosure[t.id], [status |-> t.verdict, reward |-> t.reward])
<1>1. /\ t \in [id : Disclosures, verdict : {"approved", "rejected"}, co : Companies,
                reward : Int]
      /\ disclosure[t.id] # None /\ disclosure[t.id] \in Disclosure
  BY ReviewTask DEF ReviewStatus, At
<1>2. row \in Disclosure /\ row # None
  BY <1>1, CompanyAssumption DEF With, Disclosure
<1>3. /\ Return(r) \/ (t.reward > 0 /\ GotoWith(r, "review:reward", t))
      /\ disclosure' = [disclosure EXCEPT ![t.id] = row]
      /\ UNCHANGED <<wallet, active, books, kpi, adminCredit, traded, funding, governance>>
  BY DEF ReviewStatus, Goto, money
<1> HIDE DEF row
<1>4. /\ disclosure' \in [Disclosures -> Disclosure \cup {None}]
      /\ kpi' \in [Companies -> Nat] /\ adminCredit' \in [Keys -> CreditRow \cup {None}]
      /\ \A d \in Disclosures : disclosure[d] # None => disclosure'[d] # None
      /\ disclosure'[t.id] # None
  BY <1>1, <1>2, <1>3 DEF IInv, Rows, RowsTyped
<1>5. Rows' /\ Grows
  BY <1>3, <1>4, PapersWritten DEF IInv
<1>6. ASSUME t.reward > 0, pc'[r] = "review:reward", task'[r] = t
      PROVE  TaskOK(r)'
  BY <1>1, <1>4, <1>6, CompanyTask DEF CompanyTaskOK, CompanyStops
<1>7. "review:reward" \in Stops
  BY DEF Stops, CompanyStops
<1> QED
  BY <1>3, <1>5, <1>6, <1>7, Returned, Continued

LEMMA ReviewRewardStep ==
  ASSUME IInv, NEW r \in Requests, ReviewReward(r), UNCHANGED <<funding, governance>>
  PROVE  IInv' /\ Grows
<1> DEFINE t == task[r]
<1>1. t.co \in Companies /\ t.reward \in Nat
  BY ReviewTask DEF ReviewReward, At
<1>2. Rows' /\ Grows
  <2>1. CASE HasPot(t.co)
    BY <1>1, <2>1, PotPaid DEF ReviewReward
  <2>2. CASE ~HasPot(t.co)
    BY <2>2, NothingRead DEF ReviewReward, company, books
  <2> QED
    BY <2>1, <2>2
<1> QED
  BY <1>2, Returned DEF ReviewReward

-----------------------------------------------------------------------------
(* Transfers, KPI revenue, administrator's credits *)

LEMMA TransferStep ==
  ASSUME IInv, NEW r \in Requests, Transfer(r), UNCHANGED <<funding, governance>>
  PROVE  IInv' /\ Grows
<1>1. PICK from \in Accounts, to \in Accounts, n \in Amounts :
        LET room == IF IsUser(from) THEN active[from[2]] ELSE firm[from[2]].room
        IN  /\ IF IsUser(from) THEN ~IsUser(to)
               ELSE Exists(from[2]) /\ ~Dissolved(from[2]) /\ HasPot(from[2])
            /\ MayReceive(to, from, room)
            /\ Receive(r, "Transfer", "transfer:debit",
                       [src |-> Place(from, room), dst |-> Place(to, room), amount |-> n])
  BY DEF Transfer
<1> DEFINE room == IF IsUser(from) THEN active[from[2]] ELSE firm[from[2]].room
           t == [src |-> Place(from, room), dst |-> Place(to, room), amount |-> n]
<1>2. \A a \in Accounts : /\ IsUser(a) => a[2] \in Users
                          /\ ~IsUser(a) => a[2] \in Companies
  BY DEF Accounts, IsUser
<1>3. room \in Classrooms
  BY <1>1, <1>2 DEF IInv, Rows, RowsTyped, Exists, Firm
<1>4. /\ Receive(r, "Transfer", "transfer:debit", t)
      /\ MayReceive(to, from, room)
  BY <1>1
<1>5. UNCHANGED <<wallet, active, company, funding, governance>>
  BY DEF Transfer, money
<1> HIDE DEF room
<1>6. /\ t \in [src : Places, dst : Places, amount : Amounts]
      /\ t.dst \in Companies => HasPot(t.dst)
  <2>1. \A a \in Accounts : Place(a, room) \in Places
    BY <1>2, <1>3 DEF Place, Places, Wallets
  <2>2. Place(to, room) \in Companies => HasPot(Place(to, room))
    BY <1>2, <1>3, <1>4, CompanyAssumption DEF Place, MayReceive, Wallets
  <2> QED
    BY <2>1, <2>2
<1> HIDE DEF t
<1>7. ASSUME pc'[r] = "transfer:debit", task'[r] = t
      PROVE  TaskOK(r)'
  BY <1>5, <1>6, <1>7, CompanyTask DEF CompanyTaskOK, CompanyStops, company, books, HasPot
<1>8. "transfer:debit" \in Stops
  BY DEF Stops, CompanyStops
<1> QED
  BY <1>4, <1>5, <1>7, <1>8, Started

LEMMA TransferTask ==
  ASSUME IInv, NEW r \in Requests, pc[r] \in {"transfer:debit", "transfer:credit"}
  PROVE  /\ task[r] \in [src : Places, dst : Places, amount : Amounts]
         /\ task[r].dst \in Companies => HasPot(task[r].dst)
         /\ task[r].amount \in Nat
BY CompanyAssumption DEF IInv, TaskOK, CompanyTaskOK

LEMMA TransferDebitStep ==
  ASSUME IInv, NEW r \in Requests, TransferDebit(r), UNCHANGED <<funding, governance>>
  PROVE  IInv' /\ Grows
<1> DEFINE t == task[r]
<1>1. /\ t \in [src : Places, dst : Places, amount : Amounts]
      /\ t.dst \in Companies => HasPot(t.dst)
      /\ t.amount \in Nat
  BY TransferTask DEF TransferDebit, At
<1>2. Rows' /\ Grows
  <2>1. CASE t.src \in Companies /\ CanDebitPot(t.src, t.amount)
    BY <1>1, <2>1, PotPaid DEF TransferDebit
  <2>2. CASE t.src \notin Companies /\ CanDebit(t.src, t.amount)
    BY <1>1, <2>2, Paid DEF TransferDebit, Places, company, books
  <2>3. CASE \/ t.src \in Companies /\ ~CanDebitPot(t.src, t.amount)
             \/ t.src \notin Companies /\ ~CanDebit(t.src, t.amount)
    BY <2>3, NothingRead DEF TransferDebit, money, company, books
  <2> QED
    BY <2>1, <2>2, <2>3
<1>3. Return(r) \/ GotoWith(r, "transfer:credit", t)
  BY DEF TransferDebit, Goto
<1>4. ASSUME pc'[r] = "transfer:credit", task'[r] = t
      PROVE  TaskOK(r)'
  BY <1>1, <1>2, <1>4, CompanyTask DEF CompanyTaskOK, CompanyStops, Grows
<1>5. "transfer:credit" \in Stops
  BY DEF Stops, CompanyStops
<1> QED
  BY <1>2, <1>3, <1>4, <1>5, Returned, Continued

LEMMA TransferCreditStep ==
  ASSUME IInv, NEW r \in Requests, TransferCredit(r), UNCHANGED <<funding, governance>>
  PROVE  IInv' /\ Grows
<1> DEFINE t == task[r]
<1>1. /\ t \in [src : Places, dst : Places, amount : Amounts]
      /\ t.dst \in Companies => HasPot(t.dst)
      /\ t.amount \in Nat
  BY TransferTask DEF TransferCredit, At
<1>2. Rows' /\ Grows
  <2>1. CASE t.dst \in Companies
    BY <1>1, <2>1, PotPaid DEF TransferCredit
  <2>2. CASE t.dst \notin Companies
    BY <1>1, <2>2, Paid DEF TransferCredit, Places, company, books
  <2> QED
    BY <2>1, <2>2
<1> QED
  BY <1>2, Returned DEF TransferCredit

LEMMA AddKpiRevenueStep ==
  ASSUME IInv, NEW r \in Requests, AddKpiRevenue(r), UNCHANGED <<funding, governance>>
  PROVE  IInv' /\ Grows
<1>1. PICK c \in Companies, n \in Amounts, rule \in KpiRules :
        /\ HasPot(c)
        /\ Receive(r, "AddKpiRevenue", "kpi:credit", [co |-> c, amount |-> n, rule |-> rule])
  BY DEF AddKpiRevenue
<1> DEFINE t == [co |-> c, amount |-> n, rule |-> rule]
<1>2. /\ t \in [co : Companies, amount : Amounts, rule : KpiRules] /\ HasPot(t.co)
      /\ Receive(r, "AddKpiRevenue", "kpi:credit", t)
  BY <1>1
<1>3. UNCHANGED <<wallet, active, company, funding, governance>>
  BY DEF AddKpiRevenue, money
<1> HIDE DEF t
<1>4. ASSUME pc'[r] = "kpi:credit", task'[r] = t
      PROVE  TaskOK(r)'
  BY <1>2, <1>3, <1>4, CompanyTask DEF CompanyTaskOK, CompanyStops, company, books, HasPot
<1>5. "kpi:credit" \in Stops
  BY DEF Stops, CompanyStops
<1> QED
  BY <1>2, <1>3, <1>4, <1>5, Started

LEMMA KpiTask ==
  ASSUME IInv, NEW r \in Requests, pc[r] \in {"kpi:credit", "kpi:insert"}
  PROVE  /\ task[r] \in [co : Companies, amount : Amounts, rule : KpiRules] /\ HasPot(task[r].co)
         /\ task[r].amount \in Nat
BY CompanyAssumption DEF IInv, TaskOK, CompanyTaskOK

LEMMA KpiCreditStep ==
  ASSUME IInv, NEW r \in Requests, KpiCredit(r), UNCHANGED <<funding, governance>>
  PROVE  IInv' /\ Grows
<1> DEFINE t == task[r]
<1>1. /\ t \in [co : Companies, amount : Amounts, rule : KpiRules] /\ HasPot(t.co)
      /\ t.amount \in Nat
  BY KpiTask DEF KpiCredit, At
<1>2. GotoWith(r, "kpi:insert", t) /\ CreditPot(t.co, t.amount, "kpi_revenue", t.rule)
  BY DEF KpiCredit, Goto
<1>3. Rows' /\ Grows
  BY <1>1, <1>2, PotPaid DEF KpiCredit
<1>4. ASSUME pc'[r] = "kpi:insert", task'[r] = t
      PROVE  TaskOK(r)'
  BY <1>1, <1>3, <1>4, CompanyTask DEF CompanyTaskOK, CompanyStops, Grows
<1>5. "kpi:insert" \in Stops
  BY DEF Stops, CompanyStops
<1> QED
  BY <1>2, <1>3, <1>4, <1>5, Continued

LEMMA KpiInsertStep ==
  ASSUME IInv, NEW r \in Requests, KpiInsert(r), UNCHANGED <<funding, governance>>
  PROVE  IInv' /\ Grows
<1> DEFINE t == task[r]
<1>1. t.co \in Companies /\ t.amount \in Nat
  BY KpiTask DEF KpiInsert, At
<1>2. /\ kpi' \in [Companies -> Nat]
      /\ adminCredit' \in [Keys -> CreditRow \cup {None}]
      /\ disclosure' \in [Disclosures -> Disclosure \cup {None}] /\ disclosure' = disclosure
  BY <1>1 DEF KpiInsert, IInv, Rows, RowsTyped
<1>3. Rows' /\ Grows
  BY <1>2, PapersWritten DEF KpiInsert, money, IInv
<1> QED
  BY <1>3, Returned DEF KpiInsert

LEMMA AdminCompanyCreditStep ==
  ASSUME IInv, NEW r \in Requests, AdminCompanyCredit(r), UNCHANGED <<funding, governance>>
  PROVE  IInv' /\ Grows
<1>1. PICK c \in Companies, n \in Amounts, k \in Keys :
        /\ HasPot(c)
        /\ Receive(r, "AdminCompanyCredit", "admin:credit", [co |-> c, amount |-> n, key |-> k])
  BY DEF AdminCompanyCredit
<1> DEFINE t == [co |-> c, amount |-> n, key |-> k]
<1>2. /\ t \in [co : Companies, amount : Amounts, key : Keys] /\ HasPot(t.co)
      /\ Receive(r, "AdminCompanyCredit", "admin:credit", t)
  BY <1>1
<1>3. UNCHANGED <<wallet, active, company, funding, governance>>
  BY DEF AdminCompanyCredit, money
<1> HIDE DEF t
<1>4. ASSUME pc'[r] = "admin:credit", task'[r] = t
      PROVE  TaskOK(r)'
  BY <1>2, <1>3, <1>4, CompanyTask DEF CompanyTaskOK, CompanyStops, company, books, HasPot
<1>5. "admin:credit" \in Stops
  BY DEF Stops, CompanyStops
<1> QED
  BY <1>2, <1>3, <1>4, <1>5, Started

\* The one transaction that writes a wallet, a company wallet and a key.
LEMMA AdminCreditStep ==
  ASSUME IInv, NEW r \in Requests, AdminCredit(r), UNCHANGED <<funding, governance>>
  PROVE  IInv' /\ Grows
<1> USE DEF papers, funding, governance
<1> DEFINE t == task[r]
           w == <<Admin, AdminRoom>>
<1>1. /\ t \in [co : Companies, amount : Amounts, key : Keys] /\ HasPot(t.co)
      /\ w \in Wallets
  BY CompanyAssumption DEF AdminCredit, At, IInv, TaskOK, CompanyTaskOK, Wallets
<1>2. /\ t.amount \in Nat /\ t.co \in Companies /\ t.key \in Keys
      /\ pot[t.co] \in Nat /\ wallet[w] \in Nat
  BY <1>1, CompanyAssumption DEF IInv, Rows, RowsTyped, NoOverdraft, HasPot
<1>3. CASE KeyIsFresh(t.key) /\ wallet[w] >= t.amount
  <2> DEFINE row == [co |-> t.co, amount |-> t.amount]
  <2>1. /\ adminCredit' = [adminCredit EXCEPT ![t.key] = row]
        /\ wallet' = [wallet EXCEPT ![w] = wallet[w] - t.amount]
        /\ pot' = [pot EXCEPT ![t.co] = pot[t.co] + t.amount]
        /\ UNCHANGED <<active, firm, holding, disclosure, kpi, traded, funding, governance>>
    BY <1>3 DEF AdminCredit
  <2>2. row \in CreditRow /\ wallet[w] - t.amount \in Nat /\ pot[t.co] + t.amount \in Nat
    BY <1>1, <1>2, <1>3 DEF CreditRow
  <2> HIDE DEF row, w
  <2>3. /\ wallet' \in [Wallets -> Int] /\ \A v \in Wallets : wallet'[v] >= 0
        /\ pot' \in [Companies -> Int \cup {None}]
        /\ \A c \in Companies : pot'[c] # None => pot'[c] >= 0
        /\ adminCredit' \in [Keys -> CreditRow \cup {None}]
    <3>1. wallet' \in [Wallets -> Int] /\ \A v \in Wallets : wallet'[v] >= 0
      BY <1>1, <2>1, <2>2 DEF IInv, Rows, RowsTyped, NoOverdraft
    <3>2. /\ pot' \in [Companies -> Int \cup {None}]
          /\ \A c \in Companies : pot'[c] # None => pot'[c] >= 0
      BY <1>1, <2>1, <2>2 DEF IInv, Rows, RowsTyped, NoOverdraft, HasPot
    <3>3. adminCredit' \in [Keys -> CreditRow \cup {None}]
      BY <1>2, <2>1, <2>2 DEF IInv, Rows, RowsTyped
    <3> QED
      BY <3>1, <3>2, <3>3
  <2>7. RowsTyped' /\ NoOverdraft'
    BY <2>1, <2>3 DEF IInv, Rows, RowsTyped, NoOverdraft, HasPot
  <2>4. RowsRefer' /\ ExecutedIsDissolved'
    BY <2>1 DEF IInv, Rows, RowsRefer, ExecutedIsDissolved, InStatus, Dissolved, Exists
  <2>5. Grows
    BY <1>2, <2>1, <2>2, CompanyAssumption
       DEF IInv, Rows, RowsTyped, Grows, Exists, HasPot, Dissolved
  <2>6. Rows' /\ Grows
    BY <2>4, <2>5, <2>7 DEF Rows
  <2> QED
    BY <2>6, Returned DEF AdminCredit
<1>4. CASE ~(KeyIsFresh(t.key) /\ wallet[w] >= t.amount)
  <2>1. Rows' /\ Grows
    BY <1>4, NothingRead DEF AdminCredit, money, company, books
  <2> QED
    BY <2>1, Returned DEF AdminCredit
<1> QED
  BY <1>3, <1>4

-----------------------------------------------------------------------------
(* Shares change hands, and users change classrooms, in one statement *)

LEMMA SharesChangeHandsStep ==
  ASSUME IInv, SharesChangeHands, UNCHANGED <<funding, governance>>
  PROVE  IInv' /\ Grows
<1>1. PICK c \in Companies, seller \in Users, buyer \in Users :
        \E n \in {m \in Blocks : m <= holding[<<c, seller>>]} :
          holding' = [x \in Companies \X Users |->
            holding[x] + (IF x = <<c, buyer>> THEN n ELSE 0)
                       - (IF x = <<c, seller>> THEN n ELSE 0)]
  BY DEF SharesChangeHands
<1>2. holding \in [Companies \X Users -> Nat] /\ holding[<<c, seller>>] \in Nat
  BY DEF IInv, Rows, RowsTyped
<1>5. holding' \in [Companies \X Users -> Nat]
  BY <1>1, <1>2, CompanyAssumption
<1>6. ControlOK' /\ UNCHANGED handlers
  BY Answered DEF SharesChangeHands
<1>7. Rows' /\ Grows
  BY <1>5, HoldingsWritten DEF SharesChangeHands, money, IInv
<1> QED
  BY <1>6, <1>7, Unhandled

LEMMA ActivateClassroomStep ==
  ASSUME IInv, ActivateClassroom, UNCHANGED <<funding, governance>>
  PROVE  IInv' /\ Grows
<1> USE DEF company, books, papers, funding, governance
<1>1. active' \in [Users -> Classrooms] /\ wallet' = wallet
  BY DEF ActivateClassroom, IInv, Rows, RowsTyped, money
<1>2. RowsTyped' /\ NoOverdraft'
  BY <1>1 DEF ActivateClassroom, IInv, Rows, RowsTyped, NoOverdraft, HasPot
<1>3. RowsRefer' /\ ExecutedIsDissolved'
  BY DEF ActivateClassroom, IInv, Rows, RowsRefer, ExecutedIsDissolved, InStatus, Dissolved,
         Exists
<1>4. Grows
  BY DEF ActivateClassroom, Grows, Exists, HasPot, Dissolved
<1>5. ControlOK' /\ UNCHANGED handlers
  BY Answered DEF ActivateClassroom
<1> QED
  BY <1>2, <1>3, <1>4, <1>5, Unhandled DEF Rows

LEMMA CompanyNextStep ==
  ASSUME IInv, CompanyNext, UNCHANGED <<funding, governance>>
  PROVE  IInv' /\ Grows
<1>1. ASSUME NEW r \in Requests, CompanySteps(r)
      PROVE  IInv' /\ Grows
  BY <1>1, CreateCompanyStep, FoundFindWalletStep, FoundDebitStep, FoundCreateStep,
     FoundWalletStep, FoundShareholderStep, FoundListStep, CreateDisclosureStep,
     TransferStep, DiscloseInsertStep, ReviewDisclosureStep, ReviewStatusStep,
     ReviewRewardStep, TransferDebitStep, TransferCreditStep, AddKpiRevenueStep,
     KpiCreditStep, KpiInsertStep, AdminCompanyCreditStep, AdminCreditStep
     DEF CompanySteps, OwnerRequest
<1> QED
  BY <1>1, SharesChangeHandsStep, ActivateClassroomStep DEF CompanyNext

-----------------------------------------------------------------------------
(* The arithmetic of rounds *)

\* Rounding a quotient of naturals gives a natural number.
LEMMA RoundIsNat ==
  ASSUME NEW a \in Nat, NEW b \in Nat \ {0}
  PROVE  Round(a, b) \in Nat
<1>1. 2 * a + b \in Nat /\ 2 * b \in Nat \ {0}
  OBVIOUS
<1>2. \A m \in Nat, n \in Nat \ {0} : m \div n \in Nat
  OBVIOUS
<1> QED
  BY <1>1, <1>2 DEF Round

LEMMA ProductIsNat ==
  ASSUME NEW a \in Nat, NEW b \in Nat
  PROVE  a * b \in Nat
OBVIOUS

\* A round offers at least one share.
LEMMA NewSharesPositive ==
  ASSUME NEW offer \in Offers, NEW total \in Nat
  PROVE  NewShares(offer, total) \in Nat \ {0}
<1>1. offer.num \in Nat /\ offer.den - offer.num \in Nat \ {0}
  BY FundingAssumption
<1>2. Round(total * offer.num, offer.den - offer.num) \in Nat
  BY <1>1, RoundIsNat, ProductIsNat
<1> QED
  BY <1>2 DEF NewShares

LEMMA PricesAreNat ==
  ASSUME NEW x \in RoundRow, NEW n \in Nat
  PROVE  Price(x, n) \in Nat /\ PostMoney(x) \in Nat
<1>1. /\ x.shares \in Nat \ {0} /\ x.offer.target \in Nat
      /\ x.offer.num \in Nat \ {0} /\ x.offer.den \in Nat
  BY FundingAssumption DEF RoundRow
<1>2. n * x.offer.target \in Nat /\ x.offer.target * x.offer.den \in Nat
  BY <1>1, ProductIsNat
<1> QED
  BY <1>1, <1>2, RoundIsNat DEF Price, PostMoney

\* Nobody pays a negative amount, whatever is left of the round by then.
LEMMA AmountIsNat ==
  ASSUME NEW x \in RoundRow, NEW n \in Nat, NEW remaining
  PROVE  InvestAmount(x, n, remaining) \in Nat
<1>1. x.offer.target \in Nat /\ x.current \in Nat
  BY FundingAssumption DEF RoundRow
<1> QED
  BY <1>1, PricesAreNat DEF InvestAmount

LEMMA FirstIsLeft ==
  ASSUME NEW left \in SUBSET Nat, left # {}
  PROVE  First(left) \in left
<1>1. \E i \in left : \A j \in left : i <= j
  BY LeastNatural
<1> QED
  BY <1>1 DEF First

-----------------------------------------------------------------------------
(* Rounds *)

LEMMA CreateRoundStep ==
  ASSUME IInv, NEW r \in Requests, CreateRound(r), UNCHANGED governance
  PROVE  IInv' /\ Grows
<1>1. PICK c \in Companies, offer \in Offers :
        /\ Exists(c)
        /\ Receive(r, "CreateRound", "round:check",
                   [co |-> c, offer |-> offer, total |-> firm[c].total])
  BY DEF CreateRound
<1> DEFINE t == [co |-> c, offer |-> offer, total |-> firm[c].total]
<1>2. /\ t \in [co : Companies, offer : Offers, total : Nat] /\ t.co = c
      /\ Receive(r, "CreateRound", "round:check", t)
  BY <1>1 DEF IInv, Rows, RowsTyped, Exists, Firm
<1>3. UNCHANGED <<wallet, active, company, funding, governance>>
  BY DEF CreateRound, money
<1> HIDE DEF t
<1>4. ASSUME pc'[r] = "round:check", task'[r] = t
      PROVE  TaskOK(r)'
  BY <1>1, <1>2, <1>3, <1>4, FundingTask
     DEF FundingTaskOK, FundingStops, DividendStops, InvestLabels, EarlyLabels, CancelLabels,
         company, books, Exists
<1>5. "round:check" \in Stops
  BY DEF Stops, FundingStops
<1> QED
  BY <1>2, <1>3, <1>4, <1>5, Started

LEMMA RoundTask ==
  ASSUME IInv, NEW r \in Requests, pc[r] \in {"round:check", "round:insert"}
  PROVE  task[r] \in [co : Companies, offer : Offers, total : Nat] /\ Exists(task[r].co)
BY DEF IInv, TaskOK, FundingTaskOK

LEMMA RoundCheckStep ==
  ASSUME IInv, NEW r \in Requests, RoundCheck(r), UNCHANGED governance
  PROVE  IInv' /\ Grows
<1> DEFINE t == task[r]
<1>1. t \in [co : Companies, offer : Offers, total : Nat] /\ Exists(t.co)
  BY RoundTask DEF RoundCheck, At
<1>2. Return(r) \/ GotoWith(r, "round:insert", t)
  BY DEF RoundCheck, Goto
<1>3. Rows' /\ Grows
  BY NothingRead DEF RoundCheck, money
<1>4. ASSUME pc'[r] = "round:insert", task'[r] = t
      PROVE  TaskOK(r)'
  BY <1>1, <1>3, <1>4, FundingTask
     DEF FundingTaskOK, FundingStops, DividendStops, InvestLabels, EarlyLabels, CancelLabels,
         Grows
<1>5. "round:insert" \in Stops
  BY DEF Stops, FundingStops
<1> QED
  BY <1>2, <1>3, <1>4, <1>5, Returned, Continued

LEMMA RoundInsertStep ==
  ASSUME IInv, NEW r \in Requests, RoundInsert(r), UNCHANGED governance
  PROVE  IInv' /\ Grows
<1> DEFINE t == task[r]
           row == [co |-> t.co, offer |-> t.offer, status |-> "open", current |-> 0,
                   shares |-> NewShares(t.offer, t.total)]
<1>1. t \in [co : Companies, offer : Offers, total : Nat] /\ Exists(t.co)
  BY RoundTask DEF RoundInsert, At
<1>2. row \in RoundRow /\ Exists(row.co)
  BY <1>1, NewSharesPositive DEF RoundRow
<1>3. \/ UNCHANGED round
      \/ \E x \in Rounds : round[x] = None /\ round' = [round EXCEPT ![x] = row]
  BY DEF RoundInsert, NextId, IInv, Rows, RowsTyped
<1> HIDE DEF row
<1>4. Rows' /\ Grows
  <2>1. UNCHANGED <<wallet, active, company, investments, dividend, governance>>
    BY DEF RoundInsert, money
  <2>2. CASE UNCHANGED round
    BY <2>1, <2>2, NothingRead DEF funding
  <2>3. CASE \E x \in Rounds : round[x] = None /\ round' = [round EXCEPT ![x] = row]
    BY <1>2, <2>1, <2>3, RoundWritten DEF IInv
  <2> QED
    BY <1>3, <2>2, <2>3
<1> QED
  BY <1>4, Returned DEF RoundInsert

-----------------------------------------------------------------------------
(* Investing *)

InvestTask(t) ==
  t \in [user : Users, x : Rounds, n : Lots, row : RoundRow, f : Firm, w : Wallets,
         amount : Nat, final : BOOLEAN]

\* A copy that is still good after the step.
CopyLater(row, x) == round'[x] # None /\ round'[x].co = row.co /\ firm'[row.co] # None

LEMMA OpenRoundRead ==
  ASSUME IInv, NEW x \in Rounds, Open(x)
  PROVE  round[x] \in RoundRow /\ CopyOf(round[x], x)
BY DEF IInv, Rows, RowsTyped, RowsRefer, Open, CopyOf

LEMMA InvestReadRoundStep ==
  ASSUME IInv, NEW r \in Requests, InvestReadRound(r), UNCHANGED governance
  PROVE  IInv' /\ Grows
<1>1. PICK u \in Users, x \in Rounds, n \in Lots :
        /\ Open(x)
        /\ Receive(r, "Invest", "invest:company",
                   [user |-> u, x |-> x, n |-> n, row |-> round[x]])
  BY DEF InvestReadRound
<1> DEFINE t == [user |-> u, x |-> x, n |-> n, row |-> round[x]]
<1>2. UNCHANGED <<wallet, active, company, funding, governance>>
  BY DEF InvestReadRound, money
<1>3. /\ t \in [user : Users, x : Rounds, n : Lots, row : RoundRow]
      /\ CopyLater(t.row, t.x)
      /\ Receive(r, "Invest", "invest:company", t)
  BY <1>1, <1>2, OpenRoundRead DEF company, books, funding, CopyOf, CopyLater, Exists
<1> HIDE DEF t
<1>4. ASSUME pc'[r] = "invest:company", task'[r] = t
      PROVE  TaskOK(r)'
  BY <1>3, <1>4, FundingTask
     DEF FundingTaskOK, FundingStops, DividendStops, InvestLabels, EarlyLabels, CancelLabels,
         CopyOf, CopyLater, Exists
<1>5. "invest:company" \in Stops
  BY DEF Stops, FundingStops
<1> QED
  BY <1>2, <1>3, <1>4, <1>5, Started

\* The row a copy was taken of, and its company.
LEMMA CopyIsTyped ==
  ASSUME IInv, NEW x \in Rounds, NEW row \in RoundRow, CopyOf(row, x)
  PROVE  /\ row.co \in Companies /\ Exists(row.co) /\ firm[row.co] \in Firm
         /\ round[x] \in RoundRow
BY DEF IInv, Rows, RowsTyped, CopyOf, RoundRow, Exists

LEMMA CopyKept ==
  ASSUME NEW x \in Rounds, NEW row \in RoundRow, CopyOf(row, x), Grows
  PROVE  CopyLater(row, x)
BY DEF CopyOf, CopyLater, Grows, RoundRow, Exists

LEMMA InvestReadCompanyStep ==
  ASSUME IInv, NEW r \in Requests, InvestReadCompany(r), UNCHANGED governance
  PROVE  IInv' /\ Grows
<1> DEFINE t == task[r]
           f == firm[t.row.co]
           n == With(t, [f |-> f])
<1>1. /\ t \in [user : Users, x : Rounds, n : Lots, row : RoundRow]
      /\ CopyOf(t.row, t.x)
  BY DEF InvestReadCompany, At, IInv, TaskOK, FundingTaskOK
<1>2. f \in Firm
  BY <1>1, CopyIsTyped
<1>3. Return(r) \/ GotoWith(r, "invest:judge", n)
  BY DEF InvestReadCompany
<1>4. Rows' /\ Grows
  BY NothingRead DEF InvestReadCompany, money
<1>5. /\ n \in [user : Users, x : Rounds, n : Lots, row : RoundRow, f : Firm]
      /\ n.x = t.x /\ n.row = t.row
  <2> HIDE DEF f
  <2> QED
    BY <1>1, <1>2 DEF With
<1>6. CopyLater(t.row, t.x)
  BY <1>1, <1>4, CopyKept
<1> HIDE DEF n
<1>7. ASSUME pc'[r] = "invest:judge", task'[r] = n
      PROVE  TaskOK(r)'
  BY <1>5, <1>6, <1>7, FundingTask
     DEF FundingTaskOK, FundingStops, DividendStops, InvestLabels, EarlyLabels, CancelLabels,
         CopyOf, CopyLater, Exists
<1>8. "invest:judge" \in Stops
  BY DEF Stops, FundingStops
<1> QED
  BY <1>3, <1>4, <1>7, <1>8, Returned, Continued

LEMMA InvestJudgeStep ==
  ASSUME IInv, NEW r \in Requests, InvestJudge(r), UNCHANGED governance
  PROVE  IInv' /\ Grows
<1> DEFINE t == task[r]
           remaining == t.row.shares - Sold(t.x)
           amount == InvestAmount(t.row, t.n, remaining)
           w == <<t.user, t.f.room>>
           final == t.n = remaining
           n == With(t, [w |-> w, amount |-> amount, final |-> final])
<1>1. /\ t \in [user : Users, x : Rounds, n : Lots, row : RoundRow, f : Firm]
      /\ CopyOf(t.row, t.x)
  BY DEF InvestJudge, At, IInv, TaskOK, FundingTaskOK
<1>2. amount \in Nat /\ w \in Wallets /\ final \in BOOLEAN
  BY <1>1, AmountIsNat, FundingAssumption DEF Firm, Wallets
<1>3. Return(r) \/ GotoWith(r, "invest:debit", n)
  BY DEF InvestJudge
<1>4. Rows' /\ Grows
  BY NothingRead DEF InvestJudge, money
<1>5. InvestTask(n) /\ n.x = t.x /\ n.row = t.row
  <2> HIDE DEF amount, w, final
  <2> QED
    BY <1>1, <1>2 DEF With, InvestTask
<1>6. CopyLater(t.row, t.x)
  BY <1>1, <1>4, CopyKept
<1> HIDE DEF n
<1>7. ASSUME pc'[r] = "invest:debit", task'[r] = n
      PROVE  TaskOK(r)'
  BY <1>5, <1>6, <1>7, FundingTask
     DEF FundingTaskOK, FundingStops, DividendStops, InvestLabels, EarlyLabels, CancelLabels,
         CopyOf, CopyLater, Exists, InvestTask
<1>8. "invest:debit" \in Stops
  BY DEF Stops, FundingStops
<1> QED
  BY <1>3, <1>4, <1>7, <1>8, Returned, Continued

LEMMA InvestTyped ==
  ASSUME IInv, NEW r \in Requests, pc[r] \in InvestLabels
  PROVE  LET t == task[r]
         IN  /\ InvestTask(t) /\ CopyOf(t.row, t.x)
             /\ t.user \in Users /\ t.x \in Rounds /\ t.row \in RoundRow /\ t.f \in Firm
             /\ t.w \in Wallets /\ t.amount \in Nat /\ t.final \in BOOLEAN
             /\ t.n \in Nat \ {0} /\ t.row.co \in Companies /\ Exists(t.row.co)
             /\ round[t.x] \in RoundRow /\ round[t.x].co = t.row.co
<1>1. InvestTask(task[r]) /\ CopyOf(task[r].row, task[r].x)
  BY DEF IInv, TaskOK, FundingTaskOK, InvestTask
<1> QED
  BY <1>1, CopyIsTyped, FundingAssumption DEF InvestTask, CopyOf

\* The handler goes on with what it has.
LEMMA InvestGoesOn ==
  ASSUME IInv, NEW r \in Requests, pc[r] \in InvestLabels, NEW to \in InvestLabels,
         Goto(r, to), Rows', Grows
  PROVE  IInv' /\ Grows
<1> DEFINE t == task[r]
<1>1. InvestTask(t) /\ CopyOf(t.row, t.x) /\ t.x \in Rounds /\ t.row \in RoundRow
  BY InvestTyped
<1>2. CopyLater(t.row, t.x)
  BY <1>1, CopyKept
<1>3. GotoWith(r, to, t)
  BY DEF Goto
<1>4. ASSUME pc'[r] = to, task'[r] = t
      PROVE  TaskOK(r)'
  BY <1>1, <1>2, <1>4, FundingTask
     DEF FundingTaskOK, FundingStops, DividendStops, InvestLabels, EarlyLabels, CancelLabels,
         CopyOf, CopyLater, Exists, InvestTask
<1>5. to \in Stops
  BY DEF Stops, FundingStops, InvestLabels
<1> QED
  BY <1>3, <1>4, <1>5, Continued

LEMMA InvestDebitStep ==
  ASSUME IInv, NEW r \in Requests, InvestDebit(r), UNCHANGED governance
  PROVE  IInv' /\ Grows
<1> DEFINE t == task[r]
<1>1. pc[r] \in InvestLabels
  BY DEF InvestDebit, At, InvestLabels
<1>2. t.w \in Wallets /\ t.amount \in Nat
  BY <1>1, InvestTyped
<1>3. CASE CanDebit(t.w, t.amount)
  <2>1. Goto(r, "invest:round") /\ Debit(t.w, t.amount, "investment", t.x)
    BY <1>3 DEF InvestDebit
  <2>2. Rows' /\ Grows
    BY <1>2, <1>3, <2>1, Paid DEF InvestDebit
  <2>3. "invest:round" \in InvestLabels
    BY DEF InvestLabels
  <2> QED
    BY <1>1, <2>1, <2>2, <2>3, InvestGoesOn
<1>4. CASE ~CanDebit(t.w, t.amount)
  <2>1. Return(r) /\ Rows' /\ Grows
    BY <1>4, NothingRead DEF InvestDebit, money
  <2> QED
    BY <2>1, Returned
<1> QED
  BY <1>3, <1>4

\* An update of some columns of a round.
LEMMA RoundUpdated ==
  ASSUME IInv, NEW x \in Rounds, round[x] # None, NEW new,
         round' = [round EXCEPT ![x] = With(@, new)],
         \/ \E n \in Nat, s \in {"open", "funded", "cancelled"} :
              new = [current |-> n, status |-> s]
         \/ \E s \in {"open", "funded", "cancelled"} : new = [status |-> s],
         UNCHANGED <<wallet, active, company, investments, dividend, governance>>
  PROVE  Rows' /\ Grows
<1> DEFINE row == With(round[x], new)
<1>1. round[x] \in RoundRow /\ Exists(round[x].co)
  BY DEF IInv, Rows, RowsTyped, RowsRefer
<1>2. row \in RoundRow /\ row.co = round[x].co /\ row.shares = round[x].shares
  BY <1>1 DEF With, RoundRow
<1>3. round' = [round EXCEPT ![x] = row]
  OBVIOUS
<1> HIDE DEF row
<1>4. Exists(row.co)
  BY <1>1, <1>2
<1> QED
  BY <1>2, <1>3, <1>4, RoundWritten DEF IInv

LEMMA InvestUpdateRoundStep ==
  ASSUME IInv, NEW r \in Requests, InvestUpdateRound(r), UNCHANGED governance
  PROVE  IInv' /\ Grows
<1> DEFINE t == task[r]
           n == t.row.current + t.amount
           s == IF t.final THEN "funded" ELSE round[t.x].status
<1>1. pc[r] \in InvestLabels /\ "invest:total" \in InvestLabels
  BY DEF InvestUpdateRound, At, InvestLabels
<1>2. t.x \in Rounds /\ t.row \in RoundRow /\ t.amount \in Nat /\ round[t.x] \in RoundRow
  BY <1>1, InvestTyped
<1>3. n \in Nat /\ s \in {"open", "funded", "cancelled"} /\ round[t.x] # None
  BY <1>2, FundingAssumption DEF RoundRow
<1>4. /\ round' = [round EXCEPT ![t.x] = With(@, [current |-> n, status |-> s])]
      /\ UNCHANGED <<wallet, active, company, investments, dividend, governance>>
  BY DEF InvestUpdateRound, money
<1> HIDE DEF n, s
<1>5. Rows' /\ Grows
  BY <1>2, <1>3, <1>4, RoundUpdated
<1> QED
  BY <1>1, <1>5, InvestGoesOn DEF InvestUpdateRound

LEMMA InvestUpdateTotalStep ==
  ASSUME IInv, NEW r \in Requests, InvestUpdateTotal(r), UNCHANGED governance
  PROVE  IInv' /\ Grows
<1> DEFINE t == task[r]
           n == t.f.total + t.n
<1>1. pc[r] \in InvestLabels /\ "invest:capital" \in InvestLabels
  BY DEF InvestUpdateTotal, At, InvestLabels
<1>2. n \in Nat /\ t.row.co \in Companies /\ Exists(t.row.co)
  BY <1>1, InvestTyped DEF Firm
<1>3. Rows' /\ Grows
  BY <1>2, FirmUpdated DEF InvestUpdateTotal, UpdateTotalShares, money
<1> QED
  BY <1>1, <1>3, InvestGoesOn DEF InvestUpdateTotal

LEMMA InvestUpdateCapitalStep ==
  ASSUME IInv, NEW r \in Requests, InvestUpdateCapital(r), UNCHANGED governance
  PROVE  IInv' /\ Grows
<1> DEFINE t == task[r]
           m == t.f.capital + t.amount
           n == IF t.final THEN PostMoney(t.row) ELSE t.f.valuation
<1>1. pc[r] \in InvestLabels /\ "invest:holder" \in InvestLabels
  BY DEF InvestUpdateCapital, At, InvestLabels
<1>2. /\ t.row \in RoundRow /\ t.f \in Firm /\ t.amount \in Nat
      /\ t.row.co \in Companies /\ Exists(t.row.co)
  BY <1>1, InvestTyped
<1>3. m \in Nat /\ n \in Nat
  <2>1. PostMoney(t.row) \in Nat
    BY <1>2, PricesAreNat
  <2>2. t.row.current \in Nat /\ t.f.capital \in Nat /\ t.f.valuation \in Nat
    BY <1>2 DEF Firm, RoundRow
  <2> QED
    BY <1>2, <2>1, <2>2
<1>4. /\ firm' = [firm EXCEPT ![t.row.co] = With(@, [capital |-> m, valuation |-> n])]
      /\ UNCHANGED <<wallet, active, pot, holding, papers, traded, funding, governance>>
  BY DEF InvestUpdateCapital, UpdateCapitalAndValuation, money
<1> HIDE DEF m, n
<1>5. Rows' /\ Grows
  BY <1>2, <1>3, <1>4, FirmUpdated
<1> QED
  BY <1>1, <1>5, InvestGoesOn DEF InvestUpdateCapital

LEMMA InvestUpsertStep ==
  ASSUME IInv, NEW r \in Requests, InvestUpsert(r), UNCHANGED governance
  PROVE  IInv' /\ Grows
<1> DEFINE t == task[r]
<1>1. pc[r] \in InvestLabels /\ "invest:credit" \in InvestLabels
  BY DEF InvestUpsert, At, InvestLabels
<1>2. t.row.co \in Companies /\ t.user \in Users /\ t.n \in Nat
  BY <1>1, InvestTyped
<1>3. Rows' /\ Grows
  BY <1>2, HoldingAdded DEF InvestUpsert, money
<1> QED
  BY <1>1, <1>3, InvestGoesOn DEF InvestUpsert

LEMMA InvestCreditStep ==
  ASSUME IInv, NEW r \in Requests, InvestCredit(r), UNCHANGED governance
  PROVE  IInv' /\ Grows
<1> DEFINE t == task[r]
<1>1. pc[r] \in InvestLabels /\ "invest:list" \in InvestLabels
  BY DEF InvestCredit, At, InvestLabels
<1>2. t.row.co \in Companies /\ t.amount \in Nat
  BY <1>1, InvestTyped
<1>3. CASE HasPot(t.row.co)
  <2>1. Goto(r, "invest:list") /\ CreditPot(t.row.co, t.amount, "investment", t.x)
    BY <1>3 DEF InvestCredit
  <2>2. Rows' /\ Grows
    BY <1>2, <1>3, <2>1, PotPaid DEF InvestCredit
  <2> QED
    BY <1>1, <2>1, <2>2, InvestGoesOn
<1>4. CASE ~HasPot(t.row.co)
  <2>1. Return(r) /\ Rows' /\ Grows
    BY <1>4, NothingRead DEF InvestCredit, company, books
  <2> QED
    BY <2>1, Returned
<1> QED
  BY <1>3, <1>4

LEMMA InvestListStep ==
  ASSUME IInv, NEW r \in Requests, InvestList(r), UNCHANGED governance
  PROVE  IInv' /\ Grows
<1>1. pc[r] \in InvestLabels /\ "invest:insert" \in InvestLabels
  BY DEF InvestList, At, InvestLabels
<1>2. task[r].row.co \in Companies /\ Exists(task[r].row.co)
  BY <1>1, InvestTyped
<1>3. Rows' /\ Grows
  BY <1>2, Listed DEF InvestList, money
<1> QED
  BY <1>1, <1>3, InvestGoesOn DEF InvestList

LEMMA InvestInsertStep ==
  ASSUME IInv, NEW r \in Requests, InvestInsert(r), UNCHANGED governance
  PROVE  IInv' /\ Grows
<1> DEFINE t == task[r]
<1>1. pc[r] \in InvestLabels
  BY DEF InvestInsert, At, InvestLabels
<1>2. Bought(t) \in Investment
  BY <1>1, InvestTyped DEF Bought, Investment
<1>3. Rows' /\ Grows
  BY <1>2, InvestmentWritten DEF InvestInsert, money, IInv
<1> QED
  BY <1>3, Returned DEF InvestInsert

-----------------------------------------------------------------------------
(* Closing a round early *)

LEMMA CloseReadRoundStep ==
  ASSUME IInv, NEW r \in Requests, CloseReadRound(r), UNCHANGED governance
  PROVE  IInv' /\ Grows
<1>1. PICK x \in Rounds :
        /\ Open(x)
        /\ Receive(r, "CloseRoundEarly", "early:company", [x |-> x, row |-> round[x]])
  BY DEF CloseReadRound
<1> DEFINE t == [x |-> x, row |-> round[x]]
<1>2. UNCHANGED <<wallet, active, company, funding, governance>>
  BY DEF CloseReadRound, money
<1>3. /\ t \in [x : Rounds, row : RoundRow]
      /\ CopyLater(t.row, t.x)
      /\ Receive(r, "CloseRoundEarly", "early:company", t)
  BY <1>1, <1>2, OpenRoundRead DEF company, books, funding, CopyOf, CopyLater, Exists
<1> HIDE DEF t
<1>4. ASSUME pc'[r] = "early:company", task'[r] = t
      PROVE  TaskOK(r)'
  BY <1>3, <1>4, FundingTask
     DEF FundingTaskOK, FundingStops, DividendStops, InvestLabels, EarlyLabels, CancelLabels,
         CopyOf, CopyLater, Exists
<1>5. "early:company" \in Stops
  BY DEF Stops, FundingStops
<1> QED
  BY <1>2, <1>3, <1>4, <1>5, Started

CloseTask(t) == t \in [x : Rounds, row : RoundRow, f : Firm]

LEMMA CloseReadCompanyStep ==
  ASSUME IInv, NEW r \in Requests, CloseReadCompany(r), UNCHANGED governance
  PROVE  IInv' /\ Grows
<1> DEFINE t == task[r]
           f == firm[t.row.co]
           n == With(t, [f |-> f])
<1>1. t \in [x : Rounds, row : RoundRow] /\ CopyOf(t.row, t.x)
  BY DEF CloseReadCompany, At, IInv, TaskOK, FundingTaskOK
<1>2. f \in Firm
  BY <1>1, CopyIsTyped
<1>3. Return(r) \/ GotoWith(r, "early:round", n)
  BY DEF CloseReadCompany
<1>4. Rows' /\ Grows
  BY NothingRead DEF CloseReadCompany, money
<1>5. CloseTask(n) /\ n.x = t.x /\ n.row = t.row
  <2> HIDE DEF f
  <2> QED
    BY <1>1, <1>2 DEF With, CloseTask
<1>6. CopyLater(t.row, t.x)
  BY <1>1, <1>4, CopyKept
<1> HIDE DEF n
<1>7. ASSUME pc'[r] = "early:round", task'[r] = n
      PROVE  TaskOK(r)'
  BY <1>5, <1>6, <1>7, FundingTask
     DEF FundingTaskOK, FundingStops, DividendStops, InvestLabels, EarlyLabels, CancelLabels,
         CopyOf, CopyLater, Exists, CloseTask
<1>8. "early:round" \in Stops
  BY DEF Stops, FundingStops
<1> QED
  BY <1>3, <1>4, <1>7, <1>8, Returned, Continued

LEMMA CloseTyped ==
  ASSUME IInv, NEW r \in Requests,
         pc[r] \in EarlyLabels \cup {"cancel:pot", "cancel:investments"}
  PROVE  LET t == task[r]
         IN  /\ CloseTask(t) /\ CopyOf(t.row, t.x)
             /\ t.x \in Rounds /\ t.row \in RoundRow /\ t.f \in Firm
             /\ t.row.co \in Companies /\ Exists(t.row.co)
             /\ round[t.x] \in RoundRow /\ round[t.x] # None
<1>1. CloseTask(task[r]) /\ CopyOf(task[r].row, task[r].x)
  BY DEF IInv, TaskOK, FundingTaskOK, CloseTask
<1> QED
  BY <1>1, CopyIsTyped DEF CloseTask, CopyOf

LEMMA CloseGoesOn ==
  ASSUME IInv, NEW r \in Requests,
         pc[r] \in EarlyLabels \cup {"cancel:pot", "cancel:investments"},
         NEW to \in EarlyLabels \cup {"cancel:investments"},
         Goto(r, to), Rows', Grows
  PROVE  IInv' /\ Grows
<1> DEFINE t == task[r]
<1>1. CloseTask(t) /\ CopyOf(t.row, t.x) /\ t.x \in Rounds /\ t.row \in RoundRow
  BY CloseTyped
<1>2. CopyLater(t.row, t.x)
  BY <1>1, CopyKept
<1>3. GotoWith(r, to, t)
  BY DEF Goto
<1>4. ASSUME pc'[r] = to, task'[r] = t
      PROVE  TaskOK(r)'
  BY <1>1, <1>2, <1>4, FundingTask
     DEF FundingTaskOK, FundingStops, DividendStops, InvestLabels, EarlyLabels, CancelLabels,
         CopyOf, CopyLater, Exists, CloseTask
<1>5. to \in Stops
  BY DEF Stops, FundingStops, EarlyLabels
<1> QED
  BY <1>3, <1>4, <1>5, Continued

LEMMA CloseUpdateRoundStep ==
  ASSUME IInv, NEW r \in Requests, CloseUpdateRound(r), UNCHANGED governance
  PROVE  IInv' /\ Grows
<1> DEFINE t == task[r]
<1>1. pc[r] \in EarlyLabels /\ "early:capital" \in EarlyLabels
  BY DEF CloseUpdateRound, At, EarlyLabels
<1>2. t.x \in Rounds /\ t.row.current \in Nat /\ round[t.x] # None
  BY <1>1, CloseTyped DEF RoundRow
<1>3. /\ round' = [round EXCEPT ![t.x] =
             With(@, [current |-> t.row.current, status |-> "funded"])]
      /\ UNCHANGED <<wallet, active, company, investments, dividend, governance>>
  BY DEF CloseUpdateRound, money
<1>4. Rows' /\ Grows
  BY <1>2, <1>3, RoundUpdated
<1> QED
  BY <1>1, <1>4, CloseGoesOn DEF CloseUpdateRound

LEMMA CloseUpdateCapitalStep ==
  ASSUME IInv, NEW r \in Requests, CloseUpdateCapital(r), UNCHANGED governance
  PROVE  IInv' /\ Grows
<1> DEFINE t == task[r]
           n == Price(t.row, t.f.total)
<1>1. pc[r] \in EarlyLabels /\ "early:list" \in EarlyLabels
  BY DEF CloseUpdateCapital, At, EarlyLabels
<1>2. t.row \in RoundRow /\ t.f \in Firm /\ t.row.co \in Companies /\ Exists(t.row.co)
  BY <1>1, CloseTyped
<1>3. t.f.capital \in Nat /\ t.f.total \in Nat
  BY <1>2 DEF Firm
<1>4. n \in Nat
  BY <1>2, <1>3, PricesAreNat
<1>5. /\ firm' = [firm EXCEPT ![t.row.co] =
                    With(@, [capital |-> t.f.capital, valuation |-> n])]
      /\ UNCHANGED <<wallet, active, pot, holding, papers, traded, funding, governance>>
  BY DEF CloseUpdateCapital, UpdateCapitalAndValuation, money
<1> HIDE DEF n
<1>6. Rows' /\ Grows
  BY <1>2, <1>3, <1>4, <1>5, FirmUpdated
<1> QED
  BY <1>1, <1>6, CloseGoesOn DEF CloseUpdateCapital

LEMMA CloseListStep ==
  ASSUME IInv, NEW r \in Requests, CloseList(r), UNCHANGED governance
  PROVE  IInv' /\ Grows
<1>1. pc[r] \in EarlyLabels
  BY DEF CloseList, At, EarlyLabels
<1>2. task[r].row.co \in Companies /\ Exists(task[r].row.co)
  BY <1>1, CloseTyped
<1>3. Rows' /\ Grows
  BY <1>2, Listed DEF CloseList, money
<1> QED
  BY <1>3, Returned DEF CloseList

-----------------------------------------------------------------------------
(* Cancelling a round *)

LEMMA CancelReadRoundStep ==
  ASSUME IInv, NEW r \in Requests, CancelReadRound(r), UNCHANGED governance
  PROVE  IInv' /\ Grows
<1>1. PICK x \in Rounds :
        /\ Open(x)
        /\ Receive(r, "CancelRound", "cancel:company", [x |-> x, row |-> round[x]])
  BY DEF CancelReadRound
<1> DEFINE t == [x |-> x, row |-> round[x]]
<1>2. UNCHANGED <<wallet, active, company, funding, governance>>
  BY DEF CancelReadRound, money
<1>3. /\ t \in [x : Rounds, row : RoundRow]
      /\ CopyLater(t.row, t.x)
      /\ Receive(r, "CancelRound", "cancel:company", t)
  BY <1>1, <1>2, OpenRoundRead DEF company, books, funding, CopyOf, CopyLater, Exists
<1> HIDE DEF t
<1>4. ASSUME pc'[r] = "cancel:company", task'[r] = t
      PROVE  TaskOK(r)'
  BY <1>3, <1>4, FundingTask
     DEF FundingTaskOK, FundingStops, DividendStops, InvestLabels, EarlyLabels, CancelLabels,
         CopyOf, CopyLater, Exists
<1>5. "cancel:company" \in Stops
  BY DEF Stops, FundingStops
<1> QED
  BY <1>2, <1>3, <1>4, <1>5, Started

LEMMA CancelReadCompanyStep ==
  ASSUME IInv, NEW r \in Requests, CancelReadCompany(r), UNCHANGED governance
  PROVE  IInv' /\ Grows
<1> DEFINE t == task[r]
           f == firm[t.row.co]
           n == With(t, [f |-> f])
<1>1. t \in [x : Rounds, row : RoundRow] /\ CopyOf(t.row, t.x)
  BY DEF CancelReadCompany, At, IInv, TaskOK, FundingTaskOK
<1>2. f \in Firm
  BY <1>1, CopyIsTyped
<1>3. GotoWith(r, "cancel:pot", n)
  BY DEF CancelReadCompany
<1>4. Rows' /\ Grows
  BY NothingRead DEF CancelReadCompany, money
<1>5. CloseTask(n) /\ n.x = t.x /\ n.row = t.row
  <2> HIDE DEF f
  <2> QED
    BY <1>1, <1>2 DEF With, CloseTask
<1>6. CopyLater(t.row, t.x)
  BY <1>1, <1>4, CopyKept
<1> HIDE DEF n
<1>7. ASSUME pc'[r] = "cancel:pot", task'[r] = n
      PROVE  TaskOK(r)'
  BY <1>5, <1>6, <1>7, FundingTask
     DEF FundingTaskOK, FundingStops, DividendStops, InvestLabels, EarlyLabels, CancelLabels,
         CopyOf, CopyLater, Exists, CloseTask
<1>8. "cancel:pot" \in Stops
  BY DEF Stops, FundingStops
<1> QED
  BY <1>3, <1>4, <1>7, <1>8, Continued

LEMMA CancelReadPotStep ==
  ASSUME IInv, NEW r \in Requests, CancelReadPot(r), UNCHANGED governance
  PROVE  IInv' /\ Grows
<1>1. pc[r] = "cancel:pot" /\ (Return(r) \/ Goto(r, "cancel:investments"))
  BY DEF CancelReadPot, At
<1>2. Rows' /\ Grows
  BY NothingRead DEF CancelReadPot, money
<1> QED
  BY <1>1, <1>2, Returned, CloseGoesOn

CancelTask(t) ==
  t \in [x : Rounds, row : RoundRow, f : Firm, left : SUBSET Nat, returned : Nat]

\* The handler goes on to refund, having read or written off some investments.
LEMMA CancelGoesOn ==
  ASSUME IInv, NEW r \in Requests, NEW to \in CancelLabels, NEW t, GotoWith(r, to, t),
         Rows', Grows, CancelTask(t), CopyLater(t.row, t.x),
         t.left \subseteq DOMAIN investments, to = "cancel:shares" => t.left # {}
  PROVE  IInv' /\ Grows
<1>1. t.left \subseteq DOMAIN investments'
  BY DEF Grows
<1>2. ASSUME pc'[r] = to, task'[r] = t
      PROVE  TaskOK(r)'
  BY <1>1, <1>2, FundingTask
     DEF FundingTaskOK, FundingStops, DividendStops, InvestLabels, EarlyLabels, CancelLabels,
         CopyOf, CopyLater, Exists, CancelTask
<1>3. to \in Stops
  BY DEF Stops, FundingStops, CancelLabels
<1> QED
  BY <1>2, <1>3, Continued

LEMMA CancelReadInvestmentsStep ==
  ASSUME IInv, NEW r \in Requests, CancelReadInvestments(r), UNCHANGED governance
  PROVE  IInv' /\ Grows
<1> DEFINE t == task[r]
           left == InvestedIn(t.x, investments)
           n == With(t, [left |-> left, returned |-> 0])
           to == IF t.row.current > 0 THEN "cancel:debit" ELSE "cancel:refund"
<1>1. CloseTask(t) /\ CopyOf(t.row, t.x) /\ t.x \in Rounds /\ t.row \in RoundRow
  BY CloseTyped DEF CancelReadInvestments, At
<1>2. left \subseteq DOMAIN investments /\ left \in SUBSET Nat
  BY DEF InvestedIn, IInv, Rows, RowsTyped
<1>3. Rows' /\ Grows
  BY NothingRead DEF CancelReadInvestments, money
<1>4. CancelTask(n) /\ n.x = t.x /\ n.row = t.row /\ n.left = left
  <2> HIDE DEF left
  <2> QED
    BY <1>1, <1>2 DEF With, CloseTask, CancelTask
<1>5. CopyLater(t.row, t.x)
  BY <1>1, <1>3, CopyKept
<1>6. GotoWith(r, to, n)
  BY DEF CancelReadInvestments
<1>7. to \in CancelLabels /\ to # "cancel:shares"
  BY DEF CancelLabels
<1>8. n.left \subseteq DOMAIN investments /\ CopyLater(n.row, n.x)
  BY <1>2, <1>4, <1>5
<1> HIDE DEF n, to
<1> QED
  BY <1>3, <1>4, <1>6, <1>7, <1>8, CancelGoesOn

LEMMA CancelTyped ==
  ASSUME IInv, NEW r \in Requests, pc[r] \in CancelLabels
  PROVE  LET t == task[r]
         IN  /\ CancelTask(t) /\ CopyOf(t.row, t.x)
             /\ t.x \in Rounds /\ t.row \in RoundRow /\ t.f \in Firm
             /\ t.left \in SUBSET Nat /\ t.left \subseteq DOMAIN investments
             /\ t.returned \in Nat /\ t.row.current \in Nat
             /\ t.row.co \in Companies /\ Exists(t.row.co) /\ round[t.x] # None
<1>1. /\ CancelTask(task[r]) /\ CopyOf(task[r].row, task[r].x)
      /\ task[r].left \subseteq DOMAIN investments
  BY DEF IInv, TaskOK, FundingTaskOK, CancelTask
<1> QED
  BY <1>1, CopyIsTyped DEF CancelTask, CopyOf, RoundRow

\* The investment that is refunded next.
LEMMA RefundTyped ==
  ASSUME IInv, NEW r \in Requests, pc[r] \in CancelLabels, task[r].left # {}
  PROVE  investments[First(task[r].left)] \in Investment
<1>1. First(task[r].left) \in DOMAIN investments
  BY CancelTyped, FirstIsLeft
<1> QED
  BY <1>1 DEF IInv, Rows, RowsTyped

LEMMA CancelDebitStep ==
  ASSUME IInv, NEW r \in Requests, CancelDebit(r), UNCHANGED governance
  PROVE  IInv' /\ Grows
<1> DEFINE t == task[r]
<1>1. pc[r] \in CancelLabels /\ "cancel:refund" \in CancelLabels
  BY DEF CancelDebit, At, CancelLabels
<1>2. /\ CancelTask(t) /\ CopyOf(t.row, t.x) /\ t.x \in Rounds /\ t.row \in RoundRow
      /\ t.left \subseteq DOMAIN investments
      /\ t.row.co \in Companies /\ t.row.current \in Nat
  BY <1>1, CancelTyped
<1>3. CASE CanDebitPot(t.row.co, t.row.current)
  <2>1. /\ GotoWith(r, "cancel:refund", t)
        /\ DebitPot(t.row.co, t.row.current, "investment_refund", t.x)
    BY <1>3 DEF CancelDebit, Goto
  <2>2. Rows' /\ Grows
    BY <1>2, <1>3, <2>1, PotPaid DEF CancelDebit
  <2>3. CopyLater(t.row, t.x)
    BY <1>2, <2>2, CopyKept
  <2> QED
    BY <1>1, <1>2, <2>1, <2>2, <2>3, CancelGoesOn
<1>4. CASE ~CanDebitPot(t.row.co, t.row.current)
  <2>1. Return(r) /\ Rows' /\ Grows
    BY <1>4, NothingRead DEF CancelDebit, company, books
  <2> QED
    BY <2>1, Returned
<1> QED
  BY <1>3, <1>4

LEMMA CancelRefundStep ==
  ASSUME IInv, NEW r \in Requests, CancelRefund(r), UNCHANGED governance
  PROVE  IInv' /\ Grows
<1> DEFINE t == task[r]
           i == investments[First(t.left)]
           w == <<i.user, t.f.room>>
           rest == t.left \ {First(t.left)}
           n == With(t, [left |-> rest])
<1>1. /\ pc[r] \in CancelLabels /\ "cancel:refund" \in CancelLabels
      /\ "cancel:shares" \in CancelLabels /\ t.left # {}
  BY DEF CancelRefund, At, CancelLabels
<1>2. /\ CancelTask(t) /\ CopyOf(t.row, t.x) /\ t.x \in Rounds /\ t.row \in RoundRow
      /\ t.f \in Firm /\ t.left \in SUBSET Nat /\ t.left \subseteq DOMAIN investments
  BY <1>1, CancelTyped
<1>3. i.amount \in Nat /\ w \in Wallets
  BY <1>1, <1>2, RefundTyped DEF Investment, Firm, Wallets
<1>4. CASE CanCredit(i.amount)
  <2>1. GotoWith(r, "cancel:shares", t) /\ Credit(w, i.amount, "investment", t.x)
    BY <1>4 DEF CancelRefund, Goto
  <2>2. Rows' /\ Grows
    BY <1>3, <2>1, Paid DEF CancelRefund
  <2>3. CopyLater(t.row, t.x)
    BY <1>2, <2>2, CopyKept
  <2> QED
    BY <1>1, <1>2, <2>1, <2>2, <2>3, CancelGoesOn
<1>5. CASE ~CanCredit(i.amount)
  <2>1. GotoWith(r, "cancel:refund", n) /\ UNCHANGED money
    BY <1>5 DEF CancelRefund
  <2>2. Rows' /\ Grows
    BY <2>1, NothingRead DEF CancelRefund, money
  <2>3. rest \in SUBSET Nat /\ rest \subseteq DOMAIN investments
    BY <1>2
  <2>4. CancelTask(n) /\ n.x = t.x /\ n.row = t.row /\ n.left = rest
    <3> HIDE DEF rest
    <3> QED
      BY <1>2, <2>3 DEF With, CancelTask
  <2>5. CopyLater(t.row, t.x)
    BY <1>2, <2>2, CopyKept
  <2> HIDE DEF n, rest
  <2>6. CopyLater(n.row, n.x) /\ n.left \subseteq DOMAIN investments
    BY <2>3, <2>4, <2>5
  <2> QED
    BY <1>1, <2>1, <2>2, <2>4, <2>6, CancelGoesOn
<1> QED
  BY <1>4, <1>5

LEMMA CancelSharesStep ==
  ASSUME IInv, NEW r \in Requests, CancelShares(r), UNCHANGED governance
  PROVE  IInv' /\ Grows
<1> DEFINE t == task[r]
           i == investments[First(t.left)]
           rest == t.left \ {First(t.left)}
           back == t.returned + i.shares
           n == With(t, [left |-> rest, returned |-> back])
           h == <<t.row.co, i.user>>
<1>0. pc[r] = "cancel:shares"
  BY DEF CancelShares, At
<1>1. /\ pc[r] \in CancelLabels /\ "cancel:refund" \in CancelLabels /\ t.left # {}
  BY <1>0 DEF IInv, TaskOK, FundingTaskOK, CancelLabels
<1>2. /\ CancelTask(t) /\ CopyOf(t.row, t.x) /\ t.x \in Rounds /\ t.row \in RoundRow
      /\ t.left \in SUBSET Nat /\ t.left \subseteq DOMAIN investments
      /\ t.row.co \in Companies /\ t.returned \in Nat
  BY <1>1, CancelTyped
<1>3. i.shares \in Nat /\ i.user \in Users
  BY <1>1, RefundTyped DEF Investment
<1>4. rest \in SUBSET Nat /\ rest \subseteq DOMAIN investments /\ back \in Nat
  BY <1>2, <1>3
<1>5. /\ GotoWith(r, "cancel:refund", n)
      /\ holding' = [holding EXCEPT ![h] = LeftAfter(holding[h], i.shares)]
  BY DEF CancelShares
<1>6. holding \in [Companies \X Users -> Nat] /\ h \in Companies \X Users /\ traded \in BOOLEAN
  BY <1>2, <1>3 DEF IInv, Rows, RowsTyped
<1>7. LeftAfter(holding[h], i.shares) \in Nat
  BY <1>3, <1>6 DEF LeftAfter
<1>8. holding' \in [Companies \X Users -> Nat]
  <2> HIDE DEF h
  <2> QED
    BY <1>5, <1>6, <1>7
<1>9. Rows' /\ Grows
  BY <1>6, <1>8, HoldingsWritten DEF CancelShares, money, IInv
<1>10. CancelTask(n) /\ n.x = t.x /\ n.row = t.row /\ n.left = rest
  <2> HIDE DEF rest, back
  <2> QED
    BY <1>2, <1>4 DEF With, CancelTask
<1>11. CopyLater(t.row, t.x)
  BY <1>2, <1>9, CopyKept
<1> HIDE DEF n, rest
<1>12. CopyLater(n.row, n.x) /\ n.left \subseteq DOMAIN investments
  BY <1>4, <1>10, <1>11
<1> QED
  BY <1>1, <1>5, <1>9, <1>10, <1>12, CancelGoesOn

LEMMA CancelUpdateTotalStep ==
  ASSUME IInv, NEW r \in Requests, CancelUpdateTotal(r), UNCHANGED governance
  PROVE  IInv' /\ Grows
<1> DEFINE t == task[r]
           n == LeftAfter(t.f.total, t.returned)
<1>1. pc[r] \in CancelLabels /\ "cancel:capital" \in CancelLabels
  BY DEF CancelUpdateTotal, At, CancelLabels
<1>2. /\ CancelTask(t) /\ CopyOf(t.row, t.x) /\ t.x \in Rounds /\ t.row \in RoundRow
      /\ t.f \in Firm /\ t.left \subseteq DOMAIN investments /\ t.returned \in Nat
      /\ t.row.co \in Companies /\ Exists(t.row.co)
  BY <1>1, CancelTyped
<1>3. n \in Nat
  BY <1>2 DEF Firm, LeftAfter
<1>4. /\ firm' = [firm EXCEPT ![t.row.co] = With(@, [total |-> n])]
      /\ UNCHANGED <<wallet, active, pot, holding, papers, traded, funding, governance>>
      /\ GotoWith(r, "cancel:capital", t)
  BY DEF CancelUpdateTotal, UpdateTotalShares, money, Goto
<1> HIDE DEF n
<1>5. Rows' /\ Grows
  BY <1>2, <1>3, <1>4, FirmUpdated
<1>6. CopyLater(t.row, t.x)
  BY <1>2, <1>5, CopyKept
<1> QED
  BY <1>1, <1>2, <1>4, <1>5, <1>6, CancelGoesOn

LEMMA CancelUpdateCapitalStep ==
  ASSUME IInv, NEW r \in Requests, CancelUpdateCapital(r), UNCHANGED governance
  PROVE  IInv' /\ Grows
<1> DEFINE t == task[r]
           n == LeftAfter(t.f.capital, t.row.current)
<1>1. pc[r] \in CancelLabels /\ "cancel:status" \in CancelLabels
  BY DEF CancelUpdateCapital, At, CancelLabels
<1>2. /\ CancelTask(t) /\ CopyOf(t.row, t.x) /\ t.x \in Rounds /\ t.row \in RoundRow
      /\ t.f \in Firm /\ t.left \subseteq DOMAIN investments /\ t.row.current \in Nat
      /\ t.row.co \in Companies /\ Exists(t.row.co)
  BY <1>1, CancelTyped
<1>3. n \in Nat /\ t.f.valuation \in Nat
  BY <1>2 DEF Firm, LeftAfter
<1>4. /\ firm' = [firm EXCEPT ![t.row.co] =
                    With(@, [capital |-> n, valuation |-> t.f.valuation])]
      /\ UNCHANGED <<wallet, active, pot, holding, papers, traded, funding, governance>>
      /\ GotoWith(r, "cancel:status", t)
  BY DEF CancelUpdateCapital, UpdateCapitalAndValuation, money, Goto
<1> HIDE DEF n
<1>5. Rows' /\ Grows
  BY <1>2, <1>3, <1>4, FirmUpdated
<1>6. CopyLater(t.row, t.x)
  BY <1>2, <1>5, CopyKept
<1> QED
  BY <1>1, <1>2, <1>4, <1>5, <1>6, CancelGoesOn

LEMMA CancelStatusStep ==
  ASSUME IInv, NEW r \in Requests, CancelStatus(r), UNCHANGED governance
  PROVE  IInv' /\ Grows
<1>1. pc[r] \in CancelLabels
  BY DEF CancelStatus, At, CancelLabels
<1>2. task[r].x \in Rounds /\ round[task[r].x] # None
  BY <1>1, CancelTyped
<1>3. Rows' /\ Grows
  BY <1>2, RoundUpdated DEF CancelStatus, money
<1> QED
  BY <1>3, Returned DEF CancelStatus

-----------------------------------------------------------------------------
(* What holders are paid *)

LEMMA ShareIsNat ==
  ASSUME NEW amount \in Nat, NEW shares \in Nat, NEW total \in Nat \ {0}
  PROVE  Share(amount, shares, total) \in Nat
<1>1. amount * shares \in Nat
  BY ProductIsNat
<1>2. \A m \in Nat, n \in Nat \ {0} : m \div n \in Nat
  OBVIOUS
<1> QED
  BY <1>1, <1>2 DEF Share

\* Who is paid, and that nobody is paid a negative amount.
LEMMA PayoutsTyped ==
  ASSUME IInv, NEW c \in Companies, NEW amount \in Nat, NEW total \in Nat,
         total > 0 \/ Holders(c) = {}, NEW left \in Payouts(c, amount, total)
  PROVE  left \in Seq(Payout)
<1> DEFINE S == Payees(c, amount, total)
           Paid1(u) == Share(amount, holding[<<c, u>>], total)
<1>1. PICK s \in SetToSeqs(S) :
        left = [i \in DOMAIN s |-> [user |-> s[i], amount |-> Paid1(s[i])]]
  BY DEF Payouts
<1>2. S \in SUBSET Users /\ S \in SUBSET Holders(c)
  BY DEF Payees, Holders
<1>3. Cardinality(S) \in Nat
  BY <1>2, ServerAssumption, SubsetOfFinite
<1>4. s \in [1 .. Cardinality(S) -> S]
  BY DEF SetToSeqs
<1>5. ASSUME NEW u \in S
      PROVE  [user |-> u, amount |-> Paid1(u)] \in Payout
  <2>1. holding[<<c, u>>] \in Nat /\ total \in Nat \ {0} /\ u \in Users
    BY <1>2, <1>5 DEF IInv, Rows, RowsTyped
  <2>2. Paid1(u) \in Nat
    BY <2>1, ShareIsNat
  <2> HIDE DEF Paid1
  <2> QED
    BY <2>1, <2>2 DEF Payout
<1> HIDE DEF S, Paid1
<1>6. left \in [1 .. Cardinality(S) -> Payout]
  BY <1>1, <1>4, <1>5
<1> QED
  BY <1>3, <1>6

-----------------------------------------------------------------------------
(* Dividends *)

LEMMA DividendReadCompanyStep ==
  ASSUME IInv, NEW r \in Requests, DividendReadCompany(r), UNCHANGED governance
  PROVE  IInv' /\ Grows
<1>1. PICK c \in Companies, n \in Amounts :
        /\ Exists(c)
        /\ Receive(r, "ExecuteDividend", "dividend:pot",
                   [co |-> c, amount |-> n, f |-> firm[c]])
  BY DEF DividendReadCompany
<1> DEFINE t == [co |-> c, amount |-> n, f |-> firm[c]]
<1>2. UNCHANGED <<wallet, active, company, funding, governance>>
  BY DEF DividendReadCompany, money
<1>3. /\ t \in [co : Companies, amount : Amounts, f : Firm]
      /\ Receive(r, "ExecuteDividend", "dividend:pot", t)
  BY <1>1 DEF IInv, Rows, RowsTyped, Exists
<1> HIDE DEF t
<1>4. ASSUME pc'[r] = "dividend:pot", task'[r] = t
      PROVE  TaskOK(r)'
  BY <1>3, <1>4, DividendTask DEF DividendTaskOK, DividendStops
<1>5. "dividend:pot" \in Stops
  BY DEF Stops, FundingStops
<1> QED
  BY <1>2, <1>3, <1>4, <1>5, Started

LEMMA DeclaringTask ==
  ASSUME IInv, NEW r \in Requests, pc[r] \in {"dividend:pot", "dividend:insert"}
  PROVE  /\ task[r] \in [co : Companies, amount : Amounts, f : Firm]
         /\ task[r].amount \in Nat /\ task[r].co \in Companies
BY CompanyAssumption DEF IInv, TaskOK, DividendTaskOK

LEMMA DividendDebitStep ==
  ASSUME IInv, NEW r \in Requests, DividendDebit(r), UNCHANGED governance
  PROVE  IInv' /\ Grows
<1> DEFINE t == task[r]
<1>1. /\ t \in [co : Companies, amount : Amounts, f : Firm]
      /\ t.amount \in Nat /\ t.co \in Companies
  BY DeclaringTask DEF DividendDebit, At
<1>2. CASE CanDebitPot(t.co, t.amount)
  <2>1. GotoWith(r, "dividend:insert", t) /\ DebitPot(t.co, t.amount, "dividend", "paid")
    BY <1>2 DEF DividendDebit, Goto
  <2>2. Rows' /\ Grows
    BY <1>1, <1>2, <2>1, PotPaid DEF DividendDebit
  <2>3. ASSUME pc'[r] = "dividend:insert", task'[r] = t
        PROVE  TaskOK(r)'
    BY <1>1, <2>3, DividendTask DEF DividendTaskOK, DividendStops
  <2>4. "dividend:insert" \in Stops
    BY DEF Stops, FundingStops
  <2> QED
    BY <2>1, <2>2, <2>3, <2>4, Continued
<1>3. CASE ~CanDebitPot(t.co, t.amount)
  <2>1. Return(r) /\ Rows' /\ Grows
    BY <1>3, NothingRead DEF DividendDebit, company, books
  <2> QED
    BY <2>1, Returned
<1> QED
  BY <1>2, <1>3

LEMMA DividendInsertStep ==
  ASSUME IInv, NEW r \in Requests, DividendInsert(r), UNCHANGED governance
  PROVE  IInv' /\ Grows
<1> DEFINE t == task[r]
<1>1. /\ t \in [co : Companies, amount : Amounts, f : Firm]
      /\ t.amount \in Nat /\ t.co \in Companies
  BY DeclaringTask DEF DividendInsert, At
<1>2. UNCHANGED <<wallet, active, company, round, investments, governance>>
  BY DEF DividendInsert, money
<1>3. CASE NextId(dividend) = {}
  <2>1. Return(r) /\ Rows' /\ Grows
    BY <1>2, <1>3, NothingRead DEF DividendInsert, funding
  <2> QED
    BY <2>1, Returned
<1>4. CASE NextId(dividend) # {}
  <2>1. PICK d \in NextId(dividend) :
          /\ GotoWith(r, "dividend:holders", With(t, [id |-> d]))
          /\ dividend' = [dividend EXCEPT ![d] = Declared(t)]
    BY <1>4 DEF DividendInsert
  <2> DEFINE n == With(t, [id |-> d])
  <2>2. /\ d \in Dividends /\ Declared(t) \in Dividend
        /\ dividend \in [Dividends -> Dividend \cup {None}]
    BY <1>1, <2>1 DEF NextId, Declared, Dividend, IInv, Rows, RowsTyped
  <2>3. Rows' /\ Grows
    BY <1>2, <2>1, <2>2, DividendWritten DEF IInv
  <2>4. dividend'[d] # None
    BY <2>1, <2>2, FundingAssumption
  <2>5. n \in [co : Companies, amount : Amounts, f : Firm, id : Dividends] /\ n.id = d
    BY <1>1, <2>2 DEF With
  <2>6. GotoWith(r, "dividend:holders", n)
    BY <2>1
  <2> HIDE DEF n
  <2>7. ASSUME pc'[r] = "dividend:holders", task'[r] = n
        PROVE  TaskOK(r)'
    BY <2>4, <2>5, <2>7, DividendTask DEF DividendTaskOK, DividendStops
  <2>8. "dividend:holders" \in Stops
    BY DEF Stops, FundingStops
  <2> QED
    BY <2>3, <2>6, <2>7, <2>8, Continued
<1> QED
  BY <1>3, <1>4

DividendTaskTyped(t) ==
  t \in [co : Companies, amount : Amounts, f : Firm, id : Dividends, left : Seq(Payout)]

\* The handler goes on to pay.
LEMMA DividendGoesOn ==
  ASSUME IInv, NEW r \in Requests, NEW to \in {"dividend:pay", "dividend:row"}, NEW t,
         GotoWith(r, to, t), Rows', Grows, DividendTaskTyped(t), dividend[t.id] # None,
         to = "dividend:row" => t.left # <<>>
  PROVE  IInv' /\ Grows
<1>1. t.id \in Dividends /\ dividend'[t.id] # None
  BY DEF DividendTaskTyped, Grows
<1>2. ASSUME pc'[r] = to, task'[r] = t
      PROVE  TaskOK(r)'
  BY <1>1, <1>2, DividendTask DEF DividendTaskOK, DividendStops, DividendTaskTyped
<1>3. to \in Stops
  BY DEF Stops, FundingStops
<1> QED
  BY <1>2, <1>3, Continued

LEMMA DividendHoldersStep ==
  ASSUME IInv, NEW r \in Requests, DividendHolders(r), UNCHANGED governance
  PROVE  IInv' /\ Grows
<1> DEFINE t == task[r]
<1>1. /\ t \in [co : Companies, amount : Amounts, f : Firm, id : Dividends]
      /\ dividend[t.id] # None
  BY DEF DividendHolders, At, IInv, TaskOK, DividendTaskOK
<1>2. Rows' /\ Grows
  BY NothingRead DEF DividendHolders, money
<1>3. CASE t.f.total = 0
  BY <1>2, <1>3, Returned DEF DividendHolders
<1>4. CASE t.f.total # 0
  <2>1. PICK left \in Payouts(t.co, t.amount, t.f.total) :
          GotoWith(r, "dividend:pay", With(t, [left |-> left]))
    BY <1>4 DEF DividendHolders
  <2> DEFINE n == With(t, [left |-> left])
  <2>2. t.co \in Companies /\ t.amount \in Nat /\ t.f.total \in Nat /\ t.f.total > 0
    <3>1. t.co \in Companies /\ t.amount \in Nat /\ t.f \in Firm
      BY <1>1, CompanyAssumption
    <3>2. t.f.total \in Nat
      BY <3>1 DEF Firm
    <3> QED
      BY <1>4, <3>1, <3>2
  <2>3. left \in Seq(Payout)
    BY <2>2, PayoutsTyped
  <2>4. DividendTaskTyped(n) /\ n.id = t.id
    BY <1>1, <2>3 DEF With, DividendTaskTyped
  <2>5. GotoWith(r, "dividend:pay", n)
    BY <2>1
  <2> HIDE DEF n
  <2> QED
    BY <1>1, <1>2, <2>4, <2>5, DividendGoesOn
<1> QED
  BY <1>3, <1>4

LEMMA DividendTyped ==
  ASSUME IInv, NEW r \in Requests, pc[r] \in {"dividend:pay", "dividend:row"}
  PROVE  LET t == task[r]
         IN  /\ DividendTaskTyped(t) /\ dividend[t.id] # None
             /\ t.f \in Firm /\ t.id \in Dividends /\ t.left \in Seq(Payout)
             /\ dividend[t.id] \in Dividend
             /\ pc[r] = "dividend:row" => t.left # <<>>
BY DEF IInv, TaskOK, DividendTaskOK, DividendTaskTyped, Rows, RowsTyped

LEMMA DividendPayStep ==
  ASSUME IInv, NEW r \in Requests, DividendPay(r), UNCHANGED governance
  PROVE  IInv' /\ Grows
<1> DEFINE t == task[r]
           w == <<Head(t.left).user, t.f.room>>
           n == Head(t.left).amount
<1>1. /\ DividendTaskTyped(t) /\ dividend[t.id] # None
      /\ t.f \in Firm /\ t.left \in Seq(Payout) /\ t.left # <<>>
  BY DividendTyped DEF DividendPay, At
<1>2. Head(t.left) \in Payout
  BY <1>1
<1>3. w \in Wallets /\ n \in Nat
  BY <1>1, <1>2 DEF Payout, Firm, Wallets
<1>4. GotoWith(r, "dividend:row", t) /\ Credit(w, n, "dividend", t.id)
  BY DEF DividendPay, Goto
<1>5. Rows' /\ Grows
  BY <1>3, <1>4, Paid DEF DividendPay
<1> QED
  BY <1>1, <1>4, <1>5, DividendGoesOn

LEMMA DividendRowStep ==
  ASSUME IInv, NEW r \in Requests, DividendRow(r), UNCHANGED governance
  PROVE  IInv' /\ Grows
<1> DEFINE t == task[r]
           rest == Tail(t.left)
           n == With(t, [left |-> rest])
           row == With(dividend[t.id], [paid |-> dividend[t.id].paid + Head(t.left).amount])
<1>1. /\ DividendTaskTyped(t) /\ dividend[t.id] # None /\ dividend[t.id] \in Dividend
      /\ t.id \in Dividends /\ t.left \in Seq(Payout) /\ t.left # <<>>
  BY DividendTyped DEF DividendRow, At
<1>2. Head(t.left) \in Payout /\ rest \in Seq(Payout)
  BY <1>1
<1>3. row \in Dividend
  <2>1. /\ dividend[t.id] \in [co : Companies, amount : Nat, paid : Nat]
        /\ dividend[t.id].paid + Head(t.left).amount \in Nat
    BY <1>1, <1>2 DEF Payout, Dividend
  <2>. QED  BY <2>1 DEF Dividend, With
<1>4. /\ dividend' = [dividend EXCEPT ![t.id] = row]
      /\ UNCHANGED <<wallet, active, company, round, investments, governance>>
      /\ GotoWith(r, "dividend:pay", n)
  BY DEF DividendRow, money
<1>5. DividendTaskTyped(n) /\ n.id = t.id
  <2> HIDE DEF rest
  <2> QED
    BY <1>1, <1>2 DEF With, DividendTaskTyped
<1> HIDE DEF row, n
<1>6. Rows' /\ Grows
  BY <1>1, <1>3, <1>4, DividendWritten DEF IInv
<1> QED
  BY <1>1, <1>4, <1>5, <1>6, DividendGoesOn

LEMMA DividendDoneStep ==
  ASSUME IInv, NEW r \in Requests, DividendDone(r), UNCHANGED governance
  PROVE  IInv' /\ Grows
<1>1. Rows' /\ Grows
  BY NothingRead DEF DividendDone, money
<1> QED
  BY <1>1, Returned DEF DividendDone

LEMMA FundingNextStep ==
  ASSUME IInv, FundingNext, UNCHANGED governance
  PROVE  IInv' /\ Grows
<1>1. PICK r \in Requests :
        \/ RoundRequest(r) \/ RoundCheck(r) \/ RoundInsert(r)
        \/ InvestSteps(r) \/ CloseSteps(r) \/ CancelSteps(r) \/ DividendSteps(r)
  BY DEF FundingNext
<1>2. CASE RoundRequest(r) \/ RoundCheck(r) \/ RoundInsert(r)
  BY <1>2, CreateRoundStep, InvestReadRoundStep, CloseReadRoundStep, CancelReadRoundStep,
     RoundCheckStep, RoundInsertStep DEF RoundRequest
<1>3. CASE InvestSteps(r)
  BY <1>3, InvestReadCompanyStep, InvestJudgeStep, InvestDebitStep, InvestUpdateRoundStep,
     InvestUpdateTotalStep, InvestUpdateCapitalStep, InvestUpsertStep, InvestCreditStep,
     InvestListStep, InvestInsertStep DEF InvestSteps
<1>4. CASE CloseSteps(r)
  BY <1>4, CloseReadCompanyStep, CloseUpdateRoundStep, CloseUpdateCapitalStep, CloseListStep
     DEF CloseSteps
<1>5. CASE CancelSteps(r)
  BY <1>5, CancelReadCompanyStep, CancelReadPotStep, CancelReadInvestmentsStep,
     CancelDebitStep, CancelRefundStep, CancelSharesStep, CancelUpdateTotalStep,
     CancelUpdateCapitalStep, CancelStatusStep DEF CancelSteps
<1>6. CASE DividendSteps(r)
  BY <1>6, DividendReadCompanyStep, DividendDebitStep, DividendInsertStep,
     DividendHoldersStep, DividendPayStep, DividendRowStep, DividendDoneStep
     DEF DividendSteps
<1> QED
  BY <1>1, <1>2, <1>3, <1>4, <1>5, <1>6

-----------------------------------------------------------------------------
(* Proposals *)

LEMMA CreateProposalStep ==
  ASSUME IInv, NEW r \in Requests, CreateProposal(r)
  PROVE  IInv' /\ Grows
<1>1. PICK u \in Users, c \in Companies, type \in ProposalTypes, asked \in Thresholds :
        /\ Exists(c) /\ Threshold(asked, type) <= 100
        /\ Receive(r, "CreateProposal", "propose:holder",
                   [user |-> u, co |-> c, type |-> type, threshold |-> Threshold(asked, type)])
  BY DEF CreateProposal
<1> DEFINE t == [user |-> u, co |-> c, type |-> type, threshold |-> Threshold(asked, type)]
<1>1a. Threshold(asked, type) \in 1 .. 100
  BY <1>1, GovernanceAssumption DEF Threshold
<1>2. UNCHANGED <<wallet, active, company, funding, governance>>
  BY DEF CreateProposal, money
<1>3. /\ t \in [user : Users, co : Companies, type : ProposalTypes, threshold : 1 .. 100] /\ t.co = c
      /\ firm'[c] # None
      /\ Receive(r, "CreateProposal", "propose:holder", t)
  BY <1>1, <1>1a, <1>2 DEF Exists, company, books
<1> HIDE DEF t
<1>4. ASSUME pc'[r] = "propose:holder", task'[r] = t
      PROVE  TaskOK(r)'
  BY <1>3, <1>4, ProposalTask DEF ProposalTaskOK, GovernanceStops, PayoutStops, PayLabels, Exists
<1>5. "propose:holder" \in Stops
  BY DEF Stops, GovernanceStops
<1> QED
  BY <1>2, <1>3, <1>4, <1>5, Started

ProposeLabels == {"propose:holder", "propose:unique", "propose:insert"}

LEMMA ProposeTyped ==
  ASSUME IInv, NEW r \in Requests, pc[r] \in ProposeLabels
  PROVE  /\ task[r] \in [user : Users, co : Companies, type : ProposalTypes, threshold : 1 .. 100]
         /\ Exists(task[r].co)
BY DEF IInv, TaskOK, ProposalTaskOK, ProposeLabels

LEMMA ProposeGoesOn ==
  ASSUME IInv, NEW r \in Requests, pc[r] \in ProposeLabels, NEW to \in ProposeLabels,
         Goto(r, to), Rows', Grows
  PROVE  IInv' /\ Grows
<1> DEFINE t == task[r]
<1>1. /\ t \in [user : Users, co : Companies, type : ProposalTypes, threshold : 1 .. 100]
      /\ Exists(t.co)
  BY ProposeTyped
<1>2. GotoWith(r, to, t)
  BY DEF Goto
<1>3. ASSUME pc'[r] = to, task'[r] = t
      PROVE  TaskOK(r)'
  BY <1>1, <1>3, ProposalTask
     DEF ProposalTaskOK, ProposeLabels, GovernanceStops, PayoutStops, PayLabels, Grows
<1>4. to \in Stops
  BY DEF Stops, GovernanceStops, ProposeLabels
<1> QED
  BY <1>2, <1>3, <1>4, Continued

LEMMA ProposeReadHolderStep ==
  ASSUME IInv, NEW r \in Requests, ProposeReadHolder(r)
  PROVE  IInv' /\ Grows
<1>1. pc[r] \in ProposeLabels /\ "propose:unique" \in ProposeLabels
  BY DEF ProposeReadHolder, At, ProposeLabels
<1>2. Return(r) \/ Goto(r, "propose:unique")
  BY DEF ProposeReadHolder
<1>3. Rows' /\ Grows
  BY NothingRead DEF ProposeReadHolder, money
<1> QED
  BY <1>1, <1>2, <1>3, Returned, ProposeGoesOn

LEMMA ProposeReadActiveStep ==
  ASSUME IInv, NEW r \in Requests, ProposeReadActive(r)
  PROVE  IInv' /\ Grows
<1>1. pc[r] \in ProposeLabels /\ "propose:insert" \in ProposeLabels
  BY DEF ProposeReadActive, At, ProposeLabels
<1>2. Return(r) \/ Goto(r, "propose:insert")
  BY DEF ProposeReadActive
<1>3. Rows' /\ Grows
  BY NothingRead DEF ProposeReadActive, money
<1> QED
  BY <1>1, <1>2, <1>3, Returned, ProposeGoesOn

LEMMA ProposeInsertStep ==
  ASSUME IInv, NEW r \in Requests, ProposeInsert(r)
  PROVE  IInv' /\ Grows
<1> DEFINE t == task[r]
           row == [co |-> t.co, by |-> t.user, type |-> t.type,
                   threshold |-> t.threshold, status |-> "active"]
<1>1. /\ t \in [user : Users, co : Companies, type : ProposalTypes, threshold : 1 .. 100]
      /\ Exists(t.co)
  BY ProposeTyped DEF ProposeInsert, At, ProposeLabels
<1>2. row \in Proposal /\ Exists(row.co) /\ row.status = "active"
  BY <1>1, GovernanceAssumption DEF Proposal
<1>3. \/ UNCHANGED proposal
      \/ \E p \in Proposals : proposal[p] = None /\ proposal' = [proposal EXCEPT ![p] = row]
  BY DEF ProposeInsert, NextId, IInv, Rows, RowsTyped
<1> HIDE DEF row
<1>4. UNCHANGED <<wallet, active, company, funding, vote, ended>>
  BY DEF ProposeInsert, money
<1>5. CASE UNCHANGED proposal
  <2>1. Rows' /\ Grows
    BY <1>4, <1>5, NothingRead DEF governance
  <2> QED
    BY <2>1, Returned DEF ProposeInsert
<1>6. CASE \E p \in Proposals : proposal[p] = None /\ proposal' = [proposal EXCEPT ![p] = row]
  <2>1. Rows' /\ Grows
    BY <1>2, <1>4, <1>6, ProposalWritten DEF IInv
  <2> QED
    BY <2>1, Returned DEF ProposeInsert
<1> QED
  BY <1>3, <1>5, <1>6

\* What an active or passed proposal that has just been read says.
LEMMA ProposalRead ==
  ASSUME IInv, NEW p \in Proposals, proposal[p] # None
  PROVE  proposal[p] \in Proposal /\ proposal[p].co \in Companies /\ Exists(proposal[p].co)
BY DEF IInv, Rows, RowsTyped, RowsRefer, Proposal

DecidesLater(p, co) == proposal'[p] # None /\ proposal'[p].co = co /\ firm'[co] # None

LEMMA StillDecides ==
  ASSUME NEW p \in Proposals, NEW co \in Companies, Decides(p, co), Grows
  PROVE  DecidesLater(p, co)
BY DEF Decides, DecidesLater, Grows, Exists

LEMMA NowDecides ==
  ASSUME IInv, NEW p \in Proposals, proposal[p] # None,
         UNCHANGED <<wallet, active, company, funding, governance>>
  PROVE  DecidesLater(p, proposal[p].co) /\ proposal[p].co \in Companies
BY ProposalRead DEF DecidesLater, Exists, company, books, governance

\* The status of a proposal is written.
LEMMA StatusWritten ==
  ASSUME IInv, NEW p \in Proposals, proposal[p] # None,
         NEW s \in {"active", "passed", "rejected", "cancelled", "executed"},
         s = "executed" => Dissolved(proposal[p].co),
         UpdateProposalStatus(p, s),
         UNCHANGED <<wallet, active, company, funding, vote, ended>>
  PROVE  Rows' /\ Grows
<1> DEFINE row == With(proposal[p], [status |-> s])
<1>1. proposal[p] \in Proposal /\ Exists(proposal[p].co)
  BY ProposalRead
<1>2. row \in Proposal /\ row.co = proposal[p].co /\ row.status = s
  BY <1>1 DEF With, Proposal
<1>3. proposal' = [proposal EXCEPT ![p] = row]
  BY DEF UpdateProposalStatus
<1> HIDE DEF row
<1>4. Exists(row.co) /\ (row.status = "executed" => Dissolved(row.co))
  BY <1>1, <1>2
<1> QED
  BY <1>2, <1>3, <1>4, ProposalWritten DEF IInv

LEMMA CancelProposalStep ==
  ASSUME IInv, NEW r \in Requests, CancelProposal(r)
  PROVE  IInv' /\ Grows
<1>1. PICK p \in Proposals :
        InStatus(p, "active") /\ Receive(r, "CancelProposal", "withdraw:status", [p |-> p])
  BY DEF CancelProposal
<1> DEFINE t == [p |-> p]
<1>2. UNCHANGED <<wallet, active, company, funding, governance>>
  BY DEF CancelProposal, money
<1>3. /\ t \in [p : Proposals] /\ t.p = p /\ proposal'[p] # None
      /\ Receive(r, "CancelProposal", "withdraw:status", t)
  BY <1>1, <1>2 DEF InStatus, governance
<1> HIDE DEF t
<1>4. ASSUME pc'[r] = "withdraw:status", task'[r] = t
      PROVE  TaskOK(r)'
  BY <1>3, <1>4, ProposalTask DEF ProposalTaskOK, GovernanceStops, PayoutStops, PayLabels
<1>5. "withdraw:status" \in Stops
  BY DEF Stops, GovernanceStops
<1> QED
  BY <1>2, <1>3, <1>4, <1>5, Started

LEMMA WithdrawStatusStep ==
  ASSUME IInv, NEW r \in Requests, WithdrawStatus(r)
  PROVE  IInv' /\ Grows
<1>1. task[r].p \in Proposals /\ proposal[task[r].p] # None
  BY DEF WithdrawStatus, At, IInv, TaskOK, ProposalTaskOK
<1>2. Rows' /\ Grows
  BY <1>1, StatusWritten DEF WithdrawStatus, money
<1> QED
  BY <1>2, Returned DEF WithdrawStatus

-----------------------------------------------------------------------------
(* Votes *)

\* The caller's copy of the proposal goes to closeProposal.
LEMMA ClosingTask ==
  ASSUME NEW r \in Requests, NEW p \in Proposals, NEW co \in Companies, DecidesLater(p, co),
         pc'[r] = "close:company", task'[r] = ToClose(p, co)
  PROVE  TaskOK(r)'
<1> DEFINE t == ToClose(p, co)
<1>1. t \in [p : Proposals, co : Companies] /\ t.p = p /\ t.co = co
  BY DEF ToClose
<1> HIDE DEF t
<1>2. task'[r] = t
  BY DEF t
<1> QED
  BY <1>1, <1>2, ProposalTask
     DEF ProposalTaskOK, GovernanceStops, PayoutStops, PayLabels, Decides, DecidesLater, Exists

LEMMA CastVoteStep ==
  ASSUME IInv, NEW r \in Requests, CastVote(r)
  PROVE  IInv' /\ Grows
<1>1. PICK u \in Users, p \in Proposals, choice \in {"yes", "no"} :
        /\ InStatus(p, "active")
        /\ IF p \in ended
             THEN Receive(r, "CastVote", "close:company", ToClose(p, proposal[p].co))
             ELSE Receive(r, "CastVote", "vote:holder",
                    [user |-> u, p |-> p, co |-> proposal[p].co, choice |-> choice])
  BY DEF CastVote
<1>2. UNCHANGED <<wallet, active, company, funding, governance>>
  BY DEF CastVote, money
<1>3. DecidesLater(p, proposal[p].co) /\ proposal[p].co \in Companies
  BY <1>1, <1>2, NowDecides DEF InStatus
<1>4. CASE p \in ended
  <2>1. ASSUME pc'[r] = "close:company", task'[r] = ToClose(p, proposal[p].co)
        PROVE  TaskOK(r)'
    BY <1>3, <2>1, ClosingTask
  <2>2. "close:company" \in Stops
    BY DEF Stops, GovernanceStops
  <2> QED
    BY <1>1, <1>2, <1>4, <2>1, <2>2, Started
<1>5. CASE p \notin ended
  <2> DEFINE t == [user |-> u, p |-> p, co |-> proposal[p].co, choice |-> choice]
  <2>1. /\ t \in [user : Users, p : Proposals, co : Companies, choice : {"yes", "no"}]
        /\ DecidesLater(t.p, t.co)
        /\ Receive(r, "CastVote", "vote:holder", t)
    BY <1>1, <1>3, <1>5
  <2> HIDE DEF t
  <2>2. ASSUME pc'[r] = "vote:holder", task'[r] = t
        PROVE  TaskOK(r)'
    BY <2>1, <2>2, ProposalTask
       DEF ProposalTaskOK, GovernanceStops, PayoutStops, PayLabels, Decides, DecidesLater, Exists
  <2>3. "vote:holder" \in Stops
    BY DEF Stops, GovernanceStops
  <2> QED
    BY <1>2, <2>1, <2>2, <2>3, Started
<1> QED
  BY <1>4, <1>5

LEMMA VoteReadHolderStep ==
  ASSUME IInv, NEW r \in Requests, VoteReadHolder(r)
  PROVE  IInv' /\ Grows
<1> DEFINE t == task[r]
           n == holding[<<t.co, t.user>>]
           new == With(t, [shares |-> n])
<1>1. /\ t \in [user : Users, p : Proposals, co : Companies, choice : {"yes", "no"}]
      /\ Decides(t.p, t.co)
  BY DEF VoteReadHolder, At, IInv, TaskOK, ProposalTaskOK
<1>2. n \in Nat
  BY <1>1 DEF IInv, Rows, RowsTyped
<1>3. Rows' /\ Grows
  BY NothingRead DEF VoteReadHolder, money
<1>4. DecidesLater(t.p, t.co)
  BY <1>1, <1>3, StillDecides
<1>5. Return(r) \/ GotoWith(r, "vote:insert", new)
  BY DEF VoteReadHolder
<1>6. /\ new \in [user : Users, p : Proposals, co : Companies, choice : {"yes", "no"},
                  shares : Nat]
      /\ new.p = t.p /\ new.co = t.co
  <2> HIDE DEF n
  <2> QED
    BY <1>1, <1>2 DEF With
<1> HIDE DEF new
<1>7. ASSUME pc'[r] = "vote:insert", task'[r] = new
      PROVE  TaskOK(r)'
  BY <1>4, <1>6, <1>7, ProposalTask
     DEF ProposalTaskOK, GovernanceStops, PayoutStops, PayLabels, Decides, DecidesLater, Exists
<1>8. "vote:insert" \in Stops
  BY DEF Stops, GovernanceStops
<1> QED
  BY <1>3, <1>5, <1>7, <1>8, Returned, Continued

LEMMA VoterTyped ==
  ASSUME IInv, NEW r \in Requests, pc[r] \in {"vote:insert", "auto:company"}
  PROVE  /\ task[r] \in [user : Users, p : Proposals, co : Companies, choice : {"yes", "no"},
                         shares : Nat]
         /\ Decides(task[r].p, task[r].co)
         /\ firm[task[r].co] \in Firm
BY DEF IInv, TaskOK, ProposalTaskOK, Decides, Rows, RowsTyped, Exists

LEMMA VoteInsertStep ==
  ASSUME IInv, NEW r \in Requests, VoteInsert(r)
  PROVE  IInv' /\ Grows
<1> DEFINE t == task[r]
<1>1. /\ t \in [user : Users, p : Proposals, co : Companies, choice : {"yes", "no"},
                shares : Nat]
      /\ Decides(t.p, t.co)
  BY VoterTyped DEF VoteInsert, At
<1>2. UNCHANGED <<wallet, active, company, funding, proposal>> /\ ended' = ended
  BY DEF VoteInsert, money
<1>3. vote \in [Proposals -> [Users -> Vote \cup {None}]] /\ ended \in SUBSET Proposals
  BY DEF IInv, Rows, RowsTyped
<1>4. CASE vote[t.p][t.user] = None
  <2>1. VoteRow(t) \in Vote
    BY <1>1 DEF VoteRow, Vote
  <2>2. vote' = [vote EXCEPT ![t.p] = [vote[t.p] EXCEPT ![t.user] = VoteRow(t)]]
    BY <1>4 DEF VoteInsert
  <2>3. vote' \in [Proposals -> [Users -> Vote \cup {None}]]
    BY <1>1, <1>3, <2>1, <2>2
  <2>4. Rows' /\ Grows
    BY <1>2, <1>3, <2>3, VotesWritten DEF IInv
  <2>5. DecidesLater(t.p, t.co)
    BY <1>1, <2>4, StillDecides
  <2>6. GotoWith(r, "auto:company", t)
    BY <1>4 DEF VoteInsert, Goto
  <2>7. ASSUME pc'[r] = "auto:company", task'[r] = t
        PROVE  TaskOK(r)'
    BY <1>1, <2>5, <2>7, ProposalTask
       DEF ProposalTaskOK, GovernanceStops, PayoutStops, PayLabels, Decides, DecidesLater, Exists
  <2>8. "auto:company" \in Stops
    BY DEF Stops, GovernanceStops
  <2> QED
    BY <2>4, <2>6, <2>7, <2>8, Continued
<1>5. CASE vote[t.p][t.user] # None
  <2>1. Return(r) /\ UNCHANGED vote
    BY <1>5 DEF VoteInsert
  <2>2. Rows' /\ Grows
    BY <1>2, <2>1, NothingRead DEF governance
  <2> QED
    BY <2>1, <2>2, Returned
<1> QED
  BY <1>4, <1>5

LEMMA AutoReadCompanyStep ==
  ASSUME IInv, NEW r \in Requests, AutoReadCompany(r)
  PROVE  IInv' /\ Grows
<1> DEFINE t == task[r]
           f == firm[t.co]
           n == With(t, [f |-> f])
<1>1. /\ t \in [user : Users, p : Proposals, co : Companies, choice : {"yes", "no"},
                shares : Nat]
      /\ Decides(t.p, t.co) /\ f \in Firm
  BY VoterTyped DEF AutoReadCompany, At
<1>2. Rows' /\ Grows
  BY NothingRead DEF AutoReadCompany, money
<1>3. DecidesLater(t.p, t.co)
  BY <1>1, <1>2, StillDecides
<1>4. GotoWith(r, "auto:tally", n)
  BY DEF AutoReadCompany
<1>5. /\ n \in [user : Users, p : Proposals, co : Companies, choice : {"yes", "no"},
                shares : Nat, f : Firm]
      /\ n.p = t.p /\ n.co = t.co
  <2> HIDE DEF f
  <2> QED
    BY <1>1 DEF With
<1> HIDE DEF n
<1>6. ASSUME pc'[r] = "auto:tally", task'[r] = n
      PROVE  TaskOK(r)'
  BY <1>3, <1>5, <1>6, ProposalTask
     DEF ProposalTaskOK, GovernanceStops, PayoutStops, PayLabels, Decides, DecidesLater, Exists
<1>7. "auto:tally" \in Stops
  BY DEF Stops, GovernanceStops
<1> QED
  BY <1>2, <1>4, <1>6, <1>7, Continued

LEMMA AutoTallyStep ==
  ASSUME IInv, NEW r \in Requests, AutoTally(r)
  PROVE  IInv' /\ Grows
<1> DEFINE t == task[r]
           n == ToClose(t.p, t.co)
<1>1. t.p \in Proposals /\ t.co \in Companies /\ Decides(t.p, t.co)
  BY DEF AutoTally, At, IInv, TaskOK, ProposalTaskOK
<1>2. Rows' /\ Grows
  BY NothingRead DEF AutoTally, money
<1>3. DecidesLater(t.p, t.co)
  BY <1>1, <1>2, StillDecides
<1>4. Return(r) \/ GotoWith(r, "close:company", n)
  BY DEF AutoTally
<1>5. ASSUME pc'[r] = "close:company", task'[r] = n
      PROVE  TaskOK(r)'
  BY <1>1, <1>3, <1>5, ClosingTask
<1>6. "close:company" \in Stops
  BY DEF Stops, GovernanceStops
<1> QED
  BY <1>2, <1>4, <1>5, <1>6, Returned, Continued

-----------------------------------------------------------------------------
(* Closing a proposal *)

LEMMA ReadProposalStep ==
  ASSUME IInv, NEW r \in Requests, ReadProposal(r)
  PROVE  IInv' /\ Grows
<1>1. PICK p \in ended :
        /\ InStatus(p, "active")
        /\ Receive(r, "ReadProposal", "close:company", [p |-> p, co |-> proposal[p].co])
  BY DEF ReadProposal
<1>2. UNCHANGED <<wallet, active, company, funding, governance>>
  BY DEF ReadProposal, money
<1>3. p \in Proposals
  BY DEF IInv, Rows, RowsTyped
<1>4. DecidesLater(p, proposal[p].co) /\ proposal[p].co \in Companies
  BY <1>1, <1>2, <1>3, NowDecides DEF InStatus
<1>5. Receive(r, "ReadProposal", "close:company", ToClose(p, proposal[p].co))
  BY <1>1 DEF ToClose
<1>6. ASSUME pc'[r] = "close:company", task'[r] = ToClose(p, proposal[p].co)
      PROVE  TaskOK(r)'
  BY <1>3, <1>4, <1>6, ClosingTask
<1>7. "close:company" \in Stops
  BY DEF Stops, GovernanceStops
<1> QED
  BY <1>2, <1>5, <1>6, <1>7, Started

LEMMA CloseReadFirmStep ==
  ASSUME IInv, NEW r \in Requests, CloseReadFirm(r)
  PROVE  IInv' /\ Grows
<1> DEFINE t == task[r]
           f == firm[t.co]
           n == With(t, [f |-> f])
<1>1. t \in [p : Proposals, co : Companies] /\ Decides(t.p, t.co) /\ f \in Firm
  BY DEF CloseReadFirm, At, IInv, TaskOK, ProposalTaskOK, Decides, Rows, RowsTyped, Exists
<1>2. Rows' /\ Grows
  BY NothingRead DEF CloseReadFirm, money
<1>3. DecidesLater(t.p, t.co)
  BY <1>1, <1>2, StillDecides
<1>4. GotoWith(r, "close:tally", n)
  BY DEF CloseReadFirm
<1>5. n \in [p : Proposals, co : Companies, f : Firm] /\ n.p = t.p /\ n.co = t.co
  <2> HIDE DEF f
  <2> QED
    BY <1>1 DEF With
<1> HIDE DEF n
<1>6. ASSUME pc'[r] = "close:tally", task'[r] = n
      PROVE  TaskOK(r)'
  BY <1>3, <1>5, <1>6, ProposalTask
     DEF ProposalTaskOK, GovernanceStops, PayoutStops, PayLabels, Decides, DecidesLater, Exists
<1>7. "close:tally" \in Stops
  BY DEF Stops, GovernanceStops
<1> QED
  BY <1>2, <1>4, <1>6, <1>7, Continued

LEMMA CloseTallyStep ==
  ASSUME IInv, NEW r \in Requests, CloseTally(r)
  PROVE  IInv' /\ Grows
<1> DEFINE t == task[r]
           final == IF Projected(t.p, t.f.total) = "passed" THEN "passed" ELSE "rejected"
           n == With(t, [final |-> final])
<1>1. t \in [p : Proposals, co : Companies, f : Firm] /\ Decides(t.p, t.co)
  BY DEF CloseTally, At, IInv, TaskOK, ProposalTaskOK
<1>2. Rows' /\ Grows
  BY NothingRead DEF CloseTally, money
<1>3. DecidesLater(t.p, t.co)
  BY <1>1, <1>2, StillDecides
<1>4. GotoWith(r, "close:status", n)
  BY DEF CloseTally
<1>5. final \in {"passed", "rejected"}
  OBVIOUS
<1>6. /\ n \in [p : Proposals, co : Companies, f : Firm, final : {"passed", "rejected"}]
      /\ n.p = t.p /\ n.co = t.co
  <2> HIDE DEF final
  <2> QED
    BY <1>1, <1>5 DEF With
<1> HIDE DEF n
<1>7. ASSUME pc'[r] = "close:status", task'[r] = n
      PROVE  TaskOK(r)'
  BY <1>3, <1>6, <1>7, ProposalTask
     DEF ProposalTaskOK, GovernanceStops, PayoutStops, PayLabels, Decides, DecidesLater, Exists
<1>8. "close:status" \in Stops
  BY DEF Stops, GovernanceStops
<1> QED
  BY <1>2, <1>4, <1>7, <1>8, Continued

\* The caller's copies go to executeLiquidationCore.
LEMMA ToLiquidateTask ==
  ASSUME NEW r \in Requests, NEW t, t.p \in Proposals, t.co \in Companies, t.f \in Firm,
         DecidesLater(t.p, t.co), pc'[r] = "liquidate:pot", task'[r] = ToLiquidate(t)
  PROVE  TaskOK(r)'
<1> DEFINE n == ToLiquidate(t)
<1>1. n \in [p : Proposals, co : Companies, f : Firm] /\ n.p = t.p /\ n.co = t.co
  BY DEF ToLiquidate
<1>2. task'[r] = n
  OBVIOUS
<1> HIDE DEF n
<1> QED
  BY <1>1, <1>2, LiquidationTask
     DEF LiquidationTaskOK, PayoutStops, PayLabels, Decides, DecidesLater, Exists

LEMMA CloseStatusStep ==
  ASSUME IInv, NEW r \in Requests, CloseStatus(r)
  PROVE  IInv' /\ Grows
<1> DEFINE t == task[r]
<1>1. /\ t.p \in Proposals /\ t.co \in Companies /\ t.f \in Firm
      /\ t.final \in {"passed", "rejected"} /\ Decides(t.p, t.co)
  BY DEF CloseStatus, At, IInv, TaskOK, ProposalTaskOK
<1>2. Rows' /\ Grows
  BY <1>1, StatusWritten DEF CloseStatus, money, Decides
<1>3. DecidesLater(t.p, t.co)
  BY <1>1, <1>2, StillDecides
<1>4. Return(r) \/ GotoWith(r, "liquidate:pot", ToLiquidate(t))
  BY DEF CloseStatus
<1>5. ASSUME pc'[r] = "liquidate:pot", task'[r] = ToLiquidate(t)
      PROVE  TaskOK(r)'
  BY <1>1, <1>3, <1>5, ToLiquidateTask
<1>6. "liquidate:pot" \in Stops
  BY DEF Stops, GovernanceStops
<1> QED
  BY <1>2, <1>4, <1>5, <1>6, Returned, Continued

-----------------------------------------------------------------------------
(* Liquidation *)

LEMMA ExecuteLiquidationStep ==
  ASSUME IInv, NEW r \in Requests, ExecuteLiquidation(r)
  PROVE  IInv' /\ Grows
<1>1. PICK u \in Users, p \in Proposals :
        /\ InStatus(p, "passed")
        /\ Receive(r, "ExecuteLiquidation", "execute:company",
                   [user |-> u, p |-> p, co |-> proposal[p].co])
  BY DEF ExecuteLiquidation
<1> DEFINE t == [user |-> u, p |-> p, co |-> proposal[p].co]
<1>2. UNCHANGED <<wallet, active, company, funding, governance>>
  BY DEF ExecuteLiquidation, money
<1>3. DecidesLater(p, proposal[p].co) /\ proposal[p].co \in Companies
  BY <1>1, <1>2, NowDecides DEF InStatus
<1>4. /\ t \in [user : Users, p : Proposals, co : Companies]
      /\ DecidesLater(t.p, t.co)
      /\ Receive(r, "ExecuteLiquidation", "execute:company", t)
  BY <1>1, <1>3
<1> HIDE DEF t
<1>5. ASSUME pc'[r] = "execute:company", task'[r] = t
      PROVE  TaskOK(r)'
  BY <1>4, <1>5, LiquidationTask
     DEF LiquidationTaskOK, PayoutStops, PayLabels, Decides, DecidesLater, Exists
<1>6. "execute:company" \in Stops
  BY DEF Stops, GovernanceStops
<1> QED
  BY <1>2, <1>4, <1>5, <1>6, Started

LEMMA ExecuteReadCompanyStep ==
  ASSUME IInv, NEW r \in Requests, ExecuteReadCompany(r)
  PROVE  IInv' /\ Grows
<1> DEFINE t == task[r]
           f == firm[t.co]
           n == With(t, [f |-> f])
<1>1. t \in [user : Users, p : Proposals, co : Companies] /\ Decides(t.p, t.co) /\ f \in Firm
  BY DEF ExecuteReadCompany, At, IInv, TaskOK, LiquidationTaskOK, Decides, Rows, RowsTyped,
         Exists
<1>2. Rows' /\ Grows
  BY NothingRead DEF ExecuteReadCompany, money
<1>3. DecidesLater(t.p, t.co)
  BY <1>1, <1>2, StillDecides
<1>4. Return(r) \/ GotoWith(r, "execute:holder", n)
  BY DEF ExecuteReadCompany
<1>5. /\ n \in [user : Users, p : Proposals, co : Companies, f : Firm]
      /\ n.p = t.p /\ n.co = t.co
  <2> HIDE DEF f
  <2> QED
    BY <1>1 DEF With
<1> HIDE DEF n
<1>6. ASSUME pc'[r] = "execute:holder", task'[r] = n
      PROVE  TaskOK(r)'
  BY <1>3, <1>5, <1>6, LiquidationTask
     DEF LiquidationTaskOK, PayoutStops, PayLabels, Decides, DecidesLater, Exists
<1>7. "execute:holder" \in Stops
  BY DEF Stops, GovernanceStops
<1> QED
  BY <1>2, <1>4, <1>6, <1>7, Returned, Continued

LEMMA ExecuteReadHolderStep ==
  ASSUME IInv, NEW r \in Requests, ExecuteReadHolder(r)
  PROVE  IInv' /\ Grows
<1> DEFINE t == task[r]
<1>1. t.p \in Proposals /\ t.co \in Companies /\ t.f \in Firm /\ Decides(t.p, t.co)
  BY DEF ExecuteReadHolder, At, IInv, TaskOK, LiquidationTaskOK
<1>2. Rows' /\ Grows
  BY NothingRead DEF ExecuteReadHolder, money
<1>3. DecidesLater(t.p, t.co)
  BY <1>1, <1>2, StillDecides
<1>4. Return(r) \/ GotoWith(r, "liquidate:pot", ToLiquidate(t))
  BY DEF ExecuteReadHolder
<1>5. ASSUME pc'[r] = "liquidate:pot", task'[r] = ToLiquidate(t)
      PROVE  TaskOK(r)'
  BY <1>1, <1>3, <1>5, ToLiquidateTask
<1>6. "liquidate:pot" \in Stops
  BY DEF Stops, GovernanceStops
<1> QED
  BY <1>2, <1>4, <1>5, <1>6, Returned, Continued

LEMMA LiquidateReadPotStep ==
  ASSUME IInv, NEW r \in Requests, LiquidateReadPot(r)
  PROVE  IInv' /\ Grows
<1> DEFINE t == task[r]
           b == pot[t.co]
           n == With(t, [balance |-> b])
<1>1. t \in [p : Proposals, co : Companies, f : Firm] /\ Decides(t.p, t.co)
  BY DEF LiquidateReadPot, At, IInv, TaskOK, LiquidationTaskOK
<1>2. Rows' /\ Grows
  BY NothingRead DEF LiquidateReadPot, money
<1>3. DecidesLater(t.p, t.co)
  BY <1>1, <1>2, StillDecides
<1>4. CASE HasPot(t.co)
  <2>1. b \in Nat
    BY <1>1, <1>4 DEF IInv, Rows, RowsTyped, NoOverdraft, HasPot
  <2>2. GotoWith(r, "liquidate:holders", n)
    BY <1>4 DEF LiquidateReadPot
  <2>3. /\ n \in [p : Proposals, co : Companies, f : Firm, balance : Nat]
        /\ n.p = t.p /\ n.co = t.co
    <3> HIDE DEF b
    <3> QED
      BY <1>1, <2>1 DEF With
  <2> HIDE DEF n
  <2>4. ASSUME pc'[r] = "liquidate:holders", task'[r] = n
        PROVE  TaskOK(r)'
    BY <1>3, <2>3, <2>4, LiquidationTask
       DEF LiquidationTaskOK, PayoutStops, PayLabels, Decides, DecidesLater, Exists
  <2>5. "liquidate:holders" \in Stops
    BY DEF Stops, GovernanceStops
  <2> QED
    BY <1>2, <2>2, <2>4, <2>5, Continued
<1>5. CASE ~HasPot(t.co)
  BY <1>2, <1>5, Returned DEF LiquidateReadPot
<1> QED
  BY <1>4, <1>5

\* What is left of a balance after the tax is not negative.
LEMMA DistributableIsNat ==
  ASSUME NEW b \in Nat
  PROVE  Distributable(b) \in Nat
<1>1. TaxPercent \in Nat /\ 100 - TaxPercent \in Nat
  BY GovernanceAssumption
<1>2. b * TaxPercent \in Nat /\ b * (100 - TaxPercent) \in Nat
  BY <1>1, ProductIsNat
<1>3. b * (100 - TaxPercent) = b * 100 - b * TaxPercent
  BY <1>1
<1>4. \A m \in Nat : m <= b * 100 => m \div 100 \in Nat /\ m \div 100 <= b
  OBVIOUS
<1>5. (b * TaxPercent) \div 100 \in Nat /\ (b * TaxPercent) \div 100 <= b
  BY <1>2, <1>3, <1>4
<1> QED
  BY <1>5 DEF Distributable

\* A company whose holders have no shares at all has no holders.
LEMMA HeldByHolders ==
  ASSUME IInv, NEW c \in Companies
  PROVE  Held(c) \in Nat /\ (Held(c) > 0 \/ Holders(c) = {})
<1> DEFINE h == [u \in Users |-> holding[<<c, u>>]]
<1>1. IsFiniteSet(Users) /\ \A u \in Users : h[u] \in Nat
  BY ServerAssumption DEF IInv, Rows, RowsTyped
<1>2. SumOf(h, Users) \in Nat
  <2> HIDE DEF h
  <2> QED
    BY <1>1, SumIsNat
<1>3. ASSUME NEW u \in Users, h[u] > 0
      PROVE  SumOf(h, Users) > 0
  <2> HIDE DEF h
  <2>1. SumOf(h, Users) = h[u] + SumOf(h, Users \ {u})
    BY <1>1, SumTakeOut
  <2>2. IsFiniteSet(Users \ {u})
    BY <1>1, FS_RemoveElement
  <2>3. SumOf(h, Users \ {u}) \in Nat
    BY <1>1, <2>2, SumIsNat
  <2> QED
    BY <1>1, <1>3, <2>1, <2>3
<1>4. Holders(c) # {} => SumOf(h, Users) > 0
  <2>1. \A u \in Users : h[u] = holding[<<c, u>>]
    OBVIOUS
  <2> HIDE DEF h
  <2> QED
    BY <1>3, <2>1 DEF Holders
<1> QED
  BY <1>2, <1>4 DEF Held

PayTask(t) ==
  t \in [p : Proposals, co : Companies, f : Firm, balance : Nat, left : Seq(Payout)]

LEMMA PayTyped ==
  ASSUME IInv, NEW r \in Requests, pc[r] \in PayLabels
  PROVE  LET t == task[r]
         IN  /\ PayTask(t) /\ Decides(t.p, t.co)
             /\ t.p \in Proposals /\ t.co \in Companies /\ t.f \in Firm
             /\ t.balance \in Nat /\ t.left \in Seq(Payout)
             /\ pc[r] \in {"liquidate:executed", "liquidate:disclose"} => Dissolved(t.co)
BY DEF IInv, TaskOK, LiquidationTaskOK, PayTask

\* The handler goes on to pay, and from there only once the company is dissolved.
LEMMA PayGoesOn ==
  ASSUME IInv, NEW r \in Requests, NEW to \in PayLabels, NEW t, GotoWith(r, to, t),
         Rows', Grows, PayTask(t), Decides(t.p, t.co),
         to \in {"liquidate:executed", "liquidate:disclose"} => firm'[t.co].status = "dissolved"
  PROVE  IInv' /\ Grows
<1>1. t.p \in Proposals /\ t.co \in Companies /\ DecidesLater(t.p, t.co)
  BY StillDecides DEF PayTask
<1>2. ASSUME pc'[r] = to, task'[r] = t
      PROVE  TaskOK(r)'
  BY <1>1, <1>2, LiquidationTask
     DEF LiquidationTaskOK, PayoutStops, PayLabels, Decides, DecidesLater, Exists, PayTask,
         Dissolved
<1>3. to \in Stops
  BY DEF Stops, GovernanceStops, PayLabels
<1> QED
  BY <1>2, <1>3, Continued

LEMMA LiquidateReadHoldersStep ==
  ASSUME IInv, NEW r \in Requests, LiquidateReadHolders(r)
  PROVE  IInv' /\ Grows
<1> DEFINE t == task[r]
           all == IF t.f.total > 0 THEN t.f.total ELSE Held(t.co)
           to == IF t.balance > 0 THEN "liquidate:debit" ELSE "liquidate:pay"
<1>1. t \in [p : Proposals, co : Companies, f : Firm, balance : Nat] /\ Decides(t.p, t.co)
  BY DEF LiquidateReadHolders, At, IInv, TaskOK, LiquidationTaskOK
<1>2. Rows' /\ Grows
  BY NothingRead DEF LiquidateReadHolders, money
<1>3. PICK left \in Payouts(t.co, Distributable(t.balance), all) :
        GotoWith(r, to, With(t, [left |-> left]))
  BY DEF LiquidateReadHolders
<1> DEFINE n == With(t, [left |-> left])
<1>4. all \in Nat /\ (all > 0 \/ Holders(t.co) = {})
  BY <1>1, HeldByHolders DEF Firm
<1>5. Distributable(t.balance) \in Nat
  BY <1>1, DistributableIsNat
<1> HIDE DEF all
<1>6. left \in Seq(Payout)
  BY <1>1, <1>3, <1>4, <1>5, PayoutsTyped
<1>7. PayTask(n) /\ n.p = t.p /\ n.co = t.co
  BY <1>1, <1>6 DEF With, PayTask
<1>8. GotoWith(r, to, n)
  BY <1>3
<1>9. to \in PayLabels /\ to \notin {"liquidate:executed", "liquidate:disclose"}
  BY DEF PayLabels
<1> HIDE DEF n, to
<1> QED
  BY <1>1, <1>2, <1>7, <1>8, <1>9, PayGoesOn

LEMMA LiquidateDebitStep ==
  ASSUME IInv, NEW r \in Requests, LiquidateDebit(r)
  PROVE  IInv' /\ Grows
<1> DEFINE t == task[r]
<1>1. pc[r] \in PayLabels /\ "liquidate:pay" \in PayLabels
  BY DEF LiquidateDebit, At, PayLabels
<1>2. PayTask(t) /\ Decides(t.p, t.co) /\ t.co \in Companies /\ t.balance \in Nat
  BY <1>1, PayTyped
<1>3. CASE CanDebitPot(t.co, t.balance)
  <2>1. GotoWith(r, "liquidate:pay", t) /\ DebitPot(t.co, t.balance, "liquidation_tax", t.p)
    BY <1>3 DEF LiquidateDebit, Goto
  <2>2. Rows' /\ Grows
    BY <1>2, <1>3, <2>1, PotPaid DEF LiquidateDebit
  <2> QED
    BY <1>1, <1>2, <2>1, <2>2, PayGoesOn
<1>4. CASE ~CanDebitPot(t.co, t.balance)
  <2>1. Return(r) /\ Rows' /\ Grows
    BY <1>4, NothingRead DEF LiquidateDebit, company, books
  <2> QED
    BY <2>1, Returned
<1> QED
  BY <1>3, <1>4

LEMMA LiquidatePayStep ==
  ASSUME IInv, NEW r \in Requests, LiquidatePay(r)
  PROVE  IInv' /\ Grows
<1> DEFINE t == task[r]
           w == <<Head(t.left).user, t.f.room>>
           m == Head(t.left).amount
           rest == Tail(t.left)
           n == With(t, [left |-> rest])
<1>1. pc[r] \in PayLabels /\ "liquidate:pay" \in PayLabels /\ t.left # <<>>
  BY DEF LiquidatePay, At, PayLabels
<1>2. PayTask(t) /\ Decides(t.p, t.co) /\ t.f \in Firm /\ t.left \in Seq(Payout)
  BY <1>1, PayTyped
<1>3. Head(t.left) \in Payout /\ rest \in Seq(Payout)
  BY <1>1, <1>2
<1>4. w \in Wallets /\ m \in Nat
  BY <1>2, <1>3 DEF Payout, Firm, Wallets
<1>5. GotoWith(r, "liquidate:pay", n) /\ Credit(w, m, "liquidation_payout", t.p)
  BY DEF LiquidatePay
<1>6. Rows' /\ Grows
  BY <1>4, <1>5, Paid DEF LiquidatePay
<1>7. PayTask(n) /\ n.p = t.p /\ n.co = t.co
  <2> HIDE DEF rest
  <2> QED
    BY <1>2, <1>3 DEF With, PayTask
<1> HIDE DEF n
<1> QED
  BY <1>1, <1>2, <1>5, <1>6, <1>7, PayGoesOn

LEMMA LiquidateDissolveStep ==
  ASSUME IInv, NEW r \in Requests, LiquidateDissolve(r)
  PROVE  IInv' /\ Grows
<1> DEFINE t == task[r]
<1>1. pc[r] \in PayLabels /\ "liquidate:executed" \in PayLabels
  BY DEF LiquidateDissolve, At, PayLabels
<1>2. PayTask(t) /\ Decides(t.p, t.co) /\ t.co \in Companies /\ Exists(t.co)
  BY <1>1, PayTyped DEF Decides
<1>3. /\ firm' = [firm EXCEPT ![t.co] = With(@, [status |-> "dissolved"])]
      /\ UNCHANGED <<wallet, active, pot, holding, papers, traded, funding, governance>>
      /\ GotoWith(r, "liquidate:executed", t)
  BY DEF LiquidateDissolve, money, Goto
<1>4. Rows' /\ Grows
  BY <1>2, <1>3, FirmUpdated
<1>5. firm'[t.co].status = "dissolved"
  BY <1>2, <1>3 DEF IInv, Rows, RowsTyped, With
<1> QED
  BY <1>1, <1>2, <1>3, <1>4, <1>5, PayGoesOn

LEMMA LiquidateExecutedStep ==
  ASSUME IInv, NEW r \in Requests, LiquidateExecuted(r)
  PROVE  IInv' /\ Grows
<1> DEFINE t == task[r]
<1>1. pc[r] \in PayLabels /\ "liquidate:disclose" \in PayLabels
  BY DEF LiquidateExecuted, At, PayLabels
<1>2. /\ PayTask(t) /\ Decides(t.p, t.co) /\ t.p \in Proposals /\ t.co \in Companies
      /\ Dissolved(t.co) /\ Exists(t.co)
  BY <1>1, PayTyped DEF LiquidateExecuted, At, Decides
<1>3. Rows' /\ Grows
  BY <1>2, StatusWritten DEF LiquidateExecuted, money, Decides
<1>4. firm'[t.co].status = "dissolved" /\ GotoWith(r, "liquidate:disclose", t)
  BY <1>2 DEF LiquidateExecuted, company, books, Dissolved, Goto
<1> QED
  BY <1>1, <1>2, <1>3, <1>4, PayGoesOn

LEMMA LiquidateDiscloseStep ==
  ASSUME IInv, NEW r \in Requests, LiquidateDisclose(r)
  PROVE  IInv' /\ Grows
<1>1. pc[r] \in PayLabels
  BY DEF LiquidateDisclose, At, PayLabels
<1>2. task[r].co \in Companies
  BY <1>1, PayTyped
<1>3. Rows' /\ Grows
  BY <1>2, DisclosureAdded DEF LiquidateDisclose, money
<1> QED
  BY <1>3, Returned DEF LiquidateDisclose

LEMMA VotingEndsStep ==
  ASSUME IInv, VotingEnds
  PROVE  IInv' /\ Grows
<1>1. ended' \in SUBSET Proposals /\ vote' \in [Proposals -> [Users -> Vote \cup {None}]]
  BY DEF VotingEnds, IInv, Rows, RowsTyped
<1>2. Rows' /\ Grows
  BY <1>1, VotesWritten DEF VotingEnds, server, money, IInv
<1>3. ControlOK' /\ UNCHANGED handlers
  BY DEF VotingEnds, server, control, IInv, ControlOK
<1> QED
  BY <1>2, <1>3, Unhandled

LEMMA GovernanceNextStep ==
  ASSUME IInv, GovernanceNext
  PROVE  IInv' /\ Grows
<1>1. ASSUME NEW r \in Requests,
             \/ CreateProposal(r) \/ ProposeReadHolder(r) \/ ProposeReadActive(r)
             \/ ProposeInsert(r) \/ WithdrawStatus(r) \/ ShareholderRequest(r)
      PROVE  IInv' /\ Grows
  BY <1>1, CreateProposalStep, ProposeReadHolderStep, ProposeReadActiveStep,
     ProposeInsertStep, WithdrawStatusStep, CastVoteStep, ExecuteLiquidationStep,
     CancelProposalStep DEF ShareholderRequest
<1>2. ASSUME NEW r \in Requests,
             \/ VoteSteps(r) \/ ReadProposal(r) \/ CloseReadFirm(r) \/ CloseTally(r)
             \/ CloseStatus(r)
      PROVE  IInv' /\ Grows
  BY <1>2, VoteReadHolderStep, VoteInsertStep, AutoReadCompanyStep, AutoTallyStep,
     ReadProposalStep, CloseReadFirmStep, CloseTallyStep, CloseStatusStep DEF VoteSteps
<1>3. ASSUME NEW r \in Requests, LiquidateSteps(r)
      PROVE  IInv' /\ Grows
  BY <1>3, ExecuteReadCompanyStep, ExecuteReadHolderStep, LiquidateReadPotStep,
     LiquidateReadHoldersStep, LiquidateDebitStep, LiquidatePayStep, LiquidateDissolveStep,
     LiquidateExecutedStep, LiquidateDiscloseStep DEF LiquidateSteps
<1> QED
  BY <1>1, <1>2, <1>3, VotingEndsStep DEF GovernanceNext

-----------------------------------------------------------------------------
(* Starts and restarts, and the theorems *)

LEMMA RestartStep ==
  ASSUME IInv, Restart
  PROVE  IInv' /\ Grows
<1>1. /\ pc' = [r \in Requests |-> "idle"] /\ task' = [r \in Requests |-> None]
      /\ UNCHANGED <<wallet, workload, served, overlapped, active, company, funding, governance>>
      /\ restarts < MaxRestarts /\ restarts' = restarts + 1
  BY DEF Restart, ServerRestart, money
<1>2. Rows' /\ Grows
  BY <1>1, NothingRead
<1>3. ControlOK'
  BY <1>1, ServerAssumption DEF IInv, ControlOK
<1>4. HandlersOK'
  BY <1>1 DEF HandlersOK, Stops
<1>5. \A r \in Requests : TaskOK(r)'
  BY <1>1, NothingToKnow
<1> QED
  BY <1>2, <1>3, <1>4, <1>5 DEF IInv

LEMMA Stutters ==
  ASSUME IInv, UNCHANGED vars
  PROVE  IInv' /\ Grows
<1>1. Rows' /\ Grows
  BY NothingRead DEF vars, server, money
<1>2. ControlOK' /\ UNCHANGED handlers
  BY DEF vars, server, control, IInv, ControlOK
<1> QED
  BY <1>1, <1>2, Unhandled

LEMMA InvariantAtStart ==
  ASSUME Init
  PROVE  IInv
<1> USE DEF Init
<1>0. overlapped \in BOOLEAN /\ traded \in BOOLEAN
  BY Zenon DEF ServerInit, CompanyInit
<1>1. ControlOK
  <2>1. /\ workload \in Workloads /\ served \in 0 .. MaxRequests[workload]
        /\ restarts \in 0 .. MaxRestarts
    BY ServerAssumption DEF ServerInit
  <2> QED
    BY <1>0, <2>1 DEF ControlOK
<1>2. HandlersOK
  BY DEF ServerInit, HandlersOK, Stops
<1>3. RowsTyped
  <2>1. /\ wallet \in [Wallets -> Int] /\ active \in [Users -> Classrooms]
        /\ firm \in [Companies -> Firm \cup {None}]
        /\ pot \in [Companies -> Int \cup {None}]
        /\ holding \in [Companies \X Users -> Nat]
        /\ disclosure \in [Disclosures -> Disclosure \cup {None}]
        /\ kpi \in [Companies -> Nat]
        /\ adminCredit \in [Keys -> CreditRow \cup {None}]
    BY ServerAssumption, CompanyAssumption DEF ServerInit, CompanyInit, Wallets
  <2>2. /\ round \in [Rounds -> RoundRow \cup {None}]
        /\ investments \in Seq(Investment)
        /\ dividend \in [Dividends -> Dividend \cup {None}]
    BY FundingAssumption DEF FundingInit
  <2>3. /\ proposal \in [Proposals -> Proposal \cup {None}]
        /\ vote \in [Proposals -> [Users -> Vote \cup {None}]]
        /\ ended \in SUBSET Proposals
    BY GovernanceAssumption DEF GovernanceInit
  <2> QED
    BY <1>0, <2>1, <2>2, <2>3 DEF RowsTyped
<1>4. RowsRefer
  BY FundingAssumption, GovernanceAssumption
     DEF CompanyInit, FundingInit, GovernanceInit, RowsRefer, Exists
<1>5. NoOverdraft
  BY ServerAssumption, CompanyAssumption
     DEF ServerInit, CompanyInit, NoOverdraft, Wallets, HasPot
<1>6. ExecutedIsDissolved
  BY GovernanceAssumption
     DEF CompanyInit, GovernanceInit, ExecutedIsDissolved, InStatus, Dissolved
<1>7. \A r \in Requests : TaskOK(r)
  BY DEF ServerInit, TaskOK, CompanyTaskOK, FundingTaskOK, DividendTaskOK, ProposalTaskOK,
         LiquidationTaskOK, InvestLabels, EarlyLabels, CancelLabels, PayLabels
<1> QED
  BY <1>1, <1>2, <1>3, <1>4, <1>5, <1>6, <1>7 DEF IInv, Rows

\* Every step keeps the invariant, and undoes nothing.
LEMMA InvariantKept ==
  ASSUME IInv, [Next]_vars
  PROVE  IInv' /\ Grows
<1>1. CASE CompanyNext /\ UNCHANGED <<funding, governance>>
  BY <1>1, CompanyNextStep
<1>2. CASE FundingNext /\ UNCHANGED governance
  BY <1>2, FundingNextStep
<1>3. CASE GovernanceNext
  BY <1>3, GovernanceNextStep
<1>4. CASE Restart
  BY <1>4, RestartStep
<1>5. CASE Quiet \/ UNCHANGED vars
  BY <1>5, Stutters DEF Quiet
<1> QED
  BY <1>1, <1>2, <1>3, <1>4, <1>5 DEF Next

\* Every copy a handler works with is of a row that is still there.
THEOREM MarketInvariant == Spec => []IInv
<1>1. Init => IInv
  BY InvariantAtStart
<1>2. IInv /\ [Next]_vars => IInv'
  BY InvariantKept
<1> QED
  BY <1>1, <1>2, PTL DEF Spec

\* The tables of companies, rounds, votes and papers keep their columns, no share
\* count or aggregate becomes negative, and every handler is at a step of its use
\* case, whatever requests interleave and whenever the server restarts.
THEOREM MarketIsTyped == Spec => []TypeOK
<1>1. IInv => TypeOK
  BY InvariantIsTyped
<1> QED
  BY <1>1, MarketInvariant, PTL

\* No wallet and no company wallet is overdrawn: each debit compares with the
\* balance inside its own transaction (persistence/wallet_repo.go Debit,
\* company_repo.go DebitCompanyWallet), so stale reads before it do no harm.
THEOREM NobodyOverdraws == Spec => []NoOverdraft
<1>1. IInv => NoOverdraft
  BY DEF IInv, Rows
<1> QED
  BY <1>1, MarketInvariant, PTL

\* A liquidation that is on file as executed has dissolved its company, also when
\* it was cut short by a restart and retried (executeLiquidationCore writes the
\* company's status before the proposal's).
THEOREM ExecutedMeansDissolved == Spec => []ExecutedIsDissolved
<1>1. IInv => ExecutedIsDissolved
  BY DEF IInv, Rows
<1> QED
  BY <1>1, MarketInvariant, PTL

-----------------------------------------------------------------------------
(* One handler at a time *)

AtMostOne ==
  ~overlapped => \A r, q \in Requests : ~Idle(r) /\ ~Idle(q) => r = q

Only(r) == \A q \in Requests : q # r => pc'[q] = pc[q] /\ task'[q] = task[q]

\* The handler at r takes up a request, or takes a step of one.
Begins(r) ==
  /\ Idle(r) /\ Only(r)
  /\ overlapped' = (overlapped \/ ~AllIdle)
  /\ restarts' = restarts

Continues(r) == ~Idle(r) /\ Only(r) /\ UNCHANGED <<overlapped, restarts>>

\* No handler moves, and either none is busy or nothing counts as overlapping.
Aside ==
  /\ UNCHANGED <<handlers, restarts>>
  /\ \/ overlapped' = overlapped
     \/ overlapped' = (overlapped \/ ~AllIdle)

LEMMA ReceiveBegins ==
  ASSUME IInv, NEW r \in Requests, NEW kind, NEW to, NEW t, Receive(r, kind, to, t)
  PROVE  Begins(r)
BY DEF IInv, HandlersOK, Receive, Arrives, Begins, Only

LEMMA GotoContinues ==
  ASSUME IInv, NEW r \in Requests, NEW to, NEW t, GotoWith(r, to, t), ~Idle(r)
  PROVE  Continues(r)
BY DEF IInv, HandlersOK, GotoWith, control, Continues, Only

LEMMA StepsContinue ==
  ASSUME IInv, NEW r \in Requests
  PROVE  /\ \A to : Goto(r, to) /\ ~Idle(r) => Continues(r)
         /\ Return(r) /\ ~Idle(r) => Continues(r)
         /\ \A to, t : GotoWith(r, to, t) /\ ~Idle(r) => Continues(r)
         /\ \A kind, to, t : Receive(r, kind, to, t) => Begins(r)
<1>1. \A to, t : GotoWith(r, to, t) /\ ~Idle(r) => Continues(r)
  BY GotoContinues
<1>2. \A kind, to, t : Receive(r, kind, to, t) => Begins(r)
  BY ReceiveBegins
<1> QED
  BY <1>1, <1>2 DEF Goto, Return

Serves(r) == Begins(r) \/ Continues(r)

LEMMA FoundingServes ==
  ASSUME IInv, NEW r \in Requests,
         \/ CreateCompany(r) \/ FoundFindWallet(r) \/ FoundDebit(r) \/ FoundCreate(r)
         \/ FoundWallet(r) \/ FoundShareholder(r) \/ FoundList(r)
  PROVE  Serves(r)
BY StepsContinue DEF CreateCompany, FoundFindWallet, FoundDebit, FoundCreate, FoundWallet,
   FoundShareholder, FoundList, At, Idle, Serves

LEMMA PaperServes ==
  ASSUME IInv, NEW r \in Requests,
         \/ OwnerRequest(r) \/ DiscloseInsert(r)
         \/ ReviewDisclosure(r) \/ ReviewStatus(r) \/ ReviewReward(r)
         \/ TransferDebit(r) \/ TransferCredit(r)
         \/ AddKpiRevenue(r) \/ KpiCredit(r) \/ KpiInsert(r)
         \/ AdminCompanyCredit(r) \/ AdminCredit(r)
  PROVE  Serves(r)
BY StepsContinue DEF OwnerRequest, CreateDisclosure, Transfer, DiscloseInsert, ReviewDisclosure,
   ReviewStatus, ReviewReward, TransferDebit, TransferCredit, AddKpiRevenue, KpiCredit,
   KpiInsert, AdminCompanyCredit, AdminCredit, At, Idle, Serves

LEMMA RoundServes ==
  ASSUME IInv, NEW r \in Requests,
         RoundRequest(r) \/ RoundCheck(r) \/ RoundInsert(r) \/ InvestSteps(r)
  PROVE  Serves(r)
BY StepsContinue DEF RoundRequest, CreateRound, InvestReadRound, CloseReadRound,
   CancelReadRound, RoundCheck, RoundInsert, InvestSteps, InvestReadCompany, InvestJudge,
   InvestDebit, InvestUpdateRound, InvestUpdateTotal, InvestUpdateCapital, InvestUpsert,
   InvestCredit, InvestList, InvestInsert, At, Idle, Serves

LEMMA CloseServes ==
  ASSUME IInv, NEW r \in Requests, CloseSteps(r) \/ CancelSteps(r) \/ DividendSteps(r)
  PROVE  Serves(r)
BY StepsContinue DEF CloseSteps, CloseReadCompany, CloseUpdateRound, CloseUpdateCapital,
   CloseList, CancelSteps, CancelReadCompany, CancelReadPot, CancelReadInvestments,
   CancelDebit, CancelRefund, CancelShares, CancelUpdateTotal, CancelUpdateCapital,
   CancelStatus, DividendSteps, DividendReadCompany, DividendDebit, DividendInsert,
   DividendHolders, DividendPay, DividendRow, DividendDone, At, Idle, Serves

LEMMA ProposalServes ==
  ASSUME IInv, NEW r \in Requests,
         \/ CreateProposal(r) \/ ProposeReadHolder(r) \/ ProposeReadActive(r)
         \/ ProposeInsert(r) \/ ShareholderRequest(r) \/ WithdrawStatus(r) \/ VoteSteps(r)
         \/ ReadProposal(r) \/ CloseReadFirm(r) \/ CloseTally(r) \/ CloseStatus(r)
         \/ LiquidateSteps(r)
  PROVE  Serves(r)
BY StepsContinue DEF CreateProposal, ProposeReadHolder, ProposeReadActive, ProposeInsert,
   ShareholderRequest, CastVote, ExecuteLiquidation, CancelProposal, WithdrawStatus,
   VoteSteps, VoteReadHolder, VoteInsert, AutoReadCompany, AutoTally, ReadProposal,
   CloseReadFirm, CloseTally, CloseStatus, LiquidateSteps, ExecuteReadCompany,
   ExecuteReadHolder, LiquidateReadPot, LiquidateReadHolders, LiquidateDebit, LiquidatePay,
   LiquidateDissolve, LiquidateExecuted, LiquidateDisclose, At, Idle, Serves

LEMMA StepServes ==
  ASSUME IInv, Next
  PROVE  \/ \E r \in Requests : Serves(r)
         \/ Aside
         \/ Restart
<1>1. CASE CompanyNext
  <2>1. CASE SharesChangeHands \/ ActivateClassroom
    BY <2>1 DEF SharesChangeHands, ActivateClassroom, AnswerAtOnce, Arrives, Aside
  <2>2. ASSUME NEW r \in Requests, CompanySteps(r)
        PROVE  Serves(r)
    BY <2>2, FoundingServes, PaperServes DEF CompanySteps
  <2> QED
    BY <1>1, <2>1, <2>2 DEF CompanyNext
<1>2. CASE FundingNext
  BY <1>2, RoundServes, CloseServes DEF FundingNext
<1>3. CASE GovernanceNext
  <2>1. CASE VotingEnds
    BY <2>1 DEF VotingEnds, server, handlers, control, Aside
  <2> QED
    BY <1>3, <2>1, ProposalServes DEF GovernanceNext
<1>4. CASE Quiet
  BY <1>4 DEF Quiet, vars, server, handlers, control, Aside
<1> QED
  BY <1>1, <1>2, <1>3, <1>4 DEF Next

LEMMA OneAtATime ==
  ASSUME IInv, AtMostOne, [Next]_vars
  PROVE  AtMostOne'
<1>1. ASSUME NEW r \in Requests, Serves(r)
      PROVE  AtMostOne'
  BY <1>1 DEF AtMostOne, Serves, Begins, Continues, Only, Idle, AllIdle
<1>2. CASE Aside
  BY <1>2 DEF Aside, AtMostOne, Idle, AllIdle, handlers
<1>3. CASE Restart
  BY <1>3 DEF Restart, ServerRestart, AtMostOne, Idle
<1>4. CASE UNCHANGED vars
  BY <1>4 DEF vars, server, handlers, control, AtMostOne, Idle
<1> QED
  BY <1>1, <1>2, <1>3, <1>4, StepServes

-----------------------------------------------------------------------------
(* The entries of the logs *)

Entry(l, key) == IF key \in DOMAIN l THEN l[key] ELSE [sum |-> 0, n |-> 0]

LEMMA Entries ==
  ASSUME NEW w, NEW type, NEW ref
  PROVE  /\ LogSum(w, type, ref) = Entry(log, <<w, type, ref>>).sum
         /\ LogCount(w, type, ref) = Entry(log, <<w, type, ref>>).n
         /\ LogSum(w, type, ref)' = Entry(log', <<w, type, ref>>).sum
         /\ LogCount(w, type, ref)' = Entry(log', <<w, type, ref>>).n
BY DEF LogSum, LogCount, Entry

LEMMA EntryLogged ==
  ASSUME NEW l, NEW key, NEW amount \in Int
  PROVE  /\ Entry(Logged(l, key, amount), key).sum = Entry(l, key).sum + amount
         /\ Entry(Logged(l, key, amount), key).n = Entry(l, key).n + 1
         /\ \A other : other # key => Entry(Logged(l, key, amount), other) = Entry(l, other)
BY DEF Entry, Logged

\* A step writes entries of these types only.
WritesOnly(types) ==
  \A w, type, ref :
    type \notin types => Entry(log', <<w, type, ref>>) = Entry(log, <<w, type, ref>>)

LEMMA LoggedOnly ==
  ASSUME NEW w, NEW type, NEW ref, NEW amount \in Int,
         log' = Logged(log, <<w, type, ref>>, amount)
  PROVE  WritesOnly({type})
<1>1. ASSUME NEW w2, NEW type2, NEW ref2, type2 \notin {type}
      PROVE  Entry(log', <<w2, type2, ref2>>) = Entry(log, <<w2, type2, ref2>>)
  <2>1. <<w2, type2, ref2>> # <<w, type, ref>>
    BY <1>1
  <2> QED
    BY <2>1, EntryLogged
<1> QED
  BY <1>1 DEF WritesOnly

LEMMA NothingLogged ==
  ASSUME log' = log, NEW types
  PROVE  WritesOnly(types)
BY DEF WritesOnly

LEMMA AmountsAreNat ==
  /\ \A n \in Capitals \cup Amounts : n \in Nat \ {0}
  /\ \A n \in Rewards : n \in Int
BY CompanyAssumption

LEMMA HeadIsPayout ==
  ASSUME NEW left \in Seq(Payout), left # <<>>
  PROVE  Head(left).user \in Users /\ Head(left).amount \in Nat
<1>1. Head(left) \in Payout
  OBVIOUS
<1> QED
  BY <1>1 DEF Payout

\* Who logs what.
LEMMA FoundDebitLogs ==
  ASSUME IInv, NEW r \in Requests, FoundDebit(r) \/ FoundCreate(r)
  PROVE  WritesOnly({"company_funding"})
<1> DEFINE t == task[r]
<1>0. t.capital \in Capitals
  BY DEF IInv, TaskOK, CompanyTaskOK, FoundDebit, FoundCreate, At
<1>1. t.capital \in Int /\ -t.capital \in Int
  BY <1>0, AmountsAreNat
<1> HIDE DEF t
<1>2. \/ log' = log
      \/ log' = Logged(log, <<t.w, "company_funding", "new">>, -t.capital)
      \/ log' = Logged(log, <<t.w, "company_funding", "new">>, t.capital)
  BY DEF t, FoundDebit, FoundCreate, Debit, Credit, money
<1> QED
  BY <1>1, <1>2, LoggedOnly, NothingLogged

LEMMA ReviewRewardLogs ==
  ASSUME IInv, NEW r \in Requests, ReviewReward(r)
  PROVE  WritesOnly({"disclosure_reward"})
<1> DEFINE t == task[r]
<1>1. t.reward \in Int
  BY DEF IInv, TaskOK, CompanyTaskOK, ReviewReward, At
<1> HIDE DEF t
<1>2. \/ log' = log
      \/ log' = Logged(log, <<t.co, "disclosure_reward", t.id>>, t.reward)
  BY DEF t, ReviewReward, CreditPot
<1> QED
  BY <1>1, <1>2, LoggedOnly, NothingLogged

LEMMA TransferLogs ==
  ASSUME IInv, NEW r \in Requests, TransferDebit(r) \/ TransferCredit(r)
  PROVE  WritesOnly({"company_transfer"})
<1> DEFINE t == task[r]
<1>0. t.amount \in Amounts
  BY DEF IInv, TaskOK, CompanyTaskOK, TransferDebit, TransferCredit, At
<1>1. t.amount \in Int /\ -t.amount \in Int
  BY <1>0, AmountsAreNat
<1> HIDE DEF t
<1>2. \/ log' = log
      \/ log' = Logged(log, <<t.src, "company_transfer", "out">>, -t.amount)
      \/ log' = Logged(log, <<t.dst, "company_transfer", "in">>, t.amount)
  BY DEF t, TransferDebit, TransferCredit, Debit, Credit, DebitPot, CreditPot, money
<1> QED
  BY <1>1, <1>2, LoggedOnly, NothingLogged

LEMMA KpiCreditLogs ==
  ASSUME IInv, NEW r \in Requests, KpiCredit(r)
  PROVE  WritesOnly({"kpi_revenue"})
<1> DEFINE t == task[r]
<1>0. t.amount \in Amounts
  BY DEF IInv, TaskOK, CompanyTaskOK, KpiCredit, At
<1>1. t.amount \in Int
  BY <1>0, AmountsAreNat
<1> HIDE DEF t
<1>2. log' = Logged(log, <<t.co, "kpi_revenue", t.rule>>, t.amount)
  BY DEF t, KpiCredit, CreditPot
<1> QED
  BY <1>1, <1>2, LoggedOnly

LEMMA AdminCreditLogs ==
  ASSUME IInv, NEW r \in Requests, AdminCredit(r)
  PROVE  WritesOnly({"admin_company_credit"})
<1> DEFINE t == task[r]
           w == <<Admin, AdminRoom>>
           mid == Logged(log, <<w, "admin_company_credit", t.co>>, -t.amount)
<1>0. t.amount \in Amounts
  BY DEF IInv, TaskOK, CompanyTaskOK, AdminCredit, At
<1>1. t.amount \in Int /\ -t.amount \in Int
  BY <1>0, AmountsAreNat
<1> HIDE DEF t, w
<1>2. \/ log' = log
      \/ log' = Logged(mid, <<t.co, "admin_company_credit", w>>, t.amount)
  BY DEF t, w, AdminCredit, money
<1> HIDE DEF mid
<1>3. CASE log' = Logged(mid, <<t.co, "admin_company_credit", w>>, t.amount)
  <2>1. ASSUME NEW w2, NEW type2, NEW ref2, type2 # "admin_company_credit"
        PROVE  Entry(log', <<w2, type2, ref2>>) = Entry(log, <<w2, type2, ref2>>)
    <3>1. /\ <<w2, type2, ref2>> # <<w, "admin_company_credit", t.co>>
          /\ <<w2, type2, ref2>> # <<t.co, "admin_company_credit", w>>
      BY <2>1
    <3>2. Entry(log', <<w2, type2, ref2>>) = Entry(mid, <<w2, type2, ref2>>)
      BY <1>1, <1>3, <3>1, EntryLogged
    <3>3. Entry(mid, <<w2, type2, ref2>>) = Entry(log, <<w2, type2, ref2>>)
      BY <1>1, <3>1, EntryLogged DEF mid
    <3> QED
      BY <3>2, <3>3
  <2> QED
    BY <2>1 DEF WritesOnly
<1> QED
  BY <1>2, <1>3, NothingLogged

LEMMA InvestLogs ==
  ASSUME IInv, NEW r \in Requests, InvestDebit(r) \/ InvestCredit(r)
  PROVE  WritesOnly({"investment"})
<1> DEFINE t == task[r]
<1>1. t.amount \in Int /\ -t.amount \in Int
  BY DEF IInv, TaskOK, FundingTaskOK, InvestLabels, InvestDebit, InvestCredit, At
<1> HIDE DEF t
<1>2. \/ log' = log
      \/ log' = Logged(log, <<t.w, "investment", t.x>>, -t.amount)
      \/ log' = Logged(log, <<t.row.co, "investment", t.x>>, t.amount)
  BY DEF t, InvestDebit, InvestCredit, Debit, CreditPot, money
<1> QED
  BY <1>1, <1>2, LoggedOnly, NothingLogged

LEMMA CancelDebitLogs ==
  ASSUME IInv, NEW r \in Requests, CancelDebit(r)
  PROVE  WritesOnly({"investment_refund"})
<1> DEFINE t == task[r]
<1>1. -t.row.current \in Int
  BY DEF IInv, TaskOK, FundingTaskOK, CancelLabels, CancelDebit, At, RoundRow
<1> HIDE DEF t
<1>2. \/ log' = log
      \/ log' = Logged(log, <<t.row.co, "investment_refund", t.x>>, -t.row.current)
  BY DEF t, CancelDebit, DebitPot
<1> QED
  BY <1>1, <1>2, LoggedOnly, NothingLogged

LEMMA CancelRefundLogs ==
  ASSUME IInv, NEW r \in Requests, CancelRefund(r)
  PROVE  WritesOnly({"investment"})
<1> DEFINE t == task[r]
           i == investments[First(t.left)]
<1>1. i.amount \in Int
  BY RefundTyped DEF CancelRefund, At, CancelLabels, Investment
<1>2. \/ log' = log
      \/ log' = Logged(log, <<<<i.user, t.f.room>>, "investment", t.x>>, i.amount)
  BY DEF CancelRefund, Credit, money
<1> HIDE DEF i
<1> QED
  BY <1>1, <1>2, LoggedOnly, NothingLogged

LEMMA DividendLogs ==
  ASSUME IInv, NEW r \in Requests, DividendDebit(r) \/ DividendPay(r)
  PROVE  WritesOnly({"dividend"})
<1> DEFINE t == task[r]
<1>1. CASE DividendDebit(r)
  <2>0. t.amount \in Amounts
    BY <1>1 DEF IInv, TaskOK, DividendTaskOK, DividendDebit, At
  <2>1. -t.amount \in Int
    BY <2>0, AmountsAreNat
  <2> HIDE DEF t
  <2>2. \/ log' = log
        \/ log' = Logged(log, <<t.co, "dividend", "paid">>, -t.amount)
    BY <1>1 DEF t, DividendDebit, DebitPot
  <2> QED
    BY <2>1, <2>2, LoggedOnly, NothingLogged
<1>2. CASE DividendPay(r)
  <2>1. t.left \in Seq(Payout) /\ t.left # <<>>
    BY <1>2, DividendTyped DEF DividendPay, At
  <2> HIDE DEF t
  <2>3. Head(t.left).amount \in Int
    BY <2>1, HeadIsPayout
  <2>2. log' = Logged(log, <<<<Head(t.left).user, t.f.room>>, "dividend", t.id>>,
                      Head(t.left).amount)
    BY <1>2 DEF t, DividendPay, Credit
  <2> QED
    BY <2>3, <2>2, LoggedOnly
<1> QED
  BY <1>1, <1>2

LEMMA LiquidateDebitLogs ==
  ASSUME IInv, NEW r \in Requests, LiquidateDebit(r)
  PROVE  WritesOnly({"liquidation_tax"})
<1> DEFINE t == task[r]
<1>1. -t.balance \in Int
  BY DEF IInv, TaskOK, LiquidationTaskOK, PayLabels, LiquidateDebit, At
<1> HIDE DEF t
<1>2. \/ log' = log
      \/ log' = Logged(log, <<t.co, "liquidation_tax", t.p>>, -t.balance)
  BY DEF t, LiquidateDebit, DebitPot
<1> QED
  BY <1>1, <1>2, LoggedOnly, NothingLogged

LEMMA LiquidatePayLogs ==
  ASSUME IInv, NEW r \in Requests, LiquidatePay(r)
  PROVE  WritesOnly({"liquidation_payout"})
<1> DEFINE t == task[r]
<1>1. t.left \in Seq(Payout) /\ t.left # <<>>
  BY PayTyped DEF LiquidatePay, At, PayLabels
<1>3. Head(t.left).amount \in Int
  BY <1>1, HeadIsPayout
<1> HIDE DEF t
<1>2. log' = Logged(log, <<<<Head(t.left).user, t.f.room>>, "liquidation_payout", t.p>>,
                    Head(t.left).amount)
  BY DEF t, LiquidatePay, Credit
<1> QED
  BY <1>3, <1>2, LoggedOnly

Keeps(type) == \A w, ref : Entry(log', <<w, type, ref>>) = Entry(log, <<w, type, ref>>)

\* The statements that write entries of a type.
Writer(type, r) ==
  \/ type = "company_funding" /\ (FoundDebit(r) \/ FoundCreate(r))
  \/ type = "disclosure_reward" /\ ReviewReward(r)
  \/ type = "company_transfer" /\ (TransferDebit(r) \/ TransferCredit(r))
  \/ type = "kpi_revenue" /\ KpiCredit(r)
  \/ type = "admin_company_credit" /\ AdminCredit(r)
  \/ type = "investment" /\ (InvestDebit(r) \/ InvestCredit(r) \/ CancelRefund(r))
  \/ type = "investment_refund" /\ CancelDebit(r)
  \/ type = "dividend" /\ (DividendDebit(r) \/ DividendPay(r))
  \/ type = "liquidation_tax" /\ LiquidateDebit(r)
  \/ type = "liquidation_payout" /\ LiquidatePay(r)

LEMMA OtherTypesKept ==
  ASSUME NEW x, WritesOnly({x}), NEW type
  PROVE  type = x \/ Keeps(type)
BY DEF WritesOnly, Keeps

LEMMA NoneLogged ==
  ASSUME log' = log, NEW type
  PROVE  Keeps(type)
BY DEF Keeps

LEMMA CompanyLogs ==
  ASSUME IInv, NEW r \in Requests, CompanySteps(r), NEW type
  PROVE  Keeps(type) \/ Writer(type, r)
<1>1. CASE log' = log
  BY <1>1, NoneLogged
<1>2. CASE FoundDebit(r) \/ FoundCreate(r)
  BY <1>2, FoundDebitLogs, OtherTypesKept DEF Writer
<1>3. CASE ReviewReward(r)
  BY <1>3, ReviewRewardLogs, OtherTypesKept DEF Writer
<1>4. CASE TransferDebit(r) \/ TransferCredit(r)
  BY <1>4, TransferLogs, OtherTypesKept DEF Writer
<1>5. CASE KpiCredit(r)
  BY <1>5, KpiCreditLogs, OtherTypesKept DEF Writer
<1>6. CASE AdminCredit(r)
  BY <1>6, AdminCreditLogs, OtherTypesKept DEF Writer
<1> QED
  BY <1>1, <1>2, <1>3, <1>4, <1>5, <1>6
  DEF CompanySteps, CreateCompany, FoundFindWallet, FoundWallet, FoundShareholder, FoundList,
      OwnerRequest, CreateDisclosure, Transfer, DiscloseInsert, ReviewDisclosure,
      ReviewStatus, AddKpiRevenue, KpiInsert, AdminCompanyCredit, money

LEMMA FundingLogs ==
  ASSUME IInv, NEW r \in Requests, NEW type,
         \/ RoundRequest(r) \/ RoundCheck(r) \/ RoundInsert(r)
         \/ InvestSteps(r) \/ CloseSteps(r) \/ CancelSteps(r) \/ DividendSteps(r)
  PROVE  Keeps(type) \/ Writer(type, r)
<1>1. CASE log' = log
  BY <1>1, NoneLogged
<1>2. CASE InvestDebit(r) \/ InvestCredit(r)
  BY <1>2, InvestLogs, OtherTypesKept DEF Writer
<1>3. CASE CancelDebit(r)
  BY <1>3, CancelDebitLogs, OtherTypesKept DEF Writer
<1>4. CASE CancelRefund(r)
  BY <1>4, CancelRefundLogs, OtherTypesKept DEF Writer
<1>5. CASE DividendDebit(r) \/ DividendPay(r)
  BY <1>5, DividendLogs, OtherTypesKept DEF Writer
<1>6. CASE InvestSteps(r)
  BY <1>1, <1>2, <1>6
  DEF InvestSteps, InvestReadCompany, InvestJudge, InvestUpdateRound, InvestUpdateTotal,
      InvestUpdateCapital, InvestUpsert, InvestList, InvestInsert, money
<1>7. CASE CloseSteps(r) \/ CancelSteps(r)
  BY <1>1, <1>3, <1>4, <1>7
  DEF CloseSteps, CloseReadCompany, CloseUpdateRound, CloseUpdateCapital, CloseList,
      CancelSteps, CancelReadCompany, CancelReadPot, CancelReadInvestments, CancelShares,
      CancelUpdateTotal, CancelUpdateCapital, CancelStatus, money
<1> QED
  BY <1>1, <1>5, <1>6, <1>7
  DEF RoundRequest, CreateRound, InvestReadRound, CloseReadRound, CancelReadRound,
      RoundCheck, RoundInsert, DividendSteps, DividendReadCompany, DividendInsert,
      DividendHolders, DividendRow, DividendDone, money

LEMMA GovernanceLogs ==
  ASSUME IInv, NEW r \in Requests, NEW type,
         \/ CreateProposal(r) \/ ProposeReadHolder(r) \/ ProposeReadActive(r)
         \/ ProposeInsert(r) \/ ShareholderRequest(r) \/ WithdrawStatus(r) \/ VoteSteps(r)
         \/ ReadProposal(r) \/ CloseReadFirm(r) \/ CloseTally(r) \/ CloseStatus(r)
         \/ LiquidateSteps(r)
  PROVE  Keeps(type) \/ Writer(type, r)
<1>1. CASE log' = log
  BY <1>1, NoneLogged
<1>2. CASE LiquidateDebit(r)
  BY <1>2, LiquidateDebitLogs, OtherTypesKept DEF Writer
<1>3. CASE LiquidatePay(r)
  BY <1>3, LiquidatePayLogs, OtherTypesKept DEF Writer
<1>4. CASE LiquidateSteps(r)
  BY <1>1, <1>2, <1>3, <1>4
  DEF LiquidateSteps, ExecuteReadCompany, ExecuteReadHolder, LiquidateReadPot,
      LiquidateReadHolders, LiquidateDissolve, LiquidateExecuted, LiquidateDisclose, money
<1> QED
  BY <1>1, <1>4
  DEF CreateProposal, ProposeReadHolder, ProposeReadActive, ProposeInsert,
      ShareholderRequest, CastVote, ExecuteLiquidation, CancelProposal, WithdrawStatus,
      VoteSteps, VoteReadHolder, VoteInsert, AutoReadCompany, AutoTally, ReadProposal,
      CloseReadFirm, CloseTally, CloseStatus, money

LEMMA WhoLogs ==
  ASSUME IInv, [Next]_vars, NEW type
  PROVE  Keeps(type) \/ \E r \in Requests : Writer(type, r)
<1>1. CASE CompanyNext
  <2>1. CASE SharesChangeHands \/ ActivateClassroom
    BY <2>1, NoneLogged DEF SharesChangeHands, ActivateClassroom, money
  <2> QED
    BY <1>1, <2>1, CompanyLogs DEF CompanyNext
<1>2. CASE FundingNext
  BY <1>2, FundingLogs DEF FundingNext
<1>3. CASE GovernanceNext
  <2>1. CASE VotingEnds
    BY <2>1, NoneLogged DEF VotingEnds, server, money
  <2> QED
    BY <1>3, <2>1, GovernanceLogs DEF GovernanceNext
<1>4. CASE Restart
  BY <1>4, NoneLogged DEF Restart, ServerRestart, money
<1>5. CASE Quiet \/ UNCHANGED vars
  BY <1>5, NoneLogged DEF Quiet, vars, server, money
<1> QED
  BY <1>1, <1>2, <1>3, <1>4, <1>5 DEF Next

-----------------------------------------------------------------------------
(* One key moves money once *)

PapersKept == UNCHANGED <<disclosure, kpi, adminCredit>>

\* The statements that write the papers of a company.
PaperWriter(r) ==
  DiscloseInsert(r) \/ ReviewStatus(r) \/ LiquidateDisclose(r) \/ KpiInsert(r) \/ AdminCredit(r)

LEMMA WhoWritesPapers ==
  ASSUME [Next]_vars
  PROVE  PapersKept \/ \E r \in Requests : PaperWriter(r)
<1> USE DEF PapersKept, company, papers
<1>1. CASE CompanyNext
  <2>1. CASE SharesChangeHands \/ ActivateClassroom
    BY <2>1 DEF SharesChangeHands, ActivateClassroom
  <2>2. ASSUME NEW r \in Requests,
               \/ CreateCompany(r) \/ FoundFindWallet(r) \/ FoundDebit(r) \/ FoundCreate(r)
               \/ FoundWallet(r) \/ FoundShareholder(r) \/ FoundList(r)
        PROVE  PapersKept
    BY <2>2 DEF CreateCompany, FoundFindWallet, FoundDebit, FoundCreate, FoundWallet,
       FoundShareholder, FoundList
  <2>3. ASSUME NEW r \in Requests,
               \/ OwnerRequest(r) \/ ReviewDisclosure(r) \/ ReviewReward(r)
               \/ TransferDebit(r) \/ TransferCredit(r)
               \/ AddKpiRevenue(r) \/ KpiCredit(r) \/ AdminCompanyCredit(r)
        PROVE  PapersKept
    BY <2>3 DEF OwnerRequest, CreateDisclosure, Transfer, ReviewDisclosure, ReviewReward,
       TransferDebit, TransferCredit, AddKpiRevenue, KpiCredit, AdminCompanyCredit
  <2> HIDE DEF PapersKept
  <2> QED
    BY <1>1, <2>1, <2>2, <2>3 DEF CompanyNext, CompanySteps, PaperWriter
<1>2. CASE FundingNext
  <2>1. ASSUME NEW r \in Requests, RoundRequest(r) \/ RoundCheck(r) \/ RoundInsert(r)
        PROVE  PapersKept
    BY <2>1 DEF RoundRequest, CreateRound, InvestReadRound, CloseReadRound, CancelReadRound,
       RoundCheck, RoundInsert
  <2>2. ASSUME NEW r \in Requests, InvestSteps(r)
        PROVE  PapersKept
    BY <2>2 DEF InvestSteps, InvestReadCompany, InvestJudge, InvestDebit, InvestUpdateRound,
       InvestUpdateTotal, InvestUpdateCapital, InvestUpsert, InvestCredit, InvestList,
       InvestInsert
  <2>3. ASSUME NEW r \in Requests, CloseSteps(r) \/ CancelSteps(r)
        PROVE  PapersKept
    BY <2>3 DEF CloseSteps, CloseReadCompany, CloseUpdateRound, CloseUpdateCapital, CloseList,
       CancelSteps, CancelReadCompany, CancelReadPot, CancelReadInvestments, CancelDebit,
       CancelRefund, CancelShares, CancelUpdateTotal, CancelUpdateCapital, CancelStatus
  <2>4. ASSUME NEW r \in Requests, DividendSteps(r)
        PROVE  PapersKept
    BY <2>4 DEF DividendSteps, DividendReadCompany, DividendDebit, DividendInsert,
       DividendHolders, DividendPay, DividendRow, DividendDone
  <2> QED
    BY <1>2, <2>1, <2>2, <2>3, <2>4 DEF FundingNext
<1>3. CASE GovernanceNext
  <2>1. CASE VotingEnds
    BY <2>1 DEF VotingEnds
  <2>2. ASSUME NEW r \in Requests,
               \/ CreateProposal(r) \/ ProposeReadHolder(r) \/ ProposeReadActive(r)
               \/ ProposeInsert(r) \/ ShareholderRequest(r) \/ WithdrawStatus(r)
               \/ VoteSteps(r)
        PROVE  PapersKept
    BY <2>2 DEF CreateProposal, ProposeReadHolder, ProposeReadActive, ProposeInsert,
       ShareholderRequest, CastVote, ExecuteLiquidation, CancelProposal, WithdrawStatus,
       VoteSteps, VoteReadHolder, VoteInsert, AutoReadCompany, AutoTally
  <2>3. ASSUME NEW r \in Requests,
               \/ ReadProposal(r) \/ CloseReadFirm(r) \/ CloseTally(r) \/ CloseStatus(r)
               \/ LiquidateSteps(r)
        PROVE  PapersKept \/ LiquidateDisclose(r)
    BY <2>3 DEF ReadProposal, CloseReadFirm, CloseTally, CloseStatus, LiquidateSteps,
       ExecuteReadCompany, ExecuteReadHolder, LiquidateReadPot, LiquidateReadHolders,
       LiquidateDebit, LiquidatePay, LiquidateDissolve, LiquidateExecuted
  <2> HIDE DEF PapersKept
  <2> QED
    BY <1>3, <2>1, <2>2, <2>3 DEF GovernanceNext, PaperWriter
<1>4. CASE Restart \/ Quiet \/ UNCHANGED vars
  BY <1>4 DEF Restart, Quiet, vars
<1> QED
  BY <1>1, <1>2, <1>3, <1>4 DEF Next

LEMMA KeysAtStart ==
  ASSUME Init
  PROVE  KeysMoveMoneyOnce
<1> SUFFICES ASSUME NEW c \in Companies
             PROVE  LogSum(c, "admin_company_credit", <<Admin, AdminRoom>>) =
                      SumOf([k \in CreditsOf(c) |-> adminCredit[k].amount], CreditsOf(c))
  BY DEF KeysMoveMoneyOnce
<1>1. CreditsOf(c) = {}
  BY DEF Init, CompanyInit, CreditsOf
<1>2. LogSum(c, "admin_company_credit", <<Admin, AdminRoom>>) = 0
  BY DEF Init, ServerInit, LogSum
<1> QED
  BY <1>1, <1>2, SumOfNothing

\* The sum of what the rows of a company say, when a row of it is added.
CreditRows(row, c) == {k \in Keys : row[k] # None /\ row[k].co = c}

CreditTotal(row, c) == SumOf([k \in CreditRows(row, c) |-> row[k].amount], CreditRows(row, c))

LEMMA CreditAdded ==
  ASSUME NEW row \in [Keys -> CreditRow \cup {None}], NEW k \in Keys, row[k] = None,
         NEW new \in CreditRow, NEW later,
         later[k] = new, \A x \in Keys : x # k => later[x] = row[x]
  PROVE  \A c : CreditTotal(later, c) =
                  IF c = new.co THEN CreditTotal(row, c) + new.amount ELSE CreditTotal(row, c)
<1> DEFINE S == CreditRows(row, new.co)
           f == [x \in S |-> row[x].amount]
           g == [x \in S \cup {k} |-> later[x].amount]
<1>1. new # None
  BY CompanyAssumption
<1>2. CreditRows(later, new.co) = S \cup {k} /\ k \notin S
  BY <1>1 DEF CreditRows
<1>3. IsFiniteSet(S)
  BY CompanyAssumption, FS_Subset DEF CreditRows
<1>4. /\ \A x \in S : f[x] \in Int /\ g[x] = f[x]
      /\ g[k] = new.amount /\ g[k] \in Int
  BY AmountsAreNat DEF CreditRows, CreditRow
<1>5. SumOf(g, S \cup {k}) = SumOf(f, S) + g[k]
  <2>1. /\ k \notin S /\ g[k] \in Int
        /\ \A x \in S : f[x] \in Int /\ g[x] = f[x]
    BY <1>2, <1>4
  <2> HIDE DEF f, g, S
  <2> QED
    BY <2>1, <1>3, SumInsert, SMTT(60)
<1>6. CreditTotal(later, new.co) = CreditTotal(row, new.co) + new.amount
  BY <1>2, <1>4, <1>5, Zenon DEF CreditTotal
<1>7. ASSUME NEW c, c # new.co
      PROVE  CreditTotal(later, c) = CreditTotal(row, c)
  <2>1. CreditRows(later, c) = CreditRows(row, c)
    BY <1>7, <1>1 DEF CreditRows
  <2> DEFINE T == CreditRows(row, c)
             h == [x \in T |-> row[x].amount]
             i == [x \in T |-> later[x].amount]
  <2>2. IsFiniteSet(T)
    BY CompanyAssumption, FS_Subset DEF CreditRows
  <2>3. \A x \in T : h[x] \in Int /\ h[x] = i[x]
    BY AmountsAreNat DEF CreditRows, CreditRow
  <2>4. SumOf(h, T) = SumOf(i, T)
    <3> HIDE DEF T, h, i
    <3> QED
      BY <2>2, <2>3, SumsAgree
  <2> QED
    BY <2>1, <2>4, Zenon DEF CreditTotal
<1> QED
  BY <1>6, <1>7

KeyEntry(c) == <<c, "admin_company_credit", <<Admin, AdminRoom>>>>

LEMMA KeysByEntry ==
  /\ KeysMoveMoneyOnce <=>
       \A c \in Companies : Entry(log, KeyEntry(c)).sum = CreditTotal(adminCredit, c)
  /\ KeysMoveMoneyOnce' <=>
       \A c \in Companies : Entry(log', KeyEntry(c)).sum = CreditTotal(adminCredit', c)
<1> DEFINE Logs(c) == LogSum(c, "admin_company_credit", <<Admin, AdminRoom>>)
<1>1. \A c \in Companies : /\ Logs(c) = Entry(log, KeyEntry(c)).sum
                           /\ Logs(c)' = Entry(log', KeyEntry(c)).sum
  BY Entries DEF KeyEntry
<1>2. /\ KeysMoveMoneyOnce <=> \A c \in Companies : Logs(c) = CreditTotal(adminCredit, c)
      /\ KeysMoveMoneyOnce' <=> \A c \in Companies : Logs(c)' = CreditTotal(adminCredit', c)
  BY Zenon DEF KeysMoveMoneyOnce, CreditTotal, CreditRows, CreditsOf
<1> HIDE DEF Logs
<1> QED
  BY <1>1, <1>2

LEMMA AdminCreditKeepsKeys ==
  ASSUME IInv, KeysMoveMoneyOnce, NEW r \in Requests, AdminCredit(r)
  PROVE  KeysMoveMoneyOnce'
<1> DEFINE t == task[r]
           w == <<Admin, AdminRoom>>
           entry == [co |-> t.co, amount |-> t.amount]
           mid == Logged(log, <<w, "admin_company_credit", t.co>>, -t.amount)
<1>1. t \in [co : Companies, amount : Amounts, key : Keys]
  BY DEF IInv, TaskOK, CompanyTaskOK, AdminCredit, At
<1>2. CASE UNCHANGED <<log, adminCredit>>
  BY <1>2 DEF KeysMoveMoneyOnce, LogSum, CreditsOf
<1>3. CASE /\ adminCredit[t.key] = None
           /\ adminCredit' = [adminCredit EXCEPT ![t.key] = entry]
           /\ log' = Logged(mid, <<t.co, "admin_company_credit", w>>, t.amount)
  <2>1. entry \in CreditRow /\ entry.co = t.co /\ entry.amount = t.amount
    BY <1>1 DEF CreditRow
  <2>2. adminCredit \in [Keys -> CreditRow \cup {None}]
    BY DEF IInv, Rows, RowsTyped
  <2>3. t.amount \in Int /\ -t.amount \in Int
    BY <1>1, AmountsAreNat
  <2>4. w \in Wallets
    BY CompanyAssumption DEF Wallets
  <2>5. \A c \in Companies : KeyEntry(c) # <<w, "admin_company_credit", t.co>>
    BY <2>4, CompanyAssumption DEF KeyEntry
  <2> HIDE DEF w, entry, t, mid
  <2>6. \A c : CreditTotal(adminCredit', c) =
                IF c = t.co THEN CreditTotal(adminCredit, c) + t.amount ELSE CreditTotal(adminCredit, c)
    <3>1. t.key \in Keys
      BY <1>1
    <3>2. \A c : CreditTotal(adminCredit', c) =
                  IF c = entry.co THEN CreditTotal(adminCredit, c) + entry.amount ELSE CreditTotal(adminCredit, c)
      <4>1. PICK n \in CreditRow : n = entry
        BY <2>1
      <4>2. /\ adminCredit[t.key] = None
            /\ adminCredit'[t.key] = n
            /\ \A x \in Keys : x # t.key => adminCredit'[x] = adminCredit[x]
        BY <1>3, <2>2, <3>1, <4>1
      <4>3. \A c : CreditTotal(adminCredit', c) =
                  IF c = n.co THEN CreditTotal(adminCredit, c) + n.amount ELSE CreditTotal(adminCredit, c)
        BY <2>2, <3>1, <4>2, CreditAdded
      <4> QED
        BY <4>1, <4>3
    <3> QED
      BY <3>2, <2>1
  <2>7. \A c \in Companies : Entry(mid, KeyEntry(c)) = Entry(log, KeyEntry(c))
    BY <2>3, <2>5, EntryLogged DEF mid
  <2>8. ASSUME NEW c \in Companies, c # t.co
        PROVE  Entry(log', KeyEntry(c)) = Entry(mid, KeyEntry(c))
    <3>1. KeyEntry(c) # <<t.co, "admin_company_credit", w>>
      BY <2>8 DEF KeyEntry
    <3> QED
      BY <1>3, <2>3, <3>1, EntryLogged
  <2>9. Entry(log', KeyEntry(t.co)).sum = Entry(mid, KeyEntry(t.co)).sum + t.amount
    <3>1. KeyEntry(t.co) = <<t.co, "admin_company_credit", w>>
      BY DEF KeyEntry, w
    <3> QED
      BY <1>3, <2>3, <3>1, EntryLogged
  <2>10. t.co \in Companies
    BY <1>1
  <2> QED
    BY <2>6, <2>7, <2>8, <2>9, <2>10, KeysByEntry
<1> QED
  BY <1>2, <1>3 DEF AdminCredit, KeyIsFresh, money

LEMMA KeysKept ==
  ASSUME IInv, KeysMoveMoneyOnce, [Next]_vars
  PROVE  KeysMoveMoneyOnce'
<1>1. CASE \E r \in Requests : AdminCredit(r)
  BY <1>1, AdminCreditKeepsKeys
<1>2. CASE ~\E r \in Requests : AdminCredit(r)
  <2>1. Keeps("admin_company_credit")
    BY <1>2, WhoLogs DEF Writer
  <2>2. adminCredit' = adminCredit
    BY <1>2, WhoWritesPapers DEF PaperWriter, PapersKept, DiscloseInsert, ReviewStatus,
       LiquidateDisclose, KpiInsert
  <2> QED
    BY <2>1, <2>2, KeysByEntry DEF Keeps, KeyEntry
<1> QED
  BY <1>1, <1>2

-----------------------------------------------------------------------------
(* Where a step takes its handler *)

Founding(r) ==
  \/ CreateCompany(r) \/ FoundFindWallet(r) \/ FoundDebit(r) \/ FoundCreate(r)
  \/ FoundWallet(r) \/ FoundShareholder(r) \/ FoundList(r)

PaperWork(r) ==
  \/ OwnerRequest(r) \/ DiscloseInsert(r)
  \/ ReviewDisclosure(r) \/ ReviewStatus(r) \/ ReviewReward(r)
  \/ TransferDebit(r) \/ TransferCredit(r)
  \/ AddKpiRevenue(r) \/ KpiCredit(r) \/ KpiInsert(r)
  \/ AdminCompanyCredit(r) \/ AdminCredit(r)

FundingWork(r) ==
  \/ RoundRequest(r) \/ RoundCheck(r) \/ RoundInsert(r)
  \/ InvestSteps(r) \/ CloseSteps(r) \/ CancelSteps(r) \/ DividendSteps(r)

Meeting(r) ==
  \/ CreateProposal(r) \/ ProposeReadHolder(r) \/ ProposeReadActive(r) \/ ProposeInsert(r)
  \/ ShareholderRequest(r) \/ WithdrawStatus(r) \/ VoteSteps(r)
  \/ ReadProposal(r) \/ CloseReadFirm(r) \/ CloseTally(r) \/ CloseStatus(r)
  \/ LiquidateSteps(r)

FoundStops == {"found:wallet", "found:debit", "found:company", "found:pot", "found:shares",
               "found:list"}

Stays(q) == pc'[q] = pc[q] /\ task'[q] = task[q]

LEMMA StepsLead ==
  ASSUME IInv, NEW r \in Requests
  PROVE  /\ \A to : Goto(r, to) => pc'[r] = to /\ task'[r] = task[r]
         /\ Return(r) => pc'[r] = "idle"
         /\ \A to, t : GotoWith(r, to, t) => pc'[r] = to /\ task'[r] = t
         /\ \A kind, to, t : Receive(r, kind, to, t) => Idle(r) /\ pc'[r] = to /\ task'[r] = t
BY DEF IInv, HandlersOK, Goto, Return, GotoWith, Receive

LEMMA FoundingLeads ==
  ASSUME IInv, NEW r \in Requests, Founding(r)
  PROVE  /\ pc[r] \in {"idle"} \cup FoundStops
         /\ pc'[r] \in {"idle"} \cup FoundStops
         /\ pc'[r] = "found:wallet" => CreateCompany(r)
         /\ pc'[r] = "found:debit" => FoundFindWallet(r)
         /\ pc'[r] = "found:company" => FoundDebit(r)
         /\ pc'[r] = "found:pot" => FoundCreate(r)
         /\ pc'[r] = "found:shares" => FoundWallet(r)
         /\ pc'[r] = "found:list" => FoundShareholder(r)
         /\ pc[r] = "found:wallet" => FoundFindWallet(r)
         /\ pc[r] = "found:debit" => FoundDebit(r)
         /\ pc[r] = "found:company" => FoundCreate(r)
         /\ pc[r] = "found:pot" => FoundWallet(r)
         /\ pc[r] = "found:shares" => FoundShareholder(r)
         /\ pc[r] = "found:list" => FoundList(r)
<1>1. CreateCompany(r) => pc[r] = "idle" /\ pc'[r] \in {"found:wallet"}
  BY StepsLead DEF CreateCompany, At, Idle
<1>2. FoundFindWallet(r) => pc[r] = "found:wallet" /\ pc'[r] \in {"found:debit", "idle"}
  BY StepsLead DEF FoundFindWallet, At, Idle
<1>3. FoundDebit(r) => pc[r] = "found:debit" /\ pc'[r] \in {"found:company", "idle"}
  BY StepsLead DEF FoundDebit, At, Idle
<1>4. FoundCreate(r) => pc[r] = "found:company" /\ pc'[r] \in {"found:pot", "idle"}
  BY StepsLead DEF FoundCreate, At, Idle
<1>5. FoundWallet(r) => pc[r] = "found:pot" /\ pc'[r] \in {"found:shares"}
  BY StepsLead DEF FoundWallet, At, Idle
<1>6. FoundShareholder(r) => pc[r] = "found:shares" /\ pc'[r] \in {"found:list"}
  BY StepsLead DEF FoundShareholder, At, Idle
<1>7. FoundList(r) => pc[r] = "found:list" /\ pc'[r] \in {"idle"}
  BY StepsLead DEF FoundList, At, Idle
<1> QED
  BY <1>1, <1>2, <1>3, <1>4, <1>5, <1>6, <1>7
  DEF Founding, FoundStops

LEMMA PaperWorkLeads ==
  ASSUME IInv, NEW r \in Requests, PaperWork(r)
  PROVE  /\ pc[r] \in {"idle"} \cup (CompanyStops \ FoundStops)
         /\ pc'[r] \in {"idle"} \cup (CompanyStops \ FoundStops)
         /\ pc'[r] = "disclose:insert" => CreateDisclosure(r)
         /\ pc'[r] = "transfer:debit" => Transfer(r)
         /\ pc'[r] = "review:status" => ReviewDisclosure(r)
         /\ pc'[r] = "review:reward" => ReviewStatus(r)
         /\ pc'[r] = "transfer:credit" => TransferDebit(r)
         /\ pc'[r] = "kpi:credit" => AddKpiRevenue(r)
         /\ pc'[r] = "kpi:insert" => KpiCredit(r)
         /\ pc'[r] = "admin:credit" => AdminCompanyCredit(r)
         /\ pc[r] = "disclose:insert" => DiscloseInsert(r)
         /\ pc[r] = "review:status" => ReviewStatus(r)
         /\ pc[r] = "review:reward" => ReviewReward(r)
         /\ pc[r] = "transfer:debit" => TransferDebit(r)
         /\ pc[r] = "transfer:credit" => TransferCredit(r)
         /\ pc[r] = "kpi:credit" => KpiCredit(r)
         /\ pc[r] = "kpi:insert" => KpiInsert(r)
         /\ pc[r] = "admin:credit" => AdminCredit(r)
<1>1. CreateDisclosure(r) => pc[r] = "idle" /\ pc'[r] \in {"disclose:insert"}
  BY StepsLead DEF CreateDisclosure, At, Idle
<1>2. Transfer(r) => pc[r] = "idle" /\ pc'[r] \in {"transfer:debit"}
  BY StepsLead DEF Transfer, At, Idle
<1>3. DiscloseInsert(r) => pc[r] = "disclose:insert" /\ pc'[r] \in {"idle"}
  BY StepsLead DEF DiscloseInsert, At, Idle
<1>4. ReviewDisclosure(r) => pc[r] = "idle" /\ pc'[r] \in {"review:status"}
  BY StepsLead DEF ReviewDisclosure, At, Idle
<1>5. ReviewStatus(r) => pc[r] = "review:status" /\ pc'[r] \in {"review:reward", "idle"}
  BY StepsLead DEF ReviewStatus, At, Idle
<1>6. ReviewReward(r) => pc[r] = "review:reward" /\ pc'[r] \in {"idle"}
  BY StepsLead DEF ReviewReward, At, Idle
<1>7. TransferDebit(r) => pc[r] = "transfer:debit" /\ pc'[r] \in {"transfer:credit", "idle"}
  BY StepsLead DEF TransferDebit, At, Idle
<1>8. TransferCredit(r) => pc[r] = "transfer:credit" /\ pc'[r] \in {"idle"}
  BY StepsLead DEF TransferCredit, At, Idle
<1>9. AddKpiRevenue(r) => pc[r] = "idle" /\ pc'[r] \in {"kpi:credit"}
  BY StepsLead DEF AddKpiRevenue, At, Idle
<1>10. KpiCredit(r) => pc[r] = "kpi:credit" /\ pc'[r] \in {"kpi:insert"}
  BY StepsLead DEF KpiCredit, At, Idle
<1>11. KpiInsert(r) => pc[r] = "kpi:insert" /\ pc'[r] \in {"idle"}
  BY StepsLead DEF KpiInsert, At, Idle
<1>12. AdminCompanyCredit(r) => pc[r] = "idle" /\ pc'[r] \in {"admin:credit"}
  BY StepsLead DEF AdminCompanyCredit, At, Idle
<1>13. AdminCredit(r) => pc[r] = "admin:credit" /\ pc'[r] \in {"idle"}
  BY StepsLead DEF AdminCredit, At, Idle
<1> QED
  BY <1>1, <1>2, <1>3, <1>4, <1>5, <1>6, <1>7, <1>8, <1>9, <1>10, <1>11, <1>12, <1>13
  DEF PaperWork, OwnerRequest, CompanyStops, FoundStops

LEMMA FundingLeads ==
  ASSUME IInv, NEW r \in Requests, FundingWork(r)
  PROVE  /\ pc[r] \in {"idle"} \cup FundingStops
         /\ pc'[r] \in {"idle"} \cup FundingStops
         /\ pc'[r] = "round:check" => CreateRound(r)
         /\ pc'[r] = "invest:company" => InvestReadRound(r)
         /\ pc'[r] = "early:company" => CloseReadRound(r)
         /\ pc'[r] = "cancel:company" => CancelReadRound(r)
         /\ pc'[r] = "round:insert" => RoundCheck(r)
         /\ pc'[r] = "invest:judge" => InvestReadCompany(r)
         /\ pc'[r] = "invest:debit" => InvestJudge(r)
         /\ pc'[r] = "invest:round" => InvestDebit(r)
         /\ pc'[r] = "invest:total" => InvestUpdateRound(r)
         /\ pc'[r] = "invest:capital" => InvestUpdateTotal(r)
         /\ pc'[r] = "invest:holder" => InvestUpdateCapital(r)
         /\ pc'[r] = "invest:credit" => InvestUpsert(r)
         /\ pc'[r] = "invest:list" => InvestCredit(r)
         /\ pc'[r] = "invest:insert" => InvestList(r)
         /\ pc'[r] = "early:round" => CloseReadCompany(r)
         /\ pc'[r] = "early:capital" => CloseUpdateRound(r)
         /\ pc'[r] = "early:list" => CloseUpdateCapital(r)
         /\ pc'[r] = "cancel:pot" => CancelReadCompany(r)
         /\ pc'[r] = "cancel:investments" => CancelReadPot(r)
         /\ pc'[r] = "cancel:debit" => CancelReadInvestments(r)
         /\ pc'[r] = "cancel:refund" => CancelReadInvestments(r) \/ CancelDebit(r) \/ CancelRefund(r) \/ CancelShares(r)
         /\ pc'[r] = "cancel:shares" => CancelRefund(r)
         /\ pc'[r] = "cancel:capital" => CancelUpdateTotal(r)
         /\ pc'[r] = "cancel:status" => CancelUpdateCapital(r)
         /\ pc'[r] = "dividend:pot" => DividendReadCompany(r)
         /\ pc'[r] = "dividend:insert" => DividendDebit(r)
         /\ pc'[r] = "dividend:holders" => DividendInsert(r)
         /\ pc'[r] = "dividend:pay" => DividendHolders(r) \/ DividendRow(r)
         /\ pc'[r] = "dividend:row" => DividendPay(r)
         /\ pc[r] = "round:check" => RoundCheck(r)
         /\ pc[r] = "round:insert" => RoundInsert(r)
         /\ pc[r] = "invest:company" => InvestReadCompany(r)
         /\ pc[r] = "invest:judge" => InvestJudge(r)
         /\ pc[r] = "invest:debit" => InvestDebit(r)
         /\ pc[r] = "invest:round" => InvestUpdateRound(r)
         /\ pc[r] = "invest:total" => InvestUpdateTotal(r)
         /\ pc[r] = "invest:capital" => InvestUpdateCapital(r)
         /\ pc[r] = "invest:holder" => InvestUpsert(r)
         /\ pc[r] = "invest:credit" => InvestCredit(r)
         /\ pc[r] = "invest:list" => InvestList(r)
         /\ pc[r] = "invest:insert" => InvestInsert(r)
         /\ pc[r] = "early:company" => CloseReadCompany(r)
         /\ pc[r] = "early:round" => CloseUpdateRound(r)
         /\ pc[r] = "early:capital" => CloseUpdateCapital(r)
         /\ pc[r] = "early:list" => CloseList(r)
         /\ pc[r] = "cancel:company" => CancelReadCompany(r)
         /\ pc[r] = "cancel:pot" => CancelReadPot(r)
         /\ pc[r] = "cancel:investments" => CancelReadInvestments(r)
         /\ pc[r] = "cancel:debit" => CancelDebit(r)
         /\ pc[r] = "cancel:refund" => CancelRefund(r) \/ CancelUpdateTotal(r)
         /\ pc[r] = "cancel:shares" => CancelShares(r)
         /\ pc[r] = "cancel:capital" => CancelUpdateCapital(r)
         /\ pc[r] = "cancel:status" => CancelStatus(r)
         /\ pc[r] = "dividend:pot" => DividendDebit(r)
         /\ pc[r] = "dividend:insert" => DividendInsert(r)
         /\ pc[r] = "dividend:holders" => DividendHolders(r)
         /\ pc[r] = "dividend:pay" => DividendPay(r) \/ DividendDone(r)
         /\ pc[r] = "dividend:row" => DividendRow(r)
<1>1. CreateRound(r) => pc[r] = "idle" /\ pc'[r] \in {"round:check"}
  BY StepsLead DEF CreateRound, At, Idle
<1>2. InvestReadRound(r) => pc[r] = "idle" /\ pc'[r] \in {"invest:company"}
  BY StepsLead DEF InvestReadRound, At, Idle
<1>3. CloseReadRound(r) => pc[r] = "idle" /\ pc'[r] \in {"early:company"}
  BY StepsLead DEF CloseReadRound, At, Idle
<1>4. CancelReadRound(r) => pc[r] = "idle" /\ pc'[r] \in {"cancel:company"}
  BY StepsLead DEF CancelReadRound, At, Idle
<1>5. RoundCheck(r) => pc[r] = "round:check" /\ pc'[r] \in {"round:insert", "idle"}
  BY StepsLead DEF RoundCheck, At, Idle
<1>6. RoundInsert(r) => pc[r] = "round:insert" /\ pc'[r] \in {"idle"}
  BY StepsLead DEF RoundInsert, At, Idle
<1>7. InvestReadCompany(r) => pc[r] = "invest:company" /\ pc'[r] \in {"invest:judge", "idle"}
  BY StepsLead DEF InvestReadCompany, At, Idle
<1>8. InvestJudge(r) => pc[r] = "invest:judge" /\ pc'[r] \in {"invest:debit", "idle"}
  BY StepsLead DEF InvestJudge, At, Idle
<1>9. InvestDebit(r) => pc[r] = "invest:debit" /\ pc'[r] \in {"invest:round", "idle"}
  BY StepsLead DEF InvestDebit, At, Idle
<1>10. InvestUpdateRound(r) => pc[r] = "invest:round" /\ pc'[r] \in {"invest:total"}
  BY StepsLead DEF InvestUpdateRound, At, Idle
<1>11. InvestUpdateTotal(r) => pc[r] = "invest:total" /\ pc'[r] \in {"invest:capital"}
  BY StepsLead DEF InvestUpdateTotal, At, Idle
<1>12. InvestUpdateCapital(r) => pc[r] = "invest:capital" /\ pc'[r] \in {"invest:holder"}
  BY StepsLead DEF InvestUpdateCapital, At, Idle
<1>13. InvestUpsert(r) => pc[r] = "invest:holder" /\ pc'[r] \in {"invest:credit"}
  BY StepsLead DEF InvestUpsert, At, Idle
<1>14. InvestCredit(r) => pc[r] = "invest:credit" /\ pc'[r] \in {"invest:list", "idle"}
  BY StepsLead DEF InvestCredit, At, Idle
<1>15. InvestList(r) => pc[r] = "invest:list" /\ pc'[r] \in {"invest:insert"}
  BY StepsLead DEF InvestList, At, Idle
<1>16. InvestInsert(r) => pc[r] = "invest:insert" /\ pc'[r] \in {"idle"}
  BY StepsLead DEF InvestInsert, At, Idle
<1>17. CloseReadCompany(r) => pc[r] = "early:company" /\ pc'[r] \in {"early:round", "idle"}
  BY StepsLead DEF CloseReadCompany, At, Idle
<1>18. CloseUpdateRound(r) => pc[r] = "early:round" /\ pc'[r] \in {"early:capital"}
  BY StepsLead DEF CloseUpdateRound, At, Idle
<1>19. CloseUpdateCapital(r) => pc[r] = "early:capital" /\ pc'[r] \in {"early:list"}
  BY StepsLead DEF CloseUpdateCapital, At, Idle
<1>20. CloseList(r) => pc[r] = "early:list" /\ pc'[r] \in {"idle"}
  BY StepsLead DEF CloseList, At, Idle
<1>21. CancelReadCompany(r) => pc[r] = "cancel:company" /\ pc'[r] \in {"cancel:pot"}
  BY StepsLead DEF CancelReadCompany, At, Idle
<1>22. CancelReadPot(r) => pc[r] = "cancel:pot" /\ pc'[r] \in {"cancel:investments", "idle"}
  BY StepsLead DEF CancelReadPot, At, Idle
<1>23. CancelReadInvestments(r) => pc[r] = "cancel:investments" /\ pc'[r] \in {"cancel:debit", "cancel:refund"}
  BY StepsLead DEF CancelReadInvestments, At, Idle
<1>24. CancelDebit(r) => pc[r] = "cancel:debit" /\ pc'[r] \in {"cancel:refund", "idle"}
  BY StepsLead DEF CancelDebit, At, Idle
<1>25. CancelRefund(r) => pc[r] = "cancel:refund" /\ pc'[r] \in {"cancel:shares", "cancel:refund"}
  BY StepsLead DEF CancelRefund, At, Idle
<1>26. CancelShares(r) => pc[r] = "cancel:shares" /\ pc'[r] \in {"cancel:refund"}
  BY StepsLead DEF CancelShares, At, Idle
<1>27. CancelUpdateTotal(r) => pc[r] = "cancel:refund" /\ pc'[r] \in {"cancel:capital"}
  BY StepsLead DEF CancelUpdateTotal, At, Idle
<1>28. CancelUpdateCapital(r) => pc[r] = "cancel:capital" /\ pc'[r] \in {"cancel:status"}
  BY StepsLead DEF CancelUpdateCapital, At, Idle
<1>29. CancelStatus(r) => pc[r] = "cancel:status" /\ pc'[r] \in {"idle"}
  BY StepsLead DEF CancelStatus, At, Idle
<1>30. DividendReadCompany(r) => pc[r] = "idle" /\ pc'[r] \in {"dividend:pot"}
  BY StepsLead DEF DividendReadCompany, At, Idle
<1>31. DividendDebit(r) => pc[r] = "dividend:pot" /\ pc'[r] \in {"dividend:insert", "idle"}
  BY StepsLead DEF DividendDebit, At, Idle
<1>32. DividendInsert(r) => pc[r] = "dividend:insert" /\ pc'[r] \in {"dividend:holders", "idle"}
  BY StepsLead DEF DividendInsert, At, Idle
<1>33. DividendHolders(r) => pc[r] = "dividend:holders" /\ pc'[r] \in {"dividend:pay", "idle"}
  BY StepsLead DEF DividendHolders, At, Idle
<1>34. DividendPay(r) => pc[r] = "dividend:pay" /\ pc'[r] \in {"dividend:row"}
  BY StepsLead DEF DividendPay, At, Idle
<1>35. DividendRow(r) => pc[r] = "dividend:row" /\ pc'[r] \in {"dividend:pay"}
  BY StepsLead DEF DividendRow, At, Idle
<1>36. DividendDone(r) => pc[r] = "dividend:pay" /\ pc'[r] \in {"idle"}
  BY StepsLead DEF DividendDone, At, Idle
<1> QED
  BY <1>1, <1>2, <1>3, <1>4, <1>5, <1>6, <1>7, <1>8, <1>9, <1>10, <1>11, <1>12, <1>13,
  <1>14, <1>15, <1>16, <1>17, <1>18, <1>19, <1>20, <1>21, <1>22, <1>23, <1>24, <1>25,
  <1>26, <1>27, <1>28, <1>29, <1>30, <1>31, <1>32, <1>33, <1>34, <1>35, <1>36
  DEF FundingWork, RoundRequest, InvestSteps, CloseSteps, CancelSteps, DividendSteps, FundingStops

LEMMA MeetingLeads ==
  ASSUME IInv, NEW r \in Requests, Meeting(r)
  PROVE  /\ pc[r] \in {"idle"} \cup GovernanceStops
         /\ pc'[r] \in {"idle"} \cup GovernanceStops
         /\ pc'[r] = "propose:holder" => CreateProposal(r)
         /\ pc'[r] = "propose:unique" => ProposeReadHolder(r)
         /\ pc'[r] = "propose:insert" => ProposeReadActive(r)
         /\ pc'[r] = "close:company" => CastVote(r) \/ AutoTally(r) \/ ReadProposal(r)
         /\ pc'[r] = "vote:holder" => CastVote(r)
         /\ pc'[r] = "execute:company" => ExecuteLiquidation(r)
         /\ pc'[r] = "withdraw:status" => CancelProposal(r)
         /\ pc'[r] = "vote:insert" => VoteReadHolder(r)
         /\ pc'[r] = "auto:company" => VoteInsert(r)
         /\ pc'[r] = "auto:tally" => AutoReadCompany(r)
         /\ pc'[r] = "close:tally" => CloseReadFirm(r)
         /\ pc'[r] = "close:status" => CloseTally(r)
         /\ pc'[r] = "liquidate:pot" => CloseStatus(r) \/ ExecuteReadHolder(r)
         /\ pc'[r] = "execute:holder" => ExecuteReadCompany(r)
         /\ pc'[r] = "liquidate:holders" => LiquidateReadPot(r)
         /\ pc'[r] = "liquidate:debit" => LiquidateReadHolders(r)
         /\ pc'[r] = "liquidate:pay" => LiquidateReadHolders(r) \/ LiquidateDebit(r) \/ LiquidatePay(r)
         /\ pc'[r] = "liquidate:executed" => LiquidateDissolve(r)
         /\ pc'[r] = "liquidate:disclose" => LiquidateExecuted(r)
         /\ pc[r] = "propose:holder" => ProposeReadHolder(r)
         /\ pc[r] = "propose:unique" => ProposeReadActive(r)
         /\ pc[r] = "propose:insert" => ProposeInsert(r)
         /\ pc[r] = "withdraw:status" => WithdrawStatus(r)
         /\ pc[r] = "vote:holder" => VoteReadHolder(r)
         /\ pc[r] = "vote:insert" => VoteInsert(r)
         /\ pc[r] = "auto:company" => AutoReadCompany(r)
         /\ pc[r] = "auto:tally" => AutoTally(r)
         /\ pc[r] = "close:company" => CloseReadFirm(r)
         /\ pc[r] = "close:tally" => CloseTally(r)
         /\ pc[r] = "close:status" => CloseStatus(r)
         /\ pc[r] = "execute:company" => ExecuteReadCompany(r)
         /\ pc[r] = "execute:holder" => ExecuteReadHolder(r)
         /\ pc[r] = "liquidate:pot" => LiquidateReadPot(r)
         /\ pc[r] = "liquidate:holders" => LiquidateReadHolders(r)
         /\ pc[r] = "liquidate:debit" => LiquidateDebit(r)
         /\ pc[r] = "liquidate:pay" => LiquidatePay(r) \/ LiquidateDissolve(r)
         /\ pc[r] = "liquidate:executed" => LiquidateExecuted(r)
         /\ pc[r] = "liquidate:disclose" => LiquidateDisclose(r)
<1>1. CreateProposal(r) => pc[r] = "idle" /\ pc'[r] \in {"propose:holder"}
  BY StepsLead DEF CreateProposal, At, Idle
<1>2. ProposeReadHolder(r) => pc[r] = "propose:holder" /\ pc'[r] \in {"propose:unique", "idle"}
  BY StepsLead DEF ProposeReadHolder, At, Idle
<1>3. ProposeReadActive(r) => pc[r] = "propose:unique" /\ pc'[r] \in {"propose:insert", "idle"}
  BY StepsLead DEF ProposeReadActive, At, Idle
<1>4. ProposeInsert(r) => pc[r] = "propose:insert" /\ pc'[r] \in {"idle"}
  BY StepsLead DEF ProposeInsert, At, Idle
<1>5. CastVote(r) => pc[r] = "idle" /\ pc'[r] \in {"close:company", "vote:holder"}
  BY StepsLead DEF CastVote, At, Idle
<1>6. ExecuteLiquidation(r) => pc[r] = "idle" /\ pc'[r] \in {"execute:company"}
  BY StepsLead DEF ExecuteLiquidation, At, Idle
<1>7. CancelProposal(r) => pc[r] = "idle" /\ pc'[r] \in {"withdraw:status"}
  BY StepsLead DEF CancelProposal, At, Idle
<1>8. WithdrawStatus(r) => pc[r] = "withdraw:status" /\ pc'[r] \in {"idle"}
  BY StepsLead DEF WithdrawStatus, At, Idle
<1>9. VoteReadHolder(r) => pc[r] = "vote:holder" /\ pc'[r] \in {"vote:insert", "idle"}
  BY StepsLead DEF VoteReadHolder, At, Idle
<1>10. VoteInsert(r) => pc[r] = "vote:insert" /\ pc'[r] \in {"auto:company", "idle"}
  BY StepsLead DEF VoteInsert, At, Idle
<1>11. AutoReadCompany(r) => pc[r] = "auto:company" /\ pc'[r] \in {"auto:tally"}
  BY StepsLead DEF AutoReadCompany, At, Idle
<1>12. AutoTally(r) => pc[r] = "auto:tally" /\ pc'[r] \in {"close:company", "idle"}
  BY StepsLead DEF AutoTally, At, Idle
<1>13. ReadProposal(r) => pc[r] = "idle" /\ pc'[r] \in {"close:company"}
  BY StepsLead DEF ReadProposal, At, Idle
<1>14. CloseReadFirm(r) => pc[r] = "close:company" /\ pc'[r] \in {"close:tally"}
  BY StepsLead DEF CloseReadFirm, At, Idle
<1>15. CloseTally(r) => pc[r] = "close:tally" /\ pc'[r] \in {"close:status"}
  BY StepsLead DEF CloseTally, At, Idle
<1>16. CloseStatus(r) => pc[r] = "close:status" /\ pc'[r] \in {"liquidate:pot", "idle"}
  BY StepsLead DEF CloseStatus, At, Idle
<1>17. ExecuteReadCompany(r) => pc[r] = "execute:company" /\ pc'[r] \in {"execute:holder", "idle"}
  BY StepsLead DEF ExecuteReadCompany, At, Idle
<1>18. ExecuteReadHolder(r) => pc[r] = "execute:holder" /\ pc'[r] \in {"liquidate:pot", "idle"}
  BY StepsLead DEF ExecuteReadHolder, At, Idle
<1>19. LiquidateReadPot(r) => pc[r] = "liquidate:pot" /\ pc'[r] \in {"liquidate:holders", "idle"}
  BY StepsLead DEF LiquidateReadPot, At, Idle
<1>20. LiquidateReadHolders(r) => pc[r] = "liquidate:holders" /\ pc'[r] \in {"liquidate:debit", "liquidate:pay"}
  BY StepsLead DEF LiquidateReadHolders, At, Idle
<1>21. LiquidateDebit(r) => pc[r] = "liquidate:debit" /\ pc'[r] \in {"liquidate:pay", "idle"}
  BY StepsLead DEF LiquidateDebit, At, Idle
<1>22. LiquidatePay(r) => pc[r] = "liquidate:pay" /\ pc'[r] \in {"liquidate:pay"}
  BY StepsLead DEF LiquidatePay, At, Idle
<1>23. LiquidateDissolve(r) => pc[r] = "liquidate:pay" /\ pc'[r] \in {"liquidate:executed"}
  BY StepsLead DEF LiquidateDissolve, At, Idle
<1>24. LiquidateExecuted(r) => pc[r] = "liquidate:executed" /\ pc'[r] \in {"liquidate:disclose"}
  BY StepsLead DEF LiquidateExecuted, At, Idle
<1>25. LiquidateDisclose(r) => pc[r] = "liquidate:disclose" /\ pc'[r] \in {"idle"}
  BY StepsLead DEF LiquidateDisclose, At, Idle
<1> QED
  BY <1>1, <1>2, <1>3, <1>4, <1>5, <1>6, <1>7, <1>8, <1>9, <1>10, <1>11, <1>12, <1>13,
  <1>14, <1>15, <1>16, <1>17, <1>18, <1>19, <1>20, <1>21, <1>22, <1>23, <1>24, <1>25
  DEF Meeting, ShareholderRequest, VoteSteps, LiquidateSteps, GovernanceStops

LEMMA WhoMoves ==
  ASSUME IInv, [Next]_vars
  PROVE  \/ \E r \in Requests :
              /\ Serves(r)
              /\ \/ Founding(r) /\ UNCHANGED <<funding, governance>>
                 \/ PaperWork(r) /\ UNCHANGED <<funding, governance>>
                 \/ FundingWork(r) /\ UNCHANGED governance
                 \/ Meeting(r)
         \/ Aside /\ (SharesChangeHands \/ ActivateClassroom) /\ UNCHANGED <<funding, governance>>
         \/ Aside /\ (VotingEnds \/ UNCHANGED vars)
         \/ Restart
<1>1. CASE CompanyNext /\ UNCHANGED <<funding, governance>>
  <2>1. CASE SharesChangeHands \/ ActivateClassroom
    BY <1>1, <2>1 DEF SharesChangeHands, ActivateClassroom, AnswerAtOnce, Arrives, Aside
  <2>2. ASSUME NEW r \in Requests, CompanySteps(r)
        PROVE  Serves(r) /\ (Founding(r) \/ PaperWork(r))
    BY <2>2, FoundingServes, PaperServes DEF CompanySteps, Founding, PaperWork
  <2> QED
    BY <1>1, <2>1, <2>2 DEF CompanyNext
<1>2. CASE FundingNext /\ UNCHANGED governance
  BY <1>2, RoundServes, CloseServes DEF FundingNext, FundingWork
<1>3. CASE GovernanceNext
  <2>1. CASE VotingEnds
    BY <2>1 DEF VotingEnds, server, handlers, control, Aside
  <2> QED
    BY <1>3, <2>1, ProposalServes DEF GovernanceNext, Meeting
<1>4. CASE Quiet \/ UNCHANGED vars
  BY <1>4 DEF Quiet, vars, server, handlers, control, Aside
<1> QED
  BY <1>1, <1>2, <1>3, <1>4 DEF Next

\* What a step is to one handler: it stays where it is, answers, or takes a step.
LEMMA Lanes ==
  ASSUME IInv, [Next]_vars, NEW q \in Requests
  PROVE  \/ Stays(q)
         \/ Restart /\ pc'[q] = "idle"
         \/ Founding(q) /\ UNCHANGED <<funding, governance>>
         \/ PaperWork(q) /\ UNCHANGED <<funding, governance>>
         \/ FundingWork(q) /\ UNCHANGED governance
         \/ Meeting(q)
<1>1. CASE Restart
  BY <1>1 DEF Restart, ServerRestart
<1>2. CASE Aside
  BY <1>2 DEF Aside, handlers, Stays
<1>3. ASSUME NEW r \in Requests, Serves(r), r # q
      PROVE  Stays(q)
  BY <1>3 DEF Serves, Begins, Continues, Only, Stays
<1> QED
  BY <1>1, <1>2, <1>3, WhoMoves

\* Once two requests have been in flight together, they have.
LEMMA StaysOverlapped ==
  ASSUME IInv, [Next]_vars
  PROVE  /\ overlapped => overlapped'
         /\ restarts' = 0 => restarts = 0
<1>1. overlapped \in BOOLEAN /\ restarts \in Nat
  BY ServerAssumption DEF IInv, ControlOK
<1> QED
  BY <1>1, WhoMoves DEF Serves, Begins, Continues, Aside, Restart, ServerRestart

-----------------------------------------------------------------------------
(* One disclosure is rewarded once *)

RewardKey(c, d) == <<c, "disclosure_reward", d>>

\* Not on file yet, or still to be reviewed.
Unreviewed(d) == disclosure[d] = None \/ disclosure[d].status = "pending"

Unrewarded(d) == \A c \in Companies : Entry(log, RewardKey(c, d)).n = 0

\* A review that is on its way is of a disclosure nobody else has reviewed, and once
\* its verdict is written the reward is still to be paid.
RewardedOnce ==
  ~overlapped =>
    /\ \A d \in Disclosures, c \in Companies : Entry(log, RewardKey(c, d)).n \in {0, 1}
    /\ \A d \in Disclosures : Unreviewed(d) => Unrewarded(d)
    /\ \A r \in Requests :
         /\ pc[r] = "review:status" => Reviewable(task[r].id)
         /\ pc[r] = "review:reward" => ~Unreviewed(task[r].id) /\ Unrewarded(task[r].id)

LEMMA ReviewComes ==
  ASSUME IInv, [Next]_vars, NEW q \in Requests
  PROVE  /\ pc'[q] = "review:status" => Stays(q) \/ ReviewDisclosure(q)
         /\ pc'[q] = "review:reward" => Stays(q) \/ ReviewStatus(q)
BY Lanes, FoundingLeads, PaperWorkLeads, FundingLeads, MeetingLeads
   DEF FoundStops, FundingStops, GovernanceStops

\* The handler that moves is the only one that is busy.
LEMMA Alone ==
  ASSUME IInv, AtMostOne, ~overlapped, [Next]_vars, NEW r \in Requests, ~Idle(r),
         NEW q \in Requests, q # r
  PROVE  Idle(q)
BY DEF AtMostOne

LEMMA RewardsAtStart ==
  ASSUME Init
  PROVE  RewardedOnce
BY DEF Init, ServerInit, CompanyInit, RewardedOnce, Entry, Unrewarded

LEMMA RewardPaid ==
  ASSUME IInv, AtMostOne, RewardedOnce, ~overlapped, NEW r \in Requests, ReviewReward(r)
  PROVE  RewardedOnce'
<1> DEFINE t == task[r]
<1>1. t.reward \in Int /\ t.id \in Disclosures
  BY DEF IInv, TaskOK, CompanyTaskOK, ReviewReward, At
<1>2. disclosure' = disclosure /\ overlapped' = overlapped
  BY DEF ReviewReward, papers, Return, GotoWith, control
<1>3. \A q \in Requests : pc'[q] = "idle"
  <2>1. \A q \in Requests : q # r => pc[q] = "idle"
    BY DEF AtMostOne, ReviewReward, At, Idle
  <2> QED
    BY <2>1 DEF ReviewReward, Return, GotoWith, IInv, HandlersOK
<1>4. ~Unreviewed(t.id) /\ Unrewarded(t.id)
  BY DEF RewardedOnce, ReviewReward, At
<1>5. \A c \in Companies, d \in Disclosures : d # t.id =>
        Entry(log', RewardKey(c, d)) = Entry(log, RewardKey(c, d))
  <2>1. \A c \in Companies, d \in Disclosures : d # t.id => RewardKey(c, d) # RewardKey(t.co, t.id)
    BY DEF RewardKey
  <2>2. \/ log' = log
        \/ log' = Logged(log, RewardKey(t.co, t.id), t.reward)
    BY DEF ReviewReward, CreditPot, RewardKey
  <2> HIDE DEF t
  <2> QED
    BY <1>1, <2>1, <2>2, EntryLogged
<1>6. \A c \in Companies : Entry(log', RewardKey(c, t.id)).n \in {0, 1}
  <2> SUFFICES ASSUME NEW c \in Companies
               PROVE  Entry(log', RewardKey(c, t.id)).n \in {0, 1}
    OBVIOUS
  <2>1. Entry(log, RewardKey(c, t.id)).n = 0
    BY <1>4 DEF Unrewarded
  <2>2. \/ log' = log
        \/ log' = Logged(log, RewardKey(t.co, t.id), t.reward)
    BY DEF ReviewReward, CreditPot, RewardKey
  <2> HIDE DEF t
  <2>3. RewardKey(c, t.id) = RewardKey(t.co, t.id) \/ RewardKey(c, t.id) # RewardKey(t.co, t.id)
    OBVIOUS
  <2> QED
    BY <1>1, <2>1, <2>2, <2>3, EntryLogged
<1> HIDE DEF t
<1> QED
  BY <1>2, <1>3, <1>4, <1>5, <1>6 DEF RewardedOnce, Unreviewed, Unrewarded

LEMMA VerdictWritten ==
  ASSUME IInv, AtMostOne, RewardedOnce, ~overlapped, NEW r \in Requests, ReviewStatus(r)
  PROVE  RewardedOnce'
<1> DEFINE t == task[r]
<1>1. t.id \in Disclosures /\ t.verdict \in {"approved", "rejected"} /\ disclosure[t.id] # None
  BY DEF IInv, TaskOK, CompanyTaskOK, ReviewStatus, At
<1>2. log' = log /\ overlapped' = overlapped
  BY DEF ReviewStatus, money, Return, Goto, GotoWith, control
<1>3. /\ \A q \in Requests : q # r => pc'[q] = "idle"
      /\ pc'[r] \in {"idle", "review:reward"}
      /\ pc'[r] = "review:reward" => task'[r] = t
  <2>1. \A q \in Requests : q # r => pc[q] = "idle"
    BY DEF AtMostOne, ReviewStatus, At, Idle
  <2> QED
    BY <2>1 DEF ReviewStatus, Return, Goto, GotoWith, IInv, HandlersOK
<1>4. Unrewarded(t.id)
  BY <1>1 DEF RewardedOnce, ReviewStatus, At, Reviewable, Unreviewed
<1>5. /\ disclosure'[t.id] = With(disclosure[t.id], [status |-> t.verdict, reward |-> t.reward])
      /\ \A d \in Disclosures : d # t.id => disclosure'[d] = disclosure[d]
  BY <1>1 DEF ReviewStatus, IInv, Rows, RowsTyped
<1>6. disclosure'[t.id] # None /\ disclosure'[t.id].status = t.verdict
  <2> DEFINE row == With(disclosure[t.id], [status |-> t.verdict, reward |-> t.reward])
  <2>1. disclosure[t.id] \in Disclosure /\ t.reward \in Int
    BY <1>1, ReviewTask DEF ReviewStatus, At
  <2>2. row \in Disclosure /\ row.status = t.verdict
    BY <1>1, <2>1 DEF With, Disclosure
  <2>3. row # None
    BY <2>2, CompanyAssumption
  <2> QED
    BY <1>5, <2>2, <2>3
<1> HIDE DEF t
<1> QED
  BY <1>1, <1>2, <1>3, <1>4, <1>5, <1>6 DEF RewardedOnce, Unreviewed, Unrewarded

LEMMA RewardsKept ==
  ASSUME IInv, AtMostOne, RewardedOnce, [Next]_vars
  PROVE  RewardedOnce'
<1> SUFFICES ASSUME ~overlapped'
             PROVE  RewardedOnce'
  BY DEF RewardedOnce
<1>0. ~overlapped
  BY StaysOverlapped
<1>1. CASE \E r \in Requests : ReviewReward(r) \/ ReviewStatus(r)
  BY <1>0, <1>1, RewardPaid, VerdictWritten
<1>2. CASE ~\E r \in Requests : ReviewReward(r) \/ ReviewStatus(r)
  <2>1. \A c \in Companies, d \in Disclosures :
          Entry(log', RewardKey(c, d)) = Entry(log, RewardKey(c, d))
    BY <1>2, WhoLogs DEF Writer, Keeps, RewardKey
  <2>2. \A d \in Disclosures :
          /\ disclosure[d] # None => disclosure'[d] = disclosure[d]
          /\ Unreviewed(d)' => Unreviewed(d)
    <3>1. CASE PapersKept
      BY <3>1 DEF PapersKept, Unreviewed
    <3>2. ASSUME NEW r \in Requests, DiscloseInsert(r) \/ LiquidateDisclose(r)
          PROVE  \A d \in Disclosures : disclosure[d] # None => disclosure'[d] = disclosure[d]
      <4>1. disclosure \in [Disclosures -> Disclosure \cup {None}]
        BY DEF IInv, Rows, RowsTyped
      <4>2. \/ disclosure' = disclosure
            \/ \E d \in NextId(disclosure) : \E new : disclosure' = [disclosure EXCEPT ![d] = new]
        BY <3>2 DEF DiscloseInsert, LiquidateDisclose, InsertDisclosure
      <4> QED
        BY <4>1, <4>2 DEF NextId
    <3>3. ASSUME NEW r \in Requests, KpiInsert(r) \/ AdminCredit(r)
          PROVE  disclosure' = disclosure
      BY <3>3 DEF KpiInsert, AdminCredit
    <3>4. \A d \in Disclosures : disclosure[d] # None => disclosure'[d] = disclosure[d]
      BY <1>2, <3>1, <3>2, <3>3, WhoWritesPapers DEF PaperWriter
    <3> QED
      BY <3>4 DEF Unreviewed
  <2>3. ASSUME NEW q \in Requests, pc'[q] = "review:status"
        PROVE  Reviewable(task[q].id)'
    <3>1. CASE Stays(q)
      <4>1. Reviewable(task[q].id) /\ task[q].id \in Disclosures
        BY <1>0, <2>3, <3>1, ReviewTask DEF Stays, RewardedOnce
      <4> QED
        BY <2>2, <3>1, <4>1 DEF Stays, Reviewable
    <3>2. CASE ReviewDisclosure(q)
      <4>1. PICK d \in Disclosures : /\ Reviewable(d)
                                     /\ task'[q].id = d
        BY <3>2 DEF ReviewDisclosure, Receive, IInv, HandlersOK
      <4> QED
        BY <2>2, <4>1 DEF Reviewable
    <3> QED
      BY <2>3, <3>1, <3>2, ReviewComes
  <2>4. ASSUME NEW q \in Requests, pc'[q] = "review:reward"
        PROVE  (~Unreviewed(task[q].id) /\ Unrewarded(task[q].id))'
    <3>1. Stays(q)
      BY <1>2, <2>4, ReviewComes
    <3>2. /\ ~Unreviewed(task[q].id) /\ Unrewarded(task[q].id)
          /\ task[q].id \in Disclosures
      BY <1>0, <2>4, <3>1, ReviewTask DEF Stays, RewardedOnce
    <3>3. Unrewarded(task[q].id)'
      BY <2>1, <3>1, <3>2 DEF Stays, Unrewarded
    <3>4. ~Unreviewed(task[q].id)'
      BY <2>2, <3>1, <3>2 DEF Stays, Unreviewed
    <3> QED
      BY <3>3, <3>4
  <2>5. \A d \in Disclosures : Unreviewed(d)' => Unrewarded(d)'
    BY <1>0, <2>1, <2>2 DEF RewardedOnce, Unrewarded
  <2>6. \A d \in Disclosures, c \in Companies : Entry(log', RewardKey(c, d)).n \in {0, 1}
    BY <1>0, <2>1 DEF RewardedOnce
  <2> QED
    BY <2>3, <2>4, <2>5, <2>6 DEF RewardedOnce
<1> QED
  BY <1>1, <1>2

-----------------------------------------------------------------------------
(* A founder pays the initial capital *)

\* No company comes into being.
NoneNew == \A c \in Companies : Exists(c)' => Exists(c)

LEMMA RowUpdated ==
  ASSUME IInv, NEW c \in Companies, Exists(c), NEW row, firm' = [firm EXCEPT ![c] = row]
  PROVE  NoneNew
<1>1. firm \in [Companies -> Firm \cup {None}]
  BY DEF IInv, Rows, RowsTyped
<1> QED
  BY <1>1 DEF NoneNew, Exists

LEMMA FirmsKept ==
  ASSUME firm' = firm
  PROVE  NoneNew
BY DEF NoneNew, Exists

LEMMA FundingFoundsNone ==
  ASSUME IInv, NEW r \in Requests, FundingWork(r)
  PROVE  NoneNew
<1>1. CASE InvestUpdateTotal(r) \/ InvestUpdateCapital(r) \/ InvestList(r)
  <2>1. task[r].row.co \in Companies /\ Exists(task[r].row.co)
    BY <1>1, InvestTyped DEF InvestUpdateTotal, InvestUpdateCapital, InvestList, At, InvestLabels
  <2> QED
    BY <1>1, <2>1, RowUpdated DEF InvestUpdateTotal, InvestUpdateCapital, InvestList,
       UpdateTotalShares, UpdateCapitalAndValuation, UpdateListed
<1>2. CASE CloseUpdateCapital(r) \/ CloseList(r)
  <2>1. task[r].row.co \in Companies /\ Exists(task[r].row.co)
    BY <1>2, CloseTyped DEF CloseUpdateCapital, CloseList, At, EarlyLabels
  <2> QED
    BY <1>2, <2>1, RowUpdated DEF CloseUpdateCapital, CloseList, UpdateCapitalAndValuation,
       UpdateListed
<1>3. CASE CancelUpdateTotal(r) \/ CancelUpdateCapital(r)
  <2>1. task[r].row.co \in Companies /\ Exists(task[r].row.co)
    BY <1>3, CancelTyped DEF CancelUpdateTotal, CancelUpdateCapital, At, CancelLabels
  <2> QED
    BY <1>3, <2>1, RowUpdated DEF CancelUpdateTotal, CancelUpdateCapital, UpdateTotalShares,
       UpdateCapitalAndValuation
<1>4. CASE RoundRequest(r) \/ RoundCheck(r) \/ RoundInsert(r)
  BY <1>4, FirmsKept DEF RoundRequest, CreateRound, InvestReadRound, CloseReadRound,
     CancelReadRound, RoundCheck, RoundInsert, company, books
<1>5. CASE InvestSteps(r)
  BY <1>1, <1>5, FirmsKept DEF InvestSteps, InvestReadCompany, InvestJudge, InvestDebit,
     InvestUpdateRound, InvestUpsert, InvestCredit, InvestInsert, company, books
<1>6. CASE CloseSteps(r) \/ CancelSteps(r)
  BY <1>2, <1>3, <1>6, FirmsKept DEF CloseSteps, CloseReadCompany, CloseUpdateRound,
     CancelSteps, CancelReadCompany, CancelReadPot, CancelReadInvestments, CancelDebit,
     CancelRefund, CancelShares, CancelStatus, company, books
<1>7. CASE DividendSteps(r)
  BY <1>7, FirmsKept DEF DividendSteps, DividendReadCompany, DividendDebit, DividendInsert,
     DividendHolders, DividendPay, DividendRow, DividendDone, company, books
<1> QED
  BY <1>4, <1>5, <1>6, <1>7 DEF FundingWork

LEMMA MeetingFoundsNone ==
  ASSUME IInv, NEW r \in Requests, Meeting(r)
  PROVE  NoneNew
<1>1. CASE LiquidateDissolve(r)
  <2>1. task[r].co \in Companies /\ Exists(task[r].co)
    BY <1>1, PayTyped DEF LiquidateDissolve, At, PayLabels, Decides
  <2> QED
    BY <1>1, <2>1, RowUpdated DEF LiquidateDissolve
<1>2. CASE LiquidateSteps(r)
  BY <1>1, <1>2, FirmsKept DEF LiquidateSteps, ExecuteReadCompany, ExecuteReadHolder,
     LiquidateReadPot, LiquidateReadHolders, LiquidateDebit, LiquidatePay, LiquidateExecuted,
     LiquidateDisclose, company, books
<1>3. CASE \/ CreateProposal(r) \/ ProposeReadHolder(r) \/ ProposeReadActive(r)
           \/ ProposeInsert(r) \/ ShareholderRequest(r) \/ WithdrawStatus(r)
  BY <1>3, FirmsKept DEF CreateProposal, ProposeReadHolder, ProposeReadActive, ProposeInsert,
     ShareholderRequest, CastVote, ExecuteLiquidation, CancelProposal, WithdrawStatus,
     company, books
<1>4. CASE VoteSteps(r) \/ ReadProposal(r) \/ CloseReadFirm(r) \/ CloseTally(r) \/ CloseStatus(r)
  BY <1>4, FirmsKept DEF VoteSteps, VoteReadHolder, VoteInsert, AutoReadCompany, AutoTally,
     ReadProposal, CloseReadFirm, CloseTally, CloseStatus, company, books
<1> QED
  BY <1>2, <1>3, <1>4 DEF Meeting

LEMMA OnlyFoundersFound ==
  ASSUME IInv, [Next]_vars
  PROVE  NoneNew \/ \E r \in Requests : FoundCreate(r)
<1>1. ASSUME NEW r \in Requests, Founding(r)
      PROVE  NoneNew \/ FoundCreate(r)
  <2>1. CASE FoundList(r)
    <3>1. task[r].co \in Companies /\ Exists(task[r].co)
      BY <2>1, FoundedTask DEF FoundList, At
    <3> QED
      BY <2>1, <3>1, RowUpdated DEF FoundList, UpdateListed
  <2> QED
    BY <1>1, <2>1, FirmsKept DEF Founding, CreateCompany, FoundFindWallet, FoundDebit,
       FoundWallet, FoundShareholder, company, books
<1>2. ASSUME NEW r \in Requests, PaperWork(r)
      PROVE  NoneNew
  BY <1>2, FirmsKept DEF PaperWork, OwnerRequest, CreateDisclosure, Transfer, DiscloseInsert,
     ReviewDisclosure, ReviewStatus, ReviewReward, TransferDebit, TransferCredit,
     AddKpiRevenue, KpiCredit, KpiInsert, AdminCompanyCredit, AdminCredit, company, books
<1>3. CASE SharesChangeHands \/ ActivateClassroom
  BY <1>3, FirmsKept DEF SharesChangeHands, ActivateClassroom, company, books
<1>4. CASE VotingEnds \/ Restart \/ UNCHANGED vars
  BY <1>4, FirmsKept DEF VotingEnds, Restart, vars, company, books
<1> QED
  BY <1>1, <1>2, <1>3, <1>4, WhoMoves, FundingFoundsNone, MeetingFoundsNone

\* What a user has been charged for founding, what the companies founded were given,
\* and what requests still hold that have been charged and have founded nothing yet.
FeeKey(u, k) == <<<<u, k>>, "company_funding", "new">>

Fees(l, u) == SumOf([k \in Classrooms |-> Entry(l, FeeKey(u, k)).sum], Classrooms)

FeesTyped == \A u \in Users, k \in Classrooms : Entry(log, FeeKey(u, k)).sum \in Int

Capital(u) == SumOf([c \in Founded(u) |-> firm[c].initial], Founded(u))

Charged(u) == {r \in Requests : pc[r] = "found:company" /\ task[r].user = u}

OnHold(u) == SumOf([r \in Charged(u) |-> task[r].capital], Charged(u))

FoundersPay ==
  /\ FeesTyped
  /\ \A c \in Companies : StartFirm[c] # None => Exists(c)
  /\ restarts = 0 => \A u \in Users : Fees(log, u) = -Capital(u) - OnHold(u)

LEMMA FeesKept ==
  ASSUME FeesTyped, Keeps("company_funding")
  PROVE  FeesTyped' /\ \A u \in Users : Fees(log', u) = Fees(log, u)
<1>1. \A u, k : Entry(log', FeeKey(u, k)) = Entry(log, FeeKey(u, k))
  BY DEF Keeps, FeeKey
<1>2. FeesTyped'
  BY <1>1 DEF FeesTyped
<1>3. ASSUME NEW u \in Users
      PROVE  Fees(log', u) = Fees(log, u)
  <2> DEFINE f == [k \in Classrooms |-> Entry(log, FeeKey(u, k)).sum]
             g == [k \in Classrooms |-> Entry(log', FeeKey(u, k)).sum]
  <2>1. \A k \in Classrooms : f[k] \in Int /\ f[k] = g[k]
    BY <1>1 DEF FeesTyped
  <2>2. SumOf(f, Classrooms) = SumOf(g, Classrooms)
    <3> HIDE DEF f, g
    <3> QED
      BY <2>1, SumsAgree, CompanyAssumption
  <2> QED
    BY <2>2 DEF Fees
<1> QED
  BY <1>2, <1>3

LEMMA FeeEntered ==
  ASSUME FeesTyped, NEW v \in Users, NEW j \in Classrooms, NEW n \in Int,
         log' = Logged(log, FeeKey(v, j), n)
  PROVE  FeesTyped' /\ \A u \in Users : Fees(log', u) = IF u = v THEN Fees(log, u) + n
                                                        ELSE Fees(log, u)
<1>1. Entry(log', FeeKey(v, j)).sum = Entry(log, FeeKey(v, j)).sum + n
  BY EntryLogged
<1>2. ASSUME NEW u \in Users, NEW k \in Classrooms, u # v \/ k # j
      PROVE  Entry(log', FeeKey(u, k)) = Entry(log, FeeKey(u, k))
  <2>1. FeeKey(u, k) # FeeKey(v, j)
    BY <1>2 DEF FeeKey
  <2> QED
    BY <2>1, EntryLogged
<1>3. FeesTyped'
  BY <1>1, <1>2 DEF FeesTyped
<1>4. ASSUME NEW u \in Users
      PROVE  Fees(log', u) = IF u = v THEN Fees(log, u) + n ELSE Fees(log, u)
  <2> DEFINE f == [k \in Classrooms |-> Entry(log, FeeKey(u, k)).sum]
             g == [k \in Classrooms |-> Entry(log', FeeKey(u, k)).sum]
  <2>1. \A k \in Classrooms : f[k] \in Int /\ g[k] \in Int
    BY <1>3 DEF FeesTyped
  <2>2. \A k \in Classrooms : u # v \/ k # j => g[k] = f[k]
    BY <1>2
  <2>3. u = v => g[j] = f[j] + n
    BY <1>1
  <2>4. SumOf(g, Classrooms) = IF u = v THEN SumOf(f, Classrooms) + n ELSE SumOf(f, Classrooms)
    <3> HIDE DEF f, g
    <3>0. IsFiniteSet(Classrooms)
      BY CompanyAssumption
    <3>1. SumOf(f, Classrooms) \in Int
      BY <2>1, <3>0, SumIsInt
    <3>2. CASE u = v
      <4>0. \A k \in Classrooms : k # j => g[k] = f[k]
        BY <2>2, <3>2
      <4>1. SumOf(g, Classrooms) = SumOf(f, Classrooms) - f[j] + g[j]
        BY <2>1, <3>0, <4>0, SumWrite
      <4> QED
        BY <2>1, <2>3, <3>1, <3>2, <4>1
    <3>3. CASE u # v
      BY <2>1, <2>2, <3>0, <3>3, SumsAgree
    <3> QED
      BY <3>2, <3>3
  <2> QED
    BY <2>4 DEF Fees
<1> QED
  BY <1>3, <1>4

LEMMA CapitalKept ==
  ASSUME IInv, Grows, NoneNew
  PROVE  \A u \in Users : Capital(u)' = Capital(u)
<1> SUFFICES ASSUME NEW u \in Users
             PROVE  Capital(u)' = Capital(u)
  OBVIOUS
<1> DEFINE S == Founded(u)
           f == [c \in S |-> firm[c].initial]
           g == [c \in S |-> firm'[c].initial]
<1>1. Founded(u)' = S
  BY DEF Founded, Owns, Grows, NoneNew
<1>2. \A c \in S : f[c] \in Int /\ f[c] = g[c]
  BY DEF Founded, Owns, Exists, Grows, IInv, Rows, RowsTyped, Firm
<1>3. IsFiniteSet(S)
  BY CompanyAssumption, FS_Subset DEF Founded
<1>4. SumOf(f, S) = SumOf(g, S)
  <2> HIDE DEF f, g, S
  <2> QED
    BY <1>2, <1>3, SumsAgree
<1> QED
  BY <1>1, <1>4, Zenon DEF Capital

LEMMA CapitalAdded ==
  ASSUME IInv, Grows, NEW c \in Companies, ~Exists(c), StartFirm[c] = None,
         NEW v \in Users, NEW n \in Nat,
         \A d \in Companies : d # c => firm'[d] = firm[d],
         firm'[c] # None, firm'[c].owner = v, firm'[c].initial = n
  PROVE  \A u \in Users : Capital(u)' = IF u = v THEN Capital(u) + n ELSE Capital(u)
<1> SUFFICES ASSUME NEW u \in Users
             PROVE  Capital(u)' = IF u = v THEN Capital(u) + n ELSE Capital(u)
  OBVIOUS
<1> DEFINE S == Founded(u)
           T == Founded(u)'
           f == [d \in S |-> firm[d].initial]
           g == [d \in T |-> firm'[d].initial]
<1>1. T = IF u = v THEN S \cup {c} ELSE S
  BY DEF Founded, Owns, Exists
<1>2. c \notin S /\ \A d \in S : d \in T /\ f[d] \in Int /\ g[d] = f[d]
  <2>1. c \notin S /\ \A d \in S : d \in T /\ g[d] = f[d]
    BY <1>1 DEF Founded, Owns
  <2>2. \A d \in S : firm[d] \in Firm
    BY DEF Founded, Owns, Exists, IInv, Rows, RowsTyped
  <2> QED
    BY <2>1, <2>2 DEF Firm
<1>3. IsFiniteSet(S)
  BY CompanyAssumption, FS_Subset DEF Founded
<1>4. u = v => g[c] = n
  BY <1>1
<1>5. SumOf(g, T) = IF u = v THEN SumOf(f, S) + n ELSE SumOf(f, S)
  <2> HIDE DEF f, g, S, T
  <2>1. CASE u = v
    <3>1. T = S \cup {c} /\ g[c] = n /\ g[c] \in Int
      BY <1>1, <1>4, <2>1
    <3>2. c \notin S /\ \A d \in S : f[d] \in Int /\ g[d] = f[d]
      BY <1>2, <3>1
    <3>3. SumOf(g, T) = SumOf(f, S) + g[c]
      BY <1>3, <3>1, <3>2, SumInsert
    <3> QED
      BY <2>1, <3>1, <3>3
  <2>2. CASE u # v
    <3>1. T = S
      BY <1>1, <2>2
    <3>2. SumOf(f, S) = SumOf(g, S)
      BY <1>2, <1>3, SumsAgree
    <3> QED
      BY <2>2, <3>1, <3>2
  <2> QED
    BY <2>1, <2>2
<1> QED
  BY <1>5, Zenon DEF Capital

LEMMA ChargedTask ==
  ASSUME IInv, NEW r \in Requests, pc[r] \in {"found:debit", "found:company"}
  PROVE  /\ task[r] \in [user : Users, co : Companies, capital : Capitals, room : Classrooms,
                         w : Wallets]
         /\ task[r].w[1] = task[r].user /\ task[r].capital \in Nat
<1>1. /\ task[r] \in [user : Users, co : Companies, capital : Capitals, room : Classrooms,
                      w : Wallets]
      /\ task[r].w[1] = task[r].user
  BY DEF IInv, TaskOK, CompanyTaskOK
<1>2. task[r].capital \in Capitals
  BY <1>1
<1> QED
  BY <1>1, <1>2, AmountsAreNat

\* Who is charged, when the handlers in S are there before, and those in T after.
LEMMA HoldKept ==
  ASSUME IInv, \A q \in Requests : pc[q] = "found:company" \/ pc'[q] = "found:company" => Stays(q)
  PROVE  \A u \in Users : OnHold(u)' = OnHold(u)
<1> SUFFICES ASSUME NEW u \in Users
             PROVE  OnHold(u)' = OnHold(u)
  OBVIOUS
<1> DEFINE S == Charged(u)
           f == [q \in S |-> task[q].capital]
           g == [q \in S |-> task'[q].capital]
<1>1. Charged(u)' = S
  BY DEF Charged, Stays
<1>2. \A q \in S : f[q] \in Int /\ f[q] = g[q]
  BY ChargedTask DEF Charged, Stays
<1>3. IsFiniteSet(S)
  BY ServerAssumption, FS_Subset DEF Charged
<1>4. SumOf(f, S) = SumOf(g, S)
  <2> HIDE DEF f, g, S
  <2> QED
    BY <1>2, <1>3, SumsAgree
<1> QED
  BY <1>1, <1>4, Zenon DEF OnHold

LEMMA HoldBegins ==
  ASSUME IInv, NEW r \in Requests, pc[r] = "found:debit", Only(r),
         pc'[r] = "found:company", task'[r] = task[r]
  PROVE  \A u \in Users : OnHold(u)' = IF u = task[r].user THEN OnHold(u) + task[r].capital
                                       ELSE OnHold(u)
<1> SUFFICES ASSUME NEW u \in Users
             PROVE  OnHold(u)' = IF u = task[r].user THEN OnHold(u) + task[r].capital
                                 ELSE OnHold(u)
  OBVIOUS
<1> DEFINE v == task[r].user
           n == task[r].capital
           S == Charged(u)
           T == Charged(u)'
           f == [q \in S |-> task[q].capital]
           g == [q \in T |-> task'[q].capital]
<1>1. T = IF u = v THEN S \cup {r} ELSE S
  BY DEF Charged, Only
<1>2. r \notin S /\ \A q \in S : q \in T /\ f[q] \in Int /\ g[q] = f[q]
  BY <1>1, ChargedTask DEF Charged, Only
<1>3. IsFiniteSet(S)
  BY ServerAssumption, FS_Subset DEF Charged
<1>4. (u = v => g[r] = n) /\ n \in Int
  BY <1>1, ChargedTask
<1>5. SumOf(g, T) = IF u = v THEN SumOf(f, S) + n ELSE SumOf(f, S)
  <2> HIDE DEF f, g, S, T, v, n
  <2>1. CASE u = v
    <3>1. T = S \cup {r} /\ g[r] = n /\ g[r] \in Int
      BY <1>1, <1>4, <2>1
    <3>2. r \notin S /\ \A q \in S : f[q] \in Int /\ g[q] = f[q]
      BY <1>2, <3>1
    <3>3. SumOf(g, T) = SumOf(f, S) + g[r]
      BY <1>3, <3>1, <3>2, SumInsert
    <3> QED
      BY <2>1, <3>1, <3>3
  <2>2. CASE u # v
    <3>1. T = S
      BY <1>1, <2>2
    <3>2. SumOf(f, S) = SumOf(g, S)
      BY <1>2, <1>3, <3>1, SumsAgree
    <3> QED
      BY <2>2, <3>1, <3>2
  <2> QED
    BY <2>1, <2>2
<1> QED
  BY <1>5, Zenon DEF OnHold

LEMMA HoldEnds ==
  ASSUME IInv, NEW r \in Requests, pc[r] = "found:company", Only(r), pc'[r] # "found:company"
  PROVE  \A u \in Users : OnHold(u)' = IF u = task[r].user THEN OnHold(u) - task[r].capital
                                       ELSE OnHold(u)
<1> SUFFICES ASSUME NEW u \in Users
             PROVE  OnHold(u)' = IF u = task[r].user THEN OnHold(u) - task[r].capital
                                 ELSE OnHold(u)
  OBVIOUS
<1> DEFINE v == task[r].user
           n == task[r].capital
           S == Charged(u)
           T == Charged(u)'
           f == [q \in S |-> task[q].capital]
           g == [q \in T |-> task'[q].capital]
<1>1. T = IF u = v THEN S \ {r} ELSE S
  BY DEF Charged, Only
<1>2. \A q \in S : f[q] \in Int /\ (q # r => q \in T /\ g[q] = f[q])
  BY ChargedTask DEF Charged, Only
<1>3. IsFiniteSet(S)
  BY ServerAssumption, FS_Subset DEF Charged
<1>4. (u = v <=> r \in S) /\ (u = v => f[r] = n)
  BY DEF Charged
<1>5. SumOf(g, T) = IF u = v THEN SumOf(f, S) - n ELSE SumOf(f, S)
  <2> HIDE DEF f, g, S, T, v, n
  <2>1. CASE u = v
    <3>1. T = S \ {r} /\ f[r] = n /\ r \in S
      BY <1>1, <1>4, <2>1
    <3>2. SumOf(g, S \ {r}) = SumOf(f, S) - f[r]
      BY <1>2, <1>3, <3>1, SumDelete
    <3> QED
      BY <2>1, <3>1, <3>2
  <2>2. CASE u # v
    <3>1. T = S /\ r \notin S
      BY <1>1, <1>4, <2>2
    <3>2. SumOf(f, S) = SumOf(g, S)
      BY <1>2, <1>3, <3>1, SumsAgree
    <3> QED
      BY <2>2, <3>1, <3>2
  <2> QED
    BY <2>1, <2>2
<1> QED
  BY <1>5, Zenon DEF OnHold

LEMMA HoldsAreInt ==
  ASSUME IInv, NEW u \in Users
  PROVE  Capital(u) \in Int /\ OnHold(u) \in Int
<1> DEFINE S == Founded(u)
           f == [c \in S |-> firm[c].initial]
           T == Charged(u)
           g == [q \in T |-> task[q].capital]
<1>1. IsFiniteSet(S) /\ IsFiniteSet(T)
  BY ServerAssumption, CompanyAssumption, FS_Subset DEF Founded, Charged
<1>2. \A c \in S : firm[c] \in Firm
  BY DEF Founded, Owns, Exists, IInv, Rows, RowsTyped
<1>3. \A c \in S : f[c] \in Int
  BY <1>2 DEF Firm
<1>4. \A q \in T : g[q] \in Int
  BY ChargedTask DEF Charged
<1>5. SumOf(f, S) \in Int /\ SumOf(g, T) \in Int
  <2> HIDE DEF f, g, S, T
  <2> QED
    BY <1>1, <1>3, <1>4, SumIsInt
<1> QED
  BY <1>5, Zenon DEF Capital, OnHold

LEMMA FounderTask ==
  ASSUME IInv, NEW r \in Requests, pc[r] \in {"found:debit", "found:company"}
  PROVE  LET t == task[r]
         IN  /\ t.user \in Users /\ t.co \in Companies /\ t.capital \in Nat
             /\ \E j \in Classrooms : <<t.w, "company_funding", "new">> = FeeKey(t.user, j)
BY ChargedTask DEF Wallets, FeeKey

LEMMA FounderCharged ==
  ASSUME IInv, FoundersPay, Grows, NoneNew, NEW r \in Requests, FoundDebit(r)
  PROVE  FoundersPay'
<1> DEFINE v == task[r].user
           n == task[r].capital
<1>1. pc[r] = "found:debit" /\ v \in Users /\ n \in Nat
  BY FounderTask DEF FoundDebit, At
<1>2. Only(r) /\ restarts' = restarts
  BY FoundingServes DEF Serves, Begins, Continues
<1>3. \A c \in Companies : StartFirm[c] # None => Exists(c)'
  BY DEF FoundersPay, Grows
<1>4. \A u \in Users : Capital(u)' = Capital(u)
  BY CapitalKept
<1>5. CASE pc'[r] = "found:company"
  <2>1. PICK j \in Classrooms : <<task[r].w, "company_funding", "new">> = FeeKey(v, j)
    BY <1>1, FounderTask
  <2>2. log' = Logged(log, FeeKey(v, j), -n) /\ task'[r] = task[r]
    BY <1>5, <2>1, StepsLead DEF FoundDebit, Debit, Goto
  <2>3. \A u \in Users : OnHold(u)' = IF u = v THEN OnHold(u) + n ELSE OnHold(u)
    BY <1>1, <1>2, <1>5, <2>2, HoldBegins
  <2> HIDE DEF v, n
  <2>4. /\ FeesTyped'
        /\ \A u \in Users : Fees(log', u) = IF u = v THEN Fees(log, u) + (-n) ELSE Fees(log, u)
    <3>1. -n \in Int
      BY <1>1
    <3> QED
      BY <1>1, <2>2, <3>1, FeeEntered DEF FoundersPay
  <2>5. ASSUME restarts' = 0, NEW u \in Users
        PROVE  Fees(log, u)' = -Capital(u)' - OnHold(u)'
    <3>1. Fees(log, u) = -Capital(u) - OnHold(u) /\ Capital(u) \in Int /\ OnHold(u) \in Int
      BY <1>2, <2>5, HoldsAreInt DEF FoundersPay
    <3>2. Fees(log, u)' = Fees(log', u)
      BY Zenon DEF Fees
    <3> QED
      BY <1>1, <1>4, <2>3, <2>4, <3>1, <3>2
  <2> QED
    BY <1>3, <2>4, <2>5 DEF FoundersPay
<1>6. CASE pc'[r] # "found:company"
  <2>1. log' = log
    BY <1>6, StepsLead DEF FoundDebit, money
  <2>2. FeesTyped' /\ \A u \in Users : Fees(log, u)' = Fees(log, u)
    BY <2>1, FeesKept, NoneLogged DEF FoundersPay, Fees
  <2>3. \A u \in Users : OnHold(u)' = OnHold(u)
    BY <1>1, <1>2, <1>6, HoldKept DEF Only, Stays
  <2> QED
    BY <1>2, <1>3, <1>4, <2>2, <2>3 DEF FoundersPay
<1> QED
  BY <1>5, <1>6

LEMMA FounderFounds ==
  ASSUME IInv, FoundersPay, Grows, NEW r \in Requests, FoundCreate(r)
  PROVE  FoundersPay'
<1> DEFINE v == task[r].user
           n == task[r].capital
           c == task[r].co
<1>1. pc[r] = "found:company" /\ v \in Users /\ n \in Nat /\ c \in Companies
  BY FounderTask DEF FoundCreate, At
<1>2. Only(r) /\ restarts' = restarts /\ pc'[r] # "found:company"
  BY FoundingServes, FoundingLeads DEF Serves, Begins, Continues, Founding, FoundCreate, Goto,
     GotoWith, Return, IInv, HandlersOK
<1>3. \A d \in Companies : StartFirm[d] # None => Exists(d)'
  BY DEF FoundersPay, Grows
<1>4. \A u \in Users : OnHold(u)' = IF u = v THEN OnHold(u) - n ELSE OnHold(u)
  BY <1>1, <1>2, HoldEnds
<1>5. \A u \in Users : Capital(u) \in Int /\ OnHold(u) \in Int
  BY HoldsAreInt
<1>6. CASE Exists(c)
  <2>1. PICK j \in Classrooms : <<task[r].w, "company_funding", "new">> = FeeKey(v, j)
    BY <1>1, FounderTask
  <2>2. log' = Logged(log, FeeKey(v, j), n) /\ firm' = firm
    BY <1>6, <2>1 DEF FoundCreate, Credit
  <2>3. \A u \in Users : Capital(u)' = Capital(u)
    BY <2>2, CapitalKept, FirmsKept
  <2> HIDE DEF v, n, c
  <2>4. /\ FeesTyped'
        /\ \A u \in Users : Fees(log', u) = IF u = v THEN Fees(log, u) + n ELSE Fees(log, u)
    <3>1. n \in Int
      BY <1>1
    <3> QED
      BY <1>1, <2>2, <3>1, FeeEntered DEF FoundersPay
  <2>5. ASSUME restarts' = 0, NEW u \in Users
        PROVE  Fees(log, u)' = -Capital(u)' - OnHold(u)'
    <3>1. Fees(log, u) = -Capital(u) - OnHold(u)
      BY <1>2, <2>5 DEF FoundersPay
    <3>2. Fees(log, u)' = Fees(log', u)
      BY Zenon DEF Fees
    <3> QED
      BY <1>1, <1>4, <1>5, <2>3, <2>4, <3>1, <3>2
  <2> QED
    BY <1>3, <2>4, <2>5 DEF FoundersPay
<1>7. CASE ~Exists(c)
  <2>1. /\ \A d \in Companies : d # c => firm'[d] = firm[d]
        /\ firm'[c] = NewFirm(task[r])
        /\ log' = log
    BY <1>1, <1>7 DEF FoundCreate, money, IInv, Rows, RowsTyped
  <2>2. firm'[c].owner = v /\ firm'[c].initial = n
    BY <2>1 DEF NewFirm
  <2>3. NewFirm(task[r]) \in Firm
    BY <1>1, ChargedTask, CompanyAssumption DEF NewFirm, Firm
  <2>4. firm'[c] # None
    BY <2>1, <2>3, CompanyAssumption
  <2>5. StartFirm[c] = None
    BY <1>1, <1>7 DEF FoundersPay
  <2> HIDE DEF v, n, c
  <2>6. \A u \in Users : Capital(u)' = IF u = v THEN Capital(u) + n ELSE Capital(u)
    BY <1>1, <1>7, <2>1, <2>2, <2>4, <2>5, CapitalAdded
  <2>7. FeesTyped' /\ \A u \in Users : Fees(log, u)' = Fees(log, u)
    BY <2>1, FeesKept, NoneLogged DEF FoundersPay, Fees
  <2>8. ASSUME restarts' = 0, NEW u \in Users
        PROVE  Fees(log, u)' = -Capital(u)' - OnHold(u)'
    <3>1. Fees(log, u) = -Capital(u) - OnHold(u)
      BY <1>2, <2>8 DEF FoundersPay
    <3> QED
      BY <1>1, <1>4, <1>5, <2>6, <2>7, <3>1
  <2> QED
    BY <1>3, <2>7, <2>8 DEF FoundersPay
<1> QED
  BY <1>6, <1>7

LEMMA ChargeComesAndGoes ==
  ASSUME IInv, [Next]_vars, NEW q \in Requests
  PROVE  /\ pc'[q] = "found:company" => Stays(q) \/ FoundDebit(q)
         /\ pc[q] = "found:company" => Stays(q) \/ FoundCreate(q) \/ Restart
<1>1. Restart => pc'[q] = "idle"
  BY DEF Restart, ServerRestart
<1> QED
  BY <1>1, Lanes, FoundingLeads, PaperWorkLeads, FundingLeads, MeetingLeads
     DEF CompanyStops, FoundStops, FundingStops, GovernanceStops

LEMMA FoundersAtStart ==
  ASSUME Init
  PROVE  FoundersPay
<1>1. FeesTyped
  BY DEF Init, ServerInit, FeesTyped, Entry
<1>2. \A c \in Companies : StartFirm[c] # None => Exists(c)
  BY DEF Init, CompanyInit, Exists
<1>3. ASSUME NEW u \in Users
      PROVE  Fees(log, u) = 0 /\ Capital(u) = 0 /\ OnHold(u) = 0
  <2>1. Founded(u) = {}
    BY DEF Init, CompanyInit, Founded, Owns, Exists
  <2>2. Charged(u) = {}
    BY DEF Init, ServerInit, Charged
  <2>3. \A k \in Classrooms : [j \in Classrooms |-> Entry(log, FeeKey(u, j)).sum][k] = 0
    BY DEF Init, ServerInit, Entry
  <2>4. Fees(log, u) = 0
    BY <2>3, CompanyAssumption, SumOfZeroes DEF Fees
  <2> QED
    BY <2>1, <2>2, <2>4, SumOfNothing DEF Capital, OnHold
<1> QED
  BY <1>1, <1>2, <1>3 DEF FoundersPay

LEMMA FoundersKept ==
  ASSUME IInv, FoundersPay, [Next]_vars
  PROVE  FoundersPay'
<1>1. Grows
  BY InvariantKept
<1>2. CASE \E r \in Requests : FoundCreate(r)
  BY <1>1, <1>2, FounderFounds
<1>3. CASE \E r \in Requests : FoundDebit(r)
  BY <1>1, <1>3, FounderCharged, FirmsKept DEF FoundDebit, company, books
<1>4. CASE ~\E r \in Requests : FoundDebit(r) \/ FoundCreate(r)
  <2>1. Keeps("company_funding")
    BY <1>4, WhoLogs DEF Writer
  <2>2. FeesTyped' /\ \A u \in Users : Fees(log, u)' = Fees(log, u)
    BY <2>1, FeesKept DEF FoundersPay, Fees
  <2>3. \A u \in Users : Capital(u)' = Capital(u)
    BY <1>1, <1>4, CapitalKept, OnlyFoundersFound
  <2>4. restarts' = 0 => \A u \in Users : OnHold(u)' = OnHold(u)
    <3>1. restarts' = 0 => ~Restart
      BY ServerAssumption DEF Restart, ServerRestart, IInv, ControlOK
    <3>2. restarts' = 0 => \A q \in Requests :
            pc[q] = "found:company" \/ pc'[q] = "found:company" => Stays(q)
      BY <1>4, <3>1, ChargeComesAndGoes
    <3> QED
      BY <3>2, HoldKept
  <2>5. restarts' = 0 => restarts = 0
    BY StaysOverlapped
  <2>6. \A c \in Companies : StartFirm[c] # None => Exists(c)'
    BY <1>1 DEF FoundersPay, Grows
  <2> QED
    BY <2>2, <2>3, <2>4, <2>5, <2>6 DEF FoundersPay
<1> QED
  BY <1>2, <1>3, <1>4

LEMMA PaidByEntry ==
  ASSUME NEW u
  PROVE  PaidFor(u, "company_funding", "new") = Fees(log, u)
BY Zenon DEF PaidFor, LogSum, Fees, FeeKey, Entry

BooksInv == AtMostOne /\ KeysMoveMoneyOnce /\ RewardedOnce /\ FoundersPay

LEMMA BooksKept ==
  ASSUME IInv, BooksInv, [Next]_vars
  PROVE  BooksInv'
BY OneAtATime, KeysKept, RewardsKept, FoundersKept DEF BooksInv

LEMMA BooksAtStart ==
  ASSUME Init
  PROVE  BooksInv
<1>1. AtMostOne
  BY DEF Init, ServerInit, AtMostOne, Idle
<1> QED
  BY <1>1, KeysAtStart, RewardsAtStart, FoundersAtStart DEF BooksInv

LEMMA BooksSayPaidOnce ==
  ASSUME IInv, BooksInv
  PROVE  PaidOnce
<1>1. ASSUME OneByOne, NEW d \in Disclosures, NEW c \in Companies
      PROVE  LogCount(c, "disclosure_reward", d) <= 1
  <2>1. Entry(log, RewardKey(c, d)).n \in {0, 1}
    BY <1>1 DEF BooksInv, RewardedOnce, OneByOne
  <2>2. LogCount(c, "disclosure_reward", d) = Entry(log, RewardKey(c, d)).n
    BY Entries DEF RewardKey
  <2> QED
    BY <2>1, <2>2
<1>2. ASSUME restarts = 0, AllIdle, NEW u \in Users
      PROVE  PaidFor(u, "company_funding", "new") = -Capital(u)
  <2>1. Charged(u) = {}
    BY <1>2 DEF Charged, AllIdle, Idle
  <2>2. OnHold(u) = 0
    BY <2>1, SumOfNothing DEF OnHold
  <2>3. Fees(log, u) = -Capital(u) - OnHold(u) /\ Capital(u) \in Int
    BY <1>2, HoldsAreInt DEF BooksInv, FoundersPay
  <2> QED
    BY <2>2, <2>3, PaidByEntry
<1>3. KeysMoveMoneyOnce
  BY DEF BooksInv
<1> QED
  BY <1>1, <1>2, <1>3 DEF PaidOnce, Capital

\* One idempotency key moves money once (AdminCompanyCredit looks the key up and
\* writes it in the transaction that moves the money); a disclosure is rewarded once,
\* also when the server stops between its verdict and its reward, as long as reviews do
\* not overlap; and founders whose requests race, for one name too, have paid what the
\* companies they founded were given (CreateCompany's refund).
THEOREM MoneyMovesOnce == Spec => []PaidOnce
<1>1. Init => BooksInv
  BY BooksAtStart
<1>2. IInv /\ BooksInv /\ [Next]_vars => BooksInv'
  BY BooksKept
<1>3. IInv /\ BooksInv => PaidOnce
  BY BooksSayPaidOnce
<1> QED
  BY <1>1, <1>2, <1>3, MarketInvariant, PTL DEF Spec


-----------------------------------------------------------------------------
(* A proposal is decided once *)

DecidingStops == {"withdraw:status", "vote:holder", "vote:insert", "auto:company", "auto:tally",
                  "close:company", "close:tally", "close:status"}

SettlingStops == {"execute:company", "execute:holder", "liquidate:pot", "liquidate:holders",
                  "liquidate:debit", "liquidate:pay", "liquidate:executed"}

Verdict(p, total) == IF Enough(p, total) THEN "passed" ELSE "rejected"

\* There is reason to close the proposal.
Ripe(p, total) == p \in ended \/ Projected(p, total) # "pending"

\* What the handler at r goes by is still so: the status it has seen, the company it
\* has read, the reason it closes a proposal for, and the verdict it has reached.
FreshAt(r) ==
  /\ pc[r] \in DecidingStops => InStatus(task[r].p, "active")
  /\ pc[r] \in {"auto:tally", "close:tally"} => task[r].f = firm[task[r].co]
  /\ pc[r] \in {"close:company", "close:tally", "close:status"} =>
       Ripe(task[r].p, firm[task[r].co].total)
  /\ pc[r] = "close:status" =>
       task[r].final = Verdict(task[r].p, firm[task[r].co].total)
  /\ pc[r] \in SettlingStops => InStatus(task[r].p, "passed")

DecidesOnFresh == ~overlapped => \A r \in Requests : FreshAt(r)

LEMMA IdleIsFresh ==
  ASSUME NEW r \in Requests, pc'[r] = "idle"
  PROVE  FreshAt(r)'
BY DEF FreshAt, DecidingStops, SettlingStops

\* Whoever goes elsewhere has nothing to go by.
LEMMA ElsewhereIsFresh ==
  ASSUME NEW r \in Requests, pc'[r] \notin DecidingStops \cup SettlingStops
  PROVE  FreshAt(r)'
BY DEF FreshAt, DecidingStops, SettlingStops

Untouched == UNCHANGED <<firm, proposal, vote>>

LEMMA TallyKept ==
  ASSUME Untouched, NEW p, NEW total
  PROVE  Verdict(p, total)' = Verdict(p, total) /\ Projected(p, total)' = Projected(p, total)
BY DEF Untouched, Verdict, Projected, Enough, VotedShares

LEMMA RipeKept ==
  ASSUME Untouched, ended \subseteq ended', NEW p, NEW co, Ripe(p, firm[co].total)
  PROVE  Ripe(p, firm[co].total)'
<1>1. PICK total : total = firm[co].total
  OBVIOUS
<1>2. Ripe(p, total) /\ total = firm'[co].total
  BY <1>1 DEF Untouched
<1>3. Projected(p, total)' = Projected(p, total)
  BY TallyKept
<1>4. p \in ended' \/ Projected(p, total)' # "pending"
  BY <1>2, <1>3 DEF Ripe
<1>5. Projected(p, total)' = Projected(p, firm[co].total)'
  BY <1>2
<1> QED
  BY <1>4, <1>5 DEF Ripe

\* A tally that says passed has the threshold behind it.
LEMMA TallyIsVerdict ==
  ASSUME NEW p, NEW total
  PROVE  (IF Projected(p, total) = "passed" THEN "passed" ELSE "rejected") = Verdict(p, total)
BY DEF Projected, Verdict

LEMMA MeetingBegins ==
  ASSUME IInv, NEW r \in Requests,
         CancelProposal(r) \/ CastVote(r) \/ ReadProposal(r) \/ ExecuteLiquidation(r)
  PROVE  FreshAt(r)'
<1>1. CASE CancelProposal(r)
  <2>1. PICK p \in Proposals : InStatus(p, "active") /\ pc'[r] = "withdraw:status" /\ task'[r].p = p
    BY <1>1, StepsLead DEF CancelProposal
  <2>2. proposal' = proposal
    BY <1>1 DEF CancelProposal, governance
  <2> QED
    BY <2>1, <2>2 DEF FreshAt, InStatus, SettlingStops
<1>2. CASE CastVote(r)
  <2>1. PICK p \in Proposals :
          /\ InStatus(p, "active") /\ pc'[r] \in {"close:company", "vote:holder"}
          /\ task'[r].p = p /\ (pc'[r] = "close:company" => p \in ended)
    BY <1>2, StepsLead DEF CastVote, ToClose
  <2>2. proposal' = proposal /\ ended' = ended
    BY <1>2 DEF CastVote, governance
  <2> QED
    BY <2>1, <2>2 DEF FreshAt, InStatus, SettlingStops, Ripe
<1>3. CASE ReadProposal(r)
  <2>1. PICK p \in ended : InStatus(p, "active") /\ pc'[r] = "close:company" /\ task'[r].p = p
    BY <1>3, StepsLead DEF ReadProposal
  <2>2. proposal' = proposal /\ ended' = ended
    BY <1>3 DEF ReadProposal, governance
  <2> QED
    BY <2>1, <2>2 DEF FreshAt, InStatus, SettlingStops, Ripe
<1>4. CASE ExecuteLiquidation(r)
  <2>1. PICK p \in Proposals :
          InStatus(p, "passed") /\ pc'[r] = "execute:company" /\ task'[r].p = p
    BY <1>4, StepsLead DEF ExecuteLiquidation
  <2>2. proposal' = proposal
    BY <1>4 DEF ExecuteLiquidation, governance
  <2> QED
    BY <2>1, <2>2 DEF FreshAt, InStatus, DecidingStops
<1> QED
  BY <1>1, <1>2, <1>3, <1>4

\* A step that keeps the proposal it is about, and its status.
LEMMA SameProposal ==
  ASSUME NEW r \in Requests, FreshAt(r), proposal' = proposal, task'[r].p = task[r].p,
         \/ pc[r] \in DecidingStops /\ pc'[r] \in {"vote:insert", "auto:company"}
         \/ pc[r] \in SettlingStops /\ pc'[r] \in SettlingStops
  PROVE  FreshAt(r)'
BY DEF FreshAt, InStatus, DecidingStops, SettlingStops

\* What a handler has read about a proposal it remembers beside the rest.
LEMMA Remembers ==
  ASSUME NEW t, NEW new, NEW column, column \in DOMAIN t, column \notin DOMAIN new
  PROVE  With(t, new)[column] = t[column]
BY DEF With

LEMMA RemembersProposal ==
  ASSUME IInv, NEW r \in Requests, pc[r] \in DecidingStops \cup SettlingStops,
         pc[r] # "withdraw:status"
  PROVE  "p" \in DOMAIN task[r] /\ "co" \in DOMAIN task[r]
<1>1. TaskOK(r)
  BY DEF IInv
<1>2. CASE pc[r] \in DecidingStops
  BY <1>1, <1>2 DEF TaskOK, ProposalTaskOK, DecidingStops
<1>3. CASE pc[r] \in SettlingStops
  BY <1>1, <1>3 DEF TaskOK, LiquidationTaskOK, PayLabels, SettlingStops
<1> QED
  BY <1>2, <1>3

LEMMA VoteGoesOn ==
  ASSUME IInv, NEW r \in Requests, FreshAt(r), VoteReadHolder(r) \/ VoteInsert(r)
  PROVE  FreshAt(r)'
<1>0. proposal' = proposal
  BY DEF VoteReadHolder, VoteInsert, governance
<1>1. CASE VoteReadHolder(r)
  <2>1. "p" \in DOMAIN task[r]
    BY <1>1, RemembersProposal DEF VoteReadHolder, At, DecidingStops
  <2>2. With(task[r], [shares |-> holding[<<task[r].co, task[r].user>>]]).p = task[r].p
    BY <2>1, Remembers
  <2>3. \/ pc'[r] = "idle"
        \/ pc[r] \in DecidingStops /\ pc'[r] = "vote:insert" /\ task'[r].p = task[r].p
    BY <1>1, <2>2, StepsLead DEF VoteReadHolder, At, DecidingStops
  <2> QED
    BY <1>0, <2>3, IdleIsFresh, SameProposal
<1>2. CASE VoteInsert(r)
  <2>1. \/ pc'[r] = "idle"
        \/ pc[r] \in DecidingStops /\ pc'[r] = "auto:company" /\ task'[r].p = task[r].p
    BY <1>2, StepsLead DEF VoteInsert, At, DecidingStops
  <2> QED
    BY <1>0, <2>1, IdleIsFresh, SameProposal
<1> QED
  BY <1>1, <1>2

LEMMA FirmForTally ==
  ASSUME IInv, NEW r \in Requests, FreshAt(r), AutoReadCompany(r)
  PROVE  FreshAt(r)'
<1>0. Untouched
  BY DEF AutoReadCompany, Untouched, company, books, governance
<1>1. "p" \in DOMAIN task[r] /\ "co" \in DOMAIN task[r]
  BY RemembersProposal DEF AutoReadCompany, At, DecidingStops
<1>2. InStatus(task[r].p, "active") /\ proposal' = proposal
  BY <1>0 DEF AutoReadCompany, At, FreshAt, DecidingStops, Untouched
<1>3. pc'[r] = "auto:tally" /\ task'[r] = With(task[r], [f |-> firm[task[r].co]])
  BY StepsLead DEF AutoReadCompany
<1>4. task'[r].p = task[r].p /\ task'[r].co = task[r].co
  BY <1>1, <1>3, Remembers
<1>5. task'[r].f = firm'[task'[r].co]
  BY <1>0, <1>3, <1>4 DEF With, Untouched
<1> QED
  BY <1>2, <1>3, <1>4, <1>5 DEF FreshAt, InStatus, SettlingStops

\* maybeAutoClose goes on only when its tally is final, or the end date has passed.
LEMMA TallyIsFinal ==
  ASSUME IInv, NEW r \in Requests, FreshAt(r), AutoTally(r)
  PROVE  FreshAt(r)'
<1>0. Untouched /\ ended \subseteq ended'
  BY DEF AutoTally, Untouched, company, books, governance
<1>1. InStatus(task[r].p, "active") /\ proposal' = proposal /\ task[r].f = firm[task[r].co]
  BY <1>0 DEF AutoTally, At, FreshAt, DecidingStops, Untouched
<1>2. CASE Projected(task[r].p, task[r].f.total) = "pending" /\ task[r].p \notin ended
  BY <1>2, StepsLead, IdleIsFresh DEF AutoTally
<1>3. CASE ~(Projected(task[r].p, task[r].f.total) = "pending" /\ task[r].p \notin ended)
  <2>1. pc'[r] = "close:company" /\ task'[r] = ToClose(task[r].p, task[r].co)
    BY <1>3, StepsLead DEF AutoTally
  <2>2. PICK p, co : p = task[r].p /\ co = task[r].co
    OBVIOUS
  <2>3. task'[r].p = p /\ task'[r].co = co
    BY <2>1, <2>2 DEF ToClose
  <2>4. Ripe(p, firm[co].total)
    BY <1>1, <1>3, <2>2 DEF Ripe
  <2>5. Ripe(p, firm[co].total)'
    BY <1>0, <2>4, RipeKept
  <2> QED
    BY <1>1, <2>1, <2>2, <2>3, <2>5 DEF FreshAt, InStatus, SettlingStops
<1> QED
  BY <1>2, <1>3

LEMMA FirmIsFresh ==
  ASSUME IInv, NEW r \in Requests, FreshAt(r), CloseReadFirm(r)
  PROVE  FreshAt(r)'
<1>0. Untouched /\ ended \subseteq ended'
  BY DEF CloseReadFirm, Untouched, company, books, governance
<1>1. "p" \in DOMAIN task[r] /\ "co" \in DOMAIN task[r]
  BY RemembersProposal DEF CloseReadFirm, At, DecidingStops
<1>2. InStatus(task[r].p, "active") /\ proposal' = proposal
  BY <1>0 DEF CloseReadFirm, At, FreshAt, DecidingStops, Untouched
<1>3. pc'[r] = "close:tally" /\ task'[r] = With(task[r], [f |-> firm[task[r].co]])
  BY StepsLead DEF CloseReadFirm
<1>4. task'[r].p = task[r].p /\ task'[r].co = task[r].co
  BY <1>1, <1>3, Remembers
<1>5. task'[r].f = firm'[task'[r].co]
  BY <1>0, <1>3, <1>4 DEF With, Untouched
<1>6. PICK p, co : p = task[r].p /\ co = task[r].co
  OBVIOUS
<1>7. Ripe(p, firm[co].total)
  BY <1>6 DEF CloseReadFirm, At, FreshAt
<1>8. Ripe(p, firm[co].total)'
  BY <1>0, <1>7, RipeKept
<1> QED
  BY <1>2, <1>3, <1>4, <1>5, <1>6, <1>8 DEF FreshAt, InStatus, SettlingStops

LEMMA VerdictIsFresh ==
  ASSUME IInv, NEW r \in Requests, FreshAt(r), CloseTally(r)
  PROVE  FreshAt(r)'
<1>0. Untouched /\ ended \subseteq ended'
  BY DEF CloseTally, Untouched, company, books, governance
<1>1. "p" \in DOMAIN task[r] /\ "co" \in DOMAIN task[r]
  BY RemembersProposal DEF CloseTally, At, DecidingStops
<1>2. InStatus(task[r].p, "active") /\ proposal' = proposal /\ task[r].f = firm[task[r].co]
  BY <1>0 DEF CloseTally, At, FreshAt, DecidingStops, Untouched
<1>3. /\ pc'[r] = "close:status"
      /\ task'[r] = With(task[r],
           [final |-> IF Projected(task[r].p, firm[task[r].co].total) = "passed"
                        THEN "passed" ELSE "rejected"])
  BY <1>2, StepsLead DEF CloseTally
<1>4. task'[r] = With(task[r], [final |-> Verdict(task[r].p, firm[task[r].co].total)])
  BY <1>3, TallyIsVerdict
<1>5. task'[r].p = task[r].p /\ task'[r].co = task[r].co
  BY <1>1, <1>4, Remembers
<1>6. task'[r].final = Verdict(task[r].p, firm[task[r].co].total)
  BY <1>4 DEF With
<1>7. task'[r].final = Verdict(task[r].p, firm[task[r].co].total)'
  BY <1>0, <1>5, <1>6 DEF Untouched, Verdict, Enough, VotedShares
<1>8. PICK p, co : p = task[r].p /\ co = task[r].co
  OBVIOUS
<1>9. Ripe(p, firm[co].total)
  BY <1>8 DEF CloseTally, At, FreshAt
<1>10. Ripe(p, firm[co].total)'
  BY <1>0, <1>9, RipeKept
<1> QED
  BY <1>2, <1>3, <1>5, <1>7, <1>8, <1>10 DEF FreshAt, InStatus, SettlingStops

\* A status that is written is the one that is on file.
LEMMA StatusOnFile ==
  ASSUME IInv, NEW p \in Proposals, proposal[p] # None, NEW s, UpdateProposalStatus(p, s),
         s \in {"active", "passed", "rejected", "cancelled", "executed"}
  PROVE  /\ proposal'[p] # None /\ proposal'[p].status = s
         /\ \A q \in Proposals : q # p => proposal'[q] = proposal[q]
<1> DEFINE row == With(proposal[p], [status |-> s])
<1>1. proposal[p] \in Proposal
  BY ProposalRead
<1>2. row \in Proposal /\ row.status = s
  BY <1>1 DEF With, Proposal
<1>3. row # None
  BY <1>2, GovernanceAssumption
<1>4. proposal' = [proposal EXCEPT ![p] = row]
  BY DEF UpdateProposalStatus
<1>5. proposal \in [Proposals -> Proposal \cup {None}]
  BY DEF IInv, Rows, RowsTyped
<1> HIDE DEF row
<1> QED
  BY <1>2, <1>3, <1>4, <1>5

LEMMA CloseSettles ==
  ASSUME IInv, NEW r \in Requests, FreshAt(r), CloseStatus(r)
  PROVE  FreshAt(r)'
<1> DEFINE t == task[r]
<1>1. /\ t.p \in Proposals /\ proposal[t.p] # None /\ t.final \in {"passed", "rejected"}
  BY DEF CloseStatus, At, IInv, TaskOK, ProposalTaskOK, Decides
<1>2. UpdateProposalStatus(t.p, t.final)
  BY DEF CloseStatus
<1>3. proposal'[t.p] # None /\ proposal'[t.p].status = t.final
  BY <1>1, <1>2, StatusOnFile
<1>4. \/ pc'[r] = "idle"
      \/ pc'[r] = "liquidate:pot" /\ task'[r] = ToLiquidate(t) /\ t.final = "passed"
  BY StepsLead DEF CloseStatus
<1>5. ToLiquidate(t).p = t.p
  BY DEF ToLiquidate
<1> QED
  BY <1>3, <1>4, <1>5, IdleIsFresh DEF FreshAt, InStatus, DecidingStops

LEMMA LiquidationGoesOn ==
  ASSUME IInv, NEW r \in Requests, FreshAt(r), LiquidateSteps(r)
  PROVE  FreshAt(r)'
<1> DEFINE Goes == /\ pc[r] \in SettlingStops /\ pc'[r] \in SettlingStops
                   /\ task'[r].p = task[r].p /\ proposal' = proposal
           Leaves == pc'[r] \notin DecidingStops \cup SettlingStops
<1>0. pc[r] \in SettlingStops =>
        \A new : "p" \notin DOMAIN new => With(task[r], new).p = task[r].p
  BY RemembersProposal, Remembers DEF SettlingStops
<1>1. ASSUME ExecuteReadCompany(r) PROVE Goes \/ Leaves
  <2>1. pc[r] \in SettlingStops /\ proposal' = proposal
    BY <1>1 DEF ExecuteReadCompany, At, SettlingStops, governance
  <2>2. \/ pc'[r] = "idle"
        \/ pc'[r] = "execute:holder" /\ task'[r] = With(task[r], [f |-> firm[task[r].co]])
    BY <1>1, StepsLead DEF ExecuteReadCompany
  <2> QED
    BY <1>0, <2>1, <2>2 DEF SettlingStops, DecidingStops
<1>2. ASSUME ExecuteReadHolder(r) PROVE Goes \/ Leaves
  BY <1>2, StepsLead DEF ExecuteReadHolder, At, ToLiquidate, SettlingStops, DecidingStops, governance
<1>3. ASSUME LiquidateReadPot(r) PROVE Goes \/ Leaves
  <2>1. pc[r] \in SettlingStops /\ proposal' = proposal
    BY <1>3 DEF LiquidateReadPot, At, SettlingStops, governance
  <2>2. \/ pc'[r] = "idle"
        \/ /\ pc'[r] = "liquidate:holders"
           /\ task'[r] = With(task[r], [balance |-> pot[task[r].co]])
    BY <1>3, StepsLead DEF LiquidateReadPot
  <2> QED
    BY <1>0, <2>1, <2>2 DEF SettlingStops, DecidingStops
<1>4. ASSUME LiquidateReadHolders(r) PROVE Goes \/ Leaves
  <2>1. pc[r] \in SettlingStops /\ proposal' = proposal
    BY <1>4 DEF LiquidateReadHolders, At, SettlingStops, governance
  <2>2. /\ pc'[r] \in {"liquidate:debit", "liquidate:pay"}
        /\ \E left : task'[r] = With(task[r], [left |-> left])
    BY <1>4, StepsLead DEF LiquidateReadHolders
  <2> QED
    BY <1>0, <2>1, <2>2 DEF SettlingStops, DecidingStops
<1>5. ASSUME LiquidateDebit(r) PROVE Goes \/ Leaves
  BY <1>5, StepsLead DEF LiquidateDebit, At, SettlingStops, DecidingStops, governance
<1>6. ASSUME LiquidatePay(r) PROVE Goes \/ Leaves
  <2>1. pc[r] \in SettlingStops /\ proposal' = proposal
    BY <1>6 DEF LiquidatePay, At, SettlingStops, governance
  <2>2. pc'[r] = "liquidate:pay" /\ task'[r] = With(task[r], [left |-> Tail(task[r].left)])
    BY <1>6, StepsLead DEF LiquidatePay
  <2> QED
    BY <1>0, <2>1, <2>2 DEF SettlingStops
<1>7. ASSUME LiquidateDissolve(r) PROVE Goes \/ Leaves
  BY <1>7, StepsLead DEF LiquidateDissolve, At, SettlingStops, governance
<1>8. ASSUME LiquidateExecuted(r) PROVE Goes \/ Leaves
  BY <1>8, StepsLead DEF LiquidateExecuted, SettlingStops, DecidingStops
<1>9. ASSUME LiquidateDisclose(r) PROVE Goes \/ Leaves
  BY <1>9, StepsLead DEF LiquidateDisclose, SettlingStops, DecidingStops
<1>10. Goes \/ Leaves
  BY <1>1, <1>2, <1>3, <1>4, <1>5, <1>6, <1>7, <1>8, <1>9 DEF LiquidateSteps
<1> QED
  BY <1>10, SameProposal, ElsewhereIsFresh

\* Only the handler that takes a step is busy after it.
LEMMA Sole ==
  ASSUME AtMostOne, ~overlapped', NEW r \in Requests, Serves(r), overlapped => overlapped'
  PROVE  \A q \in Requests : q # r => pc'[q] = "idle"
BY DEF AtMostOne, Serves, Begins, Continues, Only, AllIdle, Idle

LEMMA ServedIsFresh ==
  ASSUME IInv, NEW r \in Requests, FreshAt(r),
         Founding(r) \/ PaperWork(r) \/ FundingWork(r) \/ Meeting(r)
  PROVE  FreshAt(r)'
<1>1. ASSUME Founding(r) \/ PaperWork(r) \/ FundingWork(r) PROVE FreshAt(r)'
  BY <1>1, FoundingLeads, PaperWorkLeads, FundingLeads, ElsewhereIsFresh
     DEF FoundStops, CompanyStops, FundingStops, DecidingStops, SettlingStops
<1>2. ASSUME \/ CreateProposal(r) \/ ProposeReadHolder(r) \/ ProposeReadActive(r)
             \/ ProposeInsert(r) \/ WithdrawStatus(r)
      PROVE  FreshAt(r)'
  <2>1. pc'[r] \in {"propose:holder", "propose:unique", "propose:insert", "idle"}
    <3>1. CreateProposal(r) => pc'[r] = "propose:holder"
      BY StepsLead DEF CreateProposal
    <3>2. ProposeReadHolder(r) => pc'[r] \in {"propose:unique", "idle"}
      BY StepsLead DEF ProposeReadHolder
    <3>3. ProposeReadActive(r) => pc'[r] \in {"propose:insert", "idle"}
      BY StepsLead DEF ProposeReadActive
    <3>4. ProposeInsert(r) \/ WithdrawStatus(r) => pc'[r] = "idle"
      BY StepsLead DEF ProposeInsert, WithdrawStatus
    <3> QED
      BY <1>2, <3>1, <3>2, <3>3, <3>4
  <2> QED
    BY <2>1, ElsewhereIsFresh DEF DecidingStops, SettlingStops
<1> QED
  BY <1>1, <1>2, MeetingBegins, VoteGoesOn, FirmForTally, TallyIsFinal, FirmIsFresh,
     VerdictIsFresh, CloseSettles, LiquidationGoesOn DEF Meeting, ShareholderRequest, VoteSteps

LEMMA StaysFresh ==
  ASSUME IInv, AtMostOne, DecidesOnFresh, [Next]_vars
  PROVE  DecidesOnFresh'
<1> SUFFICES ASSUME ~overlapped', NEW q \in Requests
             PROVE  FreshAt(q)'
  BY DEF DecidesOnFresh
<1>0. FreshAt(q)
  BY StaysOverlapped DEF DecidesOnFresh
<1>1. ASSUME NEW r \in Requests, Serves(r),
             Founding(r) \/ PaperWork(r) \/ FundingWork(r) \/ Meeting(r)
      PROVE  FreshAt(q)'
  BY <1>0, <1>1, Sole, StaysOverlapped, IdleIsFresh, ServedIsFresh
<1>2. ASSUME UNCHANGED handlers, Untouched, ended \subseteq ended'
      PROVE  FreshAt(q)'
  <2>1. PICK p, co : p = task[q].p /\ co = task[q].co
    OBVIOUS
  <2>2. ASSUME Ripe(p, firm[co].total) PROVE Ripe(p, firm[co].total)'
    BY <1>2, <2>2, RipeKept
  <2>3. Verdict(p, firm[co].total)' = Verdict(p, firm[co].total)
    BY <1>2 DEF Untouched, Verdict, Enough, VotedShares
  <2>4. Ripe(task[q].p, firm[task[q].co].total) => Ripe(task[q].p, firm[task[q].co].total)'
    BY <1>2, <2>1, <2>2 DEF handlers
  <2>5. Verdict(task[q].p, firm[task[q].co].total)' = Verdict(task[q].p, firm[task[q].co].total)
    BY <1>2, <2>1, <2>3 DEF handlers
  <2> QED
    BY <1>0, <1>2, <2>4, <2>5 DEF handlers, Untouched, FreshAt, InStatus
<1>3. CASE Restart
  BY <1>3, IdleIsFresh DEF Restart, ServerRestart
<1>4. CASE Aside /\ (SharesChangeHands \/ ActivateClassroom) /\ UNCHANGED <<funding, governance>>
  BY <1>2, <1>4 DEF Aside, SharesChangeHands, ActivateClassroom, Untouched, company, books,
     governance
<1>5. CASE Aside /\ (VotingEnds \/ UNCHANGED vars)
  BY <1>2, <1>5 DEF Aside, VotingEnds, Untouched, vars, company, books, governance
<1> QED
  BY <1>1, <1>3, <1>4, <1>5, WhoMoves

\* Who writes proposals.
LEMMA WhoWritesProposals ==
  ASSUME IInv, [Next]_vars
  PROVE  \/ proposal' = proposal
         \/ \E r \in Requests :
              ProposeInsert(r) \/ WithdrawStatus(r) \/ CloseStatus(r) \/ LiquidateExecuted(r)
<1>1. ASSUME NEW r \in Requests, Meeting(r)
      PROVE  \/ proposal' = proposal
             \/ ProposeInsert(r) \/ WithdrawStatus(r) \/ CloseStatus(r) \/ LiquidateExecuted(r)
  <2>1. CASE LiquidateSteps(r)
    BY <2>1 DEF LiquidateSteps, ExecuteReadCompany, ExecuteReadHolder, LiquidateReadPot,
       LiquidateReadHolders, LiquidateDebit, LiquidatePay, LiquidateDissolve,
       LiquidateDisclose, governance
  <2>2. CASE VoteSteps(r) \/ ReadProposal(r) \/ CloseReadFirm(r) \/ CloseTally(r)
    BY <2>2 DEF VoteSteps, VoteReadHolder, VoteInsert, AutoReadCompany, AutoTally,
       ReadProposal, CloseReadFirm, CloseTally, governance
  <2>3. CASE CreateProposal(r) \/ ProposeReadHolder(r) \/ ProposeReadActive(r) \/ ShareholderRequest(r)
    BY <2>3 DEF CreateProposal, ProposeReadHolder, ProposeReadActive, ShareholderRequest,
       CastVote, ExecuteLiquidation, CancelProposal, governance
  <2> QED
    BY <1>1, <2>1, <2>2, <2>3 DEF Meeting
<1>2. CASE VotingEnds \/ UNCHANGED vars \/ Restart
  BY <1>2 DEF VotingEnds, vars, Restart, governance
<1> QED
  BY <1>1, <1>2, WhoMoves DEF governance

\* Percentages of a number of shares that may round the wrong way.
LEMMA AtLeastReaches ==
  ASSUME NEW n \in Nat, NEW total \in Nat, NEW percent \in Int
  PROVE  /\ AtLeast(n, total, percent) => Reaches(n, total, percent)
         /\ ~AtLeast(n, total, percent) => FallsShort(n, total, percent)
         /\ MoreThan(n, total, percent) => Exceeds(n, total, percent)
<1>1. PICK a \in Int, b \in Int : a = n * 100 /\ b = percent * total
  OBVIOUS
<1> QED
  BY <1>1 DEF AtLeast, MoreThan, Reaches, FallsShort, Exceeds, Tied

LEMMA VotesAreNat ==
  ASSUME IInv, NEW p \in Proposals, NEW choice
  PROVE  VotedShares(p, choice) \in Nat
<1> DEFINE voters == {u \in Users : vote[p][u] # None /\ vote[p][u].choice = choice}
           f == [u \in voters |-> vote[p][u].shares]
<1>1. IsFiniteSet(voters)
  BY ServerAssumption, FS_Subset
<1>2. \A u \in voters : f[u] \in Nat
  BY DEF IInv, Rows, RowsTyped, Vote
<1>3. VotedShares(p, choice) = SumOf(f, voters)
  BY DEF VotedShares
<1> HIDE DEF f, voters
<1> QED
  BY <1>1, <1>2, <1>3, SumIsNat

\* What a write of a proposal's status says, as DecidedOnce has it.
DecidedBy(p) == Decision(p, proposal'[p].status)

\* The verdict of a tally for which there was reason is a decision.
LEMMA VerdictDecides ==
  ASSUME IInv, NEW p \in Proposals, InStatus(p, "active"), NEW to,
         Ripe(p, firm[proposal[p].co].total), to = Verdict(p, firm[proposal[p].co].total)
  PROVE  Decision(p, to)
<1>1. PICK co, needed : co = proposal[p].co /\ needed = proposal[p].threshold
  OBVIOUS
<1>2. /\ co \in Companies /\ firm[co].total \in Nat /\ needed \in 1 .. 100
  BY <1>1, ProposalRead DEF InStatus, IInv, Rows, RowsTyped, Exists, Firm, Proposal
<1>3. PICK all \in Nat : all = AllShares(firm[co].total)
  BY <1>2 DEF AllShares
<1>4. PICK yes \in Nat, no \in Nat : yes = VotedShares(p, "yes") /\ no = VotedShares(p, "no")
  BY VotesAreNat
<1>5. Enough(p, firm[co].total) <=> AtLeast(yes, all, needed)
  BY <1>1, <1>3, <1>4 DEF Enough
<1>6. CASE AtLeast(yes, all, needed)
  <2>1. Reaches(yes, all, needed)
    BY <1>2, <1>6, AtLeastReaches
  <2>2. to = "passed"
    BY <1>1, <1>5, <1>6 DEF Verdict
  <2> QED
    BY <1>1, <1>3, <1>4, <2>1, <2>2 DEF Decision
<1>7. CASE ~AtLeast(yes, all, needed)
  <2>1. FallsShort(yes, all, needed)
    BY <1>2, <1>7, AtLeastReaches
  <2>2. to = "rejected"
    BY <1>1, <1>5, <1>7 DEF Verdict
  <2>3. p \in ended \/ MoreThan(no, all, 100 - needed)
    BY <1>1, <1>3, <1>4, <1>5, <1>7 DEF Ripe, Projected
  <2>4. 100 - needed \in Int
    BY <1>2
  <2>5. MoreThan(no, all, 100 - needed) => Exceeds(no, all, 100 - needed)
    BY <2>4, AtLeastReaches
  <2> QED
    BY <1>1, <1>3, <1>4, <2>1, <2>2, <2>3, <2>5 DEF Decision
<1> QED
  BY <1>6, <1>7

LEMMA StatusDecides ==
  ASSUME IInv, NEW r \in Requests, FreshAt(r),
         WithdrawStatus(r) \/ CloseStatus(r) \/ LiquidateExecuted(r),
         NEW p \in Proposals, proposal[p] # None, proposal'[p] # proposal[p]
  PROVE  DecidedBy(p)
<1>1. CASE WithdrawStatus(r)
  <2>1. /\ task[r].p \in Proposals /\ InStatus(task[r].p, "active")
        /\ UpdateProposalStatus(task[r].p, "cancelled")
    BY <1>1 DEF WithdrawStatus, At, IInv, TaskOK, ProposalTaskOK, FreshAt, DecidingStops
  <2>2. p = task[r].p /\ proposal'[p].status = "cancelled"
    BY <2>1, StatusOnFile DEF InStatus
  <2> QED
    BY <2>1, <2>2 DEF DecidedBy, Decision
<1>2. CASE CloseStatus(r)
  <2>1. /\ task[r].p \in Proposals /\ task[r].final \in {"passed", "rejected"}
        /\ Decides(task[r].p, task[r].co)
    BY <1>2 DEF CloseStatus, At, IInv, TaskOK, ProposalTaskOK
  <2>2. /\ InStatus(task[r].p, "active") /\ UpdateProposalStatus(task[r].p, task[r].final)
        /\ task[r].final = Verdict(task[r].p, firm[task[r].co].total)
        /\ Ripe(task[r].p, firm[task[r].co].total)
    BY <1>2 DEF CloseStatus, At, FreshAt, DecidingStops
  <2>3. p = task[r].p /\ proposal'[p].status = task[r].final
    BY <2>1, <2>2, StatusOnFile DEF Decides
  <2>4. proposal[p].co = task[r].co
    BY <2>1, <2>3 DEF Decides
  <2>5. PICK to : to = task[r].final
    OBVIOUS
  <2>6. InStatus(p, "active") /\ Ripe(p, firm[proposal[p].co].total)
    BY <2>2, <2>3, <2>4
  <2>7. to = Verdict(p, firm[proposal[p].co].total)
    BY <2>2, <2>3, <2>4, <2>5
  <2>8. Decision(p, to)
    BY <2>6, <2>7, VerdictDecides
  <2> QED
    BY <2>3, <2>5, <2>8 DEF DecidedBy
<1>3. CASE LiquidateExecuted(r)
  <2>1. /\ task[r].p \in Proposals /\ InStatus(task[r].p, "passed")
        /\ UpdateProposalStatus(task[r].p, "executed")
    <3>1. task[r].p \in Proposals
      BY <1>3 DEF LiquidateExecuted, At, IInv, TaskOK, LiquidationTaskOK, PayLabels
    <3> QED
      BY <1>3, <3>1 DEF LiquidateExecuted, At, FreshAt, SettlingStops
  <2>2. p = task[r].p /\ proposal'[p].status = "executed"
    BY <2>1, StatusOnFile DEF InStatus
  <2> QED
    BY <2>1, <2>2 DEF DecidedBy, Decision
<1> QED
  BY <1>1, <1>2, <1>3

\* A new proposal takes an id nobody has.
LEMMA ProposingDecidesNothing ==
  ASSUME IInv, NEW r \in Requests, ProposeInsert(r), NEW p \in Proposals, proposal[p] # None
  PROVE  proposal'[p] = proposal[p]
<1>1. proposal \in [Proposals -> Proposal \cup {None}]
  BY DEF IInv, Rows, RowsTyped
<1>2. \/ proposal' = proposal
      \/ \E n \in NextId(proposal) : \E row : proposal' = [proposal EXCEPT ![n] = row]
  BY DEF ProposeInsert
<1> QED
  BY <1>1, <1>2 DEF NextId

DecidesNow ==
  ~overlapped' => \A p \in Proposals : proposal[p] # None /\ proposal'[p] # proposal[p] => DecidedBy(p)

LEMMA StepDecides ==
  ASSUME IInv, DecidesOnFresh, [Next]_vars
  PROVE  DecidesNow
<1> SUFFICES ASSUME ~overlapped', NEW p \in Proposals, proposal[p] # None,
                    proposal'[p] # proposal[p]
             PROVE  DecidedBy(p)
  BY DEF DecidesNow
<1>1. \A r \in Requests : FreshAt(r)
  BY StaysOverlapped DEF DecidesOnFresh
<1> QED
  BY <1>1, WhoWritesProposals, ProposingDecidesNothing, StatusDecides

LEMMA FreshAtStart ==
  ASSUME Init
  PROVE  DecidesOnFresh
BY DEF Init, ServerInit, DecidesOnFresh, FreshAt, DecidingStops, SettlingStops

\* While requests do not overlap, a proposal is decided once and by what is on file when
\* its status is written, although a vote closes it (closeProposal) with the copy of the
\* company and the tally that were read before: it passes only with the percentage it
\* asks for behind it and is rejected only without, or with exactly as many where the
\* quotient of the code is rounded down; it is rejected before its end only when the votes
\* against it settle the matter; it may be withdrawn while active, and only a passed one
\* is executed.
THEOREM ProposalsDecidedOnce == Spec => DecidedOnce
<1>1. Init => AtMostOne /\ DecidesOnFresh
  BY BooksAtStart, FreshAtStart DEF BooksInv
<1>2. IInv /\ AtMostOne /\ DecidesOnFresh /\ [Next]_vars => (AtMostOne /\ DecidesOnFresh)'
  BY OneAtATime, StaysFresh
<1>3. IInv /\ DecidesOnFresh /\ [Next]_vars =>
        [~overlapped' =>
           \A p \in Proposals : proposal[p] # None /\ proposal'[p] # proposal[p] =>
             Decision(p, proposal'[p].status)]_vars
  BY StepDecides, Zenon DEF DecidesNow, DecidedBy
<1> QED
  BY <1>1, <1>2, <1>3, MarketInvariant, PTL DEF Spec, DecidedOnce

-----------------------------------------------------------------------------
(***************************************************************************)
(* Investment rounds, for every set of users, companies, rounds, requests    *)
(* and amounts: while no two requests are in flight together a round sells   *)
(* no more shares than it offers and a company has one open round, and       *)
(* without a restart a cancelled round has given all of the money back.      *)
(*                                                                         *)
(* As for the proposals, the argument is that what the only busy handler has *)
(* read is still on file; and for the money, that what each investor's       *)
(* wallets have been paid is what the rows say, but for what the handler in  *)
(* flight has taken, or given back, ahead of its row.                        *)
(***************************************************************************)

-----------------------------------------------------------------------------
(* The only busy handler goes by what is on file *)

\* Where a handler still counts on its round being open.
OpenStops ==
  {"invest:company", "invest:judge", "invest:debit", "invest:round",
   "early:company", "early:round", "cancel:company", "cancel:pot", "cancel:investments"}
    \cup CancelLabels

RoundFreshAt(r) ==
  LET t == task[r]
  IN  /\ pc[r] = "round:insert" => ~HasOpenRound(t.co)
      /\ pc[r] \in {"invest:company", "invest:judge"} => round[t.x] = t.row
      /\ pc[r] \in OpenStops => Open(t.x)
      /\ pc[r] \in InvestLabels => /\ ~Cancelled(round, t.x)
                                   /\ Sold(t.x) + t.n <= round[t.x].shares
                                   /\ t.w[1] = t.user
      /\ pc[r] = "cancel:debit" => t.left = InvestedIn(t.x, investments)
      /\ pc[r] \in {"cancel:refund", "cancel:shares"} =>
           t.left \subseteq InvestedIn(t.x, investments)
      /\ pc[r] \in {"cancel:capital", "cancel:status"} => t.left = {}

InvestsOnFresh == ~overlapped => \A r \in Requests : RoundFreshAt(r)

\* Where a handler goes by nothing it has read of a round.
Unbound ==
  Stops \ (OpenStops \cup InvestLabels \cup {"round:insert"})

LEMMA UnboundIsFresh ==
  ASSUME NEW r \in Requests, pc'[r] \in Unbound
  PROVE  RoundFreshAt(r)'
BY DEF RoundFreshAt, Unbound, OpenStops, CancelLabels, InvestLabels

LEMMA OthersAreUnbound ==
  ASSUME IInv, NEW r \in Requests, Founding(r) \/ PaperWork(r) \/ Meeting(r)
  PROVE  pc'[r] \in Unbound
BY FoundingLeads, PaperWorkLeads, MeetingLeads
   DEF Unbound, Stops, FoundStops, CompanyStops, GovernanceStops, OpenStops, CancelLabels,
       InvestLabels

\* The rows of rounds that a step leaves alone.
SameRounds == UNCHANGED <<round, investments>>

LEMMA RoundReadsKept ==
  ASSUME SameRounds
  PROVE  /\ \A x : Sold(x)' = Sold(x) /\ (Open(x)' <=> Open(x))
         /\ \A c : HasOpenRound(c)' <=> HasOpenRound(c)
BY DEF SameRounds, Sold, SumShares, InvestedIn, Open, HasOpenRound

LEMMA RoundRequestIsFresh ==
  ASSUME IInv, NEW r \in Requests, RoundRequest(r)
  PROVE  RoundFreshAt(r)'
<1>0. SameRounds
  BY DEF RoundRequest, CreateRound, InvestReadRound, CloseReadRound, CancelReadRound,
     SameRounds, funding
<1>1. CASE CreateRound(r)
  <2>1. pc'[r] = "round:check"
    BY <1>1, StepsLead DEF CreateRound
  <2> QED
    BY <2>1, UnboundIsFresh
       DEF Unbound, Stops, FundingStops, OpenStops, CancelLabels, InvestLabels
<1>2. CASE InvestReadRound(r) \/ CloseReadRound(r) \/ CancelReadRound(r)
  <2>1. \E x \in Rounds :
          /\ Open(x) /\ task'[r].x = x /\ task'[r].row = round[x]
          /\ pc'[r] \in {"invest:company", "early:company", "cancel:company"}
    <3>1. CASE InvestReadRound(r)
      BY <3>1, StepsLead DEF InvestReadRound
    <3>2. CASE CloseReadRound(r)
      BY <3>2, StepsLead DEF CloseReadRound
    <3>3. CASE CancelReadRound(r)
      BY <3>3, StepsLead DEF CancelReadRound
    <3> QED
      BY <1>2, <3>1, <3>2, <3>3
  <2> QED
    BY <1>0, <2>1 DEF RoundFreshAt, SameRounds, Open, InvestLabels, CancelLabels
<1> QED
  BY <1>1, <1>2 DEF RoundRequest

LEMMA RoundWorkIsFresh ==
  ASSUME IInv, NEW r \in Requests, RoundCheck(r) \/ RoundInsert(r)
  PROVE  RoundFreshAt(r)'
<1>1. CASE pc'[r] = "idle"
  BY <1>1, UnboundIsFresh DEF Unbound, Stops, OpenStops, CancelLabels, InvestLabels
<1>2. CASE RoundInsert(r)
  BY <1>1, <1>2, StepsLead DEF RoundInsert
<1>3. CASE RoundCheck(r)
  <2>1. SameRounds
    BY <1>3 DEF RoundCheck, SameRounds, funding
  <2>2. \/ pc'[r] = "idle"
        \/ pc'[r] = "round:insert" /\ task'[r] = task[r] /\ ~HasOpenRound(task[r].co)
    BY <1>3, StepsLead DEF RoundCheck
  <2> QED
    BY <1>1, <2>1, <2>2 DEF RoundFreshAt, SameRounds, HasOpenRound, Open, OpenStops,
       InvestLabels, CancelLabels
<1> QED
  BY <1>2, <1>3

\* Counts and amounts of the investments in a table of them.
LEMMA InvestmentsAdd ==
  ASSUME NEW s \in Seq(Investment), NEW rows \in SUBSET DOMAIN s
  PROVE  /\ IsFiniteSet(DOMAIN s) /\ IsFiniteSet(rows)
         /\ SumShares(s, rows) \in Nat /\ SumAmounts(s, rows) \in Nat
<1>1. IsFiniteSet(DOMAIN s)
  <2>1. DOMAIN s = 1 .. Len(s) /\ Len(s) \in Nat
    OBVIOUS
  <2> QED
    BY <2>1, FS_Interval
<1>2. IsFiniteSet(rows)
  BY <1>1, FS_Subset
<1>3. \A i \in DOMAIN s : s[i].shares \in Nat /\ s[i].amount \in Nat
  <2>1. \A i \in DOMAIN s : s[i] \in Investment
    OBVIOUS
  <2> QED
    BY <2>1 DEF Investment
<1> DEFINE f == [i \in DOMAIN s |-> s[i].shares]
           g == [i \in DOMAIN s |-> s[i].amount]
<1>4. \A i \in rows : f[i] \in Nat /\ g[i] \in Nat
  BY <1>3
<1>5. SumOf(f, rows) \in Nat /\ SumOf(g, rows) \in Nat
  <2> HIDE DEF f, g
  <2> QED
    BY <1>2, <1>4, SumIsNat
<1> QED
  BY <1>1, <1>2, <1>5 DEF SumShares, SumAmounts

LEMMA SoldIsNat ==
  ASSUME IInv, NEW x
  PROVE  Sold(x) \in Nat
<1>1. investments \in Seq(Investment) /\ InvestedIn(x, investments) \in SUBSET DOMAIN investments
  BY DEF IInv, Rows, RowsTyped, InvestedIn
<1> QED
  BY <1>1, InvestmentsAdd DEF Sold

\* A handler that goes on with what it has read, over the same rows.
LEMMA GoesOnFresh ==
  ASSUME NEW r \in Requests, RoundFreshAt(r), SameRounds, task'[r] = task[r],
         \/ pc[r] \in InvestLabels /\ pc'[r] \in InvestLabels
              /\ (pc'[r] \in OpenStops => pc[r] \in OpenStops)
         \/ pc[r] \in {"cancel:company", "cancel:pot"} /\ pc'[r] \in {"cancel:pot", "cancel:investments"}
  PROVE  RoundFreshAt(r)'
BY DEF RoundFreshAt, SameRounds, InvestLabels, CancelLabels, OpenStops, Sold, SumShares,
   InvestedIn, Open, Cancelled

LEMMA InvestReadIsFresh ==
  ASSUME IInv, NEW r \in Requests, RoundFreshAt(r), InvestReadCompany(r) \/ InvestJudge(r)
  PROVE  RoundFreshAt(r)'
<1> DEFINE t == task[r]
<1>0. SameRounds
  BY DEF InvestReadCompany, InvestJudge, SameRounds, funding
<1>1. CASE pc'[r] = "idle"
  BY <1>1, UnboundIsFresh DEF Unbound, Stops, OpenStops, CancelLabels, InvestLabels
<1>2. CASE InvestReadCompany(r)
  <2>1. t \in [user : Users, x : Rounds, n : Lots, row : RoundRow]
    BY <1>2 DEF InvestReadCompany, At, IInv, TaskOK, FundingTaskOK
  <2>2. round[t.x] = t.row /\ Open(t.x)
    BY <1>2 DEF InvestReadCompany, At, RoundFreshAt, OpenStops
  <2>3. \/ pc'[r] = "idle"
        \/ pc'[r] = "invest:judge" /\ task'[r] = With(t, [f |-> firm[t.row.co]])
    BY <1>2, StepsLead DEF InvestReadCompany
  <2>4. \A f : With(t, [f |-> f]).x = t.x /\ With(t, [f |-> f]).row = t.row
    BY <2>1 DEF With
  <2> QED
    BY <1>0, <1>1, <2>2, <2>3, <2>4 DEF RoundFreshAt, SameRounds, Open, InvestLabels, CancelLabels
<1>3. CASE InvestJudge(r)
  <2>1. t \in [user : Users, x : Rounds, n : Lots, row : RoundRow, f : Firm]
    BY <1>3 DEF InvestJudge, At, IInv, TaskOK, FundingTaskOK
  <2>2. round[t.x] = t.row /\ Open(t.x)
    BY <1>3 DEF InvestJudge, At, RoundFreshAt, OpenStops
  <2>3. \/ pc'[r] = "idle"
        \/ /\ pc'[r] = "invest:debit" /\ Fits(t.n, t.row.shares - Sold(t.x))
           /\ task'[r] =
                With(t, [w |-> <<t.user, t.f.room>>,
                         amount |-> InvestAmount(t.row, t.n, t.row.shares - Sold(t.x)),
                         final |-> t.n = t.row.shares - Sold(t.x)])
    BY <1>3, StepsLead DEF InvestJudge
  <2>4. \A amount, final :
          LET n == With(t, [w |-> <<t.user, t.f.room>>, amount |-> amount, final |-> final])
          IN  n.x = t.x /\ n.n = t.n /\ n.user = t.user /\ n.w[1] = t.user
    BY <2>1 DEF With
  <2>5. Fits(t.n, t.row.shares - Sold(t.x)) => Sold(t.x) + t.n <= round[t.x].shares
    <3>1. t.n \in Nat /\ t.row.shares \in Nat /\ Sold(t.x) \in Nat
      BY <2>1, SoldIsNat, FundingAssumption DEF RoundRow
    <3> QED
      BY <2>2, <3>1 DEF Fits
  <2>6. CASE pc'[r] = "invest:debit"
    <3>1. task'[r].x = t.x /\ task'[r].n = t.n /\ task'[r].w[1] = task'[r].user
      BY <2>3, <2>4, <2>6
    <3>2. Sold(t.x) + t.n <= round[t.x].shares
      BY <2>3, <2>5, <2>6
    <3>3. (\A x : Sold(x)' = Sold(x)) /\ round' = round
      BY <1>0, RoundReadsKept DEF SameRounds
    <3>4. (Sold(task[r].x) + task[r].n <= round[task[r].x].shares)'
      BY <1>0, <3>1, <3>2, <3>3 DEF Sold, SumShares, InvestedIn, SameRounds
    <3> QED
      BY <1>0, <2>2, <2>6, <3>1, <3>4 DEF RoundFreshAt, SameRounds, Open, Cancelled, CancelLabels
  <2> QED
    BY <1>1, <2>3, <2>6
<1> QED
  BY <1>2, <1>3

\* A row that is written keeps the number of shares it offers, and the others are as
\* they were.
RoundWrites(x) ==
  /\ round'[x] # None /\ round'[x].shares = round[x].shares /\ round'[x].co = round[x].co
  /\ \A y \in Rounds : y # x => round'[y] = round[y]
  /\ investments' = investments

LEMMA StatusWrites ==
  ASSUME IInv, NEW x \in Rounds, round[x] # None, NEW n, NEW s,
         investments' = investments,
         \/ round' = [round EXCEPT ![x] = With(@, [current |-> n, status |-> s])]
         \/ round' = [round EXCEPT ![x] = With(@, [status |-> s])],
         n \in Nat, s \in {"open", "funded", "cancelled"}
  PROVE  RoundWrites(x) /\ round'[x].status = s
<1>1. round \in [Rounds -> RoundRow \cup {None}] /\ round[x] \in RoundRow
  BY DEF IInv, Rows, RowsTyped
<1>2. ASSUME NEW row, round' = [round EXCEPT ![x] = row], row \in RoundRow,
             row.shares = round[x].shares, row.co = round[x].co
      PROVE  RoundWrites(x) /\ round'[x] = row
  <2>1. row # None
    BY <1>2, FundingAssumption
  <2> QED
    BY <1>1, <1>2, <2>1 DEF RoundWrites
<1> DEFINE a == With(round[x], [current |-> n, status |-> s])
           b == With(round[x], [status |-> s])
<1>3. a \in RoundRow /\ a.shares = round[x].shares /\ a.co = round[x].co /\ a.status = s
  BY <1>1 DEF With, RoundRow
<1>4. b \in RoundRow /\ b.shares = round[x].shares /\ b.co = round[x].co /\ b.status = s
  BY <1>1 DEF With, RoundRow
<1>5. round' = [round EXCEPT ![x] = a] \/ round' = [round EXCEPT ![x] = b]
  OBVIOUS
<1> HIDE DEF a, b
<1> QED
  BY <1>2, <1>3, <1>4, <1>5

\* UpdateRoundCurrentAmount and UpdateRoundFunded leave it open or close it for good.
LEMMA InvestWrites ==
  ASSUME IInv, NEW r \in Requests, RoundFreshAt(r), InvestUpdateRound(r)
  PROVE  /\ task[r].x \in Rounds /\ Open(task[r].x)
         /\ RoundWrites(task[r].x) /\ round'[task[r].x].status \in {"open", "funded"}
<1> DEFINE t == task[r]
           s == IF t.final THEN "funded" ELSE "open"
<1>1. t.x \in Rounds /\ t.row \in RoundRow /\ t.amount \in Nat /\ t.final \in BOOLEAN
  BY InvestTyped DEF InvestUpdateRound, At, InvestLabels
<1>2. Open(t.x)
  BY DEF InvestUpdateRound, At, RoundFreshAt, OpenStops
<1>3. round' = [round EXCEPT ![t.x] = With(@, [current |-> t.row.current + t.amount, status |-> s])]
  <2>1. round[t.x].status = "open"
    BY <1>2 DEF Open
  <2>2. (IF t.final THEN "funded" ELSE round[t.x].status) = s
    BY <2>1
  <2>3. round' = [round EXCEPT ![t.x] =
          With(round[t.x], [current |-> t.row.current + t.amount,
                            status |-> IF t.final THEN "funded" ELSE round[t.x].status])]
    BY DEF InvestUpdateRound
  <2> QED
    BY <2>2, <2>3, Zenon
<1>4. t.row.current + t.amount \in Nat /\ s \in {"open", "funded"}
  BY <1>1 DEF RoundRow
<1>5. investments' = investments
  BY DEF InvestUpdateRound
<1> HIDE DEF s
<1>6. RoundWrites(t.x) /\ round'[t.x].status = s
  BY <1>1, <1>2, <1>3, <1>4, <1>5, StatusWrites DEF Open
<1> QED
  BY <1>1, <1>2, <1>4, <1>6

LEMMA CloseWrites ==
  ASSUME IInv, NEW r \in Requests, RoundFreshAt(r), CloseUpdateRound(r)
  PROVE  /\ task[r].x \in Rounds /\ Open(task[r].x)
         /\ RoundWrites(task[r].x) /\ round'[task[r].x].status = "funded"
<1> DEFINE t == task[r]
           n == t.row.current
<1>1. t.x \in Rounds /\ t.row \in RoundRow
  BY CloseTyped DEF CloseUpdateRound, At, EarlyLabels
<1>2. Open(t.x)
  BY DEF CloseUpdateRound, At, RoundFreshAt, OpenStops
<1>3. round' = [round EXCEPT ![t.x] = With(@, [current |-> n, status |-> "funded"])]
  BY DEF CloseUpdateRound
<1>4. n \in Nat /\ investments' = investments
  BY <1>1 DEF RoundRow, CloseUpdateRound
<1> HIDE DEF n
<1> QED
  BY <1>1, <1>2, <1>3, <1>4, StatusWrites DEF Open

LEMMA CancelWrites ==
  ASSUME IInv, NEW r \in Requests, RoundFreshAt(r), CancelStatus(r)
  PROVE  /\ task[r].x \in Rounds /\ Open(task[r].x)
         /\ RoundWrites(task[r].x) /\ round'[task[r].x].status = "cancelled"
<1> DEFINE t == task[r]
<1>1. t.x \in Rounds
  BY CancelTyped DEF CancelStatus, At, CancelLabels
<1>2. Open(t.x)
  BY DEF CancelStatus, At, RoundFreshAt, OpenStops, CancelLabels
<1>3. round' = [round EXCEPT ![t.x] = With(@, [status |-> "cancelled"])]
  BY DEF CancelStatus
<1>4. 0 \in Nat /\ investments' = investments
  BY DEF CancelStatus
<1> QED
  BY <1>1, <1>2, <1>3, <1>4, StatusWrites DEF Open

\* An id nobody has is given to a round that offers at least one share.
LEMMA InsertWrites ==
  ASSUME IInv, NEW r \in Requests, RoundInsert(r)
  PROVE  \/ SameRounds
         \/ \E x \in Rounds :
              /\ round[x] = None /\ round'[x] # None /\ round'[x].status = "open"
              /\ round'[x].co = task[r].co /\ round'[x].shares \in Nat \ {0}
              /\ \A y \in Rounds : y # x => round'[y] = round[y]
              /\ investments' = investments
<1> DEFINE t == task[r]
           row == [co |-> t.co, offer |-> t.offer, status |-> "open", current |-> 0,
                   shares |-> NewShares(t.offer, t.total)]
<1>1. round \in [Rounds -> RoundRow \cup {None}]
  BY DEF IInv, Rows, RowsTyped
<1>2. t.co \in Companies /\ t.offer \in Offers /\ t.total \in Nat
  BY RoundTask DEF RoundInsert, At, IInv, TaskOK, FundingTaskOK
<1>3. NewShares(t.offer, t.total) \in Nat \ {0}
  BY <1>2, NewSharesPositive
<1>4. row \in RoundRow /\ row.status = "open" /\ row.co = t.co /\ row.shares \in Nat \ {0}
  BY <1>2, <1>3 DEF RoundRow
<1>5. row # None
  BY <1>4, FundingAssumption
<1>6. investments' = investments
  BY DEF RoundInsert
<1>7. \/ round' = round
      \/ \E x \in NextId(round) : round' = [round EXCEPT ![x] = row]
  BY DEF RoundInsert
<1> HIDE DEF row
<1>8. CASE round' = round
  BY <1>6, <1>8 DEF SameRounds
<1>9. ASSUME NEW x \in NextId(round), round' = [round EXCEPT ![x] = row]
      PROVE  /\ x \in Rounds /\ round[x] = None /\ round'[x] = row
             /\ \A y \in Rounds : y # x => round'[y] = round[y]
  BY <1>1, <1>9 DEF NextId
<1> QED
  BY <1>4, <1>5, <1>6, <1>7, <1>8, <1>9

LEMMA InvestIsFresh ==
  ASSUME IInv, NEW r \in Requests, RoundFreshAt(r), InvestSteps(r)
  PROVE  RoundFreshAt(r)'
<1>1. CASE pc'[r] = "idle"
  BY <1>1, UnboundIsFresh DEF Unbound, Stops, OpenStops, CancelLabels, InvestLabels
<1>2. CASE InvestDebit(r)
  <2>1. SameRounds
    BY <1>2 DEF InvestDebit, SameRounds, funding
  <2>2. pc[r] = "invest:debit" /\ (Goto(r, "invest:round") \/ Return(r))
    BY <1>2 DEF InvestDebit, At
  <2>3. pc'[r] = "idle" \/ (pc'[r] = "invest:round" /\ task'[r] = task[r])
    BY <2>2, StepsLead
  <2> QED
    BY <1>1, <2>1, <2>2, <2>3, GoesOnFresh DEF InvestLabels, OpenStops
<1>3. CASE InvestUpdateRound(r)
  <2>1. pc[r] = "invest:round" /\ pc'[r] = "invest:total" /\ task'[r] = task[r]
    BY <1>3, StepsLead DEF InvestUpdateRound, At
  <2>2. /\ RoundWrites(task[r].x) /\ round'[task[r].x].status \in {"open", "funded"}
    BY <1>3, InvestWrites
  <2>3. /\ Sold(task[r].x) + task[r].n <= round[task[r].x].shares
        /\ task[r].w[1] = task[r].user
    BY <2>1 DEF RoundFreshAt, InvestLabels
  <2> QED
    BY <2>1, <2>2, <2>3 DEF RoundWrites, RoundFreshAt, Cancelled, Sold, OpenStops, CancelLabels
<1>4. CASE \/ InvestUpdateTotal(r) \/ InvestUpdateCapital(r) \/ InvestUpsert(r)
           \/ InvestCredit(r) \/ InvestList(r)
  <2>1. SameRounds
    BY <1>4 DEF InvestUpdateTotal, InvestUpdateCapital, InvestUpsert, InvestCredit, InvestList,
       SameRounds, funding
  <2>2. \/ pc'[r] = "idle"
        \/ /\ pc[r] \in InvestLabels /\ pc'[r] \in InvestLabels \ OpenStops
           /\ task'[r] = task[r]
    <3>1. CASE InvestUpdateTotal(r) \/ InvestUpdateCapital(r) \/ InvestUpsert(r)
      BY <3>1, StepsLead DEF InvestUpdateTotal, InvestUpdateCapital, InvestUpsert, At,
         InvestLabels, OpenStops, CancelLabels
    <3>2. CASE InvestCredit(r) \/ InvestList(r)
      BY <3>2, StepsLead DEF InvestCredit, InvestList, At, InvestLabels, OpenStops, CancelLabels
    <3> QED
      BY <1>4, <3>1, <3>2
  <2> QED
    BY <1>1, <2>1, <2>2, GoesOnFresh
<1>5. CASE InvestInsert(r)
  BY <1>1, <1>5, StepsLead DEF InvestInsert
<1> QED
  BY <1>2, <1>3, <1>4, <1>5, InvestReadIsFresh DEF InvestSteps

LEMMA CloseIsFresh ==
  ASSUME IInv, NEW r \in Requests, RoundFreshAt(r), CloseSteps(r)
  PROVE  RoundFreshAt(r)'
<1>1. CASE pc'[r] \in {"idle", "early:capital", "early:list"}
  BY <1>1, UnboundIsFresh
     DEF Unbound, Stops, FundingStops, OpenStops, CancelLabels, InvestLabels
<1>2. CASE CloseReadCompany(r)
  <2>1. SameRounds
    BY <1>2 DEF CloseReadCompany, SameRounds, funding
  <2>2. task[r] \in [x : Rounds, row : RoundRow] /\ Open(task[r].x)
    BY <1>2 DEF CloseReadCompany, At, IInv, TaskOK, FundingTaskOK, RoundFreshAt, OpenStops
  <2>3. \/ pc'[r] = "idle"
        \/ /\ pc'[r] = "early:round"
           /\ task'[r] = With(task[r], [f |-> firm[task[r].row.co]])
    BY <1>2, StepsLead DEF CloseReadCompany
  <2>4. With(task[r], [f |-> firm[task[r].row.co]]).x = task[r].x
    BY <2>2 DEF With
  <2> QED
    BY <1>1, <2>1, <2>2, <2>3, <2>4
       DEF RoundFreshAt, SameRounds, Open, InvestLabels, CancelLabels
<1>3. CASE CloseUpdateRound(r) \/ CloseUpdateCapital(r) \/ CloseList(r)
  BY <1>1, <1>3, StepsLead DEF CloseUpdateRound, CloseUpdateCapital, CloseList
<1> QED
  BY <1>2, <1>3 DEF CloseSteps

LEMMA CancelReadIsFresh ==
  ASSUME IInv, NEW r \in Requests, RoundFreshAt(r),
         CancelReadCompany(r) \/ CancelReadPot(r) \/ CancelReadInvestments(r) \/ CancelDebit(r)
  PROVE  RoundFreshAt(r)'
<1>0. SameRounds
  BY DEF CancelReadCompany, CancelReadPot, CancelReadInvestments, CancelDebit, SameRounds, funding
<1>1. CASE pc'[r] = "idle"
  BY <1>1, UnboundIsFresh DEF Unbound, Stops, OpenStops, CancelLabels, InvestLabels
<1>2. CASE CancelReadCompany(r)
  <2>1. task[r] \in [x : Rounds, row : RoundRow] /\ Open(task[r].x)
    BY <1>2 DEF CancelReadCompany, At, IInv, TaskOK, FundingTaskOK, RoundFreshAt, OpenStops
  <2>2. pc'[r] = "cancel:pot" /\ task'[r] = With(task[r], [f |-> firm[task[r].row.co]])
    BY <1>2, StepsLead DEF CancelReadCompany
  <2>3. With(task[r], [f |-> firm[task[r].row.co]]).x = task[r].x
    BY <2>1 DEF With
  <2> QED
    BY <1>0, <2>1, <2>2, <2>3 DEF RoundFreshAt, SameRounds, Open, InvestLabels, CancelLabels
<1>3. CASE CancelReadPot(r)
  <2>1. /\ pc[r] = "cancel:pot"
        /\ pc'[r] = "idle" \/ (pc'[r] = "cancel:investments" /\ task'[r] = task[r])
    BY <1>3, StepsLead DEF CancelReadPot, At
  <2> QED
    BY <1>0, <1>1, <2>1, GoesOnFresh
<1>4. CASE CancelReadInvestments(r)
  <2> DEFINE n == With(task[r], [left |-> InvestedIn(task[r].x, investments), returned |-> 0])
  <2>1. task[r] \in [x : Rounds, row : RoundRow, f : Firm] /\ Open(task[r].x)
    BY <1>4 DEF CancelReadInvestments, At, IInv, TaskOK, FundingTaskOK, RoundFreshAt, OpenStops
  <2>2. pc'[r] \in {"cancel:debit", "cancel:refund"} /\ task'[r] = n
    BY <1>4, StepsLead DEF CancelReadInvestments
  <2>3. n.x = task[r].x /\ n.left = InvestedIn(task[r].x, investments)
    BY <2>1 DEF With
  <2> HIDE DEF n
  <2> QED
    BY <1>0, <2>1, <2>2, <2>3
       DEF RoundFreshAt, SameRounds, Open, InvestLabels, CancelLabels, InvestedIn
<1>5. CASE CancelDebit(r)
  <2>1. /\ pc[r] = "cancel:debit"
        /\ pc'[r] = "idle" \/ (pc'[r] = "cancel:refund" /\ task'[r] = task[r])
    BY <1>5, StepsLead DEF CancelDebit, At
  <2>2. Open(task[r].x) /\ task[r].left = InvestedIn(task[r].x, investments)
    BY <2>1 DEF RoundFreshAt, OpenStops, CancelLabels
  <2> QED
    BY <1>0, <1>1, <2>1, <2>2
       DEF RoundFreshAt, SameRounds, Open, InvestLabels, CancelLabels, InvestedIn
<1> QED
  BY <1>2, <1>3, <1>4, <1>5

LEMMA CancelIsFresh ==
  ASSUME IInv, NEW r \in Requests, RoundFreshAt(r), CancelSteps(r)
  PROVE  RoundFreshAt(r)'
<1>1. CASE CancelStatus(r)
  BY <1>1, StepsLead, UnboundIsFresh
     DEF CancelStatus, Unbound, Stops, OpenStops, CancelLabels, InvestLabels
<1>2. CASE CancelRefund(r) \/ CancelShares(r)
  <2> DEFINE left == task[r].left \ {First(task[r].left)}
  <2>0. pc[r] \in {"cancel:refund", "cancel:shares"} /\ SameRounds
    BY <1>2 DEF CancelRefund, CancelShares, At, SameRounds, funding
  <2>1. CancelTask(task[r])
    BY <2>0, CancelTyped DEF CancelLabels
  <2>2. Open(task[r].x) /\ task[r].left \subseteq InvestedIn(task[r].x, investments)
    BY <2>0 DEF RoundFreshAt, OpenStops, CancelLabels
  <2>3. /\ pc'[r] \in {"cancel:refund", "cancel:shares"}
        /\ \/ task'[r] = task[r]
           \/ task'[r] = With(task[r], [left |-> left])
           \/ task'[r] = With(task[r], [left |-> left,
                returned |-> task[r].returned + investments[First(task[r].left)].shares])
    <3>1. CASE CancelRefund(r)
      BY <3>1, StepsLead DEF CancelRefund
    <3>2. CASE CancelShares(r)
      BY <3>2, StepsLead DEF CancelShares
    <3> QED
      BY <1>2, <3>1, <3>2
  <2>4. task'[r].x = task[r].x /\ task'[r].left \subseteq task[r].left
    <3> HIDE DEF left
    <3>1. \A n : With(task[r], [left |-> left, returned |-> n]).x = task[r].x
                 /\ With(task[r], [left |-> left, returned |-> n]).left = left
      BY <2>1 DEF With, CancelTask
    <3>2. With(task[r], [left |-> left]).x = task[r].x /\ With(task[r], [left |-> left]).left = left
      BY <2>1 DEF With, CancelTask
    <3>3. left \subseteq task[r].left
      BY DEF left
    <3> QED
      BY <2>3, <3>1, <3>2, <3>3
  <2> HIDE DEF left
  <2> QED
    BY <2>0, <2>2, <2>3, <2>4
       DEF RoundFreshAt, SameRounds, Open, InvestLabels, CancelLabels, InvestedIn
<1>3. CASE CancelUpdateTotal(r) \/ CancelUpdateCapital(r)
  <2>0. SameRounds
    BY <1>3 DEF CancelUpdateTotal, CancelUpdateCapital, SameRounds, funding
  <2>1. /\ pc[r] \in {"cancel:refund", "cancel:capital"} /\ task[r].left = {}
        /\ pc'[r] \in {"cancel:capital", "cancel:status"} /\ task'[r] = task[r]
    BY <1>3, StepsLead DEF CancelUpdateTotal, CancelUpdateCapital, At, RoundFreshAt
  <2>2. Open(task[r].x)
    BY <2>1 DEF RoundFreshAt, OpenStops, CancelLabels
  <2> QED
    BY <2>0, <2>1, <2>2 DEF RoundFreshAt, SameRounds, Open, InvestLabels
<1> QED
  BY <1>1, <1>2, <1>3, CancelReadIsFresh DEF CancelSteps

LEMMA DividendLeads ==
  ASSUME IInv, NEW r \in Requests, DividendSteps(r)
  PROVE  pc'[r] \in {"idle", "dividend:pot", "dividend:insert", "dividend:holders",
                     "dividend:pay", "dividend:row"}
<1>1. DividendReadCompany(r) => pc'[r] = "dividend:pot"
  BY StepsLead DEF DividendReadCompany
<1>2. DividendDebit(r) => pc'[r] \in {"idle", "dividend:insert"}
  BY StepsLead DEF DividendDebit
<1>3. DividendInsert(r) => pc'[r] \in {"idle", "dividend:holders"}
  BY StepsLead DEF DividendInsert
<1>4. DividendHolders(r) => pc'[r] \in {"idle", "dividend:pay"}
  BY StepsLead DEF DividendHolders
<1>5. DividendPay(r) \/ DividendRow(r) \/ DividendDone(r) =>
        pc'[r] \in {"idle", "dividend:pay", "dividend:row"}
  BY StepsLead DEF DividendPay, DividendRow, DividendDone
<1> QED
  BY <1>1, <1>2, <1>3, <1>4, <1>5 DEF DividendSteps

LEMMA RoundsStayFresh ==
  ASSUME IInv, AtMostOne, InvestsOnFresh, [Next]_vars
  PROVE  InvestsOnFresh'
<1> SUFFICES ASSUME ~overlapped', NEW q \in Requests
             PROVE  RoundFreshAt(q)'
  BY DEF InvestsOnFresh
<1>0. \A r \in Requests : RoundFreshAt(r)
  BY StaysOverlapped DEF InvestsOnFresh
<1>1. ASSUME pc'[q] = "idle"
      PROVE  RoundFreshAt(q)'
  BY <1>1, UnboundIsFresh DEF Unbound, Stops, OpenStops, CancelLabels, InvestLabels
<1>2. ASSUME NEW r \in Requests, Founding(r) \/ PaperWork(r) \/ FundingWork(r) \/ Meeting(r)
      PROVE  RoundFreshAt(r)'
  <2>1. CASE DividendSteps(r)
    <3>1. pc'[r] \in {"idle"} \cup FundingStops
      BY <2>1, FundingLeads DEF FundingWork
    <3>2. pc'[r] \notin OpenStops \cup InvestLabels \cup {"round:insert"}
      BY <2>1, DividendLeads DEF OpenStops, InvestLabels, CancelLabels
    <3> QED
      BY <3>1, <3>2, UnboundIsFresh DEF Unbound, Stops
  <2>2. CASE Founding(r) \/ PaperWork(r) \/ Meeting(r)
    BY <2>2, OthersAreUnbound, UnboundIsFresh
  <2> QED
    BY <1>0, <1>2, <2>1, <2>2, RoundRequestIsFresh, RoundWorkIsFresh, InvestIsFresh, CloseIsFresh,
       CancelIsFresh DEF FundingWork
<1>3. ASSUME UNCHANGED <<handlers, round, investments>>
      PROVE  RoundFreshAt(q)'
  BY <1>0, <1>3 DEF handlers, RoundFreshAt, HasOpenRound, Open, Cancelled, Sold, SumShares, InvestedIn
<1>4. ASSUME NEW r \in Requests, Serves(r),
             Founding(r) \/ PaperWork(r) \/ FundingWork(r) \/ Meeting(r)
      PROVE  RoundFreshAt(q)'
  BY <1>1, <1>2, <1>4, Sole, StaysOverlapped
<1>5. CASE Restart
  BY <1>1, <1>5 DEF Restart, ServerRestart
<1>6. CASE Aside /\ (SharesChangeHands \/ ActivateClassroom) /\ UNCHANGED <<funding, governance>>
  BY <1>3, <1>6 DEF Aside, funding
<1>7. CASE Aside /\ (VotingEnds \/ UNCHANGED vars)
  BY <1>3, <1>7 DEF Aside, VotingEnds, vars, funding
<1> QED
  BY <1>4, <1>5, <1>6, <1>7, WhoMoves

-----------------------------------------------------------------------------
(* No round is oversold, and one is open at a time *)

RoundsInOrder ==
  ~overlapped =>
    /\ \A x \in Rounds : round[x] # None => Sold(x) <= round[x].shares
    /\ \A x, y \in Rounds : Open(x) /\ Open(y) /\ round[x].co = round[y].co => x = y

InvestmentsRefer == \A i \in DOMAIN investments : round[investments[i].round] # None

LEMMA MeetingKeepsRounds ==
  ASSUME NEW r \in Requests, Meeting(r)
  PROVE  SameRounds
<1>1. CASE LiquidateSteps(r)
  BY <1>1 DEF LiquidateSteps, ExecuteReadCompany, ExecuteReadHolder, LiquidateReadPot,
     LiquidateReadHolders, LiquidateDebit, LiquidatePay, LiquidateDissolve,
     LiquidateExecuted, LiquidateDisclose, funding, SameRounds
<1>2. CASE VoteSteps(r) \/ ReadProposal(r) \/ CloseReadFirm(r) \/ CloseTally(r) \/ CloseStatus(r)
  BY <1>2 DEF VoteSteps, VoteReadHolder, VoteInsert, AutoReadCompany, AutoTally,
     ReadProposal, CloseReadFirm, CloseTally, CloseStatus, funding, SameRounds
<1>3. CASE \/ CreateProposal(r) \/ ProposeReadHolder(r) \/ ProposeReadActive(r)
           \/ ProposeInsert(r) \/ ShareholderRequest(r) \/ WithdrawStatus(r)
  BY <1>3 DEF CreateProposal, ProposeReadHolder, ProposeReadActive, ProposeInsert,
     ShareholderRequest, CastVote, ExecuteLiquidation, CancelProposal, WithdrawStatus,
     funding, SameRounds
<1> QED
  BY <1>1, <1>2, <1>3 DEF Meeting

LEMMA WhoWritesRounds ==
  ASSUME IInv, [Next]_vars
  PROVE  \/ SameRounds
         \/ \E r \in Requests :
              \/ RoundInsert(r) \/ InvestUpdateRound(r) \/ CloseUpdateRound(r)
              \/ CancelStatus(r) \/ InvestInsert(r)
<1>1. ASSUME NEW r \in Requests, FundingWork(r)
      PROVE  \/ SameRounds
             \/ RoundInsert(r) \/ InvestUpdateRound(r) \/ CloseUpdateRound(r)
             \/ CancelStatus(r) \/ InvestInsert(r)
  <2>1. CASE RoundRequest(r) \/ RoundCheck(r)
    BY <2>1 DEF RoundRequest, CreateRound, InvestReadRound, CloseReadRound, CancelReadRound,
       RoundCheck, SameRounds, funding
  <2>2. CASE InvestSteps(r)
    BY <2>2 DEF InvestSteps, InvestReadCompany, InvestJudge, InvestDebit, InvestUpdateTotal,
       InvestUpdateCapital, InvestUpsert, InvestCredit, InvestList, SameRounds, funding
  <2>3. CASE CloseSteps(r)
    BY <2>3 DEF CloseSteps, CloseReadCompany, CloseUpdateCapital, CloseList, SameRounds, funding
  <2>4. CASE CancelSteps(r)
    BY <2>4 DEF CancelSteps, CancelReadCompany, CancelReadPot, CancelReadInvestments,
       CancelDebit, CancelRefund, CancelShares, CancelUpdateTotal, CancelUpdateCapital,
       SameRounds, funding
  <2>5. CASE DividendSteps(r)
    BY <2>5 DEF DividendSteps, DividendReadCompany, DividendDebit, DividendInsert,
       DividendHolders, DividendPay, DividendRow, DividendDone, SameRounds, funding
  <2> QED
    BY <1>1, <2>1, <2>2, <2>3, <2>4, <2>5 DEF FundingWork
<1>2. CASE VotingEnds \/ UNCHANGED vars \/ Restart
  BY <1>2 DEF VotingEnds, vars, Restart, funding, SameRounds
<1> QED
  BY <1>1, <1>2, WhoMoves, MeetingKeepsRounds DEF funding, SameRounds

\* One more investment adds its shares and its amount to the rows it is among.
LEMMA InvestmentAppended ==
  ASSUME NEW s \in Seq(Investment), NEW new \in Investment
  PROVE  /\ Append(s, new) \in Seq(Investment)
         /\ \A x : InvestedIn(x, Append(s, new)) =
                IF new.round = x THEN InvestedIn(x, s) \cup {Len(s) + 1}
                ELSE InvestedIn(x, s)
         /\ \A u, x : InvestedBy(u, x, Append(s, new)) =
                IF new.round = x /\ new.user = u THEN InvestedBy(u, x, s) \cup {Len(s) + 1}
                ELSE InvestedBy(u, x, s)
         /\ \A rows \in SUBSET DOMAIN s :
              /\ SumShares(Append(s, new), rows) = SumShares(s, rows)
              /\ SumAmounts(Append(s, new), rows) = SumAmounts(s, rows)
              /\ SumShares(Append(s, new), rows \cup {Len(s) + 1}) = SumShares(s, rows) + new.shares
              /\ SumAmounts(Append(s, new), rows \cup {Len(s) + 1}) = SumAmounts(s, rows) + new.amount
<1> DEFINE k == Len(s) + 1
           t == Append(s, new)
<1>1. /\ t \in Seq(Investment) /\ DOMAIN t = DOMAIN s \cup {k} /\ k \notin DOMAIN s
      /\ t[k] = new /\ \A i \in DOMAIN s : t[i] = s[i]
  OBVIOUS
<1> HIDE DEF t
<1>2. /\ \A x : InvestedIn(x, t) = IF new.round = x THEN InvestedIn(x, s) \cup {k}
                                    ELSE InvestedIn(x, s)
      /\ \A u, x : InvestedBy(u, x, t) = IF new.round = x /\ new.user = u
                                         THEN InvestedBy(u, x, s) \cup {k}
                                         ELSE InvestedBy(u, x, s)
  <2> HIDE DEF k
  <2> QED
    BY <1>1 DEF InvestedIn, InvestedBy
<1>3. ASSUME NEW rows \in SUBSET DOMAIN s
      PROVE  /\ SumShares(t, rows) = SumShares(s, rows)
             /\ SumAmounts(t, rows) = SumAmounts(s, rows)
             /\ SumShares(t, rows \cup {k}) = SumShares(s, rows) + new.shares
             /\ SumAmounts(t, rows \cup {k}) = SumAmounts(s, rows) + new.amount
  <2> DEFINE f == [i \in DOMAIN s |-> s[i].shares]
             g == [i \in DOMAIN t |-> t[i].shares]
             a == [i \in DOMAIN s |-> s[i].amount]
             b == [i \in DOMAIN t |-> t[i].amount]
             T == rows \cup {k}
  <2>1. IsFiniteSet(rows) /\ k \notin rows
    BY <1>1, InvestmentsAdd
  <2>2. /\ \A i \in rows : f[i] \in Int /\ g[i] = f[i] /\ a[i] \in Int /\ b[i] = a[i]
        /\ g[k] = new.shares /\ b[k] = new.amount /\ g[k] \in Int /\ b[k] \in Int
    <3>1. \A i \in rows : s[i] \in Investment
      OBVIOUS
    <3> HIDE DEF k
    <3> QED
      BY <1>1, <3>1 DEF Investment
  <2> HIDE DEF f, g, a, b, k
  <2>3. SumOf(g, rows) = SumOf(f, rows) /\ SumOf(b, rows) = SumOf(a, rows)
    BY <2>1, <2>2, SumsAgree
  <2>4. SumOf(g, T) = SumOf(f, rows) + g[k]
    <3> HIDE DEF T
    <3> QED
      BY <2>1, <2>2, SumInsert DEF T
  <2>5. SumOf(b, T) = SumOf(a, rows) + b[k]
    <3> HIDE DEF T
    <3> QED
      BY <2>1, <2>2, SumInsert DEF T
  <2> QED
    BY <2>2, <2>3, <2>4, <2>5 DEF SumShares, SumAmounts, f, g, a, b, T
<1> QED
  BY <1>1, <1>2, <1>3, Zenon DEF t

\* The same of the amounts alone, as the proofs below cite it.
LEMMA AmountAppended ==
  ASSUME NEW s \in Seq(Investment), NEW new \in Investment, NEW rows \in SUBSET DOMAIN s
  PROVE  /\ SumAmounts(Append(s, new), rows) = SumAmounts(s, rows)
         /\ SumAmounts(Append(s, new), rows \cup {Len(s) + 1}) = SumAmounts(s, rows) + new.amount
BY InvestmentAppended, ZenonT(30)

LEMMA InsertInvests ==
  ASSUME IInv, NEW r \in Requests, RoundFreshAt(r), InvestInsert(r)
  PROVE  /\ investments \in Seq(Investment) /\ Bought(task[r]) \in Investment
         /\ investments' = Append(investments, Bought(task[r])) /\ round' = round
         /\ round[task[r].x] # None /\ ~Cancelled(round, task[r].x)
         /\ Sold(task[r].x) + task[r].n <= round[task[r].x].shares
<1>0. investments \in Seq(Investment)
  BY DEF IInv, Rows, RowsTyped
<1>1. /\ task[r].x \in Rounds /\ task[r].user \in Users /\ task[r].amount \in Nat
      /\ task[r].n \in Nat /\ CopyOf(task[r].row, task[r].x)
  BY InvestTyped DEF InvestInsert, At, InvestLabels
<1>2. Bought(task[r]) \in Investment
  BY <1>1 DEF Bought, Investment
<1> QED
  BY <1>0, <1>1, <1>2 DEF InvestInsert, At, RoundFreshAt, InvestLabels, CopyOf

LEMMA InvestmentsStillRefer ==
  ASSUME IInv, InvestmentsRefer, [Next]_vars
  PROVE  InvestmentsRefer'
<1>0. investments \in Seq(Investment)
  BY DEF IInv, Rows, RowsTyped
<1>1. \A x \in Rounds : round[x] # None => round'[x] # None
  BY InvariantKept DEF Grows
<1>2. \A i \in DOMAIN investments : investments[i].round \in Rounds
  <2>1. \A i \in DOMAIN investments : investments[i] \in Investment
    BY <1>0
  <2> QED
    BY <2>1 DEF Investment
<1>3. CASE investments' = investments
  BY <1>1, <1>2, <1>3 DEF InvestmentsRefer
<1>4. ASSUME NEW r \in Requests, InvestInsert(r)
      PROVE  InvestmentsRefer'
  <2>1. /\ task[r].x \in Rounds /\ round[task[r].x] # None
    BY <1>4, InvestTyped DEF InvestInsert, At, InvestLabels, CopyOf
  <2>2. investments' = Append(investments, Bought(task[r])) /\ Bought(task[r]).round = task[r].x
    BY <1>4 DEF InvestInsert, Bought
  <2>3. ASSUME NEW i \in DOMAIN investments'
        PROVE  round'[investments'[i].round] # None
    <3>1. \/ i \in DOMAIN investments /\ investments'[i] = investments[i]
          \/ investments'[i] = Bought(task[r])
      BY <1>0, <2>2
    <3> QED
      BY <1>1, <1>2, <2>1, <2>2, <3>1 DEF InvestmentsRefer
  <2> QED
    BY <2>3 DEF InvestmentsRefer
<1> QED
  BY <1>3, <1>4, WhoWritesRounds
     DEF SameRounds, RoundInsert, InvestUpdateRound, CloseUpdateRound, CancelStatus

\* A round without investments has sold nothing.
LEMMA NothingSold ==
  ASSUME IInv, InvestmentsRefer, NEW x \in Rounds, round[x] = None
  PROVE  Sold(x) = 0
<1>1. InvestedIn(x, investments) = {}
  BY DEF InvestmentsRefer, InvestedIn
<1> QED
  BY <1>1, SumOfNothing DEF Sold, SumShares

LEMMA SoldKept ==
  ASSUME investments' = investments
  PROVE  \A x : Sold(x)' = Sold(x)
BY DEF Sold, SumShares, InvestedIn

\* A round that is open is only written by who has seen it open.
LEMMA StatusKeepsOrder ==
  ASSUME IInv, RoundsInOrder, ~overlapped, NEW x \in Rounds, Open(x), RoundWrites(x)
  PROVE  RoundsInOrder'
<1>1. \A y \in Rounds : Open(y)' => Open(y) /\ round'[y].co = round[y].co
  BY DEF RoundWrites, Open
<1>2. \A y \in Rounds : round'[y] # None => round[y] # None /\ round'[y].shares = round[y].shares
  BY DEF RoundWrites, Open
<1>3. \A y : Sold(y)' = Sold(y)
  BY SoldKept DEF RoundWrites
<1> QED
  BY <1>1, <1>2, <1>3 DEF RoundsInOrder

LEMMA InsertKeepsOrder ==
  ASSUME IInv, InvestmentsRefer, RoundsInOrder, ~overlapped, NEW r \in Requests,
         RoundFreshAt(r), RoundInsert(r)
  PROVE  RoundsInOrder'
<1>1. CASE SameRounds
  BY <1>1, RoundReadsKept DEF RoundsInOrder, SameRounds
<1>2. ASSUME NEW x \in Rounds, round[x] = None, round'[x] # None, round'[x].status = "open",
             round'[x].co = task[r].co, round'[x].shares \in Nat \ {0},
             \A y \in Rounds : y # x => round'[y] = round[y], investments' = investments
      PROVE  RoundsInOrder'
  <2>1. ~HasOpenRound(task[r].co)
    BY DEF RoundInsert, At, RoundFreshAt
  <2>2. \A y \in Rounds : Sold(y)' = Sold(y)
    BY <1>2, SoldKept
  <2>3. \A y \in Rounds : round'[y] # None => Sold(y)' <= round'[y].shares
    <3>1. Sold(x) = 0
      BY <1>2, NothingSold
    <3> QED
      BY <1>2, <2>2, <3>1 DEF RoundsInOrder
  <2>4. \A y, z \in Rounds : Open(y)' /\ Open(z)' /\ round'[y].co = round'[z].co => y = z
    <3>1. \A y \in Rounds : y # x /\ Open(y)' => Open(y) /\ round[y].co # task[r].co
      BY <1>2, <2>1 DEF Open, HasOpenRound
    <3>2. \A y \in Rounds : y # x => round'[y] = round[y]
      BY <1>2
    <3>3. round'[x].co = task[r].co
      BY <1>2
    <3> QED
      BY <3>1, <3>2, <3>3 DEF RoundsInOrder
  <2> QED
    BY <2>3, <2>4 DEF RoundsInOrder
<1> QED
  BY <1>1, <1>2, InsertWrites

LEMMA InvestKeepsOrder ==
  ASSUME IInv, RoundsInOrder, ~overlapped, NEW r \in Requests, RoundFreshAt(r), InvestInsert(r)
  PROVE  RoundsInOrder'
<1> DEFINE buy == Bought(task[r])
<1>1. /\ investments \in Seq(Investment) /\ buy \in Investment
      /\ investments' = Append(investments, buy) /\ round' = round
      /\ Sold(task[r].x) + task[r].n <= round[task[r].x].shares
  BY InsertInvests
<1>2. buy.round = task[r].x /\ buy.shares = task[r].n
  BY DEF Bought
<1> HIDE DEF buy
<1>3. ASSUME NEW x \in Rounds, round[x] # None
      PROVE  Sold(x)' <= round[x].shares
  <2> DEFINE rows == InvestedIn(x, investments)
             more == rows \cup {Len(investments) + 1}
  <2>1. rows \in SUBSET DOMAIN investments
    BY DEF InvestedIn
  <2>2. Sold(x) = SumShares(investments, rows)
    BY DEF Sold
  <2>3. InvestedIn(x, investments') = IF buy.round = x THEN more ELSE rows
    <3>1. InvestedIn(x, Append(investments, buy)) = IF buy.round = x THEN more ELSE rows
      BY <1>1, InvestmentAppended
    <3> QED
      BY <1>1, <3>1
  <2>4. /\ SumShares(investments', rows) = SumShares(investments, rows)
        /\ SumShares(investments', more) = SumShares(investments, rows) + buy.shares
    <3> HIDE DEF rows
    <3> QED
      BY <1>1, <2>1, InvestmentAppended
  <2>5. Sold(x)' = SumShares(investments', IF buy.round = x THEN more ELSE rows)
    BY <2>3 DEF Sold
  <2> HIDE DEF rows, more
  <2> QED
    BY <1>1, <1>2, <1>3, <2>2, <2>4, <2>5 DEF RoundsInOrder
<1>4. \A x \in Rounds : Open(x)' <=> Open(x)
  BY <1>1 DEF Open
<1> QED
  BY <1>1, <1>3, <1>4 DEF RoundsInOrder

LEMMA OrderKept ==
  ASSUME IInv, InvestmentsRefer, InvestsOnFresh, RoundsInOrder, [Next]_vars
  PROVE  RoundsInOrder'
<1>1. CASE overlapped'
  BY <1>1 DEF RoundsInOrder
<1>2. CASE ~overlapped'
  <2>1. ~overlapped /\ \A r \in Requests : RoundFreshAt(r)
    BY <1>2, StaysOverlapped DEF InvestsOnFresh
  <2>2. CASE SameRounds
    BY <2>1, <2>2, RoundReadsKept DEF RoundsInOrder, SameRounds
  <2>3. ASSUME NEW r \in Requests,
               InvestUpdateRound(r) \/ CloseUpdateRound(r) \/ CancelStatus(r)
        PROVE  RoundsInOrder'
    BY <2>1, <2>3, InvestWrites, CloseWrites, CancelWrites, StatusKeepsOrder
  <2> QED
    BY <2>1, <2>2, <2>3, InsertKeepsOrder, InvestKeepsOrder, WhoWritesRounds
<1> QED
  BY <1>1, <1>2

-----------------------------------------------------------------------------
(* A company that exists has its wallet, but while it is being founded *)

PotsOpen ==
  Unbroken => \A c \in Companies : Exists(c) =>
                \/ HasPot(c)
                \/ \E r \in Requests : pc[r] = "found:pot" /\ task[r].co = c

LEMMA FoundingOpensPot ==
  ASSUME IInv, [Next]_vars, restarts' = 0, NEW r \in Requests, pc[r] = "found:pot"
  PROVE  \/ pc'[r] = "found:pot" /\ task'[r] = task[r]
         \/ pot'[task[r].co] # None
<1>1. CASE Stays(r)
  BY <1>1 DEF Stays
<1>2. CASE Restart
  <2>1. restarts \in Nat
    BY ServerAssumption DEF IInv, ControlOK
  <2> QED
    BY <1>2, <2>1 DEF Restart, ServerRestart
<1>3. CASE Founding(r)
  <2>1. pot' = [pot EXCEPT ![task[r].co] = task[r].capital] /\ task'[r] = task[r]
    BY <1>3, FoundingLeads, StepsLead DEF FoundWallet
  <2>2. task[r].co \in Companies /\ task[r].capital \in Nat
    BY FoundedTask
  <2>3. task[r].capital # None
    BY <2>2, CompanyAssumption
  <2>4. pot \in [Companies -> Int \cup {None}]
    BY DEF IInv, Rows, RowsTyped
  <2>5. pot'[task[r].co] # None
    BY <2>1, <2>2, <2>3, <2>4
  <2> QED
    BY <2>5
<1>4. CASE PaperWork(r) \/ FundingWork(r) \/ Meeting(r)
  <2>1. pc[r] \notin {"idle"} \cup (CompanyStops \ FoundStops) \cup FundingStops \cup GovernanceStops
    BY DEF FoundStops, CompanyStops, FundingStops, GovernanceStops
  <2> QED
    BY <1>4, <2>1, PaperWorkLeads, FundingLeads, MeetingLeads
<1> QED
  BY <1>1, <1>2, <1>3, <1>4, Lanes

LEMMA FoundedAwaitsPot ==
  ASSUME IInv, [Next]_vars, NEW r \in Requests, FoundCreate(r), NEW c \in Companies,
         ~Exists(c), Exists(c)'
  PROVE  pc'[r] = "found:pot" /\ task'[r].co = c
<1>1. firm \in [Companies -> Firm \cup {None}]
  BY DEF IInv, Rows, RowsTyped
<1>2. firm' # firm
  BY DEF Exists
<1>3. Goto(r, "found:pot") /\ firm' = [firm EXCEPT ![task[r].co] = NewFirm(task[r])]
  BY <1>2 DEF FoundCreate
<1>4. c = task[r].co
  BY <1>1, <1>3 DEF Exists
<1> QED
  BY <1>3, <1>4, StepsLead

LEMMA PotsStayOpen ==
  ASSUME IInv, PotsOpen, [Next]_vars
  PROVE  PotsOpen'
<1> SUFFICES ASSUME Unbroken', NEW c \in Companies, Exists(c)'
             PROVE  \/ HasPot(c)'
                    \/ \E r \in Requests : pc'[r] = "found:pot" /\ task'[r].co = c
  BY DEF PotsOpen
<1>1. Unbroken /\ restarts' = 0
  BY StaysOverlapped DEF Unbroken
<1>2. CASE Exists(c)
  <2>1. CASE HasPot(c)
    BY <2>1, InvariantKept DEF Grows
  <2>2. ASSUME NEW r \in Requests, pc[r] = "found:pot", task[r].co = c
        PROVE  HasPot(c)' \/ (pc'[r] = "found:pot" /\ task'[r].co = c)
    BY <1>1, <2>2, FoundingOpensPot DEF HasPot
  <2> QED
    BY <1>1, <1>2, <2>1, <2>2 DEF PotsOpen
<1>3. CASE ~Exists(c)
  <2>1. PICK r \in Requests : FoundCreate(r)
    BY <1>3, OnlyFoundersFound DEF NoneNew
  <2> QED
    BY <1>3, <2>1, FoundedAwaitsPot
<1> QED
  BY <1>2, <1>3

-----------------------------------------------------------------------------
(* What an investor's wallets have been paid on account of a round *)

BuyKey(u, k, x) == <<<<u, k>>, "investment", x>>

PaidIn(l, u, x) == SumOf([k \in Classrooms |-> Entry(l, BuyKey(u, k, x)).sum], Classrooms)

BuysTyped == \A u \in Users, k \in Classrooms, x \in Rounds : Entry(log, BuyKey(u, k, x)).sum \in Int

BuysKept ==
  \A u \in Users, k \in Classrooms, x \in Rounds :
    Entry(log', BuyKey(u, k, x)) = Entry(log, BuyKey(u, k, x))

LEMMA PaidIsInt ==
  ASSUME BuysTyped, NEW u \in Users, NEW x \in Rounds
  PROVE  PaidIn(log, u, x) \in Int
<1> DEFINE f == [k \in Classrooms |-> Entry(log, BuyKey(u, k, x)).sum]
<1>1. \A k \in Classrooms : f[k] \in Int
  BY DEF BuysTyped
<1>2. SumOf(f, Classrooms) \in Int
  <2> HIDE DEF f
  <2> QED
    BY <1>1, SumIsInt, CompanyAssumption
<1> QED
  BY <1>2 DEF PaidIn

LEMMA PaidKept ==
  ASSUME BuysTyped, BuysKept
  PROVE  BuysTyped' /\ \A u \in Users, x \in Rounds : PaidIn(log', u, x) = PaidIn(log, u, x)
<1>1. BuysTyped'
  BY DEF BuysTyped, BuysKept
<1>2. ASSUME NEW u \in Users, NEW x \in Rounds
      PROVE  PaidIn(log', u, x) = PaidIn(log, u, x)
  <2> DEFINE f == [k \in Classrooms |-> Entry(log, BuyKey(u, k, x)).sum]
             g == [k \in Classrooms |-> Entry(log', BuyKey(u, k, x)).sum]
  <2>1. \A k \in Classrooms : f[k] \in Int /\ f[k] = g[k]
    BY DEF BuysTyped, BuysKept
  <2>2. SumOf(f, Classrooms) = SumOf(g, Classrooms)
    <3> HIDE DEF f, g
    <3> QED
      BY <2>1, SumsAgree, CompanyAssumption
  <2> QED
    BY <2>2 DEF PaidIn
<1> QED
  BY <1>1, <1>2

\* The keys of wallets are not those of companies, whose logs are of another table.
LEMMA CompanyBuysKept ==
  ASSUME NEW c \in Companies, NEW x, NEW n \in Int,
         log' = Logged(log, <<c, "investment", x>>, n)
  PROVE  BuysKept
<1>1. ASSUME NEW u \in Users, NEW k \in Classrooms, NEW y \in Rounds
      PROVE  Entry(log', BuyKey(u, k, y)) = Entry(log, BuyKey(u, k, y))
  <2>1. <<u, k>> # c
    BY CompanyAssumption DEF Wallets
  <2>2. BuyKey(u, k, y) # <<c, "investment", x>>
    BY <2>1 DEF BuyKey
  <2> QED
    BY <2>2, EntryLogged
<1> QED
  BY <1>1 DEF BuysKept

LEMMA OtherBuysKept ==
  ASSUME Keeps("investment")
  PROVE  BuysKept
BY DEF Keeps, BuysKept, BuyKey

LEMMA BuyEntered ==
  ASSUME BuysTyped, NEW v \in Users, NEW j \in Classrooms, NEW y \in Rounds, NEW n \in Int,
         log' = Logged(log, BuyKey(v, j, y), n)
  PROVE  /\ BuysTyped'
         /\ \A u \in Users, x \in Rounds : u # v \/ x # y => PaidIn(log', u, x) = PaidIn(log, u, x)
         /\ PaidIn(log', v, y) = PaidIn(log, v, y) + n
<1>1. Entry(log', BuyKey(v, j, y)).sum = Entry(log, BuyKey(v, j, y)).sum + n
  BY EntryLogged
<1>2. ASSUME NEW u \in Users, NEW k \in Classrooms, NEW x \in Rounds, u # v \/ k # j \/ x # y
      PROVE  Entry(log', BuyKey(u, k, x)) = Entry(log, BuyKey(u, k, x))
  <2>1. BuyKey(u, k, x) # BuyKey(v, j, y)
    BY <1>2 DEF BuyKey
  <2> QED
    BY <2>1, EntryLogged
<1>3. BuysTyped'
  BY <1>1, <1>2 DEF BuysTyped
<1>4. ASSUME NEW u \in Users, NEW x \in Rounds, u # v \/ x # y
      PROVE  PaidIn(log', u, x) = PaidIn(log, u, x)
  <2> DEFINE f == [k \in Classrooms |-> Entry(log, BuyKey(u, k, x)).sum]
             g == [k \in Classrooms |-> Entry(log', BuyKey(u, k, x)).sum]
  <2>1. \A k \in Classrooms : f[k] \in Int /\ f[k] = g[k]
    BY <1>2, <1>4 DEF BuysTyped
  <2>2. SumOf(f, Classrooms) = SumOf(g, Classrooms)
    <3> HIDE DEF f, g
    <3> QED
      BY <2>1, SumsAgree, CompanyAssumption
  <2> QED
    BY <2>2 DEF PaidIn
<1>5. PaidIn(log', v, y) = PaidIn(log, v, y) + n
  <2> DEFINE f == [k \in Classrooms |-> Entry(log, BuyKey(v, k, y)).sum]
             g == [k \in Classrooms |-> Entry(log', BuyKey(v, k, y)).sum]
  <2>1. \A k \in Classrooms : f[k] \in Int /\ g[k] \in Int
    BY <1>3 DEF BuysTyped
  <2>2. (\A k \in Classrooms : k # j => g[k] = f[k]) /\ g[j] = f[j] + n
    BY <1>1, <1>2
  <2>3. SumOf(g, Classrooms) = SumOf(f, Classrooms) + n
    <3> HIDE DEF f, g
    <3>0. IsFiniteSet(Classrooms)
      BY CompanyAssumption
    <3>1. SumOf(f, Classrooms) \in Int
      BY <2>1, <3>0, SumIsInt
    <3>3. /\ \A k \in Classrooms : f[k] \in Int
          /\ g[j] \in Int
          /\ \A k \in Classrooms : k # j => g[k] = f[k]
      BY <2>1, <2>2
    <3>2. SumOf(g, Classrooms) = SumOf(f, Classrooms) - f[j] + g[j]
      BY <3>0, <3>3, SumWrite
    <3> QED
      BY <2>1, <2>2, <3>1, <3>2
  <2> QED
    BY <2>3 DEF PaidIn
<1> QED
  BY <1>3, <1>4, <1>5

-----------------------------------------------------------------------------
(* What is due to an investor, or from one, ahead of the rows *)

PaidStops == InvestLabels \ {"invest:debit"}

RefundStops == CancelLabels \ {"cancel:debit"}

\* The investments of a user that the handler at r has refunded.
Refunded(r, u) ==
  {i \in InvestedBy(u, task[r].x, investments) :
     i \notin task[r].left \/ (pc[r] = "cancel:shares" /\ i = First(task[r].left))}

Due(r, u, x) ==
  IF pc[r] \in PaidStops /\ task[r].x = x /\ task[r].user = u THEN -task[r].amount
  ELSE IF pc[r] \in RefundStops /\ task[r].x = x THEN SumAmounts(investments, Refunded(r, u))
  ELSE 0

Unreturned(u, x) ==
  IF Cancelled(round, x) THEN 0 ELSE SumAmounts(investments, InvestedBy(u, x, investments))

Brought(u, x) == SumAmounts(StartInvestments, InvestedBy(u, x, StartInvestments))

Balanced(r) ==
  \A u \in Users, x \in Rounds : ~Cancelled(StartRound, x) =>
    PaidIn(log, u, x) = Brought(u, x) - Unreturned(u, x) + Due(r, u, x)

AllEven ==
  \A u \in Users, x \in Rounds : ~Cancelled(StartRound, x) =>
    PaidIn(log, u, x) = Brought(u, x) - Unreturned(u, x)

InvestorsEven ==
  Unbroken => (AllIdle => AllEven) /\ \A r \in Requests : ~Idle(r) => Balanced(r)

\* A step that neither writes investments nor cancels a round.
SameReturned ==
  /\ investments' = investments
  /\ \A x \in Rounds : Cancelled(round', x) <=> Cancelled(round, x)

LEMMA SameRoundsReturn ==
  ASSUME SameRounds
  PROVE  SameReturned
BY DEF SameRounds, SameReturned, Cancelled

LEMMA AmountsAreInt ==
  ASSUME IInv, NEW r \in Requests, NEW u \in Users, NEW x \in Rounds
  PROVE  Brought(u, x) \in Int /\ Unreturned(u, x) \in Int /\ Due(r, u, x) \in Int
<1>0. investments \in Seq(Investment)
  BY DEF IInv, Rows, RowsTyped
<1>1. Brought(u, x) \in Nat
  <2>1. InvestedBy(u, x, StartInvestments) \in SUBSET DOMAIN StartInvestments
    BY DEF InvestedBy, InvestedIn
  <2> QED
    BY <2>1, InvestmentsAdd, FundingAssumption DEF Brought
<1>2. \A rows \in SUBSET DOMAIN investments : SumAmounts(investments, rows) \in Nat
  BY <1>0, InvestmentsAdd
<1>3. Unreturned(u, x) \in Int
  <2>1. InvestedBy(u, x, investments) \in SUBSET DOMAIN investments
    BY DEF InvestedBy, InvestedIn
  <2> QED
    BY <1>2, <2>1 DEF Unreturned
<1>4. SumAmounts(investments, Refunded(r, u)) \in Int
  <2>1. Refunded(r, u) \in SUBSET DOMAIN investments
    BY DEF Refunded, InvestedBy, InvestedIn
  <2> QED
    BY <1>2, <2>1
<1>5. pc[r] \in PaidStops => task[r].amount \in Nat
  BY InvestTyped DEF PaidStops
<1>6. Due(r, u, x) \in Int
  BY <1>4, <1>5 DEF Due
<1> QED
  BY <1>1, <1>3, <1>6

LEMMA NothingDue ==
  ASSUME NEW r, NEW u, NEW x
  PROVE  /\ pc[r] \notin PaidStops \cup RefundStops => Due(r, u, x) = 0
         /\ pc'[r] \notin PaidStops \cup RefundStops => Due(r, u, x)' = 0
BY DEF Due

LEMMA IdleIsBalanced ==
  ASSUME IInv, NEW r \in Requests, pc[r] \notin PaidStops \cup RefundStops
  PROVE  Balanced(r) <=> AllEven
<1>1. \A u \in Users, x \in Rounds : Due(r, u, x) = 0 /\ Brought(u, x) \in Int /\ Unreturned(u, x) \in Int
  BY NothingDue, AmountsAreInt
<1> QED
  BY <1>1 DEF Balanced, AllEven

\* Nothing has moved.
LEMMA BalanceKept ==
  ASSUME NEW r \in Requests, BuysTyped, BuysKept, SameReturned, Balanced(r),
         \A u \in Users, x \in Rounds : Due(r, u, x)' = Due(r, u, x)
  PROVE  Balanced(r)'
<1>1. \A u \in Users, x \in Rounds : Unreturned(u, x)' = Unreturned(u, x)
  BY DEF SameReturned, Unreturned
<1>2. \A u \in Users, x \in Rounds : PaidIn(log', u, x) = PaidIn(log, u, x)
  BY PaidKept
<1>3. ASSUME NEW u \in Users, NEW x \in Rounds, ~Cancelled(StartRound, x)
      PROVE  PaidIn(log', u, x) = Brought(u, x) - Unreturned(u, x)' + Due(r, u, x)'
  BY <1>1, <1>2, <1>3 DEF Balanced
<1> QED
  BY <1>3 DEF Balanced

\* A handler that neither owes nor is owed.
LEMMA IndifferentStep ==
  ASSUME NEW r \in Requests, BuysTyped, BuysKept, SameReturned, Balanced(r),
         pc[r] \notin PaidStops \cup RefundStops, pc'[r] \notin PaidStops \cup RefundStops
  PROVE  Balanced(r)'
BY NothingDue, BalanceKept

\* A wallet is charged, or paid back, what is due from then on.
LEMMA DueEntered ==
  ASSUME IInv, IInv', BuysTyped, NEW r \in Requests, Balanced(r), SameReturned,
         NEW v \in Users, NEW j \in Classrooms, NEW y \in Rounds, NEW n \in Int,
         log' = Logged(log, BuyKey(v, j, y), n),
         \A u \in Users, x \in Rounds : u # v \/ x # y => Due(r, u, x)' = Due(r, u, x),
         Due(r, v, y)' = Due(r, v, y) + n
  PROVE  Balanced(r)'
<1>1. \A u \in Users, x \in Rounds : Unreturned(u, x)' = Unreturned(u, x)
  BY DEF SameReturned, Unreturned
<1>2. /\ \A u \in Users, x \in Rounds : u # v \/ x # y => PaidIn(log', u, x) = PaidIn(log, u, x)
      /\ PaidIn(log', v, y) = PaidIn(log, v, y) + n
  BY BuyEntered
<1>3. ASSUME NEW u \in Users, NEW x \in Rounds, ~Cancelled(StartRound, x)
      PROVE  PaidIn(log', u, x) = Brought(u, x) - Unreturned(u, x)' + Due(r, u, x)'
  <2>1. PaidIn(log, u, x) = Brought(u, x) - Unreturned(u, x) + Due(r, u, x)
    BY <1>3 DEF Balanced
  <2>2. Brought(u, x) \in Int /\ Unreturned(u, x) \in Int /\ Due(r, u, x) \in Int
    BY AmountsAreInt
  <2>3. CASE u # v \/ x # y
    BY <1>1, <1>2, <2>1, <2>3
  <2>4. CASE u = v /\ x = y
    <3>1. Due(r, u, x)' = Due(r, u, x) + n
      BY <2>4
    <3>2. PaidIn(log', u, x) = PaidIn(log, u, x) + n
      BY <1>2, <2>4
    <3> QED
      BY <1>1, <2>1, <2>2, <3>1, <3>2
  <2> QED
    BY <2>3, <2>4
<1> QED
  BY <1>3 DEF Balanced

-----------------------------------------------------------------------------
(* Buying *)

LEMMA InvestDebitBalances ==
  ASSUME IInv, IInv', BuysTyped, NEW r \in Requests, RoundFreshAt(r), Balanced(r), InvestDebit(r)
  PROVE  Balanced(r)'
<1> DEFINE t == task[r]
<1>0. pc[r] = "invest:debit" /\ SameReturned
  BY SameRoundsReturn DEF InvestDebit, At, SameRounds, funding
<1>1. /\ t.user \in Users /\ t.x \in Rounds /\ t.w \in Wallets /\ t.amount \in Nat
      /\ t.w[1] = t.user
  BY <1>0, InvestTyped DEF InvestLabels, RoundFreshAt
<1>2. pc[r] \notin PaidStops \cup RefundStops
  BY <1>0 DEF PaidStops, RefundStops, CancelLabels
<1>3. CASE log' = log /\ pc'[r] = "idle"
  <2>1. BuysKept
    BY <1>3 DEF BuysKept
  <2>2. pc'[r] \notin PaidStops \cup RefundStops
    BY <1>3 DEF PaidStops, RefundStops, CancelLabels, InvestLabels
  <2> QED
    BY <1>0, <1>2, <2>1, <2>2, IndifferentStep
<1>4. CASE /\ log' = Logged(log, <<t.w, "investment", t.x>>, -t.amount)
           /\ pc'[r] = "invest:round" /\ task'[r] = t
  <2>0. <<t.user, t.w[2]>> = t.w /\ t.w[2] \in Classrooms /\ -t.amount \in Int
    BY <1>1 DEF Wallets
  <2>1. PICK v \in Users, j \in Classrooms, y \in Rounds, n \in Int :
          v = t.user /\ <<v, j>> = t.w /\ y = t.x /\ n = -t.amount
    <3> HIDE DEF t
    <3> QED
      BY <1>1, <2>0
  <2>2. log' = Logged(log, BuyKey(v, j, y), n)
    BY <1>4, <2>1 DEF BuyKey
  <2>3. \A u, x : Due(r, u, x) = 0
    BY <1>2, NothingDue
  <2>4. pc'[r] \in PaidStops /\ pc'[r] \notin RefundStops
    BY <1>4 DEF PaidStops, InvestLabels, RefundStops, CancelLabels
  <2>5. \A u, x : Due(r, u, x)' = IF y = x /\ v = u THEN n ELSE 0
    BY <1>4, <2>1, <2>4 DEF Due
  <2>6. Due(r, v, y)' = Due(r, v, y) + n
    BY <2>3, <2>5
  <2>7. \A u \in Users, x \in Rounds : u # v \/ x # y => Due(r, u, x)' = Due(r, u, x)
    BY <2>3, <2>5
  <2> QED
    BY <1>0, <2>2, <2>6, <2>7, DueEntered
<1>5. \/ log' = log /\ Return(r)
      \/ /\ log' = Logged(log, <<t.w, "investment", t.x>>, -t.amount)
         /\ Goto(r, "invest:round")
  BY DEF InvestDebit, Debit, money
<1> QED
  BY <1>3, <1>4, <1>5, StepsLead

LEMMA InvestGoesOnBalanced ==
  ASSUME IInv, IInv', BuysTyped, PotsOpen, Unbroken, NEW r \in Requests, RoundFreshAt(r),
         Balanced(r),
         \/ InvestUpdateRound(r) \/ InvestUpdateTotal(r) \/ InvestUpdateCapital(r)
         \/ InvestUpsert(r) \/ InvestCredit(r) \/ InvestList(r),
         \A q \in Requests : q # r => Idle(q)
  PROVE  Balanced(r)'
<1> DEFINE t == task[r]
<1>1. CASE InvestCredit(r)
  <2>1. pc[r] = "invest:credit" /\ SameReturned
    BY <1>1, SameRoundsReturn DEF InvestCredit, At, SameRounds, funding
  <2>2. t.row.co \in Companies /\ Exists(t.row.co) /\ t.amount \in Int
    BY <2>1, InvestTyped DEF InvestLabels
  <2>3. HasPot(t.row.co)
    <3>1. \A q \in Requests : pc[q] # "found:pot"
      BY <2>1 DEF Idle
    <3> QED
      BY <2>2, <3>1 DEF PotsOpen
  <2>4. /\ Goto(r, "invest:list")
        /\ log' = Logged(log, <<t.row.co, "investment", t.x>>, t.amount)
    BY <1>1, <2>3 DEF InvestCredit, CreditPot
  <2>5. BuysKept
    BY <2>2, <2>4, CompanyBuysKept
  <2>6. pc'[r] = "invest:list" /\ task'[r] = t
    BY <2>4, StepsLead
  <2>7. \A u \in Users, x \in Rounds : Due(r, u, x)' = Due(r, u, x)
    BY <2>1, <2>6 DEF Due, PaidStops, RefundStops, InvestLabels, CancelLabels
  <2> QED
    BY <2>1, <2>5, <2>7, BalanceKept
<1>2. CASE InvestUpdateTotal(r) \/ InvestUpdateCapital(r) \/ InvestUpsert(r) \/ InvestList(r)
  <2>1. SameReturned /\ log' = log
    BY <1>2, SameRoundsReturn DEF InvestUpdateTotal, InvestUpdateCapital, InvestUpsert,
       InvestList, SameRounds, funding, money
  <2>2. pc[r] \in PaidStops /\ pc'[r] \in PaidStops /\ task'[r] = t
    <3>1. CASE InvestUpdateTotal(r) \/ InvestUpdateCapital(r)
      BY <3>1, StepsLead DEF InvestUpdateTotal, InvestUpdateCapital, At, PaidStops, InvestLabels
    <3>2. CASE InvestUpsert(r) \/ InvestList(r)
      BY <3>2, StepsLead DEF InvestUpsert, InvestList, At, PaidStops, InvestLabels
    <3> QED
      BY <1>2, <3>1, <3>2
  <2>3. \A u \in Users, x \in Rounds : Due(r, u, x)' = Due(r, u, x)
    BY <2>2 DEF Due, PaidStops, RefundStops, InvestLabels, CancelLabels
  <2>4. BuysKept
    BY <2>1 DEF BuysKept
  <2> QED
    BY <2>1, <2>3, <2>4, BalanceKept
<1>3. CASE InvestUpdateRound(r)
  <2>1. pc[r] = "invest:round" /\ pc'[r] = "invest:total" /\ task'[r] = t /\ log' = log
    BY <1>3, StepsLead DEF InvestUpdateRound, At, money
  <2>2. SameReturned
    BY <1>3, InvestWrites DEF SameReturned, RoundWrites, Cancelled, Open
  <2>3. \A u \in Users, x \in Rounds : Due(r, u, x)' = Due(r, u, x)
    BY <2>1 DEF Due, PaidStops, RefundStops, InvestLabels, CancelLabels
  <2>4. BuysKept
    BY <2>1 DEF BuysKept
  <2> QED
    BY <2>2, <2>3, <2>4, BalanceKept
<1> QED
  BY <1>1, <1>2, <1>3

\* The row of the investment takes over what is due for it.
LEMMA InvestInsertBalances ==
  ASSUME IInv, IInv', BuysTyped, NEW r \in Requests, RoundFreshAt(r), Balanced(r), InvestInsert(r)
  PROVE  Balanced(r)'
<1> DEFINE t == task[r]
<1>1. /\ pc[r] = "invest:insert" /\ pc'[r] = "idle" /\ log' = log
  BY StepsLead DEF InvestInsert, At, money
<1>2. /\ investments \in Seq(Investment) /\ Bought(t) \in Investment
      /\ investments' = Append(investments, Bought(t)) /\ round' = round
      /\ ~Cancelled(round, t.x)
  BY InsertInvests
<1>3. PICK new \in Investment : new = Bought(t)
  BY <1>2
<1>4. new.round = t.x /\ new.user = t.user /\ new.amount = t.amount /\ new.amount \in Nat
  BY <1>3 DEF Bought, Investment
<1>5. \A u, x : Due(r, u, x) = IF new.round = x /\ new.user = u THEN -new.amount ELSE 0
  BY <1>1, <1>4 DEF Due, PaidStops, RefundStops, InvestLabels, CancelLabels
<1>6. \A u, x : Due(r, u, x)' = 0
  BY <1>1, NothingDue DEF PaidStops, RefundStops, InvestLabels, CancelLabels
<1>7. ASSUME NEW u \in Users, NEW x \in Rounds
      PROVE  Unreturned(u, x)' =
               IF new.round = x /\ new.user = u THEN Unreturned(u, x) + new.amount
               ELSE Unreturned(u, x)
  <2> DEFINE rows == InvestedBy(u, x, investments)
             more == rows \cup {Len(investments) + 1}
  <2>1. rows \in SUBSET DOMAIN investments
    BY DEF InvestedBy, InvestedIn
  <2>2. investments' = Append(investments, new)
    BY <1>2, <1>3
  <2>3. InvestedBy(u, x, investments') = IF new.round = x /\ new.user = u THEN more ELSE rows
    <3>1. InvestedBy(u, x, Append(investments, new))
            = IF new.round = x /\ new.user = u THEN more ELSE rows
      BY <1>2, InvestmentAppended
    <3> QED
      BY <2>2, <3>1
  <2>4. /\ SumAmounts(investments', rows) = SumAmounts(investments, rows)
        /\ SumAmounts(investments', more) = SumAmounts(investments, rows) + new.amount
    <3> HIDE DEF rows
    <3>1. /\ SumAmounts(Append(investments, new), rows) = SumAmounts(investments, rows)
          /\ SumAmounts(Append(investments, new), rows \cup {Len(investments) + 1})
               = SumAmounts(investments, rows) + new.amount
      BY <1>2, <2>1, AmountAppended, Zenon
    <3> QED
      BY <2>2, <3>1, Zenon
  <2>5. Unreturned(u, x)' =
          IF Cancelled(round, x) THEN 0
          ELSE SumAmounts(investments', IF new.round = x /\ new.user = u THEN more ELSE rows)
    BY <1>2, <2>3 DEF Unreturned
  <2>6. Unreturned(u, x) = IF Cancelled(round, x) THEN 0 ELSE SumAmounts(investments, rows)
    BY DEF Unreturned
  <2>7. new.round = x => ~Cancelled(round, x)
    BY <1>2, <1>4
  <2> HIDE DEF rows, more
  <2> QED
    BY <2>4, <2>5, <2>6, <2>7
<1>8. BuysKept
  BY <1>1 DEF BuysKept
<1>9. ASSUME NEW u \in Users, NEW x \in Rounds, ~Cancelled(StartRound, x)
      PROVE  PaidIn(log', u, x) = Brought(u, x) - Unreturned(u, x)' + Due(r, u, x)'
  <2>1. PaidIn(log, u, x) = Brought(u, x) - Unreturned(u, x) + Due(r, u, x)
    BY <1>9 DEF Balanced
  <2>2. Brought(u, x) \in Int /\ Unreturned(u, x) \in Int
    BY AmountsAreInt
  <2>3. PaidIn(log', u, x) = PaidIn(log, u, x)
    BY <1>8, PaidKept
  <2> QED
    BY <1>4, <1>5, <1>6, <1>7, <2>1, <2>2, <2>3
<1> QED
  BY <1>9 DEF Balanced

-----------------------------------------------------------------------------
(* Paying back *)

\* What a cancellation has paid back stays what it was while the rows it has settled
\* are the same.
LEMMA RefundsKept ==
  ASSUME IInv, NEW r \in Requests, pc[r] \in RefundStops, pc'[r] \in RefundStops,
         task'[r].x = task[r].x, investments' = investments,
         \A u \in Users : Refunded(r, u)' = Refunded(r, u)
  PROVE  \A u \in Users, x \in Rounds : Due(r, u, x)' = Due(r, u, x)
BY DEF Due, PaidStops, RefundStops, InvestLabels, CancelLabels

LEMMA CancelReadsBalance ==
  ASSUME IInv, IInv', BuysTyped, NEW r \in Requests, RoundFreshAt(r), Balanced(r),
         CancelReadCompany(r) \/ CancelReadPot(r) \/ CancelReadInvestments(r) \/ CancelDebit(r)
  PROVE  Balanced(r)'
<1> DEFINE t == task[r]
<1>0. SameReturned
  BY SameRoundsReturn
     DEF CancelReadCompany, CancelReadPot, CancelReadInvestments, CancelDebit, SameRounds, funding
<1>1. BuysKept
  <2>1. CASE CancelDebit(r)
    BY <2>1, CancelDebitLogs, OtherBuysKept DEF WritesOnly, Keeps
  <2> QED
    BY <2>1 DEF BuysKept, CancelReadCompany, CancelReadPot, CancelReadInvestments, money
<1>2. pc[r] \in {"cancel:company", "cancel:pot", "cancel:investments", "cancel:debit"}
  BY DEF CancelReadCompany, CancelReadPot, CancelReadInvestments, CancelDebit, At
<1>3. pc[r] \notin PaidStops \cup RefundStops
  BY <1>2 DEF PaidStops, RefundStops, InvestLabels, CancelLabels
<1>4. CASE pc'[r] # "cancel:refund"
  <2>1. pc'[r] \in {"idle", "cancel:pot", "cancel:investments", "cancel:debit"}
    <3>1. CASE CancelReadCompany(r) \/ CancelReadPot(r)
      BY <3>1, StepsLead DEF CancelReadCompany, CancelReadPot
    <3>2. CASE CancelReadInvestments(r) \/ CancelDebit(r)
      BY <1>4, <3>2, StepsLead DEF CancelReadInvestments, CancelDebit
    <3> QED
      BY <3>1, <3>2
  <2>2. pc'[r] \notin PaidStops \cup RefundStops
    BY <2>1 DEF PaidStops, RefundStops, InvestLabels, CancelLabels
  <2> QED
    BY <1>0, <1>1, <1>3, <2>2, IndifferentStep
<1>5. CASE pc'[r] = "cancel:refund"
  <2>1. task'[r].left = InvestedIn(task'[r].x, investments')
    <3>1. CASE CancelReadInvestments(r)
      <4> DEFINE n == With(t, [left |-> InvestedIn(t.x, investments), returned |-> 0])
      <4>1. t \in [x : Rounds, row : RoundRow, f : Firm]
        BY <3>1 DEF CancelReadInvestments, At, IInv, TaskOK, FundingTaskOK
      <4>2. n.x = t.x /\ n.left = InvestedIn(t.x, investments)
        BY <4>1 DEF With
      <4>3. task'[r] = n
        BY <3>1, StepsLead DEF CancelReadInvestments
      <4> HIDE DEF n
      <4> QED
        BY <1>0, <4>2, <4>3 DEF SameReturned
    <3>2. CASE CancelDebit(r)
      <4>1. pc[r] = "cancel:debit" /\ task'[r] = task[r]
        BY <1>5, <3>2, StepsLead DEF CancelDebit, At
      <4> QED
        BY <1>0, <4>1 DEF SameReturned, RoundFreshAt
    <3>3. CASE CancelReadCompany(r) \/ CancelReadPot(r)
      BY <1>5, <3>3, StepsLead DEF CancelReadCompany, CancelReadPot
    <3> QED
      BY <3>1, <3>2, <3>3
  <2>2. \A u : Refunded(r, u)' = {}
    BY <1>5, <2>1 DEF Refunded, InvestedBy
  <2>3. \A u, x : Due(r, u, x)' = 0
    BY <1>5, <2>2, SumOfNothing DEF Due, SumAmounts, PaidStops, InvestLabels
  <2>4. \A u, x : Due(r, u, x) = 0
    BY <1>3, NothingDue
  <2> QED
    BY <1>0, <1>1, <2>3, <2>4, BalanceKept
<1> QED
  BY <1>4, <1>5

\* One more investment of a user is settled.
LEMMA OneMoreRefunded ==
  ASSUME IInv, NEW v, NEW y, NEW i, i \in InvestedBy(v, y, investments),
         NEW rows \in SUBSET DOMAIN investments, i \notin rows
  PROVE  SumAmounts(investments, rows \cup {i}) =
           SumAmounts(investments, rows) + investments[i].amount
<1> DEFINE f == [k \in DOMAIN investments |-> investments[k].amount]
           more == rows \cup {i}
<1>0. investments \in Seq(Investment)
  BY DEF IInv, Rows, RowsTyped
<1>1. i \in DOMAIN investments
  BY DEF InvestedBy, InvestedIn
<1>2. \A k \in DOMAIN investments : investments[k].amount \in Int
  <2>1. \A k \in DOMAIN investments : investments[k] \in Investment
    BY <1>0
  <2> QED
    BY <2>1 DEF Investment
<1>3. IsFiniteSet(rows)
  BY <1>0, InvestmentsAdd
<1>4. (\A k \in rows : f[k] \in Int) /\ f[i] \in Int /\ f[i] = investments[i].amount
  BY <1>1, <1>2
<1>5. SumOf(f, more) = SumOf(f, rows) + f[i]
  <2> HIDE DEF f, more
  <2> QED
    BY <1>3, <1>4, SumInsert DEF more
<1> QED
  BY <1>4, <1>5 DEF SumAmounts

LEMMA CancelRefundBalances ==
  ASSUME IInv, IInv', BuysTyped, NEW r \in Requests, RoundFreshAt(r), Balanced(r), CancelRefund(r)
  PROVE  Balanced(r)'
<1> DEFINE t == task[r]
           i == First(t.left)
<1>0. pc[r] = "cancel:refund" /\ SameReturned /\ investments' = investments /\ t.left # {}
  BY SameRoundsReturn DEF CancelRefund, At, SameRounds, funding
<1>1. /\ CancelTask(t) /\ t.x \in Rounds /\ t.f \in Firm /\ t.left \in SUBSET Nat
      /\ investments[i] \in Investment
  BY <1>0, CancelTyped, RefundTyped DEF CancelLabels
<1>2. investments[i].user \in Users /\ investments[i].amount \in Nat
  BY <1>1 DEF Investment
<1>3. PICK v \in Users, j \in Classrooms, y \in Rounds, n \in Nat :
        v = investments[i].user /\ j = t.f.room /\ y = t.x /\ n = investments[i].amount
  <2>1. t.f.room \in Classrooms
    BY <1>1 DEF Firm
  <2> HIDE DEF t, i
  <2> QED
    BY <1>1, <1>2, <2>1
<1>4. i \in t.left
  BY <1>0, <1>1, FirstIsLeft
<1>5. i \in InvestedBy(v, y, investments)
  BY <1>0, <1>3, <1>4 DEF RoundFreshAt, InvestedBy
<1>6. \A u : u # v => i \notin InvestedBy(u, y, investments)
  BY <1>3 DEF InvestedBy
<1>7. \A u : Refunded(r, u) = {k \in InvestedBy(u, y, investments) : k \notin t.left}
  BY <1>0, <1>3 DEF Refunded
<1>8. \/ /\ pc'[r] = "cancel:shares" /\ task'[r] = t
         /\ log' = Logged(log, <<<<v, j>>, "investment", y>>, n)
      \/ /\ pc'[r] = "cancel:refund" /\ task'[r] = With(t, [left |-> t.left \ {i}])
         /\ log' = log /\ n = 0
  <2>1. CASE CanCredit(investments[i].amount)
    BY <1>3, <2>1, StepsLead DEF CancelRefund, Credit
  <2>2. CASE ~CanCredit(investments[i].amount)
    BY <1>3, <2>2, StepsLead DEF CancelRefund, CanCredit, money
  <2> QED
    BY <2>1, <2>2
<1>9. task'[r].x = y /\ \A u : Refunded(r, u)' = Refunded(r, u) \cup ({i} \cap InvestedBy(u, y, investments))
  <2>1. CASE pc'[r] = "cancel:shares" /\ task'[r] = t
    <3>1. \A u : Refunded(r, u)' = {k \in InvestedBy(u, y, investments) : k \notin t.left \/ k = i}
      BY <1>0, <1>3, <2>1 DEF Refunded
    <3> HIDE DEF i
    <3> QED
      BY <1>3, <1>7, <2>1, <3>1
  <2>2. CASE pc'[r] = "cancel:refund" /\ task'[r] = With(t, [left |-> t.left \ {i}])
    <3>1. task'[r].x = t.x /\ task'[r].left = t.left \ {i}
      BY <1>1, <2>2 DEF With, CancelTask
    <3>2. \A u : Refunded(r, u)' = {k \in InvestedBy(u, y, investments) : k \notin t.left \ {i}}
      BY <1>0, <1>3, <2>2, <3>1 DEF Refunded
    <3> HIDE DEF i
    <3> QED
      BY <1>3, <1>7, <3>1, <3>2
  <2> QED
    BY <1>8, <2>1, <2>2
<1>10. pc[r] \in RefundStops /\ pc'[r] \in RefundStops /\ pc[r] \notin PaidStops /\ pc'[r] \notin PaidStops
  BY <1>0, <1>8 DEF RefundStops, CancelLabels, PaidStops, InvestLabels
<1>11. /\ \A u, x : Due(r, u, x) = IF y = x THEN SumAmounts(investments, Refunded(r, u)) ELSE 0
       /\ \A u, x : Due(r, u, x)' = IF y = x THEN SumAmounts(investments, Refunded(r, u)') ELSE 0
  BY <1>0, <1>3, <1>9, <1>10 DEF Due
<1>12. \A u, x : u # v \/ x # y => Due(r, u, x)' = Due(r, u, x)
  <2>1. \A u : u # v => Refunded(r, u)' = Refunded(r, u)
    <3> HIDE DEF i
    <3>1. \A u : u # v => {i} \cap InvestedBy(u, y, investments) = {}
      BY <1>6
    <3>2. \A u : u # v => Refunded(r, u) \cup ({i} \cap InvestedBy(u, y, investments)) = Refunded(r, u)
      BY <3>1
    <3> QED
      BY <1>9, <3>2
  <2> QED
    BY <1>11, <2>1
<1>13. Due(r, v, y)' = Due(r, v, y) + n
  <2>1. Refunded(r, v)' = Refunded(r, v) \cup {i}
    BY <1>5, <1>9
  <2>2. Refunded(r, v) \in SUBSET DOMAIN investments /\ i \notin Refunded(r, v)
    BY <1>4, <1>7 DEF InvestedBy, InvestedIn
  <2>3. SumAmounts(investments, Refunded(r, v) \cup {i})
          = SumAmounts(investments, Refunded(r, v)) + investments[i].amount
    BY <1>5, <2>2, OneMoreRefunded
  <2> QED
    BY <1>3, <1>11, <2>1, <2>3
<1> HIDE DEF t, i
<1>14. CASE log' = log /\ n = 0
  <2>1. BuysKept
    BY <1>14 DEF BuysKept
  <2>2. Due(r, v, y)' = Due(r, v, y)
    BY <1>13, <1>14, AmountsAreInt
  <2>3. \A u \in Users, x \in Rounds : Due(r, u, x)' = Due(r, u, x)
    BY <1>12, <2>2
  <2> QED
    BY <1>0, <2>1, <2>3, BalanceKept
<1>15. CASE log' = Logged(log, <<<<v, j>>, "investment", y>>, n)
  <2>1. log' = Logged(log, BuyKey(v, j, y), n) /\ n \in Int
    BY <1>15 DEF BuyKey
  <2> QED
    BY <1>0, <1>12, <1>13, <2>1, DueEntered
<1> QED
  BY <1>8, <1>14, <1>15

LEMMA CancelGoesOnBalanced ==
  ASSUME IInv, IInv', BuysTyped, NEW r \in Requests, RoundFreshAt(r), Balanced(r),
         CancelShares(r) \/ CancelUpdateTotal(r) \/ CancelUpdateCapital(r)
  PROVE  Balanced(r)'
<1> DEFINE t == task[r]
<1>0. SameReturned /\ log' = log /\ investments' = investments
  BY SameRoundsReturn DEF CancelShares, CancelUpdateTotal, CancelUpdateCapital, SameRounds,
     funding, money
<1>1. BuysKept
  BY <1>0 DEF BuysKept
<1>2. CASE CancelShares(r)
  <2> DEFINE i == First(t.left)
             n == With(t, [left |-> t.left \ {i}, returned |-> t.returned + investments[i].shares])
  <2>1. pc[r] = "cancel:shares" /\ pc'[r] = "cancel:refund" /\ task'[r] = n
    BY <1>2, StepsLead DEF CancelShares, At
  <2>2. CancelTask(t) /\ t.left \in SUBSET Nat
    BY <2>1, CancelTyped DEF CancelLabels
  <2>3. n.x = t.x /\ n.left = t.left \ {i}
    BY <2>2 DEF With, CancelTask
  <2> HIDE DEF n
  <2>4. \A u : Refunded(r, u)' = {k \in InvestedBy(u, t.x, investments) : k \notin t.left \ {i}}
    BY <1>0, <2>1, <2>3 DEF Refunded
  <2>5. \A u : Refunded(r, u) = {k \in InvestedBy(u, t.x, investments) : k \notin t.left \/ k = i}
    BY <2>1 DEF Refunded
  <2>6. \A u \in Users : Refunded(r, u)' = Refunded(r, u)
    <3> HIDE DEF i
    <3> QED
      BY <2>4, <2>5
  <2>7. pc[r] \in RefundStops /\ pc'[r] \in RefundStops
    BY <2>1 DEF RefundStops, CancelLabels
  <2>8. task'[r].x = task[r].x
    BY <2>1, <2>3
  <2> QED
    BY <1>0, <1>1, <2>6, <2>7, <2>8, RefundsKept, BalanceKept
<1>3. CASE CancelUpdateTotal(r) \/ CancelUpdateCapital(r)
  <2>1. /\ pc[r] \in {"cancel:refund", "cancel:capital"}
        /\ pc'[r] \in {"cancel:capital", "cancel:status"} /\ task'[r] = t
    BY <1>3, StepsLead DEF CancelUpdateTotal, CancelUpdateCapital, At
  <2>2. \A u \in Users : Refunded(r, u)' = Refunded(r, u)
    BY <1>0, <2>1 DEF Refunded
  <2>3. pc[r] \in RefundStops /\ pc'[r] \in RefundStops
    BY <2>1 DEF RefundStops, CancelLabels
  <2>4. task'[r].x = task[r].x
    BY <2>1
  <2> QED
    BY <1>0, <1>1, <2>2, <2>3, <2>4, RefundsKept, BalanceKept
<1> QED
  BY <1>2, <1>3

\* When the round is marked cancelled, everything has been paid back.
LEMMA CancelStatusBalances ==
  ASSUME IInv, IInv', BuysTyped, NEW r \in Requests, RoundFreshAt(r), Balanced(r), CancelStatus(r)
  PROVE  Balanced(r)'
<1>1. /\ pc[r] = "cancel:status" /\ pc'[r] = "idle" /\ log' = log
      /\ task[r].left = {}
  BY StepsLead DEF CancelStatus, At, money, RoundFreshAt
<1>2. PICK y \in Rounds : y = task[r].x
  BY CancelWrites
<1>3. /\ ~Cancelled(round, y) /\ Cancelled(round', y) /\ investments' = investments
      /\ \A x \in Rounds : x # y => (Cancelled(round', x) <=> Cancelled(round, x))
  BY <1>2, CancelWrites DEF RoundWrites, Cancelled, Open
<1>4. \A u : Refunded(r, u) = InvestedBy(u, y, investments)
  BY <1>1, <1>2 DEF Refunded
<1>5. \A u, x : Due(r, u, x) =
                  IF x = y THEN SumAmounts(investments, InvestedBy(u, y, investments)) ELSE 0
  BY <1>1, <1>2, <1>4 DEF Due, PaidStops, RefundStops, InvestLabels, CancelLabels
<1>6. \A u, x : Due(r, u, x)' = 0
  BY <1>1, NothingDue DEF PaidStops, RefundStops, InvestLabels, CancelLabels
<1>7. /\ \A u : Unreturned(u, y) = Due(r, u, y) /\ Unreturned(u, y)' = 0
      /\ \A u \in Users, x \in Rounds : x # y => Unreturned(u, x)' = Unreturned(u, x)
  BY <1>3, <1>5 DEF Unreturned
<1>8. BuysKept
  BY <1>1 DEF BuysKept
<1>9. ASSUME NEW u \in Users, NEW x \in Rounds, ~Cancelled(StartRound, x)
      PROVE  PaidIn(log', u, x) = Brought(u, x) - Unreturned(u, x)' + Due(r, u, x)'
  <2>1. PaidIn(log, u, x) = Brought(u, x) - Unreturned(u, x) + Due(r, u, x)
    BY <1>9 DEF Balanced
  <2>2. Brought(u, x) \in Int /\ Unreturned(u, x) \in Int /\ Due(r, u, x) \in Int
    BY AmountsAreInt
  <2>3. PaidIn(log', u, x) = PaidIn(log, u, x)
    BY <1>8, PaidKept
  <2>4. CASE x = y
    <3>1. Unreturned(u, x)' = 0 /\ Due(r, u, x)' = 0 /\ Unreturned(u, x) = Due(r, u, x)
      BY <1>6, <1>7, <2>4
    <3> QED
      BY <2>1, <2>2, <2>3, <3>1
  <2>5. CASE x # y
    <3>1. Unreturned(u, x)' = Unreturned(u, x) /\ Due(r, u, x)' = Due(r, u, x)
      BY <1>5, <1>6, <1>7, <2>5
    <3> QED
      BY <2>1, <2>3, <3>1
  <2> QED
    BY <2>4, <2>5
<1> QED
  BY <1>9 DEF Balanced

-----------------------------------------------------------------------------
(* Every step keeps investors even *)

\* Entries of investments are only written by who buys or pays back.
LEMMA OthersBuyNothing ==
  ASSUME IInv, NEW r \in Requests,
         Founding(r) \/ PaperWork(r) \/ FundingWork(r) \/ Meeting(r),
         ~InvestDebit(r), ~InvestCredit(r), ~CancelRefund(r)
  PROVE  BuysKept
<1>1. Founding(r) \/ PaperWork(r) => CompanySteps(r)
  BY DEF Founding, PaperWork, CompanySteps
<1>2. Keeps("investment") \/ Writer("investment", r)
  BY <1>1, CompanyLogs, FundingLogs, GovernanceLogs DEF FundingWork, Meeting
<1> QED
  BY <1>2, OtherBuysKept DEF Writer

LEMMA IndifferentStops ==
  ASSUME IInv, NEW r \in Requests,
         \/ Founding(r) \/ PaperWork(r) \/ Meeting(r)
         \/ RoundRequest(r) \/ RoundCheck(r) \/ RoundInsert(r)
         \/ CloseSteps(r) \/ DividendSteps(r) \/ InvestReadCompany(r) \/ InvestJudge(r)
  PROVE  /\ pc[r] \notin PaidStops \cup RefundStops
         /\ pc'[r] \notin PaidStops \cup RefundStops
<1> DEFINE Owing == PaidStops \cup RefundStops
<1>0. Owing = {"invest:round", "invest:total", "invest:capital", "invest:holder",
               "invest:credit", "invest:list", "invest:insert",
               "cancel:refund", "cancel:shares", "cancel:capital", "cancel:status"}
  BY DEF PaidStops, RefundStops, InvestLabels, CancelLabels
<1> SUFFICES pc[r] \notin Owing /\ pc'[r] \notin Owing
  OBVIOUS
<1> HIDE DEF Owing
<1>1. CASE Founding(r)
  BY <1>0, <1>1, FoundingLeads DEF FoundStops
<1>2. CASE PaperWork(r)
  BY <1>0, <1>2, PaperWorkLeads DEF FoundStops, CompanyStops
<1>3. CASE Meeting(r)
  BY <1>0, <1>3, MeetingLeads DEF GovernanceStops
<1>4. CASE RoundRequest(r)
  <2>1. CreateRound(r) => pc[r] = "idle" /\ pc'[r] = "round:check"
    BY StepsLead DEF CreateRound, Idle
  <2>2. InvestReadRound(r) => pc[r] = "idle" /\ pc'[r] = "invest:company"
    BY StepsLead DEF InvestReadRound, Idle
  <2>3. CloseReadRound(r) => pc[r] = "idle" /\ pc'[r] = "early:company"
    BY StepsLead DEF CloseReadRound, Idle
  <2>4. CancelReadRound(r) => pc[r] = "idle" /\ pc'[r] = "cancel:company"
    BY StepsLead DEF CancelReadRound, Idle
  <2> QED
    BY <1>0, <1>4, <2>1, <2>2, <2>3, <2>4 DEF RoundRequest
<1>5. CASE RoundCheck(r) \/ RoundInsert(r)
  BY <1>0, <1>5, StepsLead DEF RoundCheck, RoundInsert, At
<1>6. CASE CloseSteps(r)
  BY <1>0, <1>6, StepsLead
     DEF CloseSteps, CloseReadCompany, CloseUpdateRound, CloseUpdateCapital, CloseList, At
<1>7. CASE DividendSteps(r)
  <2>1. pc[r] \in {"idle", "dividend:pot", "dividend:insert", "dividend:holders",
                   "dividend:pay", "dividend:row"}
    BY <1>7, StepsLead DEF DividendSteps, DividendReadCompany, DividendDebit, DividendInsert,
       DividendHolders, DividendPay, DividendRow, DividendDone, At, Idle
  <2> QED
    BY <1>0, <1>7, <2>1, DividendLeads
<1>8. CASE InvestReadCompany(r) \/ InvestJudge(r)
  BY <1>0, <1>8, StepsLead DEF InvestReadCompany, InvestJudge, At
<1> QED
  BY <1>1, <1>2, <1>3, <1>4, <1>5, <1>6, <1>7, <1>8

\* A new round is not cancelled, and no other action but CancelStatus cancels one.
LEMMA IndifferentToRounds ==
  ASSUME IInv, [Next]_vars, NEW r \in Requests, RoundFreshAt(r),
         \/ Founding(r) /\ UNCHANGED <<funding, governance>>
         \/ PaperWork(r) /\ UNCHANGED <<funding, governance>>
         \/ Meeting(r)
         \/ RoundRequest(r) \/ RoundCheck(r) \/ RoundInsert(r)
         \/ CloseSteps(r) \/ DividendSteps(r) \/ InvestReadCompany(r) \/ InvestJudge(r)
  PROVE  SameReturned
<1>1. CASE SameRounds
  BY <1>1, SameRoundsReturn
<1>2. CASE RoundInsert(r)
  BY <1>1, <1>2, InsertWrites DEF SameReturned, Cancelled
<1>3. CASE CloseSteps(r)
  <2>1. CASE CloseUpdateRound(r)
    BY <2>1, CloseWrites DEF SameReturned, RoundWrites, Cancelled, Open
  <2> QED
    BY <1>1, <1>3, <2>1
       DEF CloseSteps, CloseReadCompany, CloseUpdateCapital, CloseList, SameRounds, funding
<1>4. CASE (Founding(r) \/ PaperWork(r)) /\ UNCHANGED <<funding, governance>>
  BY <1>1, <1>4 DEF SameRounds, funding
<1>5. CASE Meeting(r)
  BY <1>1, <1>5, MeetingKeepsRounds
<1>6. CASE RoundRequest(r) \/ RoundCheck(r)
  BY <1>1, <1>6 DEF RoundRequest, CreateRound, InvestReadRound, CloseReadRound, CancelReadRound,
     RoundCheck, SameRounds, funding
<1>7. CASE DividendSteps(r) \/ InvestReadCompany(r) \/ InvestJudge(r)
  BY <1>1, <1>7 DEF DividendSteps, DividendReadCompany, DividendDebit, DividendInsert,
     DividendHolders, DividendPay, DividendRow, DividendDone, InvestReadCompany, InvestJudge,
     SameRounds, funding
<1> QED
  BY <1>2, <1>3, <1>4, <1>5, <1>6, <1>7

LEMMA StepBalances ==
  ASSUME IInv, IInv', [Next]_vars, BuysTyped, PotsOpen, Unbroken, NEW r \in Requests,
         RoundFreshAt(r), Balanced(r),
         \A q \in Requests : q # r => Idle(q),
         \/ Founding(r) /\ UNCHANGED <<funding, governance>>
         \/ PaperWork(r) /\ UNCHANGED <<funding, governance>>
         \/ FundingWork(r)
         \/ Meeting(r)
  PROVE  Balanced(r)'
<1>1. CASE \/ Founding(r) /\ UNCHANGED <<funding, governance>>
           \/ PaperWork(r) /\ UNCHANGED <<funding, governance>>
           \/ Meeting(r)
           \/ RoundRequest(r) \/ RoundCheck(r) \/ RoundInsert(r)
           \/ CloseSteps(r) \/ DividendSteps(r) \/ InvestReadCompany(r) \/ InvestJudge(r)
  <2>1. /\ pc[r] \notin PaidStops \cup RefundStops
        /\ pc'[r] \notin PaidStops \cup RefundStops
    BY <1>1, IndifferentStops
  <2>2. SameReturned
    BY <1>1, IndifferentToRounds
  <2>3. CASE ~InvestDebit(r) /\ ~InvestCredit(r) /\ ~CancelRefund(r)
    <3>1. Founding(r) \/ PaperWork(r) \/ FundingWork(r) \/ Meeting(r)
      BY <1>1 DEF FundingWork, InvestSteps
    <3>2. BuysKept
      BY <2>3, <3>1, OthersBuyNothing
    <3> QED
      BY <2>1, <2>2, <3>2, IndifferentStep
  <2>4. ~InvestCredit(r) /\ ~CancelRefund(r)
    BY <2>1 DEF InvestCredit, CancelRefund, At, PaidStops, RefundStops, InvestLabels, CancelLabels
  <2>5. CASE InvestDebit(r)
    BY <2>5, InvestDebitBalances
  <2> QED
    BY <2>3, <2>4, <2>5
<1>2. CASE InvestSteps(r)
  BY <1>1, <1>2, InvestDebitBalances, InvestGoesOnBalanced, InvestInsertBalances DEF InvestSteps
<1>3. CASE CancelSteps(r)
  BY <1>3, CancelReadsBalance, CancelRefundBalances, CancelGoesOnBalanced, CancelStatusBalances
     DEF CancelSteps
<1> QED
  BY <1>1, <1>2, <1>3 DEF FundingWork

LEMMA BuysStayTyped ==
  ASSUME IInv, BuysTyped, [Next]_vars
  PROVE  BuysTyped'
<1>1. ASSUME NEW key, NEW n \in Int, log' = Logged(log, key, n)
      PROVE  BuysTyped'
  <2>1. ASSUME NEW u \in Users, NEW k \in Classrooms, NEW x \in Rounds
        PROVE  Entry(log', BuyKey(u, k, x)).sum \in Int
    <3>1. Entry(log, BuyKey(u, k, x)).sum \in Int
      BY DEF BuysTyped
    <3>2. CASE BuyKey(u, k, x) = key
      BY <1>1, <3>1, <3>2, EntryLogged
    <3>3. CASE BuyKey(u, k, x) # key
      BY <1>1, <3>1, <3>3, EntryLogged
    <3> QED
      BY <3>2, <3>3
  <2> QED
    BY <2>1 DEF BuysTyped
<1>2. CASE log' = log
  BY <1>2 DEF BuysTyped
<1>3. CASE Keeps("investment")
  BY <1>3, OtherBuysKept, PaidKept
<1>4. ASSUME NEW r \in Requests, InvestDebit(r) \/ InvestCredit(r)
      PROVE  BuysTyped'
  <2> DEFINE t == task[r]
  <2>1. t.amount \in Int /\ -t.amount \in Int
    BY <1>4, InvestTyped DEF InvestLabels, InvestDebit, InvestCredit, At
  <2> HIDE DEF t
  <2>2. \/ log' = log
        \/ log' = Logged(log, <<t.w, "investment", t.x>>, -t.amount)
        \/ log' = Logged(log, <<t.row.co, "investment", t.x>>, t.amount)
    BY <1>4 DEF t, InvestDebit, InvestCredit, Debit, CreditPot, money
  <2> QED
    BY <1>1, <1>2, <2>1, <2>2
<1>5. ASSUME NEW r \in Requests, CancelRefund(r)
      PROVE  BuysTyped'
  <2> DEFINE t == task[r]
             i == investments[First(t.left)]
  <2>1. i.amount \in Int
    BY <1>5, RefundTyped DEF CancelRefund, At, CancelLabels, Investment
  <2>2. \/ log' = log
        \/ log' = Logged(log, <<<<i.user, t.f.room>>, "investment", t.x>>, i.amount)
    BY <1>5 DEF CancelRefund, Credit, money
  <2> HIDE DEF i
  <2> QED
    BY <1>1, <1>2, <2>1, <2>2
<1>6. Keeps("investment") \/ \E r \in Requests : Writer("investment", r)
  BY WhoLogs
<1> QED
  BY <1>3, <1>4, <1>5, <1>6 DEF Writer

LEMMA ReturnsAreInt ==
  ASSUME IInv', NEW u \in Users, NEW x \in Rounds
  PROVE  Brought(u, x) \in Int /\ Unreturned(u, x)' \in Int
<1>1. investments' \in Seq(Investment)
  BY DEF IInv, Rows, RowsTyped
<1>2. InvestedBy(u, x, StartInvestments) \in SUBSET DOMAIN StartInvestments
  BY DEF InvestedBy, InvestedIn
<1>3. InvestedBy(u, x, investments') \in SUBSET DOMAIN investments'
  BY DEF InvestedBy, InvestedIn
<1>4. Brought(u, x) \in Nat
  BY <1>2, InvestmentsAdd, FundingAssumption DEF Brought
<1>5. SumAmounts(investments', InvestedBy(u, x, investments')) \in Nat
  BY <1>1, <1>3, InvestmentsAdd
<1> QED
  BY <1>4, <1>5 DEF Unreturned

LEMMA EvenKept ==
  ASSUME IInv, AtMostOne, InvestsOnFresh, PotsOpen, BuysTyped, InvestorsEven, [Next]_vars
  PROVE  InvestorsEven'
<1> SUFFICES ASSUME Unbroken'
             PROVE  (AllIdle => AllEven)' /\ \A q \in Requests : pc'[q] # "idle" => Balanced(q)'
  BY DEF InvestorsEven, Idle
<1>0. IInv' /\ Unbroken /\ (\A q \in Requests : RoundFreshAt(q)) /\ ~overlapped' /\ restarts' = 0
  BY InvariantKept, StaysOverlapped DEF Unbroken, InvestsOnFresh
<1>1. ASSUME NEW r \in Requests, Serves(r),
             \/ Founding(r) /\ UNCHANGED <<funding, governance>>
             \/ PaperWork(r) /\ UNCHANGED <<funding, governance>>
             \/ FundingWork(r)
             \/ Meeting(r)
      PROVE  (AllIdle => AllEven)' /\ \A q \in Requests : pc'[q] # "idle" => Balanced(q)'
  <2>1. \A q \in Requests : q # r => Idle(q)
    BY <1>0, <1>1, StaysOverlapped DEF AtMostOne, Serves, Begins, Continues, Only, AllIdle, Idle
  <2>2. Balanced(r)
    <3>1. CASE Idle(r)
      <4>1. AllEven
        BY <1>0, <2>1, <3>1 DEF InvestorsEven, AllIdle
      <4>2. pc[r] \notin PaidStops \cup RefundStops
        BY <3>1 DEF Idle, PaidStops, RefundStops, InvestLabels, CancelLabels
      <4> QED
        BY <4>1, <4>2, IdleIsBalanced
    <3>2. CASE ~Idle(r)
      BY <1>0, <3>2 DEF InvestorsEven
    <3> QED
      BY <3>1, <3>2
  <2>3. Balanced(r)'
    BY <1>0, <1>1, <2>1, <2>2, StepBalances
  <2>4. \A q \in Requests : q # r => pc'[q] = "idle"
    BY <1>0, <1>1, StaysOverlapped, Sole
  <2>5. ASSUME pc'[r] = "idle"
        PROVE  AllEven'
    <3>1. pc'[r] \notin PaidStops \cup RefundStops
      BY <2>5 DEF PaidStops, RefundStops, InvestLabels, CancelLabels
    <3>2. ASSUME NEW u \in Users, NEW x \in Rounds, ~Cancelled(StartRound, x)
          PROVE  PaidIn(log', u, x) = Brought(u, x) - Unreturned(u, x)'
      <4>1. PaidIn(log', u, x) = Brought(u, x) - Unreturned(u, x)' + Due(r, u, x)'
        BY <2>3, <3>2 DEF Balanced
      <4>2. Due(r, u, x)' = 0
        BY <3>1, NothingDue
      <4>3. Brought(u, x) \in Int /\ Unreturned(u, x)' \in Int
        BY <1>0, ReturnsAreInt
      <4> QED
        BY <4>1, <4>2, <4>3
    <3> QED
      BY <3>2 DEF AllEven
  <2> QED
    BY <2>3, <2>4, <2>5 DEF AllIdle, Idle
<1>2. CASE UNCHANGED <<handlers, log, round, investments>>
  <2>1. /\ AllIdle' <=> AllIdle
        /\ AllEven' <=> AllEven
        /\ \A q \in Requests : Balanced(q)' <=> Balanced(q)
    BY <1>2 DEF handlers, AllIdle, Idle, AllEven, Balanced, PaidIn, Due, Refunded, Unreturned
  <2> QED
    BY <1>0, <1>2, <2>1 DEF InvestorsEven, handlers, Idle
<1>3. CASE Restart
  <2>1. restarts \in Nat
    BY ServerAssumption DEF IInv, ControlOK
  <2> QED
    BY <1>0, <1>3, <2>1 DEF Restart, ServerRestart
<1>4. CASE Aside /\ (SharesChangeHands \/ ActivateClassroom) /\ UNCHANGED <<funding, governance>>
  BY <1>2, <1>4 DEF Aside, SharesChangeHands, ActivateClassroom, funding, money
<1>5. CASE Aside /\ (VotingEnds \/ UNCHANGED vars)
  BY <1>2, <1>5 DEF Aside, VotingEnds, vars, funding, server, money
<1> QED
  BY <1>1, <1>2, <1>3, <1>4, <1>5, WhoMoves

-----------------------------------------------------------------------------
(* What the rounds keep *)

RoundsInv ==
  /\ AtMostOne
  /\ InvestsOnFresh
  /\ InvestmentsRefer
  /\ RoundsInOrder
  /\ PotsOpen
  /\ BuysTyped
  /\ InvestorsEven

LEMMA RoundsAtStart ==
  ASSUME Init
  PROVE  RoundsInv
<1>1. AtMostOne
  BY BooksAtStart DEF BooksInv
<1>2. InvestsOnFresh
  BY DEF Init, ServerInit, InvestsOnFresh, RoundFreshAt, OpenStops, InvestLabels, CancelLabels
<1>3. round = StartRound /\ investments = StartInvestments /\ firm = StartFirm /\ pot = StartPot
      /\ log = <<>>
  BY DEF Init, ServerInit, CompanyInit, FundingInit
<1>4. InvestmentsRefer
  BY <1>3, StartAssumption DEF InvestmentsRefer
<1>5. RoundsInOrder
  BY <1>3, StartAssumption DEF RoundsInOrder, Sold, Open
<1>6. PotsOpen
  BY <1>3, StartAssumption DEF PotsOpen, Exists, HasPot
<1>7. \A key : Entry(log, key).sum = 0
  BY <1>3 DEF Entry
<1>8. BuysTyped
  BY <1>7 DEF BuysTyped
<1>9. ASSUME NEW u \in Users, NEW x \in Rounds
      PROVE  PaidIn(log, u, x) = 0
  <2> DEFINE f == [k \in Classrooms |-> Entry(log, BuyKey(u, k, x)).sum]
  <2>1. \A k \in Classrooms : f[k] = 0
    BY <1>7
  <2>2. SumOf(f, Classrooms) = 0
    <3> HIDE DEF f
    <3> QED
      BY <2>1, SumOfZeroes, CompanyAssumption
  <2> QED
    BY <2>2 DEF PaidIn
<1>10. ASSUME NEW u \in Users, NEW x \in Rounds, ~Cancelled(StartRound, x)
       PROVE  PaidIn(log, u, x) = Brought(u, x) - Unreturned(u, x)
  <2>1. InvestedBy(u, x, StartInvestments) \in SUBSET DOMAIN StartInvestments
    BY DEF InvestedBy, InvestedIn
  <2>2. Brought(u, x) \in Nat
    BY <2>1, InvestmentsAdd, FundingAssumption DEF Brought
  <2>3. Unreturned(u, x) = Brought(u, x)
    BY <1>3, <1>10 DEF Unreturned, Brought
  <2> QED
    BY <1>9, <2>2, <2>3
<1>11. InvestorsEven
  BY <1>10 DEF InvestorsEven, AllEven, Init, ServerInit, Idle
<1> QED
  BY <1>1, <1>2, <1>4, <1>5, <1>6, <1>8, <1>11 DEF RoundsInv

LEMMA RoundsStayKept ==
  ASSUME IInv, RoundsInv, [Next]_vars
  PROVE  RoundsInv'
BY OneAtATime, RoundsStayFresh, InvestmentsStillRefer, OrderKept, PotsStayOpen, BuysStayTyped,
   EvenKept DEF RoundsInv

LEMMA AtMostOneOpen ==
  ASSUME RoundsInOrder, OneByOne, NEW c \in Companies
  PROVE  Cardinality({x \in RoundsOf(c) : Open(x)}) <= 1
<1> DEFINE S == {x \in RoundsOf(c) : Open(x)}
<1>1. \A x, y \in S : x = y
  BY DEF RoundsInOrder, OneByOne, RoundsOf
<1> HIDE DEF S
<1>2. CASE S = {}
  <2>1. Cardinality({}) = 0
    BY FS_EmptySet
  <2> QED
    BY <1>2, <2>1 DEF S
<1>3. CASE S # {}
  <2>1. PICK x : x \in S
    BY <1>3
  <2>2. S = {x}
    BY <1>1, <2>1
  <2>3. Cardinality({x}) = 1
    BY FS_Singleton
  <2> QED
    BY <2>2, <2>3 DEF S
<1> QED
  BY <1>2, <1>3

LEMMA PaidByBuys ==
  ASSUME NEW u, NEW x
  PROVE  PaidFor(u, "investment", x) = PaidIn(log, u, x)
BY Zenon DEF PaidFor, LogSum, PaidIn, BuyKey, Entry

\* Whoever is in the middle of something, nothing is due for a round that is cancelled.
LEMMA CancelledIsEven ==
  ASSUME IInv, RoundsInv, Unbroken, NEW x \in Rounds, Cancelled(round, x),
         ~Cancelled(StartRound, x), NEW u \in Users
  PROVE  PaidIn(log, u, x) = Brought(u, x)
<1>1. Unreturned(u, x) = 0 /\ Brought(u, x) \in Int
  <2>1. InvestedBy(u, x, StartInvestments) \in SUBSET DOMAIN StartInvestments
    BY DEF InvestedBy, InvestedIn
  <2> QED
    BY <2>1, InvestmentsAdd, FundingAssumption DEF Unreturned, Brought
<1>2. CASE AllIdle
  BY <1>1, <1>2 DEF RoundsInv, InvestorsEven, AllEven
<1>3. ASSUME NEW r \in Requests, ~Idle(r)
      PROVE  PaidIn(log, u, x) = Brought(u, x)
  <2>1. RoundFreshAt(r)
    BY DEF RoundsInv, InvestsOnFresh, Unbroken
  <2>2. Due(r, u, x) = 0
    <3>1. pc[r] \in PaidStops => ~Cancelled(round, task[r].x)
      BY <2>1 DEF RoundFreshAt, PaidStops
    <3>2. pc[r] \in RefundStops => Open(task[r].x)
      BY <2>1 DEF RoundFreshAt, RefundStops, OpenStops
    <3> QED
      BY <3>1, <3>2 DEF Due, Open, Cancelled
  <2> QED
    BY <1>1, <1>3, <2>2 DEF RoundsInv, InvestorsEven, Balanced
<1> QED
  BY <1>2, <1>3 DEF AllIdle

\* Without overlap no round sells more shares than it offers, whatever rounding does to
\* the amounts, and a company has one open round (Invest, CreateRound); and when the
\* server has not been restarted either, a round that CancelRound has cancelled has given
\* every investor back exactly what the rows of investments say.
THEOREM RoundsAreKept == Spec => []RoundsKept
<1>1. Init => RoundsInv
  BY RoundsAtStart
<1>2. IInv /\ RoundsInv /\ [Next]_vars => RoundsInv'
  BY RoundsStayKept
<1>3. IInv /\ RoundsInv => RoundsKept
  <2> SUFFICES ASSUME IInv, RoundsInv
               PROVE  RoundsKept
    OBVIOUS
  <2>1. ASSUME OneByOne
        PROVE  /\ \A x \in Rounds : round[x] # None => Sold(x) <= round[x].shares
               /\ \A c \in Companies : Cardinality({x \in RoundsOf(c) : Open(x)}) <= 1
    BY <2>1, AtMostOneOpen DEF RoundsInv, RoundsInOrder, OneByOne
  <2>2. ASSUME Unbroken, NEW x \in Rounds, Cancelled(round, x), ~Cancelled(StartRound, x),
               NEW u \in Users
        PROVE  PaidFor(u, "investment", x)
                 = SumAmounts(StartInvestments, InvestedBy(u, x, StartInvestments))
    BY <2>2, CancelledIsEven, PaidByBuys DEF Brought
  <2> QED
    BY <2>1, <2>2 DEF RoundsKept
<1> QED
  BY <1>1, <1>2, <1>3, MarketInvariant, PTL DEF Spec
=============================================================================
