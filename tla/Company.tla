------------------------------ MODULE Company ------------------------------
(***************************************************************************)
(* Companies: founding, the company wallet, disclosures and their reward,   *)
(* transfers, KPI revenue and the administrator's idempotent credit         *)
(* (application/company_usecase.go, the company half of wallet_usecase.go,   *)
(* persistence/company_repo.go).  companies.name is UNIQUE, so a company is  *)
(* identified by its name.  Funding.tla and Governance.tla add the rounds    *)
(* and the shareholder proposals that work on the same rows.                *)
(***************************************************************************)
EXTENDS Server, SequencesExt, Sums

CONSTANTS
  Companies,
  StartFirm,         \* companies rows at the start
  StartPot,          \* company_wallets at the start
  StartHolding,      \* shareholders at the start
  FoundingShares,    \* DefaultTotalShares
  ListingThreshold,  \* capital from which a company is listed
  Capitals,          \* initial capitals that are asked for
  Amounts,           \* amounts of transfers, credits and revenue
  Disclosures,       \* ids of disclosures
  Rewards,           \* rewards an administrator enters, whatever their sign
  Admin,             \* the administrator whose wallet pays company credits
  AdminRoom,         \* the classroom that credit is confined to
  Keys,              \* idempotency keys
  Blocks             \* numbers of shares traded on the exchange

Firm == [owner : Users, total : Nat, initial : Nat, capital : Nat, valuation : Nat,
         listed : BOOLEAN, status : {"active", "dissolved"}, room : Classrooms]

Disclosure == [co : Companies, status : {"pending", "approved", "rejected"}, reward : Int]

CreditRow == [co : Companies, amount : Amounts]

\* Amounts are validated before anything is read; the two kinds of wallets are rows
\* of two tables, each with its own log.
ASSUME CompanyAssumption ==
  /\ IsFiniteSet(Companies) /\ IsFiniteSet(Disclosures) /\ IsFiniteSet(Keys)
  /\ IsFiniteSet(Classrooms)
  /\ StartFirm \in [Companies -> Firm \cup {None}]
  /\ StartPot \in [Companies -> Nat \cup {None}]
  /\ StartHolding \in [Companies \X Users -> Nat]
  /\ FoundingShares \in Nat \ {0} /\ ListingThreshold \in Nat
  /\ Capitals \subseteq Nat \ {0} /\ Amounts \subseteq Nat \ {0} /\ Blocks \subseteq Nat \ {0}
  /\ Rewards \subseteq Int
  /\ Admin \in Users /\ AdminRoom \in Classrooms
  /\ Companies \cap Wallets = {}
  /\ None \notin Firm \cup Disclosure \cup CreditRow \cup Int

VARIABLES
  firm,         \* companies; None is no row
  pot,          \* company_wallets.balance; None is no row
  holding,      \* shareholders.shares; 0 is no row
  disclosure,   \* company_disclosures
  kpi,          \* sum of the kpi_revenues rows of a company
  adminCredit,  \* admin_company_wallet_credits by idempotency key
  traded        \* history: shares have changed hands on the exchange

books   == <<firm, pot, holding>>
papers  == <<disclosure, kpi, adminCredit>>
company == <<books, papers, traded>>

CompanyInit ==
  /\ active = HomeRoom
  /\ firm = StartFirm
  /\ pot = StartPot
  /\ holding = StartHolding
  /\ disclosure = [d \in Disclosures |-> None]
  /\ kpi = [c \in Companies |-> 0]
  /\ adminCredit = [k \in Keys |-> None]
  /\ traded = FALSE

Exists(c)    == firm[c] # None
Dissolved(c) == firm[c].status = "dissolved"
HasPot(c)    == pot[c] # None

\* All shares of a company that somebody holds.
Held(c) == SumOf([u \in Users |-> holding[<<c, u>>]], Users)

-----------------------------------------------------------------------------
(* Repository operations *)

CreditPot(c, amount, type, ref) ==
  /\ pot' = [pot EXCEPT ![c] = @ + amount]
  /\ log' = Logged(log, <<c, type, ref>>, amount)

CanDebitPot_Trusting(c, amount) == HasPot(c)

CanDebitPot(c, amount) == HasPot(c) /\ pot[c] >= amount

DebitPot(c, amount, type, ref) ==
  /\ pot' = [pot EXCEPT ![c] = @ - amount]
  /\ log' = Logged(log, <<c, type, ref>>, -amount)

\* CheckListing and UpdateListed; a listed company stays listed.
UpdateListed(c, capital) ==
  firm' = [firm EXCEPT ![c] =
             With(@, [listed |-> @.listed \/ capital >= ListingThreshold])]

UpdateTotalShares(c, n) == firm' = [firm EXCEPT ![c] = With(@, [total |-> n])]

UpdateCapitalAndValuation(c, capital, valuation) ==
  firm' = [firm EXCEPT ![c] = With(@, [capital |-> capital, valuation |-> valuation])]

UpsertShareholder(c, u, n) ==
  holding' = [holding EXCEPT ![<<c, u>>] = @ + n]

-----------------------------------------------------------------------------
(* CreateCompany: the personal wallet pays, then the rows are written one   *)
(* after the other.                                                         *)

CreateCompany(r) ==
  \E u \in Users, c \in Companies, capital \in Capitals :
    /\ Receive(r, "CreateCompany", "found:wallet",
               [user |-> u, co |-> c, capital |-> capital, room |-> active[u]])
    /\ UNCHANGED <<money, active, company>>

FoundFindWallet(r) ==
  LET t == task[r]
      w == <<t.user, active[t.user]>>
  IN  /\ At(r, "found:wallet")
      /\ IF wallet[w] >= t.capital
           THEN GotoWith(r, "found:debit", With(t, [w |-> w]))
           ELSE Return(r)
      /\ UNCHANGED <<money, active, company>>

FoundDebit(r) ==
  LET t == task[r]
  IN  /\ At(r, "found:debit")
      /\ IF CanDebit(t.w, t.capital)
           THEN /\ Goto(r, "found:company")
                /\ Debit(t.w, t.capital, "company_funding", "new")
           ELSE Return(r) /\ UNCHANGED money
      /\ UNCHANGED <<active, company>>

NewFirm(t) ==
  [owner |-> t.user, total |-> FoundingShares,
   initial |-> t.capital, capital |-> t.capital, valuation |-> t.capital,
   listed |-> FALSE, status |-> "active", room |-> t.room]

\* Refunded when the name is taken.
FoundCreate(r) ==
  LET t == task[r]
  IN  /\ At(r, "found:company")
      /\ IF Exists(t.co)
           THEN /\ Return(r)
                /\ Credit(t.w, t.capital, "company_funding", "new")
                /\ UNCHANGED firm
           ELSE /\ Goto(r, "found:pot")
                /\ firm' = [firm EXCEPT ![t.co] = NewFirm(t)]
                /\ UNCHANGED money
      /\ UNCHANGED <<active, pot, holding, papers, traded>>

FoundWallet(r) ==
  /\ At(r, "found:pot")
  /\ Goto(r, "found:shares")
  /\ pot' = [pot EXCEPT ![task[r].co] = task[r].capital]
  /\ UNCHANGED <<money, active, firm, holding, papers, traded>>

FoundShareholder(r) ==
  /\ At(r, "found:shares")
  /\ Goto(r, "found:list")
  /\ UpsertShareholder(task[r].co, task[r].user, FoundingShares)
  /\ UNCHANGED <<money, active, firm, pot, papers, traded>>

FoundList(r) ==
  /\ At(r, "found:list")
  /\ Return(r)
  /\ UpdateListed(task[r].co, task[r].capital)
  /\ UNCHANGED <<money, active, pot, holding, papers, traded>>

-----------------------------------------------------------------------------
(* Disclosures *)

\* An id that is left; none left stands for an insert that fails.
NextId(table) == {i \in DOMAIN table : table[i] = None}

CreateDisclosure(r) ==
  \E c \in Companies :
    /\ Exists(c) /\ ~Dissolved(c)
    /\ Receive(r, "CreateDisclosure", "disclose:insert", [co |-> c])
    /\ UNCHANGED <<money, active, company>>

InsertDisclosure(d, c, status) ==
  disclosure' = [disclosure EXCEPT ![d] =
                   [co |-> c, status |-> status, reward |-> 0]]

DiscloseInsert(r) ==
  /\ At(r, "disclose:insert")
  /\ Return(r)
  /\ IF NextId(disclosure) = {} THEN UNCHANGED disclosure
     ELSE \E d \in NextId(disclosure) : InsertDisclosure(d, task[r].co, "pending")
  /\ UNCHANGED <<money, active, books, kpi, adminCredit, traded>>

Reviewable(d) == disclosure[d] # None /\ disclosure[d].status = "pending"

ReviewDisclosure(r) ==
  \E d \in Disclosures, verdict \in {"approved", "rejected"}, reward \in Rewards :
    /\ Reviewable(d)
    /\ Receive(r, "ReviewDisclosure", "review:status",
               [id |-> d, verdict |-> verdict, co |-> disclosure[d].co,
                reward |-> IF verdict = "approved" THEN reward ELSE 0])
    /\ UNCHANGED <<money, active, company>>

ReviewStatus(r) ==
  LET t == task[r]
  IN  /\ At(r, "review:status")
      /\ IF t.reward > 0
           THEN Goto(r, "review:reward")
           ELSE Return(r)
      /\ disclosure' = [disclosure EXCEPT
           ![t.id] = With(@, [status |-> t.verdict, reward |-> t.reward])]
      /\ UNCHANGED <<money, active, books, kpi, adminCredit, traded>>

ReviewReward(r) ==
  LET t == task[r]
  IN  /\ At(r, "review:reward")
      /\ Return(r)
      /\ IF HasPot(t.co)
           THEN CreditPot(t.co, t.reward, "disclosure_reward", t.id)
           ELSE UNCHANGED <<pot, log>>
      /\ UNCHANGED <<wallet, active, firm, holding, papers, traded>>

-----------------------------------------------------------------------------
(* Transfers.  A source or target is <<"user", u>> or <<"company", c>>; a    *)
(* user pays from the active classroom, and is paid in the company's.       *)

Accounts == ({"user"} \X Users) \cup ({"company"} \X Companies)

IsUser(a) == a[1] = "user"

\* The wallet or pot behind an account, for a transfer within a classroom.
Place(a, room) == IF IsUser(a) THEN <<a[2], room>> ELSE a[2]

Balance(place) == IF place \in Companies THEN pot[place] ELSE wallet[place]

MayReceive(a, from, room) ==
  ~IsUser(a) =>
    /\ a # from /\ Exists(a[2]) /\ ~Dissolved(a[2]) /\ HasPot(a[2])
    /\ IsUser(from) => firm[a[2]].room = room

\* The owner of a live company sends from its wallet; a person to a company.
Transfer(r) ==
  \E from \in Accounts, to \in Accounts, n \in Amounts :
    LET room == IF IsUser(from) THEN active[from[2]] ELSE firm[from[2]].room
    IN  /\ IF IsUser(from) THEN ~IsUser(to)
           ELSE Exists(from[2]) /\ ~Dissolved(from[2]) /\ HasPot(from[2])
        /\ MayReceive(to, from, room)
        /\ Balance(Place(from, room)) >= n
        /\ Receive(r, "Transfer", "transfer:debit",
                   [src |-> Place(from, room), dst |-> Place(to, room), amount |-> n])
        /\ UNCHANGED <<money, active, company>>

TransferDebit(r) ==
  LET t == task[r]
  IN  /\ At(r, "transfer:debit")
      /\ IF t.src \in Companies
           THEN IF CanDebitPot(t.src, t.amount)
                  THEN /\ Goto(r, "transfer:credit")
                       /\ DebitPot(t.src, t.amount, "company_transfer", "out")
                       /\ UNCHANGED wallet
                  ELSE Return(r) /\ UNCHANGED <<money, pot>>
           ELSE IF CanDebit(t.src, t.amount)
                  THEN /\ Goto(r, "transfer:credit")
                       /\ Debit(t.src, t.amount, "company_transfer", "out")
                       /\ UNCHANGED pot
                  ELSE Return(r) /\ UNCHANGED <<money, pot>>
      /\ UNCHANGED <<active, firm, holding, papers, traded>>

TransferCredit(r) ==
  LET t == task[r]
  IN  /\ At(r, "transfer:credit")
      /\ Return(r)
      /\ IF t.dst \in Companies
           THEN CreditPot(t.dst, t.amount, "company_transfer", "in") /\ UNCHANGED wallet
           ELSE Credit(t.dst, t.amount, "company_transfer", "in") /\ UNCHANGED pot
      /\ UNCHANGED <<active, firm, holding, papers, traded>>

-----------------------------------------------------------------------------
(* Money an administrator brings in *)

\* The rule a request names is on file (or it names none), or it is not.
KpiRules == {"known", "unknown"}

\* AddKpiRevenue checks neither who owns the company nor whether it is live, nor
\* the rule. The log of the model tells credits for an unknown rule apart; the
\* code's rows all refer to "kpi_revenue", 0.
AddKpiRevenue(r) ==
  \E c \in Companies, n \in Amounts, rule \in KpiRules :
    /\ HasPot(c)
    /\ Receive(r, "AddKpiRevenue", "kpi:credit", [co |-> c, amount |-> n, rule |-> rule])
    /\ UNCHANGED <<money, active, company>>

KpiCredit(r) ==
  LET t == task[r]
  IN  /\ At(r, "kpi:credit")
      /\ Goto(r, "kpi:insert")
      /\ CreditPot(t.co, t.amount, "kpi_revenue", t.rule)
      /\ UNCHANGED <<wallet, active, firm, holding, papers, traded>>

\* kpi_rule_id REFERENCES kpi_rules: the insert fails for an unknown rule, when the
\* company wallet has been credited.
KpiInsert(r) ==
  LET t == task[r]
  IN  /\ At(r, "kpi:insert")
      /\ Return(r)
      /\ kpi' = IF t.rule = "known" THEN [kpi EXCEPT ![t.co] = @ + t.amount] ELSE kpi
      /\ UNCHANGED <<money, active, books, disclosure, adminCredit, traded>>

\* The reads before the one transaction that does the work.
AdminCompanyCredit(r) ==
  \E c \in Companies, n \in Amounts, k \in Keys :
    /\ Exists(c) /\ firm[c].room = AdminRoom /\ firm[c].status = "active"
    /\ HasPot(c)
    /\ Receive(r, "AdminCompanyCredit", "admin:credit",
               [co |-> c, amount |-> n, key |-> k])
    /\ UNCHANGED <<money, active, company>>

\* A key that is on file is answered from the file and moves no money.
KeyIsFresh_Always(k) == TRUE

KeyIsFresh(k) == adminCredit[k] = None

AdminCredit(r) ==
  LET t == task[r]
      w == <<Admin, AdminRoom>>
  IN  /\ At(r, "admin:credit")
      /\ Return(r)
      /\ IF KeyIsFresh(t.key) /\ wallet[w] >= t.amount
           THEN /\ adminCredit' = [adminCredit EXCEPT ![t.key] =
                                     [co |-> t.co, amount |-> t.amount]]
                /\ wallet' = [wallet EXCEPT ![w] = @ - t.amount]
                /\ pot' = [pot EXCEPT ![t.co] = @ + t.amount]
                /\ log' = Logged(Logged(log, <<w, "admin_company_credit", t.co>>, -t.amount),
                                 <<t.co, "admin_company_credit", w>>, t.amount)
           ELSE UNCHANGED <<money, pot, adminCredit>>
      /\ UNCHANGED <<active, firm, holding, disclosure, kpi, traded>>

-----------------------------------------------------------------------------
(* What others do to the same rows: the exchange takes orders for listed     *)
(* companies and settles a trade in one transaction (Exchange.tla; the price *)
(* it moves between two wallets is left out), and a user switches classrooms. *)

SharesChangeHands ==
  \E c \in Companies, seller \in Users, buyer \in Users :
    /\ Exists(c) /\ firm[c].listed
    /\ buyer # seller
    /\ \E n \in {m \in Blocks : m <= holding[<<c, seller>>]} :
         holding' = [x \in Companies \X Users |->
           holding[x] + (IF x = <<c, buyer>> THEN n ELSE 0)
                      - (IF x = <<c, seller>> THEN n ELSE 0)]
    /\ traded' = TRUE
    /\ AnswerAtOnce("SharesChangeHands")
    /\ UNCHANGED <<money, active, firm, pot, papers>>

ActivateClassroom ==
  \E u \in Users, k \in Classrooms :
    /\ k # active[u]
    /\ active' = [active EXCEPT ![u] = k]
    /\ AnswerAtOnce("ActivateClassroom")
    /\ UNCHANGED <<money, company>>

OwnerRequest(r) == CreateDisclosure(r) \/ Transfer(r)

CompanySteps(r) ==
  \/ CreateCompany(r) \/ FoundFindWallet(r) \/ FoundDebit(r) \/ FoundCreate(r)
  \/ FoundWallet(r) \/ FoundShareholder(r) \/ FoundList(r)
  \/ OwnerRequest(r) \/ DiscloseInsert(r)
  \/ ReviewDisclosure(r) \/ ReviewStatus(r) \/ ReviewReward(r)
  \/ TransferDebit(r) \/ TransferCredit(r)
  \/ AddKpiRevenue(r) \/ KpiCredit(r) \/ KpiInsert(r)
  \/ AdminCompanyCredit(r) \/ AdminCredit(r)

CompanyNext ==
  \/ \E r \in Requests : CompanySteps(r)
  \/ SharesChangeHands
  \/ ActivateClassroom

=============================================================================
