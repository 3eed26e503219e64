------------------------------ MODULE Exchange ------------------------------
(***************************************************************************)
(* The stock exchange: PlaceOrder, CancelOrder and the matching engine of   *)
(* application/exchange_usecase.go over the SQL of exchange_repo.go,        *)
(* wallet_repo.go and company_repo.go.                                      *)
(*                                                                         *)
(* Every HTTP request runs in its own goroutine.  The database handle has   *)
(* ONE connection (sqlite.go: SetMaxOpenConns(1)), so a SQL statement is    *)
(* atomic, a transaction excludes every other statement, and requests       *)
(* interleave between their statements.  A handler is therefore a sequence  *)
(* of actions, one per statement that reads or writes shared rows; what it  *)
(* read earlier lives in its locals (mine, have, book) and may be stale.    *)
(*                                                                         *)
(* Companies is the set of LISTED companies; names, descriptions and        *)
(* notifications are abstracted away.                                       *)
(***************************************************************************)
EXTENDS Integers, Sequences, FiniteSets, Sums

CONSTANTS
  Users,
  Companies,
  Classrooms,
  ClassroomOf,     \* the classroom of each company (companies.classroom_id)
  Requests,        \* the handler goroutines that may be in flight at once
  Quantities,      \* share counts a client sends
  Prices,          \* prices a client sends
  InitialFunds,    \* wallet balances when the exchange opens
  Founding,        \* shareholder rows when the exchange opens
  OpeningValue,    \* companies.valuation when the exchange opens
  CreatedAt,       \* the second in which each order id is inserted
  MaxOrders,       \* bound on stock_orders rows
  HomeRoom,        \* users.active_classroom_id when the exchange opens
  Spendings,       \* amounts other handlers debit
  MaxEvents,       \* bound on steps of the rest of the program
  None

ASSUME ExchangeAssumption ==
  /\ IsFiniteSet(Users)
  /\ ClassroomOf \in [Companies -> Classrooms]
  /\ Quantities \subseteq Int /\ Prices \subseteq Int
  /\ InitialFunds \in [Users \X Classrooms -> Nat]
  /\ Founding \in [Companies \X Users -> Nat]
  /\ OpeningValue \in [Companies -> Nat]
  /\ CreatedAt \in [1 .. MaxOrders -> Nat]
  /\ \A i, j \in 1 .. MaxOrders : i < j => CreatedAt[i] <= CreatedAt[j]
  /\ MaxOrders \in Nat /\ MaxEvents \in Nat
  /\ Spendings \subseteq Nat
  /\ HomeRoom \in [Users -> Classrooms]
  /\ None \notin Requests

VARIABLES
  db,      \* the committed rows
  tx,      \* the rows as the open transaction sees them, None if none is open
  conn,    \* the request whose transaction holds the only connection, or None
  active,  \* users.active_classroom_id
  pc,      \* where each handler is
  mine,    \* the StockOrder a handler holds in memory
  have,    \* the balance or shareholding it read while validating
  book,    \* the resting orders it read (copies) and has not matched yet
  spent,   \* history: what other handlers debited from each wallet
  failed,  \* history: order ids whose matching was rolled back or cut short
  events   \* steps the rest of the program has taken

vars == <<db, tx, conn, active, pc, mine, have, book, spent, failed, events>>

-----------------------------------------------------------------------------
(* Rows *)

Sides  == {"buy", "sell"}
Live   == {"open", "partial"}
Status == Live \cup {"filled", "cancelled"}

Order == [id: Nat, user: Users, company: Companies, side: Sides,
          shares: Nat, remaining: Nat, price: Nat, status: Status]

Trade == [buyOrder: Nat, sellOrder: Nat, buyer: Users, seller: Users,
          company: Companies, shares: Nat, price: Nat]

\* A holding of 0 is an absent shareholders row.
Database == [wallet: [Users \X Classrooms -> Int],
             shares: [Companies \X Users -> Nat],
             orders: Seq(Order),
             trades: Seq(Trade),
             valuation: [Companies -> Nat]]

TotalShares(c) == SumOf([u \in Users |-> Founding[<<c, u>>]], Users)

OrderIds(d) == 1 .. Len(d.orders)

Least(a, b) == IF a < b THEN a ELSE b

-----------------------------------------------------------------------------
(* Repository operations: what each statement does to the rows it runs on,  *)
(* whether it owns the connection or borrows the caller's transaction.      *)

\* Mutants: a definition named X_Y is X with the defect Y; the model never uses
\* it, the runs of PROJECT.json's "mutants" put it in X's place.

CanDebit_Unchecked(d, w, amount) == amount > 0

CanDebit(d, w, amount) == amount > 0 /\ d.wallet[w] >= amount

Debit(d, w, amount) == [d EXCEPT !.wallet[w] = @ - amount]

Credit(d, w, amount) == [d EXCEPT !.wallet[w] = @ + amount]

UpsertShareholder_KnownOnly(d, c, u, n) ==
  IF d.shares[<<c, u>>] = 0 THEN d ELSE [d EXCEPT !.shares[<<c, u>>] = @ + n]

UpsertShareholder(d, c, u, n) == [d EXCEPT !.shares[<<c, u>>] = @ + n]

SubtractShareholderShares_OffByOne(d, c, u, n) ==
  [d EXCEPT !.shares[<<c, u>>] = IF @ > n + 1 THEN @ - n ELSE 0]

\* The row is deleted when nothing is left, and an absent row is no error.
SubtractShareholderShares(d, c, u, n) ==
  [d EXCEPT !.shares[<<c, u>>] = IF @ > n THEN @ - n ELSE 0]

CreateTrade(d, t) == [d EXCEPT !.trades = Append(@, t)]

\* remaining_shares and status are overwritten with the in-memory values.
Overwritten(row, o) ==
  [row EXCEPT !.remaining = o.remaining, !.status = o.status]

UpdateOrder(d, o) ==
  [d EXCEPT !.orders[o.id] = Overwritten(d.orders[o.id], o)]

\* CompanyRepo.Update writes the five profile columns; valuation is not one.
UpdateCompany(d, c, valuation) == d

PendingBuyTotal(d, u, k) ==
  SumOf([i \in OrderIds(d) |-> d.orders[i].remaining * d.orders[i].price],
    {i \in OrderIds(d) : /\ d.orders[i].user = u /\ d.orders[i].side = "buy"
                         /\ d.orders[i].status \in Live
                         /\ ClassroomOf[d.orders[i].company] = k})

PendingSellShares(d, u, c) ==
  SumOf([i \in OrderIds(d) |-> d.orders[i].remaining],
    {i \in OrderIds(d) : /\ d.orders[i].user = u /\ d.orders[i].side = "sell"
                         /\ d.orders[i].status \in Live
                         /\ d.orders[i].company = c})

\* FindMatchingSellOrders / FindMatchingBuyOrders: the live orders of other
\* users that cross order o.
Crosses_Strict(o, r) ==
  IF o.side = "buy" THEN r.price < o.price ELSE r.price > o.price

Crosses(o, r) ==
  IF o.side = "buy" THEN r.price <= o.price ELSE r.price >= o.price

Matching_OwnToo(d, o) ==
  {d.orders[i] : i \in {j \in OrderIds(d) :
     /\ d.orders[j].company = o.company /\ d.orders[j].side # o.side
     /\ d.orders[j].status \in Live
     /\ Crosses(o, d.orders[j])}}

Matching(d, o) ==
  {d.orders[i] : i \in {j \in OrderIds(d) :
     /\ d.orders[j].company = o.company /\ d.orders[j].side # o.side
     /\ d.orders[j].status \in Live
     /\ d.orders[j].user # o.user
     /\ Crosses(o, d.orders[j])}}

\* ORDER BY price, created_at; created_at has a resolution of one second, so
\* orders of the same second come in either order.
Before(o, r, s) ==
  IF r.price # s.price
    THEN (IF o.side = "buy" THEN r.price < s.price ELSE r.price > s.price)
    ELSE CreatedAt[r.id] < CreatedAt[s.id]

Heads_Unordered(o, S) == S

Heads(o, S) == {r \in S : \A s \in S : ~Before(o, s, r)}

-----------------------------------------------------------------------------
Init ==
  /\ db = [wallet |-> InitialFunds, shares |-> Founding, orders |-> <<>>,
           trades |-> <<>>, valuation |-> OpeningValue]
  /\ tx = None
  /\ conn = None
  /\ active = HomeRoom
  /\ pc = [r \in Requests |-> "idle"]
  /\ mine = [r \in Requests |-> None]
  /\ have = [r \in Requests |-> 0]
  /\ book = [r \in Requests |-> {}]
  /\ spent = [w \in Users \X Classrooms |-> 0]
  /\ failed = {}
  /\ events = 0

\* A statement outside a transaction needs the connection.
Statement(r, from) == conn = None /\ pc[r] = from

Goto(r, to) == pc' = [pc EXCEPT ![r] = to]

\* The handler returns; its locals are gone.
Return(r) ==
  /\ Goto(r, "idle")
  /\ mine' = [mine EXCEPT ![r] = None]
  /\ have' = [have EXCEPT ![r] = 0]
  /\ book' = [book EXCEPT ![r] = {}]

Placing == {r \in Requests : pc[r] \in {"pending", "insert"}}

-----------------------------------------------------------------------------
(* PlaceOrder *)

\* The request is validated, the company found and its classroom compared with
\* the user's active one; then FindByUserAndClassroom (for a buy) or
\* FindShareholder (for a sell) reads what the user has.  The earlier reads see
\* nothing an exchange statement writes, so they are one action with the last.
\* A wallet row that is missing refuses the order, as a balance of 0 does.
PlaceOrder(r, u, c, side, n, p) ==
  /\ Statement(r, "idle")
  /\ Len(db.orders) + Cardinality(Placing) < MaxOrders
  /\ n > 0 /\ p > 0
  /\ ClassroomOf[c] = active[u]
  /\ mine' = [mine EXCEPT ![r] =
       [id |-> 0, user |-> u, company |-> c, side |-> side, shares |-> n,
        remaining |-> n, price |-> p, status |-> "open"]]
  /\ have' = [have EXCEPT ![r] =
       IF side = "buy" THEN db.wallet[<<u, ClassroomOf[c]>>] ELSE db.shares[<<c, u>>]]
  /\ Goto(r, "pending")
  /\ UNCHANGED <<db, tx, conn, active, book, spent, failed, events>>

Affordable_IgnoresPending(d, o, held) ==
  held >= IF o.side = "buy" THEN o.shares * o.price ELSE o.shares

\* available = what was read before - what live orders commit now.
Affordable(d, o, held) ==
  IF o.side = "buy"
    THEN held - PendingBuyTotal(d, o.user, ClassroomOf[o.company])
           >= o.shares * o.price
    ELSE held - PendingSellShares(d, o.user, o.company) >= o.shares

AcceptOrder(r) ==
  /\ Statement(r, "pending")
  /\ Affordable(db, mine[r], have[r])
  /\ have' = [have EXCEPT ![r] = 0]
  /\ Goto(r, "insert")
  /\ UNCHANGED <<db, tx, conn, active, mine, book, spent, failed, events>>

RefuseOrder(r) ==
  /\ Statement(r, "pending")
  /\ ~Affordable(db, mine[r], have[r])
  /\ Return(r)
  /\ UNCHANGED <<db, tx, conn, active, spent, failed, events>>

CreateOrder_NoId(r) ==
  /\ Statement(r, "insert")
  /\ db' = [db EXCEPT !.orders =
              Append(@, [mine[r] EXCEPT !.id = Len(db.orders) + 1])]
  /\ Goto(r, "match")
  /\ UNCHANGED <<tx, conn, active, mine, have, book, spent, failed, events>>

CreateOrder(r) ==
  /\ Statement(r, "insert")
  /\ LET o == [mine[r] EXCEPT !.id = Len(db.orders) + 1] IN
     /\ db' = [db EXCEPT !.orders = Append(@, o)]
     /\ mine' = [mine EXCEPT ![r] = o]
  /\ Goto(r, "match")
  /\ UNCHANGED <<tx, conn, active, have, book, spent, failed, events>>

-----------------------------------------------------------------------------
(* runMatching *)

FindMatches(r) ==
  /\ Statement(r, "match")
  /\ Matching(db, mine[r]) # {}
  /\ book' = [book EXCEPT ![r] = Matching(db, mine[r])]
  /\ Goto(r, "begin")
  /\ UNCHANGED <<db, tx, conn, active, mine, have, spent, failed, events>>

\* Nothing crosses: the order rests and no transaction is opened.
FindNoMatch(r) ==
  /\ Statement(r, "match")
  /\ Matching(db, mine[r]) = {}
  /\ Return(r)
  /\ UNCHANGED <<db, tx, conn, active, spent, failed, events>>

BeginSettlement(r) ==
  /\ Statement(r, "begin")
  /\ conn' = r
  /\ tx' = db
  /\ Goto(r, "settle")
  /\ UNCHANGED <<db, active, mine, have, book, spent, failed, events>>

Fill(o, c) ==
  [buyOrder  |-> IF o.side = "buy" THEN o.id ELSE c.id,
   sellOrder |-> IF o.side = "buy" THEN c.id ELSE o.id,
   buyer     |-> IF o.side = "buy" THEN o.user ELSE c.user,
   seller    |-> IF o.side = "buy" THEN c.user ELSE o.user,
   company   |-> o.company,
   shares    |-> Least(o.remaining, c.remaining),
   price     |-> c.price]

Reduced(o, n) ==
  [o EXCEPT !.remaining = @ - n,
            !.status = IF o.remaining = n THEN "filled" ELSE "partial"]

BuyerWallet(t)  == <<t.buyer, ClassroomOf[t.company]>>
SellerWallet(t) == <<t.seller, ClassroomOf[t.company]>>
Amount(t) == t.shares * t.price

MoveMoney_ActiveRoom(d, t) ==
  Credit(Debit(d, BuyerWallet(t), Amount(t)),
         <<t.seller, active[t.seller]>>, Amount(t))

MoveMoney(d, t) ==
  Credit(Debit(d, BuyerWallet(t), Amount(t)), SellerWallet(t), Amount(t))

MoveShares(d, t) ==
  SubtractShareholderShares(
    UpsertShareholder(d, t.company, t.buyer, t.shares),
    t.company, t.seller, t.shares)

\* All the statements of one turn of the loop.
Settle(d, o, c) ==
  LET t  == Fill(o, c)
      d1 == CreateTrade(d, t)
      d2 == UpdateOrder(UpdateOrder(d1, Reduced(o, t.shares)),
                        Reduced(c, t.shares))
      d3 == MoveShares(MoveMoney(d2, t), t)
  IN UpdateCompany(d3, t.company, t.price * TotalShares(t.company))

SettleMatch(r) ==
  /\ conn = r /\ pc[r] = "settle"
  /\ mine[r].remaining > 0
  /\ \E c \in Heads(mine[r], book[r]) :
       /\ CanDebit(tx, BuyerWallet(Fill(mine[r], c)), Amount(Fill(mine[r], c)))
       /\ tx' = Settle(tx, mine[r], c)
       /\ mine' = [mine EXCEPT ![r] = Reduced(@, Fill(@, c).shares)]
       /\ book' = [book EXCEPT ![r] = @ \ {c}]
  /\ UNCHANGED <<db, conn, active, pc, have, spent, failed, events>>

RollbackSettlement_Half(r) ==
  /\ conn = r /\ pc[r] = "settle"
  /\ mine[r].remaining > 0
  /\ \E c \in Heads(mine[r], book[r]) :
       LET t == Fill(mine[r], c) IN
       /\ ~CanDebit(tx, BuyerWallet(t), Amount(t))
       /\ db' = CreateTrade(tx, t)
  /\ tx' = None
  /\ conn' = None
  /\ failed' = failed \cup {mine[r].id}
  /\ Return(r)
  /\ UNCHANGED <<active, spent, events>>

RollbackSettlement_Leak(r) ==
  /\ conn = r /\ pc[r] = "settle"
  /\ mine[r].remaining > 0
  /\ \E c \in Heads(mine[r], book[r]) :
       ~CanDebit(tx, BuyerWallet(Fill(mine[r], c)), Amount(Fill(mine[r], c)))
  /\ failed' = failed \cup {mine[r].id}
  /\ Return(r)
  /\ UNCHANGED <<db, tx, conn, active, spent, events>>

\* Debit returns ErrInsufficientFunds: the deferred tx.Rollback undoes every
\* turn, and the order row, inserted before the transaction, stays.
RollbackSettlement(r) ==
  /\ conn = r /\ pc[r] = "settle"
  /\ mine[r].remaining > 0
  /\ \E c \in Heads(mine[r], book[r]) :
       ~CanDebit(tx, BuyerWallet(Fill(mine[r], c)), Amount(Fill(mine[r], c)))
  /\ tx' = None
  /\ conn' = None
  /\ failed' = failed \cup {mine[r].id}
  /\ Return(r)
  /\ UNCHANGED <<db, active, spent, events>>

CommitSettlement(r) ==
  /\ conn = r /\ pc[r] = "settle"
  /\ mine[r].remaining = 0 \/ book[r] = {}
  /\ db' = tx
  /\ tx' = None
  /\ conn' = None
  /\ Return(r)
  /\ UNCHANGED <<active, spent, failed, events>>

-----------------------------------------------------------------------------
(* CancelOrder: the order is read and judged, then updated by id. *)

ReadCancelled(r, u, i) ==
  /\ Statement(r, "idle")
  /\ db.orders[i].user = u
  /\ db.orders[i].status \in Live
  /\ mine' = [mine EXCEPT ![r] = db.orders[i]]
  /\ Goto(r, "cancel")
  /\ UNCHANGED <<db, tx, conn, active, have, book, spent, failed, events>>

CancelOrder(r) ==
  /\ Statement(r, "cancel")
  /\ db' = [db EXCEPT !.orders[mine[r].id].status = "cancelled"]
  /\ Return(r)
  /\ UNCHANGED <<tx, conn, active, spent, failed, events>>

-----------------------------------------------------------------------------
(* The rest of the program, as far as the exchange can notice it. *)

Happens == events < MaxEvents /\ events' = events + 1

\* Any other handler's Debit (transfers, investments, escrow, loans...).  Only
\* AdminTransfer may overdraw a wallet, and does so on purpose: it is left out.
\* Credits by other handlers only make a debit succeed and are left out too.
OtherDebit(w, amount) ==
  /\ conn = None
  /\ Happens
  /\ CanDebit(db, w, amount)
  /\ db' = Debit(db, w, amount)
  /\ spent' = [spent EXCEPT ![w] = @ + amount]
  /\ UNCHANGED <<tx, conn, active, pc, mine, have, book, failed>>

\* The user turns to another classroom while an order of his may be in flight.
ActivateClassroom(u, k) ==
  /\ conn = None
  /\ Happens
  /\ k # active[u]
  /\ active' = [active EXCEPT ![u] = k]
  /\ UNCHANGED <<db, tx, conn, pc, mine, have, book, spent, failed>>

\* The server is redeployed: handlers vanish, SQLite forgets the open
\* transaction, every committed statement stays.
Matchmaking == {"match", "begin", "settle"}
Placed == Matchmaking \cup {"cancel"}

Restart ==
  /\ Happens
  /\ \E r \in Requests : pc[r] # "idle"
  /\ tx' = None
  /\ conn' = None
  /\ pc' = [r \in Requests |-> "idle"]
  /\ mine' = [r \in Requests |-> None]
  /\ have' = [r \in Requests |-> 0]
  /\ book' = [r \in Requests |-> {}]
  /\ failed' = failed \cup
       {mine[r].id : r \in {q \in Requests : pc[q] \in Matchmaking}}
  /\ UNCHANGED <<db, active, spent>>

-----------------------------------------------------------------------------
Client(r) ==
  \/ \E u \in Users, c \in Companies, side \in Sides,
        n \in Quantities, p \in Prices : PlaceOrder(r, u, c, side, n, p)
  \/ \E u \in Users, i \in OrderIds(db) : ReadCancelled(r, u, i)

Handler(r) ==
  \/ AcceptOrder(r) \/ RefuseOrder(r) \/ CreateOrder(r)
  \/ FindMatches(r) \/ FindNoMatch(r) \/ BeginSettlement(r)
  \/ SettleMatch(r) \/ RollbackSettlement(r) \/ CommitSettlement(r)
  \/ CancelOrder(r)

Environment ==
  \/ \E u \in Users, c \in Companies, amount \in Spendings :
       OtherDebit(<<u, ClassroomOf[c]>>, amount)
  \/ \E u \in Users, k \in Classrooms : ActivateClassroom(u, k)
  \/ Restart

\* Nobody sends a request: the server waits.  (A handler that cannot move is a
\* deadlock, a server without requests is not.)
Quiet ==
  /\ \A r \in Requests : pc[r] = "idle"
  /\ UNCHANGED vars

Next ==
  \/ \E r \in Requests : Client(r) \/ Handler(r)
  \/ Environment
  \/ Quiet

Spec == Init /\ [][Next]_vars

\* A goroutine that can take its next step is scheduled eventually, and waits
\* for the connection only as long as a transaction holds it.
Fairness == \A r \in Requests : WF_vars(Handler(r))

FairSpec == Spec /\ Fairness

-----------------------------------------------------------------------------
(* Properties that hold however requests interleave *)

TradeIds(d) == 1 .. Len(d.trades)

Moved(d, I) == SumOf([i \in TradeIds(d) |-> d.trades[i].shares * d.trades[i].price], I)

\* The trades in which u sold, or bought, in classroom k.
Sales(d, u, k) ==
  {i \in TradeIds(d) : d.trades[i].seller = u /\ ClassroomOf[d.trades[i].company] = k}

Purchases(d, u, k) ==
  {i \in TradeIds(d) : d.trades[i].buyer = u /\ ClassroomOf[d.trades[i].company] = k}

Held(d, c) == SumOf([u \in Users |-> d.shares[<<c, u>>]], Users)

\* Types, and what the program counter says about the locals: a handler past
\* the insert holds an order that exists; the open transaction has an owner.
TypeOK ==
  /\ db \in Database
  /\ conn \in Requests \cup {None}
  /\ IF conn = None THEN tx = None ELSE tx \in Database
  /\ active \in [Users -> Classrooms]
  /\ pc \in [Requests -> {"idle", "pending", "insert", "match",
                          "begin", "settle", "cancel"}]
  /\ mine \in [Requests -> Order \cup {None}]
  /\ have \in [Requests -> Int]
  /\ book \in [Requests -> SUBSET Order]
  /\ \A r \in Requests :
       /\ pc[r] # "idle" => mine[r] \in Order
       /\ pc[r] \in Placed => mine[r].id \in OrderIds(db)
       /\ pc[r] = "settle" <=> conn = r
  /\ spent \in [Users \X Classrooms -> Nat]
  /\ failed \subseteq OrderIds(db)
  /\ events \in 0 .. MaxEvents

\* Committed money is exactly what committed trades moved: in every wallet of
\* every classroom, opening balance - other debits + sales - purchases.  A
\* settlement that fails in its second turn must take back its first one, and
\* a settlement must not reach the wallet of the classroom the user has since
\* turned to (exchange_usecase.go, runMatching, #142 and #159).
MoneyFollowsTrades ==
  \A u \in Users, k \in Classrooms :
    db.wallet[<<u, k>>] =
      InitialFunds[<<u, k>>] - spent[<<u, k>>]
      + Moved(db, Sales(db, u, k)) - Moved(db, Purchases(db, u, k))

\* No wallet is ever overdrawn, although the balance was validated several
\* statements before it is debited.
NoOverdraft ==
  \A w \in Users \X Classrooms : db.wallet[w] >= 0

\* Trade t is one the buy order b and the sell order s allow.
Allowed(t, b, s) ==
  /\ b.side = "buy" /\ s.side = "sell"
  /\ b.user = t.buyer /\ s.user = t.seller /\ t.buyer # t.seller
  /\ b.company = t.company /\ s.company = t.company
  /\ s.price <= t.price /\ t.price <= b.price
  /\ 0 < t.shares /\ t.shares <= b.shares /\ t.shares <= s.shares

AllowedIn(d, t) ==
  /\ t.buyOrder \in OrderIds(d) /\ t.sellOrder \in OrderIds(d)
  /\ Allowed(t, d.orders[t.buyOrder], d.orders[t.sellOrder])

HonoursOrders(d) == \A i \in 1 .. Len(d.trades) : AllowedIn(d, d.trades[i])

\* Every trade is one both parties asked for: between orders of opposite sides
\* and different users, in one company, at a price neither limit forbids --
\* although the settlement works on copies of both orders that may be stale.
TradesHonourOrders == HonoursOrders(db)

\* Shares never evaporate: a trade always delivers to the buyer what it takes
\* from the seller, a first-time buyer included (#140, audit query Q1 diff>0).
NoShareLost ==
  \A c \in Companies : Held(db, c) >= TotalShares(c)

\* Every request is answered, and the connection always comes free again: a handler
\* that returns and keeps its transaction would have every other handler of the
\* server, whose first statement waits for the connection, wait for ever.
RequestsFinish ==
  /\ \A r \in Requests : pc[r] # "idle" ~> pc[r] = "idle"
  /\ []<>(conn = None)

-----------------------------------------------------------------------------
(* Properties of one request at a time *)

\* The shares of a company held by its shareholders are all of its shares, no
\* more and no fewer (audit query Q1; TestExchange_Matching_ConservesShares).
SharesConserved ==
  \A c \in Companies : Held(db, c) = TotalShares(c)

TradedShares(d, i) ==
  SumOf([j \in TradeIds(d) |-> d.trades[j].shares],
        {j \in TradeIds(d) : i \in {d.trades[j].buyOrder, d.trades[j].sellOrder}})

\* An order's remaining shares are its shares less all that was traded under
\* it, its status says so, and nobody's live sell orders together offer more
\* than he holds.
OrdersAccountForTrades ==
  /\ \A i \in OrderIds(db) :
       LET o == db.orders[i] IN
       /\ o.shares = o.remaining + TradedShares(db, i)
       /\ o.status = "filled" <=> o.remaining = 0
       /\ o.status = "open" => o.remaining = o.shares
       /\ o.status = "partial" => o.remaining < o.shares
  /\ \A u \in Users, c \in Companies :
       PendingSellShares(db, u, c) <= db.shares[<<c, u>>]

\* Price-time priority across a whole settlement: an order that trades with a
\* resting order has filled every resting order of another user that offered a
\* better price, or the same price a second or more earlier; and the price of
\* the trade is the resting order's.
BestPriceFirst ==
  [][\A i \in Len(db.trades) + 1 .. Len(db'.trades) :
       LET t    == db'.trades[i]
           late == IF t.buyOrder > t.sellOrder THEN t.buyOrder ELSE t.sellOrder
           m    == db.orders[IF late = t.buyOrder THEN t.sellOrder
                                                  ELSE t.buyOrder]
       IN /\ t.price = m.price
          /\ \A j \in OrderIds(db) :
               LET q == db.orders[j] IN
               /\ q.status \in Live /\ q.side = m.side
               /\ q.company = m.company /\ q.user # db.orders[late].user
               /\ \/ q.side = "sell" /\ q.price < m.price
                  \/ q.side = "buy" /\ q.price > m.price
                  \/ q.price = m.price /\ CreatedAt[j] < CreatedAt[m.id]
               => db'.orders[j].status = "filled"]_db

\* Two live orders of different users cross only if the matching of the later
\* one was rolled back (its buyer could no longer pay) or cut by a restart.
CrossedOnlyAfterFailure ==
  (\A r \in Requests : pc[r] = "idle") =>
    \A i, j \in OrderIds(db) :
      LET a == db.orders[i]
          b == db.orders[j]
      IN /\ i < j /\ a.status \in Live /\ b.status \in Live
         /\ a.company = b.company /\ a.user # b.user /\ a.side # b.side
         /\ IF a.side = "buy" THEN a.price >= b.price ELSE a.price <= b.price
         => j \in failed

\* A company's recorded valuation is the last trade's price times its shares.
ValuationFollowsTrades ==
  \A i \in 1 .. Len(db.trades) :
    (\A j \in i + 1 .. Len(db.trades) :
        db.trades[j].company # db.trades[i].company)
    => db.valuation[db.trades[i].company] =
         db.trades[i].price * TotalShares(db.trades[i].company)

-----------------------------------------------------------------------------
(* The abstract specification, read off the committed rows. *)

OpenShares(o) == IF o.status \in Live THEN o.remaining ELSE 0

Offers(d) ==
  [i \in OrderIds(d) |->
     [user |-> d.orders[i].user, company |-> d.orders[i].company,
      side |-> d.orders[i].side, price |-> d.orders[i].price,
      open |-> OpenShares(d.orders[i])]]

Ledger == INSTANCE ShareLedger WITH
  wallet <- db.wallet, shares <- db.shares, trades <- db.trades, offers <- Offers(db)

\* One request at a time, whatever the other handlers and restarts do between
\* its statements, the exchange implements the ledger: every commit is a batch
\* of trades the offers, the sellers' shares and the buyers' money allow.
ImplementsLedger == Ledger!Spec

=============================================================================
