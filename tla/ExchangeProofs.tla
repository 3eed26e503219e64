--------------------------- MODULE ExchangeProofs ---------------------------
(***************************************************************************)
(* Theorems about the exchange, for every set of users, companies, requests *)
(* and prices and any number of orders: its type invariant, that no wallet  *)
(* is overdrawn, that every trade is one both parties asked for, that the   *)
(* money in the wallets is what the committed trades moved, and that no     *)
(* share is lost.                                                          *)
(*                                                                         *)
(* The first three are not inductive: a settlement writes what it computed  *)
(* from copies of orders it read before it held the connection.  IInv says  *)
(* what stays true of such a copy whatever the other handlers do meanwhile  *)
(* (Copy: its terms are those of the row, for no statement writes them) and *)
(* what was true of the pair when it was read (Opposite).                   *)
(***************************************************************************)
EXTENDS Exchange, SumsProofs, TLAPS

Terms(o, p) ==
  /\ o.user = p.user /\ o.company = p.company /\ o.side = p.side
  /\ o.shares = p.shares /\ o.price = p.price

\* An order held in memory: its row exists, and has the same terms.
Copy(d, o) == o.id \in OrderIds(d) /\ Terms(o, d.orders[o.id])

\* What FindMatching... guarantees of a resting order it returned.
Opposite(o, c) ==
  /\ c.side # o.side /\ c.user # o.user /\ c.company = o.company
  /\ Crosses(o, c)
  /\ 0 < c.remaining

\* The rows of stock_orders by themselves.
OrdersSound(d) ==
  \A i \in OrderIds(d) :
    LET o == d.orders[i] IN
    /\ o.id = i
    /\ 0 < o.shares /\ o.remaining <= o.shares
    /\ o.status \in Live => 0 < o.remaining

WalletsSound(d) == \A w \in Users \X Classrooms : d.wallet[w] >= 0

Sound(d) == OrdersSound(d) /\ WalletsSound(d) /\ HonoursOrders(d)

\* The same orders, with the same terms.
SameBook(d, e) ==
  /\ Len(d.orders) = Len(e.orders)
  /\ \A i \in OrderIds(d) : Terms(d.orders[i], e.orders[i])

\* What a handler knows of the orders it holds.
LocalsSound(r) ==
  /\ pc[r] \in {"pending", "insert"} =>
       0 < mine[r].shares /\ mine[r].remaining = mine[r].shares
  /\ pc[r] \in Placed => Copy(db, mine[r]) /\ mine[r].remaining <= mine[r].shares
  /\ pc[r] \in {"begin", "settle"} =>
       \A c \in book[r] :
         Copy(db, c) /\ Opposite(mine[r], c) /\ c.remaining <= c.shares

IInv ==
  /\ TypeOK
  /\ Sound(db)
  /\ conn # None => Sound(tx) /\ SameBook(tx, db)
  /\ \A r \in Requests : LocalsSound(r)

-----------------------------------------------------------------------------
(* The repository operations *)

\* An update by id overwrites remaining and status of one row, nothing else.
LEMMA UpdateOrderFact ==
  ASSUME NEW d \in Database, NEW o \in Order, o.id \in OrderIds(d)
  PROVE  LET e == UpdateOrder(d, o) IN
         /\ e \in Database
         /\ e.wallet = d.wallet /\ e.shares = d.shares
         /\ e.trades = d.trades /\ e.valuation = d.valuation
         /\ Len(e.orders) = Len(d.orders)
         /\ \A i \in OrderIds(d) :
              /\ Terms(e.orders[i], d.orders[i])
              /\ e.orders[i].id = d.orders[i].id
              /\ e.orders[i].remaining =
                   IF i = o.id THEN o.remaining ELSE d.orders[i].remaining
              /\ e.orders[i].status =
                   IF i = o.id THEN o.status ELSE d.orders[i].status
<1> DEFINE e == UpdateOrder(d, o)
           row == Overwritten(d.orders[o.id], o)
<1>1. d.orders[o.id] \in Order
  BY DEF Database, OrderIds
<1>2. /\ row \in Order
      /\ Terms(row, d.orders[o.id]) /\ row.id = d.orders[o.id].id
      /\ row.remaining = o.remaining /\ row.status = o.status
  BY <1>1 DEF Order, Overwritten, Terms
<1>3. e = [d EXCEPT !.orders = [d.orders EXCEPT ![o.id] = row]]
  BY DEF Database, UpdateOrder
<1>4. [d.orders EXCEPT ![o.id] = row] \in Seq(Order)
  BY <1>2 DEF Database, OrderIds
<1> HIDE DEF row, e
<1>5. /\ e \in Database
      /\ e.wallet = d.wallet /\ e.shares = d.shares
      /\ e.trades = d.trades /\ e.valuation = d.valuation
      /\ e.orders = [d.orders EXCEPT ![o.id] = row]
  BY <1>3, <1>4 DEF Database
<1>6. Len(e.orders) = Len(d.orders)
  BY <1>5 DEF Database
<1>7. \A i \in OrderIds(d) : e.orders[i] = IF i = o.id THEN row ELSE d.orders[i]
  BY <1>5 DEF Database, OrderIds
<1>8. \A i \in OrderIds(d) :
              /\ Terms(e.orders[i], d.orders[i])
              /\ e.orders[i].id = d.orders[i].id
              /\ e.orders[i].remaining =
                   IF i = o.id THEN o.remaining ELSE d.orders[i].remaining
              /\ e.orders[i].status =
                   IF i = o.id THEN o.status ELSE d.orders[i].status
  BY <1>2, <1>7 DEF Terms
<1> QED
  BY <1>5, <1>6, <1>8 DEF e

\* Writing one wallet.
LEMMA WriteWallet ==
  ASSUME NEW d \in Database, NEW w \in Users \X Classrooms, NEW n \in Int
  PROVE  LET e == [d EXCEPT !.wallet[w] = n] IN
         /\ e \in Database
         /\ e.shares = d.shares /\ e.orders = d.orders /\ e.trades = d.trades
         /\ \A v \in Users \X Classrooms :
              e.wallet[v] = IF v = w THEN n ELSE d.wallet[v]
<1> DEFINE W == Users \X Classrooms
           S == [Companies \X Users -> Nat]
           e == [d EXCEPT !.wallet[w] = n]
<1>1. w \in W
  OBVIOUS
<1>2. Database = [wallet: [W -> Int], shares: S, orders: Seq(Order),
                  trades: Seq(Trade), valuation: [Companies -> Nat]]
  BY DEF Database
<1> HIDE DEF W, S
<1>3. /\ e \in Database
      /\ e.shares = d.shares /\ e.orders = d.orders /\ e.trades = d.trades
      /\ \A v \in W : e.wallet[v] = IF v = w THEN n ELSE d.wallet[v]
  BY <1>1, <1>2
<1> QED
  BY <1>3 DEF W

\* Writing one holding.
LEMMA WriteShares ==
  ASSUME NEW d \in Database, NEW h \in Companies \X Users, NEW n \in Nat
  PROVE  LET e == [d EXCEPT !.shares[h] = n] IN
         /\ e \in Database
         /\ e.wallet = d.wallet /\ e.orders = d.orders /\ e.trades = d.trades
<1> DEFINE W == [Users \X Classrooms -> Int]
           S == Companies \X Users
           e == [d EXCEPT !.shares[h] = n]
<1>1. h \in S
  OBVIOUS
<1>2. Database = [wallet: W, shares: [S -> Nat], orders: Seq(Order),
                  trades: Seq(Trade), valuation: [Companies -> Nat]]
  BY DEF Database
<1> HIDE DEF W, S
<1> QED
  BY <1>1, <1>2

\* Money moves between wallets; the buyer could pay, so no wallet is overdrawn.
LEMMA MoveMoneyFact ==
  ASSUME NEW d \in Database, NEW t \in Trade,
         CanDebit(d, BuyerWallet(t), Amount(t)), WalletsSound(d)
  PROVE  LET e == MoveMoney(d, t) IN
         /\ e \in Database /\ WalletsSound(e)
         /\ e.orders = d.orders /\ e.trades = d.trades
<1> DEFINE a == Amount(t)
           x == Debit(d, BuyerWallet(t), a)
           y == Credit(x, SellerWallet(t), a)
<1>1. a \in Int
  BY DEF Amount, Trade
<1>2. /\ BuyerWallet(t) \in Users \X Classrooms
      /\ SellerWallet(t) \in Users \X Classrooms
  BY ExchangeAssumption DEF BuyerWallet, SellerWallet, Trade
<1>3. a > 0 /\ d.wallet[BuyerWallet(t)] >= a
  BY DEF CanDebit
<1> HIDE DEF a
<1>4. /\ x \in Database /\ WalletsSound(x)
      /\ x.orders = d.orders /\ x.trades = d.trades
  <2>1. d.wallet[BuyerWallet(t)] \in Int
    BY <1>2 DEF Database
  <2>2. d.wallet[BuyerWallet(t)] - a \in Int /\ d.wallet[BuyerWallet(t)] - a >= 0
    BY <1>1, <1>3, <2>1
  <2> QED
    BY <1>2, <2>2, WriteWallet DEF Debit, WalletsSound
<1> HIDE DEF x
<1>5. /\ y \in Database /\ WalletsSound(y)
      /\ y.orders = x.orders /\ y.trades = x.trades
  <2>1. x.wallet[SellerWallet(t)] \in Int /\ x.wallet[SellerWallet(t)] >= 0
    BY <1>2, <1>4 DEF Database, WalletsSound
  <2>2. x.wallet[SellerWallet(t)] + a \in Int /\ x.wallet[SellerWallet(t)] + a >= 0
    BY <1>1, <1>3, <2>1
  <2> QED
    BY <1>2, <1>4, <2>2, WriteWallet DEF Credit, WalletsSound
<1> QED
  BY <1>4, <1>5 DEF MoveMoney, x, a

\* Shares move between holdings that stay natural numbers.
LEMMA MoveSharesFact ==
  ASSUME NEW d \in Database, NEW t \in Trade
  PROVE  LET e == MoveShares(d, t) IN
         /\ e \in Database /\ e.wallet = d.wallet
         /\ e.orders = d.orders /\ e.trades = d.trades
<1> DEFINE x == UpsertShareholder(d, t.company, t.buyer, t.shares)
           y == SubtractShareholderShares(x, t.company, t.seller, t.shares)
<1>1. /\ t.company \in Companies /\ t.buyer \in Users /\ t.seller \in Users
      /\ t.shares \in Nat
  BY DEF Trade
<1>2. /\ x \in Database /\ x.wallet = d.wallet
      /\ x.orders = d.orders /\ x.trades = d.trades
  <2>1. <<t.company, t.buyer>> \in Companies \X Users
    BY <1>1
  <2>2. d.shares[<<t.company, t.buyer>>] + t.shares \in Nat
    BY <1>1, <2>1 DEF Database
  <2> QED
    BY <2>1, <2>2, WriteShares DEF UpsertShareholder
<1> HIDE DEF x
<1>3. /\ y \in Database /\ y.wallet = x.wallet
      /\ y.orders = x.orders /\ y.trades = x.trades
  <2> DEFINE held == x.shares[<<t.company, t.seller>>]
  <2>1. <<t.company, t.seller>> \in Companies \X Users
    BY <1>1
  <2>2. held \in Nat
    BY <1>2, <2>1 DEF Database
  <2>3. (IF held > t.shares THEN held - t.shares ELSE 0) \in Nat
    BY <1>1, <2>2
  <2> QED
    BY <1>2, <2>1, <2>3, WriteShares DEF SubtractShareholderShares
<1> QED
  BY <1>2, <1>3 DEF MoveShares, x

\* The trade of two opposite orders is one both of them allow.
LEMMA FillFact ==
  ASSUME NEW o \in Order, NEW c \in Order, Opposite(o, c), 0 < o.remaining,
         o.remaining <= o.shares, c.remaining <= c.shares
  PROVE  LET t == Fill(o, c)
             b == IF o.side = "buy" THEN o ELSE c
             s == IF o.side = "buy" THEN c ELSE o
         IN /\ t \in Trade
            /\ 0 < t.shares /\ t.shares <= o.remaining /\ t.shares <= c.remaining
            /\ t.buyOrder = b.id /\ t.sellOrder = s.id
            /\ Allowed(t, b, s)
<1>1. Least(o.remaining, c.remaining) \in Nat
      /\ 0 < Least(o.remaining, c.remaining)
      /\ Least(o.remaining, c.remaining) <= o.remaining
      /\ Least(o.remaining, c.remaining) <= c.remaining
  BY DEF Order, Opposite, Least
<1> DEFINE n == Least(o.remaining, c.remaining)
<1> HIDE DEF n
<1>2. CASE o.side = "buy"
  BY <1>1, <1>2 DEF Fill, Opposite, Crosses, Order, Trade, Sides, Allowed, n
<1>3. CASE o.side # "buy"
  BY <1>1, <1>3 DEF Fill, Opposite, Crosses, Order, Trade, Sides, Allowed, n
<1> QED
  BY <1>2, <1>3

-----------------------------------------------------------------------------
(* What survives a change of the rows *)

\* No order of d has disappeared from e or changed its terms.
Extends(e, d) ==
  /\ Len(d.orders) <= Len(e.orders)
  /\ \A i \in OrderIds(d) : Terms(e.orders[i], d.orders[i])

LEMMA SameBookExtends ==
  ASSUME NEW d \in Database, NEW e \in Database, SameBook(e, d)
  PROVE  Extends(e, d)
BY DEF SameBook, Extends, OrderIds, Database

LEMMA HonoursExtends ==
  ASSUME NEW d \in Database, NEW e \in Database, Extends(e, d),
         HonoursOrders(d), e.trades = d.trades
  PROVE  HonoursOrders(e)
<1>1. OrderIds(d) \subseteq OrderIds(e)
  BY DEF Extends, OrderIds, Database
<1>2. ASSUME NEW t, AllowedIn(d, t)
      PROVE  AllowedIn(e, t)
  BY <1>1, <1>2 DEF AllowedIn, Allowed, Extends, Terms
<1> QED
  BY <1>2 DEF HonoursOrders

LEMMA CopyExtends ==
  ASSUME NEW d \in Database, NEW e \in Database, Extends(e, d),
         NEW o, Copy(d, o)
  PROVE  Copy(e, o)
BY DEF Copy, Extends, Terms, OrderIds, Database

\* A trade recorded under two orders that allow it.
LEMMA CreateTradeFact ==
  ASSUME NEW d \in Database, NEW t \in Trade, HonoursOrders(d),
         AllowedIn(d, t)
  PROVE  LET e == CreateTrade(d, t) IN
         /\ e \in Database /\ HonoursOrders(e)
         /\ e.orders = d.orders /\ e.wallet = d.wallet
<1> DEFINE e == CreateTrade(d, t)
<1>1. /\ e \in Database
      /\ e.orders = d.orders /\ e.wallet = d.wallet
      /\ e.trades = Append(d.trades, t)
  <2>1. Append(d.trades, t) \in Seq(Trade)
    BY DEF Database
  <2> HIDE DEF Trade
  <2> QED
    BY <2>1 DEF CreateTrade, Database
<1> HIDE DEF e
<1>2. d.trades \in Seq(Trade)
  BY DEF Database
<1>3. Len(e.trades) = Len(d.trades) + 1
  BY <1>1, <1>2
<1>4. \A i \in 1 .. Len(e.trades) :
        e.trades[i] = IF i = Len(d.trades) + 1 THEN t ELSE d.trades[i]
  BY <1>1, <1>2
<1>5. \A i \in 1 .. Len(e.trades) : i # Len(d.trades) + 1 => i \in 1 .. Len(d.trades)
  BY <1>2, <1>3
<1>6. OrderIds(e) = OrderIds(d)
  BY <1>1 DEF OrderIds
<1>7. HonoursOrders(e)
  <2>1. \A u : AllowedIn(d, u) <=> AllowedIn(e, u)
    BY <1>1, <1>6 DEF AllowedIn
  <2> QED
    BY <1>4, <1>5, <2>1 DEF HonoursOrders
<1> QED
  BY <1>1, <1>7 DEF e

\* An order written over its own row keeps the rows sound.
LEMMA UpdateOrderSound ==
  ASSUME NEW d \in Database, OrdersSound(d), NEW o \in Order, Copy(d, o),
         o.remaining <= o.shares, o.status \in Live => 0 < o.remaining
  PROVE  OrdersSound(UpdateOrder(d, o))
<1> DEFINE e == UpdateOrder(d, o)
<1>1. o.id \in OrderIds(d) /\ o.shares = d.orders[o.id].shares
  BY DEF Copy, Terms
<1>2. /\ Len(e.orders) = Len(d.orders)
      /\ \A i \in OrderIds(d) :
           /\ Terms(e.orders[i], d.orders[i])
           /\ e.orders[i].id = d.orders[i].id
           /\ e.orders[i].remaining =
                IF i = o.id THEN o.remaining ELSE d.orders[i].remaining
           /\ e.orders[i].status =
                IF i = o.id THEN o.status ELSE d.orders[i].status
  BY <1>1, UpdateOrderFact
<1> HIDE DEF e
<1>3. OrderIds(e) = OrderIds(d)
  BY <1>2 DEF OrderIds
<1>4. OrdersSound(e)
  BY <1>1, <1>2, <1>3 DEF OrdersSound, Terms
<1> QED
  BY <1>4 DEF e

\* An order after it gave n of its remaining shares.
LEMMA ReducedFact ==
  ASSUME NEW o \in Order, NEW n \in Nat, 0 < n, n <= o.remaining,
         o.remaining <= o.shares
  PROVE  LET p == Reduced(o, n) IN
         /\ p \in Order /\ Terms(p, o) /\ p.id = o.id
         /\ p.remaining <= p.shares
         /\ p.status \in Live => 0 < p.remaining
<1> DEFINE m == o.remaining - n
           st == IF o.remaining = n THEN "filled" ELSE "partial"
           p == [o EXCEPT !.remaining = m, !.status = st]
<1>1. m \in Nat /\ m <= o.shares /\ (m = 0 <=> o.remaining = n)
  BY DEF Order
<1>2. st \in Status /\ (st \in Live => o.remaining # n)
  BY DEF Status, Live
<1>3. p = Reduced(o, n)
  BY DEF Reduced
<1> HIDE DEF m, st
<1>4. /\ p \in Order /\ Terms(p, o) /\ p.id = o.id
      /\ p.remaining = m /\ p.status = st /\ p.shares = o.shares
  BY <1>1, <1>2 DEF Order, Terms
<1> HIDE DEF p
<1>5. p.remaining <= p.shares /\ (p.status \in Live => 0 < p.remaining)
  BY <1>1, <1>2, <1>4
<1> QED
  BY <1>3, <1>4, <1>5

\* One turn of the settlement loop, made on copies: the rows stay sound and
\* the orders keep their terms.
LEMMA SettleFact ==
  ASSUME NEW d \in Database, Sound(d),
         NEW o \in Order, Copy(d, o), 0 < o.remaining, o.remaining <= o.shares,
         NEW c \in Order, Copy(d, c), Opposite(o, c), c.remaining <= c.shares,
         CanDebit(d, BuyerWallet(Fill(o, c)), Amount(Fill(o, c)))
  PROVE  LET e == Settle(d, o, c) IN
         e \in Database /\ Sound(e) /\ SameBook(e, d)
<1> DEFINE t  == Fill(o, c)
           p  == Reduced(o, t.shares)
           q  == Reduced(c, t.shares)
           d1 == CreateTrade(d, t)
           d2 == UpdateOrder(d1, p)
           d3 == UpdateOrder(d2, q)
           d4 == MoveMoney(d3, t)
           d5 == MoveShares(d4, t)
<1>1. /\ t \in Trade
      /\ 0 < t.shares /\ t.shares <= o.remaining /\ t.shares <= c.remaining
      /\ t.buyOrder = IF o.side = "buy" THEN o.id ELSE c.id
      /\ t.sellOrder = IF o.side = "buy" THEN c.id ELSE o.id
      /\ Allowed(t, IF o.side = "buy" THEN o ELSE c,
                    IF o.side = "buy" THEN c ELSE o)
  BY FillFact
<1>2. t.shares \in Nat
  BY <1>1 DEF Trade
<1>3. AllowedIn(d, t)
  BY <1>1 DEF AllowedIn, Allowed, Copy, Terms
<1>4. CanDebit(d, BuyerWallet(t), Amount(t))
  OBVIOUS
<1>5. Settle(d, o, c) = d5
  BY DEF Settle, UpdateCompany
<1> HIDE DEF t
<1>6. /\ p \in Order /\ Copy(d, p) /\ p.remaining <= p.shares
      /\ p.status \in Live => 0 < p.remaining
  BY <1>1, <1>2, ReducedFact DEF Copy, Terms
<1>7. /\ q \in Order /\ Copy(d, q) /\ q.remaining <= q.shares
      /\ q.status \in Live => 0 < q.remaining
  BY <1>1, <1>2, ReducedFact DEF Copy, Terms
<1> HIDE DEF p, q
<1>8. /\ d1 \in Database /\ HonoursOrders(d1)
      /\ d1.orders = d.orders /\ d1.wallet = d.wallet
  BY <1>1, <1>3, CreateTradeFact DEF Sound
<1>9. OrdersSound(d1) /\ Copy(d1, p) /\ Copy(d1, q) /\ SameBook(d1, d)
  BY <1>6, <1>7, <1>8 DEF Sound, OrdersSound, OrderIds, Copy, SameBook, Terms
<1> HIDE DEF d1
<1>10. /\ d2 \in Database /\ SameBook(d2, d1)
       /\ d2.trades = d1.trades /\ d2.wallet = d1.wallet
  BY <1>6, <1>8, <1>9, UpdateOrderFact DEF Copy, SameBook, OrderIds
<1>11. OrdersSound(d2)
  BY <1>6, <1>8, <1>9, UpdateOrderSound
<1> HIDE DEF d2
<1>12. HonoursOrders(d2) /\ Copy(d2, q)
  BY <1>8, <1>9, <1>10, SameBookExtends, HonoursExtends, CopyExtends
<1>13. /\ d3 \in Database /\ SameBook(d3, d2)
       /\ d3.trades = d2.trades /\ d3.wallet = d2.wallet
  BY <1>7, <1>10, <1>12, UpdateOrderFact DEF Copy, SameBook, OrderIds
<1>14. OrdersSound(d3)
  BY <1>7, <1>10, <1>11, <1>12, UpdateOrderSound
<1> HIDE DEF d3
<1>15. HonoursOrders(d3)
  BY <1>10, <1>12, <1>13, SameBookExtends, HonoursExtends
<1>16. d3.wallet = d.wallet
  BY <1>8, <1>10, <1>13
<1>17. CanDebit(d3, BuyerWallet(t), Amount(t)) /\ WalletsSound(d3)
  BY <1>4, <1>16 DEF CanDebit, WalletsSound, Sound
<1>18. /\ d4 \in Database /\ WalletsSound(d4)
       /\ d4.orders = d3.orders /\ d4.trades = d3.trades
  BY <1>1, <1>13, <1>17, MoveMoneyFact
<1> HIDE DEF d4
<1>19. /\ d5 \in Database /\ d5.wallet = d4.wallet
       /\ d5.orders = d4.orders /\ d5.trades = d4.trades
  BY <1>1, <1>18, MoveSharesFact
<1> HIDE DEF d5
<1>20. WalletsSound(d5)
  BY <1>18, <1>19 DEF WalletsSound
<1>21. OrdersSound(d5)
  BY <1>14, <1>18, <1>19 DEF OrdersSound, OrderIds
<1>22. HonoursOrders(d5)
  BY <1>15, <1>18, <1>19 DEF HonoursOrders, AllowedIn, OrderIds
<1>23. SameBook(d5, d)
  BY <1>9, <1>10, <1>13, <1>18, <1>19 DEF SameBook, OrderIds, Terms
<1> QED
  BY <1>5, <1>19, <1>20, <1>21, <1>22, <1>23 DEF Sound

-----------------------------------------------------------------------------
(* The invariant *)

\* What the rows and locals of the others become is still sound.
LEMMA LocalsPersist ==
  ASSUME NEW r \in Requests, db \in Database, db' \in Database,
         Extends(db', db), LocalsSound(r),
         pc'[r] = pc[r], mine'[r] = mine[r], book'[r] = book[r]
  PROVE  LocalsSound(r)'
<1>1. \A o : Copy(db, o) => Copy(db', o)
  BY CopyExtends
<1> QED
  BY <1>1 DEF LocalsSound

LEMMA ExtendsItself == ASSUME NEW d \in Database PROVE Extends(d, d)
BY DEF Extends, Terms, Database

LEMMA ReturnFact ==
  ASSUME TypeOK, NEW r \in Requests, Return(r)
  PROVE  /\ pc' \in [Requests -> {"idle", "pending", "insert", "match",
                                  "begin", "settle", "cancel"}]
         /\ mine' \in [Requests -> Order \cup {None}]
         /\ have' \in [Requests -> Int]
         /\ book' \in [Requests -> SUBSET Order]
         /\ pc'[r] = "idle"
         /\ \A q \in Requests \ {r} :
              pc'[q] = pc[q] /\ mine'[q] = mine[q] /\ book'[q] = book[q]
BY DEF TypeOK, Return, Goto

THEOREM InitSound == Init => IInv
<1> SUFFICES ASSUME Init PROVE IInv
  OBVIOUS
<1> DEFINE d == [wallet |-> InitialFunds, shares |-> Founding, orders |-> <<>>,
                 trades |-> <<>>, valuation |-> OpeningValue]
<1>1. InitialFunds \in [Users \X Classrooms -> Int]
  BY ExchangeAssumption
<1>2. <<>> \in Seq(Order) /\ <<>> \in Seq(Trade) /\ Len(<<>>) = 0
  OBVIOUS
<1>3. d \in Database
  BY <1>1, <1>2, ExchangeAssumption DEF Database
<1>4. TypeOK
  BY <1>3, ExchangeAssumption
     DEF Init, TypeOK, Placed, Matchmaking
<1>5. Sound(db)
  <2>1. \A w \in Users \X Classrooms : InitialFunds[w] >= 0
    BY ExchangeAssumption
  <2> QED
    BY <2>1 DEF Init, Sound, OrdersSound, WalletsSound, HonoursOrders, OrderIds
<1>6. \A r \in Requests : LocalsSound(r)
  BY DEF Init, LocalsSound, Placed, Matchmaking
<1> QED
  BY <1>4, <1>5, <1>6 DEF IInv, Init

\* A step of r that leaves the rows and the connection alone keeps what does
\* not speak of r's locals.
LEMMA LocalStep ==
  ASSUME IInv, NEW r \in Requests,
         UNCHANGED <<db, tx, conn>>,
         \A q \in Requests \ {r} :
           pc'[q] = pc[q] /\ mine'[q] = mine[q] /\ book'[q] = book[q],
         TypeOK', LocalsSound(r)'
  PROVE  IInv'
<1>1. db \in Database /\ db' \in Database /\ Extends(db', db)
  BY ExtendsItself DEF IInv, TypeOK
<1>2. \A q \in Requests : LocalsSound(q)'
  BY <1>1, LocalsPersist DEF IInv
<1>3. Sound(db)'
  BY DEF IInv
<1>4. (conn # None => Sound(tx) /\ SameBook(tx, db))'
  BY DEF IInv
<1> QED
  BY <1>2, <1>3, <1>4 DEF IInv

LEMMA PlaceOrderStep ==
  ASSUME IInv, NEW r \in Requests, NEW u \in Users, NEW c \in Companies,
         NEW side \in Sides, NEW n \in Quantities, NEW p \in Prices,
         PlaceOrder(r, u, c, side, n, p)
  PROVE  IInv'
<1> DEFINE o == [id |-> 0, user |-> u, company |-> c, side |-> side,
                 shares |-> n, remaining |-> n, price |-> p,
                 status |-> "open"]
           held == IF side = "buy" THEN db.wallet[u, ClassroomOf[c]]
                                   ELSE db.shares[c, u]
<1>1. n \in Nat /\ p \in Nat /\ 0 < n
  <2>1. n \in Int /\ p \in Int
    BY ExchangeAssumption
  <2>2. n > 0 /\ p > 0
    BY DEF PlaceOrder
  <2> QED
    BY <2>1, <2>2
<1>2. o \in Order
  BY <1>1 DEF Order, Status, Live
<1>3. held \in Int
  <2>1. /\ db.wallet \in [Users \X Classrooms -> Int]
        /\ db.shares \in [Companies \X Users -> Nat]
    BY DEF IInv, TypeOK, Database
  <2>2. ClassroomOf[c] \in Classrooms
    BY ExchangeAssumption
  <2>3. db.wallet[u, ClassroomOf[c]] \in Int
    BY <2>1, <2>2
  <2>4. db.shares[c, u] \in Nat
    BY <2>1
  <2>5. \A x \in Nat : x \in Int
    OBVIOUS
  <2> QED
    BY <2>3, <2>4, <2>5
<1>4. /\ pc[r] = "idle" /\ pc' = [pc EXCEPT ![r] = "pending"]
      /\ mine' = [mine EXCEPT ![r] = o]
      /\ have' = [have EXCEPT ![r] = held]
      /\ UNCHANGED <<db, tx, conn, active, book, spent, failed, events>>
  BY DEF PlaceOrder, Statement, Goto
<1>5. o.shares = n /\ o.remaining = n
  OBVIOUS
<1> HIDE DEF o, held
<1>6. TypeOK'
  BY <1>2, <1>3, <1>4 DEF IInv, TypeOK, Placed, Matchmaking
<1>7. LocalsSound(r)'
  BY <1>1, <1>4, <1>5 DEF IInv, TypeOK, LocalsSound, Placed, Matchmaking
<1> QED
  BY <1>4, <1>6, <1>7, LocalStep DEF IInv, TypeOK

LEMMA AcceptOrderStep ==
  ASSUME IInv, NEW r \in Requests, AcceptOrder(r)
  PROVE  IInv'
<1>1. /\ pc[r] = "pending" /\ pc' = [pc EXCEPT ![r] = "insert"]
      /\ have' = [have EXCEPT ![r] = 0]
      /\ UNCHANGED <<db, tx, conn, active, mine, book, spent, failed, events>>
  BY DEF AcceptOrder, Statement, Goto
<1>2. TypeOK'
  BY <1>1 DEF IInv, TypeOK, Placed, Matchmaking
<1>3. LocalsSound(r)'
  BY <1>1 DEF IInv, TypeOK, LocalsSound, Placed, Matchmaking
<1> QED
  BY <1>1, <1>2, <1>3, LocalStep DEF IInv, TypeOK

\* A handler that returns without having written.
LEMMA ReturnStep ==
  ASSUME IInv, NEW r \in Requests, Return(r), pc[r] # "settle",
         UNCHANGED <<db, tx, conn, active, spent, failed, events>>
  PROVE  IInv'
<1>1. TypeOK'
  BY ReturnFact DEF IInv, TypeOK, Placed, Matchmaking
<1>2. LocalsSound(r)'
  BY ReturnFact DEF IInv, LocalsSound, Placed, Matchmaking
<1> QED
  BY <1>1, <1>2, ReturnFact, LocalStep DEF IInv

LEMMA RefuseOrderStep ==
  ASSUME IInv, NEW r \in Requests, RefuseOrder(r)
  PROVE  IInv'
BY ReturnStep DEF RefuseOrder, Statement

LEMMA FindNoMatchStep ==
  ASSUME IInv, NEW r \in Requests, FindNoMatch(r)
  PROVE  IInv'
BY ReturnStep DEF FindNoMatch, Statement

LEMMA FindMatchesStep ==
  ASSUME IInv, NEW r \in Requests, FindMatches(r)
  PROVE  IInv'
<1> DEFINE M == Matching(db, mine[r])
<1>1. /\ pc[r] = "match" /\ pc' = [pc EXCEPT ![r] = "begin"]
      /\ book' = [book EXCEPT ![r] = M]
      /\ UNCHANGED <<db, tx, conn, active, mine, have, spent, failed, events>>
  BY DEF FindMatches, Statement, Goto
<1>2. /\ db \in Database /\ OrdersSound(db)
      /\ Copy(db, mine[r]) /\ mine[r].remaining <= mine[r].shares
  BY <1>1 DEF IInv, TypeOK, Sound, LocalsSound, Placed, Matchmaking
<1>3. \A i \in OrderIds(db) : db.orders[i] \in Order
  BY <1>2 DEF Database, OrderIds
<1>4. ASSUME NEW c \in M
      PROVE  /\ c \in Order /\ Copy(db, c)
             /\ Opposite(mine[r], c) /\ c.remaining <= c.shares
  <2>1. PICK i \in OrderIds(db) :
          /\ c = db.orders[i]
          /\ c.company = mine[r].company /\ c.side # mine[r].side
          /\ c.status \in Live
          /\ c.user # mine[r].user
          /\ Crosses(mine[r], c)
    BY DEF Matching
  <2>2. c.id = i /\ c.remaining <= c.shares /\ 0 < c.remaining
    BY <1>2, <2>1 DEF OrdersSound
  <2> QED
    BY <1>3, <2>1, <2>2 DEF Copy, Terms, Opposite
<1> HIDE DEF M
<1>5. M \subseteq Order
  BY <1>4
<1>6. TypeOK'
  BY <1>1, <1>5 DEF IInv, TypeOK, Placed, Matchmaking
<1>7. LocalsSound(r)'
  BY <1>1, <1>2, <1>4 DEF IInv, TypeOK, LocalsSound, Placed, Matchmaking
<1> QED
  BY <1>1, <1>6, <1>7, LocalStep DEF IInv, TypeOK

LEMMA ReadCancelledStep ==
  ASSUME IInv, NEW r \in Requests, NEW u \in Users, NEW i \in OrderIds(db),
         ReadCancelled(r, u, i)
  PROVE  IInv'
<1>1. /\ pc[r] = "idle" /\ pc' = [pc EXCEPT ![r] = "cancel"]
      /\ mine' = [mine EXCEPT ![r] = db.orders[i]]
      /\ UNCHANGED <<db, tx, conn, active, have, book, spent, failed, events>>
  BY DEF ReadCancelled, Statement, Goto
<1>2. db.orders[i] \in Order
  BY DEF IInv, TypeOK, Database, OrderIds
<1>3. Copy(db, db.orders[i]) /\ db.orders[i].remaining <= db.orders[i].shares
  BY DEF IInv, Sound, OrdersSound, Copy, Terms
<1>4. TypeOK'
  BY <1>1, <1>2, <1>3 DEF IInv, TypeOK, Placed, Matchmaking, Copy
<1>5. LocalsSound(r)'
  BY <1>1, <1>3 DEF IInv, TypeOK, LocalsSound, Placed, Matchmaking
<1> QED
  BY <1>1, <1>4, <1>5, LocalStep DEF IInv, TypeOK

\* The new row extends the table; its owner holds a copy of it.
LEMMA CreateOrderStep ==
  ASSUME IInv, NEW r \in Requests, CreateOrder(r)
  PROVE  IInv'
<1> DEFINE o == [mine[r] EXCEPT !.id = Len(db.orders) + 1]
<1>1. /\ conn = None /\ pc[r] = "insert"
      /\ db' = [db EXCEPT !.orders = Append(db.orders, o)]
      /\ mine' = [mine EXCEPT ![r] = o]
      /\ pc' = [pc EXCEPT ![r] = "match"]
      /\ UNCHANGED <<tx, conn, active, have, book, spent, failed, events>>
  BY DEF CreateOrder, Statement, Goto
<1>2. /\ mine[r] \in Order
      /\ 0 < mine[r].shares /\ mine[r].remaining = mine[r].shares
  BY <1>1 DEF IInv, TypeOK, LocalsSound
<1>3. db \in Database /\ db.orders \in Seq(Order)
  BY DEF IInv, TypeOK, Database
<1>4. Len(db.orders) \in Nat
  BY <1>3
<1>5. /\ o \in Order /\ o.id = Len(db.orders) + 1
      /\ 0 < o.shares /\ o.remaining = o.shares
  BY <1>2, <1>4 DEF Order
<1> HIDE DEF o
<1>6. Append(db.orders, o) \in Seq(Order)
  BY <1>3, <1>5
<1>7. /\ db' \in Database /\ db'.orders = Append(db.orders, o)
      /\ db'.wallet = db.wallet /\ db'.trades = db.trades
  BY <1>1, <1>3, <1>6 DEF Database
<1>8. /\ Len(db'.orders) = Len(db.orders) + 1
      /\ db'.orders[Len(db.orders) + 1] = o
      /\ \A i \in OrderIds(db) : db'.orders[i] = db.orders[i]
  BY <1>3, <1>5, <1>7 DEF OrderIds
<1>9. /\ Extends(db', db)
      /\ OrderIds(db') = OrderIds(db) \cup {o.id}
  BY <1>4, <1>5, <1>8 DEF Extends, Terms, OrderIds
<1>10. Copy(db', o)
  BY <1>5, <1>8, <1>9 DEF Copy, Terms
<1>11. Sound(db')
  <2>1. OrdersSound(db')
    BY <1>5, <1>8, <1>9, SMTT(30) DEF IInv, Sound, OrdersSound, Order
  <2>2. WalletsSound(db')
    BY <1>7 DEF IInv, Sound, WalletsSound
  <2>3. HonoursOrders(db')
    BY <1>3, <1>7, <1>9, HonoursExtends DEF IInv, Sound
  <2> QED
    BY <2>1, <2>2, <2>3 DEF Sound
<1>12. TypeOK'
  BY <1>1, <1>5, <1>7, <1>9 DEF IInv, TypeOK, Placed, Matchmaking
<1>13. LocalsSound(r)'
  BY <1>1, <1>5, <1>10 DEF IInv, TypeOK, LocalsSound, Placed, Matchmaking, Order
<1>14. ASSUME NEW q \in Requests, q # r
       PROVE  LocalsSound(q)'
  BY <1>1, <1>3, <1>7, <1>9, <1>14, LocalsPersist DEF IInv, TypeOK
<1> QED
  BY <1>1, <1>11, <1>12, <1>13, <1>14 DEF IInv

LEMMA BeginSettlementStep ==
  ASSUME IInv, NEW r \in Requests, BeginSettlement(r)
  PROVE  IInv'
<1>1. /\ conn = None /\ pc[r] = "begin"
      /\ conn' = r /\ tx' = db /\ pc' = [pc EXCEPT ![r] = "settle"]
      /\ UNCHANGED <<db, active, mine, have, book, spent, failed, events>>
  BY DEF BeginSettlement, Statement, Goto
<1>2. db \in Database /\ Sound(db) /\ SameBook(db, db)
  BY DEF IInv, TypeOK, SameBook, Terms
<1>3. TypeOK'
  BY <1>1, <1>2, ExchangeAssumption DEF IInv, TypeOK, Placed, Matchmaking
<1>4. \A q \in Requests : LocalsSound(q)'
  BY <1>1 DEF IInv, TypeOK, LocalsSound, Placed, Matchmaking
<1> QED
  BY <1>1, <1>2, <1>3, <1>4 DEF IInv

LEMMA SettleMatchStep ==
  ASSUME IInv, NEW r \in Requests, SettleMatch(r)
  PROVE  IInv'
<1>1. PICK c \in Heads(mine[r], book[r]) :
        /\ CanDebit(tx, BuyerWallet(Fill(mine[r], c)), Amount(Fill(mine[r], c)))
        /\ tx' = Settle(tx, mine[r], c)
        /\ mine' = [mine EXCEPT ![r] = Reduced(mine[r], Fill(mine[r], c).shares)]
        /\ book' = [book EXCEPT ![r] = book[r] \ {c}]
  BY DEF SettleMatch, IInv, TypeOK
<1> DEFINE o == mine[r]
           t == Fill(o, c)
           p == Reduced(o, t.shares)
<1>2. /\ conn = r /\ pc[r] = "settle" /\ 0 < o.remaining
      /\ UNCHANGED <<db, conn, active, pc, have, spent, failed, events>>
  BY DEF SettleMatch, IInv, TypeOK, Order
<1>3. c \in book[r]
  BY DEF Heads
<1>4. conn # None /\ db \in Database /\ tx \in Database
  BY <1>2, ExchangeAssumption DEF IInv, TypeOK
<1>5. /\ o \in Order /\ c \in Order
      /\ Copy(db, o) /\ o.remaining <= o.shares
      /\ Copy(db, c) /\ c.remaining <= c.shares /\ Opposite(o, c)
  BY <1>2, <1>3 DEF IInv, TypeOK, LocalsSound, Placed, Matchmaking
<1>6. Sound(tx) /\ SameBook(tx, db)
  BY <1>4 DEF IInv
<1>7. Copy(tx, o) /\ Copy(tx, c)
  BY <1>4, <1>5, <1>6, SameBookExtends, CopyExtends
<1>8. tx' \in Database /\ Sound(tx') /\ SameBook(tx', tx)
  BY <1>1, <1>2, <1>4, <1>5, <1>6, <1>7, SettleFact
<1>9. SameBook(tx', db)
  BY <1>6, <1>8 DEF SameBook, OrderIds, Terms
<1>10. /\ t.shares \in Nat /\ 0 < t.shares /\ t.shares <= o.remaining
  BY <1>2, <1>5, FillFact DEF Trade
<1>11. p \in Order /\ Terms(p, o) /\ p.id = o.id /\ p.remaining <= p.shares
  BY <1>5, <1>10, ReducedFact
<1>12. mine' = [mine EXCEPT ![r] = p]
  BY <1>1
<1> HIDE DEF t, p
<1>13. TypeOK'
  BY <1>1, <1>2, <1>4, <1>5, <1>8, <1>11, <1>12
     DEF IInv, TypeOK, Placed, Matchmaking
<1>14. LocalsSound(r)'
  <2>1. Copy(db, p)
    BY <1>5, <1>11 DEF Copy, Terms
  <2>2. mine'[r] = p /\ book'[r] \subseteq book[r] /\ pc'[r] = "settle"
    BY <1>1, <1>2, <1>12 DEF IInv, TypeOK
  <2>3. ASSUME NEW x \in book[r]
        PROVE  Copy(db, x) /\ Opposite(p, x) /\ x.remaining <= x.shares
    BY <1>2, <1>11 DEF IInv, LocalsSound, Opposite, Crosses, Terms
  <2> QED
    BY <1>2, <1>11, <2>1, <2>2, <2>3 DEF LocalsSound
<1>15. ASSUME NEW q \in Requests, q # r
       PROVE  LocalsSound(q)'
  BY <1>1, <1>2, <1>4, <1>15, ExtendsItself, LocalsPersist DEF IInv, TypeOK
<1> QED
  BY <1>2, <1>8, <1>9, <1>13, <1>14, <1>15 DEF IInv

LEMMA RollbackSettlementStep ==
  ASSUME IInv, NEW r \in Requests, RollbackSettlement(r)
  PROVE  IInv'
<1>1. /\ conn = r /\ pc[r] = "settle" /\ Return(r)
      /\ tx' = None /\ conn' = None /\ failed' = failed \cup {mine[r].id}
      /\ UNCHANGED <<db, active, spent, events>>
  BY DEF RollbackSettlement
<1>2. mine[r].id \in OrderIds(db) /\ db \in Database
  BY <1>1 DEF IInv, TypeOK, Placed, Matchmaking
<1>3. \A q \in Requests \ {r} : pc[q] # "settle"
  BY <1>1 DEF IInv, TypeOK
<1>4. TypeOK'
  BY <1>1, <1>2, <1>3, ReturnFact, ExchangeAssumption
     DEF IInv, TypeOK, Placed, Matchmaking
<1>5. LocalsSound(r)'
  BY <1>1, ReturnFact DEF IInv, LocalsSound, Placed, Matchmaking
<1>6. ASSUME NEW q \in Requests, q # r
      PROVE  LocalsSound(q)'
  BY <1>1, <1>2, <1>6, ReturnFact, ExtendsItself, LocalsPersist DEF IInv
<1> QED
  BY <1>1, <1>4, <1>5, <1>6 DEF IInv

LEMMA CommitSettlementStep ==
  ASSUME IInv, NEW r \in Requests, CommitSettlement(r)
  PROVE  IInv'
<1>1. /\ conn = r /\ pc[r] = "settle" /\ Return(r)
      /\ db' = tx /\ tx' = None /\ conn' = None
      /\ UNCHANGED <<active, spent, failed, events>>
  BY DEF CommitSettlement
<1>2. /\ db \in Database /\ tx \in Database /\ Sound(tx) /\ SameBook(tx, db)
  BY <1>1, ExchangeAssumption DEF IInv, TypeOK
<1>3. Extends(db', db) /\ OrderIds(db') = OrderIds(db)
  BY <1>1, <1>2, SameBookExtends DEF SameBook, OrderIds
<1>4. \A q \in Requests \ {r} : pc[q] # "settle"
  BY <1>1 DEF IInv, TypeOK
<1>5. TypeOK'
  BY <1>1, <1>2, <1>3, <1>4, ReturnFact, ExchangeAssumption
     DEF IInv, TypeOK, Placed, Matchmaking
<1>6. LocalsSound(r)'
  BY <1>1, ReturnFact DEF IInv, LocalsSound, Placed, Matchmaking
<1>7. ASSUME NEW q \in Requests, q # r
      PROVE  LocalsSound(q)'
  BY <1>1, <1>2, <1>3, <1>7, ReturnFact, LocalsPersist DEF IInv
<1> QED
  BY <1>1, <1>2, <1>5, <1>6, <1>7 DEF IInv

LEMMA CancelOrderStep ==
  ASSUME IInv, NEW r \in Requests, CancelOrder(r)
  PROVE  IInv'
<1> DEFINE i == mine[r].id
           row == [db.orders[i] EXCEPT !.status = "cancelled"]
           os == [db.orders EXCEPT ![i] = row]
<1>1. /\ conn = None /\ pc[r] = "cancel" /\ Return(r)
      /\ db' = [db EXCEPT !.orders = os]
      /\ UNCHANGED <<tx, conn, active, spent, failed, events>>
  BY DEF CancelOrder, Statement
<1>2. /\ db \in Database /\ db.orders \in Seq(Order) /\ i \in OrderIds(db)
  BY <1>1 DEF IInv, TypeOK, Database, Placed, Matchmaking
<1>3. db.orders[i] \in Order
  BY <1>2 DEF OrderIds
<1>4. /\ row \in Order /\ Terms(row, db.orders[i])
      /\ row.id = db.orders[i].id /\ row.remaining = db.orders[i].remaining
      /\ row.status \notin Live
  BY <1>3 DEF Order, Terms, Status, Live
<1> HIDE DEF row
<1>5. /\ os \in Seq(Order) /\ Len(os) = Len(db.orders)
      /\ \A j \in OrderIds(db) : os[j] = IF j = i THEN row ELSE db.orders[j]
  BY <1>2, <1>4 DEF OrderIds
<1> HIDE DEF os, i
<1>6. /\ db' \in Database /\ db'.orders = os
      /\ db'.wallet = db.wallet /\ db'.trades = db.trades
  BY <1>1, <1>2, <1>5 DEF Database
<1>7. OrderIds(db') = OrderIds(db)
  BY <1>5, <1>6 DEF OrderIds
<1>8. Extends(db', db)
  BY <1>4, <1>5, <1>6, <1>2 DEF Extends, Terms, Database
<1>9. Sound(db')
  <2>1. OrdersSound(db')
    BY <1>4, <1>5, <1>6, <1>7 DEF IInv, Sound, OrdersSound, Terms
  <2>2. WalletsSound(db')
    BY <1>6 DEF IInv, Sound, WalletsSound
  <2>3. HonoursOrders(db')
    BY <1>2, <1>6, <1>8, HonoursExtends DEF IInv, Sound
  <2> QED
    BY <2>1, <2>2, <2>3 DEF Sound
<1>10. TypeOK'
  BY <1>1, <1>6, <1>7, ReturnFact, ZenonT(30) DEF IInv, TypeOK, Placed, Matchmaking
<1>11. LocalsSound(r)'
  BY <1>1, ReturnFact DEF IInv, LocalsSound, Placed, Matchmaking
<1>12. ASSUME NEW q \in Requests, q # r
       PROVE  LocalsSound(q)'
  BY <1>1, <1>2, <1>6, <1>8, <1>12, ReturnFact, LocalsPersist DEF IInv
<1> QED
  BY <1>1, <1>9, <1>10, <1>11, <1>12 DEF IInv

LEMMA OtherDebitStep ==
  ASSUME IInv, NEW w \in Users \X Classrooms, NEW amount \in Spendings,
         OtherDebit(w, amount)
  PROVE  IInv'
<1>1. /\ conn = None
      /\ events < MaxEvents /\ events' = events + 1
      /\ amount > 0 /\ db.wallet[w] >= amount
      /\ db' = [db EXCEPT !.wallet[w] = db.wallet[w] - amount]
      /\ spent' = [spent EXCEPT ![w] = spent[w] + amount]
      /\ UNCHANGED <<tx, conn, active, pc, mine, have, book, failed>>
  BY DEF OtherDebit, Happens, CanDebit, Debit
<1>2. db \in Database /\ db.wallet \in [Users \X Classrooms -> Int]
  BY DEF IInv, TypeOK, Database
<1>3. amount \in Nat /\ db.wallet[w] \in Int
  BY <1>2, ExchangeAssumption
<1>4. db.wallet[w] - amount \in Int /\ db.wallet[w] - amount >= 0
  BY <1>1, <1>3
<1>5. /\ db' \in Database
      /\ db'.orders = db.orders /\ db'.trades = db.trades
      /\ \A v \in Users \X Classrooms :
           db'.wallet[v] = IF v = w THEN db.wallet[w] - amount ELSE db.wallet[v]
  BY <1>1, <1>2, <1>4, WriteWallet
<1>6. OrderIds(db') = OrderIds(db) /\ Extends(db', db)
  BY <1>2, <1>5 DEF OrderIds, Extends, Terms, Database
<1>7. Sound(db')
  <2>1. OrdersSound(db')
    BY <1>5, <1>6 DEF IInv, Sound, OrdersSound
  <2>2. WalletsSound(db')
    BY <1>4, <1>5 DEF IInv, Sound, WalletsSound
  <2>3. HonoursOrders(db')
    BY <1>2, <1>5, <1>6, HonoursExtends DEF IInv, Sound
  <2> QED
    BY <2>1, <2>2, <2>3 DEF Sound
<1>8. spent' \in [Users \X Classrooms -> Nat]
  <2> DEFINE W == Users \X Classrooms
  <2>1. spent \in [W -> Nat] /\ w \in W
    BY DEF IInv, TypeOK
  <2> HIDE DEF W
  <2>2. spent' \in [W -> Nat]
    BY <1>1, <1>3, <2>1
  <2> QED
    BY <2>2 DEF W
<1>9. events' \in 0 .. MaxEvents
  BY <1>1, ExchangeAssumption DEF IInv, TypeOK
<1>10. TypeOK'
  BY <1>1, <1>5, <1>6, <1>8, <1>9 DEF IInv, TypeOK, Placed, Matchmaking
<1>11. ASSUME NEW q \in Requests
       PROVE  LocalsSound(q)'
  BY <1>1, <1>2, <1>5, <1>6, LocalsPersist DEF IInv
<1> QED
  BY <1>1, <1>7, <1>10, <1>11 DEF IInv

LEMMA ActivateClassroomStep ==
  ASSUME IInv, NEW u \in Users, NEW k \in Classrooms, ActivateClassroom(u, k)
  PROVE  IInv'
<1>1. /\ active' = [active EXCEPT ![u] = k]
      /\ events < MaxEvents /\ events' = events + 1
      /\ UNCHANGED <<db, tx, conn, pc, mine, have, book, spent, failed>>
  BY DEF ActivateClassroom, Happens
<1>2. events' \in 0 .. MaxEvents
  BY <1>1, ExchangeAssumption DEF IInv, TypeOK
<1>3. TypeOK'
  BY <1>1, <1>2 DEF IInv, TypeOK, Placed, Matchmaking
<1>4. \A q \in Requests : LocalsSound(q)'
  BY <1>1 DEF IInv, LocalsSound
<1> QED
  BY <1>1, <1>3, <1>4 DEF IInv

\* Whatever is in flight is lost; the committed rows were sound by themselves.
LEMMA RestartStep ==
  ASSUME IInv, Restart
  PROVE  IInv'
<1>1. /\ events < MaxEvents /\ events' = events + 1
      /\ tx' = None /\ conn' = None
      /\ pc' = [r \in Requests |-> "idle"]
      /\ mine' = [r \in Requests |-> None]
      /\ have' = [r \in Requests |-> 0]
      /\ book' = [r \in Requests |-> {}]
      /\ failed' = failed \cup
           {mine[r].id : r \in {q \in Requests : pc[q] \in Matchmaking}}
      /\ UNCHANGED <<db, active, spent>>
  BY DEF Restart, Happens
<1>2. events' \in 0 .. MaxEvents
  BY <1>1, ExchangeAssumption DEF IInv, TypeOK
<1>3. failed' \subseteq OrderIds(db)
  BY <1>1 DEF IInv, TypeOK, Placed
<1>4. TypeOK'
  BY <1>1, <1>2, <1>3, ExchangeAssumption DEF IInv, TypeOK, Placed, Matchmaking
<1>5. \A q \in Requests : LocalsSound(q)'
  BY <1>1 DEF LocalsSound, Placed, Matchmaking
<1> QED
  BY <1>1, <1>4, <1>5 DEF IInv

THEOREM StepSound == IInv /\ [Next]_vars => IInv'
<1> SUFFICES ASSUME IInv, [Next]_vars PROVE IInv'
  OBVIOUS
<1>1. CASE UNCHANGED vars
  BY <1>1 DEF vars, IInv, TypeOK, LocalsSound
<1>2. ASSUME NEW r \in Requests, Client(r)
      PROVE  IInv'
  BY <1>2, PlaceOrderStep, ReadCancelledStep DEF Client
<1>3. ASSUME NEW r \in Requests, Handler(r)
      PROVE  IInv'
  BY <1>3, AcceptOrderStep, RefuseOrderStep, CreateOrderStep, FindMatchesStep,
     FindNoMatchStep, BeginSettlementStep, SettleMatchStep,
     RollbackSettlementStep, CommitSettlementStep, CancelOrderStep DEF Handler
<1>4. ASSUME Environment
      PROVE  IInv'
  <2>1. \A u \in Users, c \in Companies :
          <<u, ClassroomOf[c]>> \in Users \X Classrooms
    BY ExchangeAssumption
  <2> QED
    BY <1>4, <2>1, OtherDebitStep, ActivateClassroomStep, RestartStep
       DEF Environment
<1> QED
  BY <1>1, <1>2, <1>3, <1>4 DEF Next, Quiet

THEOREM Invariance == Spec => []IInv
BY InitSound, StepSound, PTL DEF Spec

-----------------------------------------------------------------------------
(* The theorems *)

\* Types, and what each program counter says about its handler's locals, the
\* owner of the connection and the open transaction.
THEOREM TypeCorrectness == Spec => []TypeOK
<1>1. IInv => TypeOK
  BY DEF IInv
<1> QED
  BY <1>1, Invariance, PTL

\* No wallet is ever overdrawn: every Debit re-checks the balance on the rows
\* it writes, so the stale balance of the validation does no harm.
THEOREM WalletsNeverOverdrawn == Spec => []NoOverdraft
<1>1. IInv => NoOverdraft
  BY DEF IInv, Sound, WalletsSound, NoOverdraft
<1> QED
  BY <1>1, Invariance, PTL

\* Every committed trade is allowed by the terms of both its orders, however
\* stale the copies were from which a settlement computed it.
THEOREM TradesAreAllowed == Spec => []TradesHonourOrders
<1>1. IInv => TradesHonourOrders
  BY DEF IInv, Sound, TradesHonourOrders
<1> QED
  BY <1>1, Invariance, PTL

-----------------------------------------------------------------------------
(* The books: the money in the wallets is what the committed trades moved, and  *)
(* no share is lost.  Both are sums over rows that a settlement writes in       *)
(* several statements, inside its transaction, so the invariant claims them of  *)
(* the committed rows and of the rows as the open transaction sees them.        *)


Balanced(d, s) ==
  \A u \in Users, k \in Classrooms :
    d.wallet[<<u, k>>] =
      InitialFunds[<<u, k>>] - s[<<u, k>>]
      + Moved(d, Sales(d, u, k)) - Moved(d, Purchases(d, u, k))

Kept(d) == \A c \in Companies : Held(d, c) >= TotalShares(c)

BooksInv ==
  /\ Balanced(db, spent) /\ Kept(db)
  /\ conn # None => Balanced(tx, spent) /\ Kept(tx)

-----------------------------------------------------------------------------
(* Sums over the trades *)

LEMMA TradesTyped ==
  ASSUME NEW d \in Database
  PROVE  /\ IsFiniteSet(TradeIds(d))
         /\ \A i \in TradeIds(d) : d.trades[i] \in Trade
<1>1. d.trades \in Seq(Trade) /\ Len(d.trades) \in Nat
  BY DEF Database
<1>2. IsFiniteSet(TradeIds(d))
  BY <1>1, FS_Interval DEF TradeIds
<1>. QED BY <1>1, <1>2 DEF TradeIds

LEMMA AmountIsInt ==
  ASSUME NEW t \in Trade
  PROVE  t.shares * t.price \in Int
BY DEF Trade

LEMMA MovedIsInt ==
  ASSUME NEW d \in Database, NEW I \in SUBSET TradeIds(d)
  PROVE  Moved(d, I) \in Int
<1> DEFINE f == [i \in TradeIds(d) |-> d.trades[i].shares * d.trades[i].price]
<1>1. IsFiniteSet(I)
  BY TradesTyped, FS_Subset
<1>2. \A i \in I : f[i] \in Int
  BY TradesTyped, AmountIsInt
<1>3. SumOf(f, I) \in Int
  <2> HIDE DEF f
  <2>. QED BY <1>1, <1>2, SumIsInt
<1>. QED BY <1>3 DEF Moved

\* One more trade: it counts where it belongs, and nothing else changes.
LEMMA MovedAppend ==
  ASSUME NEW d \in Database, NEW e \in Database, NEW t \in Trade,
         e.trades = Append(d.trades, t), NEW I \in SUBSET TradeIds(d)
  PROVE  /\ Moved(e, I) = Moved(d, I)
         /\ Moved(e, I \cup {Len(d.trades) + 1}) = Moved(d, I) + Amount(t)
<1> DEFINE n == Len(d.trades) + 1
           f == [i \in TradeIds(d) |-> d.trades[i].shares * d.trades[i].price]
           g == [i \in TradeIds(e) |-> e.trades[i].shares * e.trades[i].price]
<1>1. /\ d.trades \in Seq(Trade) /\ Len(d.trades) \in Nat
      /\ Len(e.trades) = n /\ e.trades[n] = t
      /\ \A i \in TradeIds(d) : e.trades[i] = d.trades[i]
  BY DEF Database, TradeIds
<1>2. /\ \A i \in TradeIds(d) : i \in TradeIds(e) /\ g[i] = f[i] /\ f[i] \in Int
      /\ n \in TradeIds(e) /\ g[n] = t.shares * t.price /\ g[n] \in Int
      /\ n \notin TradeIds(d)
  BY <1>1, AmountIsInt, TradesTyped DEF TradeIds
<1>3. IsFiniteSet(I)
  BY TradesTyped, FS_Subset
<1> HIDE DEF f, g, n
<1>4. SumOf(g, I) = SumOf(f, I)
  BY <1>2, <1>3, SumsAgree
<1>5. SumOf(g, I \cup {n}) = SumOf(g, I) + g[n]
  BY <1>2, <1>3, SumAdd
<1>. QED BY <1>2, <1>4, <1>5 DEF Moved, Amount, f, g, n

-----------------------------------------------------------------------------
(* One turn of the settlement *)

\* In every wallet and every holding.  (Buyer and seller differ: the code only
\* matches orders of different users.)
LEMMA SettleMoves ==
  ASSUME NEW d \in Database, NEW o \in Order, NEW c \in Order,
         NEW t \in Trade, t = Fill(o, c), NEW e \in Database, e = Settle(d, o, c)
  PROVE  /\ e.trades = Append(d.trades, t)
         /\ \A w \in Users \X Classrooms :
              e.wallet[w] = d.wallet[w] - (IF BuyerWallet(t) = w THEN Amount(t) ELSE 0)
                                        + (IF SellerWallet(t) = w THEN Amount(t) ELSE 0)
         /\ t.buyer # t.seller =>
              \A q \in Companies \X Users :
                /\ q = <<t.company, t.buyer>> => e.shares[q] = d.shares[q] + t.shares
                /\ q = <<t.company, t.seller>> =>
                     /\ e.shares[q] >= d.shares[q] - t.shares
                     /\ d.shares[q] >= t.shares => e.shares[q] = d.shares[q] - t.shares
                /\ q \notin {<<t.company, t.buyer>>, <<t.company, t.seller>>}
                     => e.shares[q] = d.shares[q]
<1> DEFINE W == Users \X Classrooms
           Q == Companies \X Users
           a == Amount(t)
           bw == BuyerWallet(t)
           sw == SellerWallet(t)
           bq == <<t.company, t.buyer>>
           sq == <<t.company, t.seller>>
           n == t.shares
           x == [d.wallet EXCEPT ![bw] = @ - a]
           y == [d.shares EXCEPT ![bq] = @ + n]
<1>1. /\ e.trades = Append(d.trades, t)
      /\ e.wallet = [x EXCEPT ![sw] = @ + a]
      /\ e.shares = [y EXCEPT ![sq] = IF @ > n THEN @ - n ELSE 0]
  <2> DEFINE d1 == CreateTrade(d, t)
             d2 == UpdateOrder(d1, Reduced(o, t.shares))
             d3 == UpdateOrder(d2, Reduced(c, t.shares))
  <2>1. e = MoveShares(MoveMoney(d3, t), t)
    BY DEF Settle, UpdateCompany
  <2>2. /\ DOMAIN d1 = DOMAIN d /\ d1.trades = Append(d.trades, t)
        /\ d1.wallet = d.wallet /\ d1.shares = d.shares
    BY DEF CreateTrade, Database
  <2>20. DOMAIN d = {"wallet", "shares", "orders", "trades", "valuation"}
    BY DEF Database
  <2> HIDE DEF d1
  <2>3. /\ DOMAIN d2 = DOMAIN d /\ d2.trades = d1.trades
        /\ d2.wallet = d1.wallet /\ d2.shares = d1.shares
    BY <2>2, <2>20 DEF UpdateOrder
  <2> HIDE DEF d2
  <2>4. /\ DOMAIN d3 = DOMAIN d /\ d3.trades = d2.trades
        /\ d3.wallet = d2.wallet /\ d3.shares = d2.shares
    BY <2>2, <2>3, <2>20 DEF UpdateOrder
  <2> HIDE DEF d3
  <2> DEFINE m == MoveMoney(d3, t)
  <2>5. /\ DOMAIN m = DOMAIN d /\ m.trades = d3.trades /\ m.shares = d3.shares
        /\ m.wallet = [[d3.wallet EXCEPT ![BuyerWallet(t)] = @ - Amount(t)]
                         EXCEPT ![SellerWallet(t)] = @ + Amount(t)]
    BY <2>4, <2>20 DEF MoveMoney, Credit, Debit
  <2> HIDE DEF m
  <2>6. LET f == MoveShares(m, t) IN
        /\ f.trades = m.trades /\ f.wallet = m.wallet
        /\ f.shares = [[m.shares EXCEPT ![<<t.company, t.buyer>>] = @ + t.shares]
                         EXCEPT ![<<t.company, t.seller>>] =
                           IF @ > t.shares THEN @ - t.shares ELSE 0]
    BY <2>5, <2>20 DEF MoveShares, SubtractShareholderShares, UpsertShareholder
  <2>7. e = MoveShares(m, t)
    BY <2>1 DEF m
  <2>. QED BY <2>2, <2>3, <2>4, <2>5, <2>6, <2>7
<1>2. /\ a \in Int /\ d.wallet \in [W -> Int] /\ bw \in W /\ sw \in W
      /\ n \in Nat /\ d.shares \in [Q -> Nat] /\ bq \in Q /\ sq \in Q
      /\ t.buyer # t.seller => bq # sq
  BY AmountIsInt, ExchangeAssumption DEF Amount, Database, Trade, BuyerWallet, SellerWallet
<1> HIDE DEF W, Q, a, bw, sw, bq, sq, n
<1>3. x \in [W -> Int] /\ \A w \in W : x[w] = d.wallet[w] - IF bw = w THEN a ELSE 0
  BY <1>2
<1>4. y \in [Q -> Nat] /\ \A q \in Q : y[q] = d.shares[q] + IF bq = q THEN n ELSE 0
  BY <1>2
<1> HIDE DEF x, y
<1>5. \A w \in W : e.wallet[w] = x[w] + IF sw = w THEN a ELSE 0
  BY <1>1, <1>2, <1>3
<1>6. \A q \in Q : e.shares[q] = IF sq = q THEN (IF y[q] > n THEN y[q] - n ELSE 0) ELSE y[q]
  BY <1>1, <1>2, <1>4
<1>7. \A w \in W : e.wallet[w] = d.wallet[w] - (IF bw = w THEN a ELSE 0)
                                              + (IF sw = w THEN a ELSE 0)
  BY <1>2, <1>3, <1>5
<1>8. bq # sq => \A q \in Q :
        /\ q = bq => e.shares[q] = d.shares[q] + n
        /\ q = sq => /\ e.shares[q] >= d.shares[q] - n
                     /\ d.shares[q] >= n => e.shares[q] = d.shares[q] - n
        /\ q \notin {bq, sq} => e.shares[q] = d.shares[q]
  BY <1>2, <1>4, <1>6
<1>. QED BY <1>1, <1>2, <1>7, <1>8 DEF W, Q, a, bw, sw, bq, sq, n

\* Trade t and nothing else is added to the sales of its seller, in its room.
LEMMA OneMoreTrade ==
  ASSUME NEW d \in Database, NEW e \in Database, NEW t \in Trade,
         e.trades = Append(d.trades, t), NEW n, n = Len(d.trades) + 1, NEW u, NEW k
  PROVE  /\ Sales(e, u, k) =
              IF SellerWallet(t) = <<u, k>> THEN Sales(d, u, k) \cup {n}
                                            ELSE Sales(d, u, k)
         /\ Purchases(e, u, k) =
              IF BuyerWallet(t) = <<u, k>> THEN Purchases(d, u, k) \cup {n}
                                           ELSE Purchases(d, u, k)
<1> DEFINE Se == Sales(e, u, k)
           Sd == Sales(d, u, k)
           Pe == Purchases(e, u, k)
           Pd == Purchases(d, u, k)
           I  == TradeIds(d)
           sold == SellerWallet(t) = <<u, k>>
           bought == BuyerWallet(t) = <<u, k>>
<1>1. /\ TradeIds(e) = I \cup {n} /\ n \notin I
      /\ e.trades[n] = t
      /\ \A i \in I : e.trades[i] = d.trades[i]
  BY DEF Database, TradeIds
<1>2. /\ sold <=> t.seller = u /\ ClassroomOf[t.company] = k
      /\ bought <=> t.buyer = u /\ ClassroomOf[t.company] = k
  BY DEF SellerWallet, BuyerWallet
<1>3. /\ \A i \in I : (i \in Se <=> i \in Sd) /\ (i \in Pe <=> i \in Pd)
      /\ (sold => n \in Se) /\ (~sold => n \notin Se)
      /\ (bought => n \in Pe) /\ (~bought => n \notin Pe)
  BY <1>1, <1>2 DEF Sales, Purchases
<1>4. Se \subseteq I \cup {n} /\ Pe \subseteq I \cup {n} /\ Sd \subseteq I /\ Pd \subseteq I
  BY <1>1 DEF Sales, Purchases
<1> HIDE DEF Se, Sd, Pe, Pd, I
<1>5. Se = IF sold THEN Sd \cup {n} ELSE Sd
  <2>1. CASE sold
    BY <1>1, <1>3, <1>4, <2>1
  <2>2. CASE ~sold
    <3>1. Se \subseteq Sd /\ Sd \subseteq Se
      BY <1>1, <1>3, <1>4, <2>2
    <3>. QED BY <2>2, <3>1, Zenon
  <2>. QED BY <2>1, <2>2
<1>6. Pe = IF bought THEN Pd \cup {n} ELSE Pd
  <2>1. CASE bought
    BY <1>1, <1>3, <1>4, <2>1
  <2>2. CASE ~bought
    <3>1. Pe \subseteq Pd /\ Pd \subseteq Pe
      BY <1>1, <1>3, <1>4, <2>2
    <3>. QED BY <2>2, <3>1, Zenon
  <2>. QED BY <2>1, <2>2
<1>. QED BY <1>5, <1>6 DEF Se, Sd, Pe, Pd

\* A wallet gains what its owner sells and loses what he buys.
LEMMA SettleBalanced ==
  ASSUME NEW d \in Database, NEW o \in Order, NEW c \in Order,
         NEW t \in Trade, t = Fill(o, c), NEW e \in Database, e = Settle(d, o, c),
         NEW out \in [Users \X Classrooms -> Nat], Balanced(d, out)
  PROVE  Balanced(e, out)
<1>. SUFFICES ASSUME NEW u \in Users, NEW k \in Classrooms
              PROVE  e.wallet[<<u, k>>] =
                       InitialFunds[<<u, k>>] - out[<<u, k>>]
                       + Moved(e, Sales(e, u, k)) - Moved(e, Purchases(e, u, k))
  BY DEF Balanced
<1> DEFINE a == Amount(t)
           n == Len(d.trades) + 1
           w == <<u, k>>
           gain == IF SellerWallet(t) = w THEN a ELSE 0
           loss == IF BuyerWallet(t) = w THEN a ELSE 0
           Sd == Sales(d, u, k)
           Pd == Purchases(d, u, k)
           s == Moved(d, Sd)
           p == Moved(d, Pd)
           base == InitialFunds[w] - out[w]
<1>1. /\ e.trades = Append(d.trades, t)
      /\ \A v \in Users \X Classrooms :
           e.wallet[v] = d.wallet[v] - (IF BuyerWallet(t) = v THEN a ELSE 0)
                                     + (IF SellerWallet(t) = v THEN a ELSE 0)
  BY SettleMoves
<1>10. e.wallet[w] = d.wallet[w] - loss + gain
  <2>1. w \in Users \X Classrooms
    OBVIOUS
  <2> HIDE DEF w, a
  <2>. QED BY <1>1, <2>1
<1>2. a \in Int /\ base \in Int /\ d.wallet[w] \in Int
  BY AmountIsInt, ExchangeAssumption DEF Amount, Database
<1>3. d.wallet[w] = base + s - p
  BY DEF Balanced
<1>4. Sd \in SUBSET TradeIds(d) /\ Pd \in SUBSET TradeIds(d)
  BY DEF Sales, Purchases
<1>5. ASSUME NEW I \in SUBSET TradeIds(d)
      PROVE  /\ Moved(d, I) \in Int
             /\ Moved(e, I) = Moved(d, I)
             /\ Moved(e, I \cup {n}) = Moved(d, I) + a
  <2>1. Moved(d, I) \in Int
    BY MovedIsInt
  <2>2. /\ Moved(e, I) = Moved(d, I)
        /\ Moved(e, I \cup {Len(d.trades) + 1}) = Moved(d, I) + Amount(t)
    BY <1>1, MovedAppend, ZenonT(30)
  <2>. QED BY <2>1, <2>2
<1>6. /\ Sales(e, u, k) = IF SellerWallet(t) = w THEN Sd \cup {n} ELSE Sd
      /\ Purchases(e, u, k) = IF BuyerWallet(t) = w THEN Pd \cup {n} ELSE Pd
  BY <1>1, OneMoreTrade
<1> HIDE DEF n, a, w, Sd, Pd
<1>7. /\ Moved(e, Sales(e, u, k)) = s + gain
      /\ Moved(e, Purchases(e, u, k)) = p + loss
      /\ s \in Int /\ p \in Int /\ gain \in Int /\ loss \in Int
  <2>1. /\ s \in Int /\ Moved(e, Sd) = s /\ Moved(e, Sd \cup {n}) = s + a
        /\ p \in Int /\ Moved(e, Pd) = p /\ Moved(e, Pd \cup {n}) = p + a
    BY <1>4, <1>5
  <2> HIDE DEF s, p
  <2>2. Moved(e, Sales(e, u, k)) = s + gain
    BY <1>2, <1>6, <2>1
  <2>3. Moved(e, Purchases(e, u, k)) = p + loss
    BY <1>2, <1>6, <2>1
  <2>. QED BY <1>2, <2>1, <2>2, <2>3
<1> HIDE DEF s, p, base, gain, loss
<1>8. e.wallet[w] = base + (s + gain) - (p + loss)
  BY <1>10, <1>2, <1>3, <1>7
<1>. QED BY <1>7, <1>8 DEF base, w

LEMMA TotalIsInt ==
  ASSUME NEW c \in Companies
  PROVE  TotalShares(c) \in Int
<1> DEFINE f == [u \in Users |-> Founding[<<c, u>>]]
<1>1. \A u \in Users : f[u] \in Int
  BY ExchangeAssumption
<1> HIDE DEF f
<1>2. SumOf(f, Users) \in Int
  BY <1>1, SumIsInt, ExchangeAssumption
<1>. QED BY <1>2 DEF TotalShares, f

\* The buyer gets what the trade says, and the seller loses no more than that.
LEMMA SettleKept ==
  ASSUME NEW d \in Database, NEW o \in Order, NEW c \in Order,
         NEW t \in Trade, t = Fill(o, c), NEW e \in Database, e = Settle(d, o, c),
         t.buyer # t.seller, Kept(d)
  PROVE  Kept(e)
<1> DEFINE Q == Companies \X Users
<1>1. /\ d.shares \in [Q -> Nat] /\ e.shares \in [Q -> Nat]
      /\ t.shares \in Nat /\ t.company \in Companies
      /\ t.buyer \in Users /\ t.seller \in Users
  BY DEF Database, Trade
<1>. SUFFICES ASSUME NEW co \in Companies
              PROVE  Held(e, co) >= TotalShares(co)
  BY DEF Kept
<1> DEFINE f == [u \in Users |-> d.shares[<<co, u>>]]
           g == [u \in Users |-> e.shares[<<co, u>>]]
<1>2. /\ IsFiniteSet(Users)
      /\ f \in [Users -> Nat] /\ g \in [Users -> Nat]
  BY <1>1, ExchangeAssumption
<1>3. Held(d, co) = SumOf(f, Users) /\ Held(e, co) = SumOf(g, Users)
  BY DEF Held
<1>4. Held(d, co) >= TotalShares(co)
  BY DEF Kept
<1>5. \A u \in Users :
        /\ <<co, u>> = <<t.company, t.buyer>> => g[u] = f[u] + t.shares
        /\ <<co, u>> = <<t.company, t.seller>> => g[u] >= f[u] - t.shares
        /\ <<co, u>> \notin {<<t.company, t.buyer>>, <<t.company, t.seller>>}
             => g[u] = f[u]
  BY SettleMoves
<1> HIDE DEF f, g
<1>6. CASE co # t.company
  <2>1. \A u \in Users : g[u] = f[u] /\ f[u] \in Int
    BY <1>2, <1>5, <1>6
  <2>2. SumOf(f, Users) = SumOf(g, Users)
    BY <1>2, <2>1, SumsAgree
  <2>. QED BY <1>3, <1>4, <2>2
<1>7. CASE co = t.company
  <2>1. /\ g[t.buyer] = f[t.buyer] + t.shares
        /\ g[t.seller] >= f[t.seller] - t.shares
        /\ \A u \in Users : u \notin {t.buyer, t.seller} => g[u] = f[u]
    BY <1>1, <1>5, <1>7
  <2>2. SumOf(g, Users) >= SumOf(f, Users)
    BY <1>1, <1>2, <2>1, SumTransfer
  <2>3. SumOf(f, Users) \in Int /\ SumOf(g, Users) \in Int
    BY <1>2, SumIsInt
  <2>4. TotalShares(co) \in Int
    BY TotalIsInt
  <2>. QED BY <1>3, <1>4, <2>2, <2>3, <2>4
<1>. QED BY <1>6, <1>7

-----------------------------------------------------------------------------
(* Statements of one row *)

\* The books speak of wallets, shares and trades only.
SameBooks(d, e) ==
  d.wallet = e.wallet /\ d.shares = e.shares /\ d.trades = e.trades

LEMMA BooksPersist ==
  ASSUME NEW d, NEW e, SameBooks(e, d), NEW out
  PROVE  /\ Balanced(d, out) => Balanced(e, out)
         /\ Kept(d) => Kept(e)
BY DEF SameBooks, Balanced, Kept, Held, Sales, Purchases, Moved, TradeIds

LEMMA CreateOrderBooks ==
  ASSUME NEW d \in Database, NEW os
  PROVE  SameBooks([d EXCEPT !.orders = os], d)
BY DEF Database, SameBooks

\* Another handler's debit is taken out of the wallet and written down.
LEMMA OtherDebitBooks ==
  ASSUME IInv, BooksInv, NEW w \in Users \X Classrooms, NEW amount \in Spendings,
         OtherDebit(w, amount)
  PROVE  BooksInv'
<1> DEFINE W == Users \X Classrooms
<1>1. /\ conn = None /\ conn' = None
      /\ db' = [db EXCEPT !.wallet[w] = @ - amount]
      /\ spent' = [spent EXCEPT ![w] = @ + amount]
  BY DEF OtherDebit, Happens, Debit
<1>2. /\ db \in Database /\ db.wallet \in [W -> Int] /\ spent \in [W -> Nat]
      /\ amount \in Nat
  BY ExchangeAssumption DEF IInv, TypeOK, Database
<1>3. /\ db'.wallet = [db.wallet EXCEPT ![w] = @ - amount]
      /\ db'.shares = db.shares /\ db'.trades = db.trades
  BY <1>1, <1>2 DEF Database
<1>4. Kept(db')
  BY <1>3 DEF BooksInv, Kept, Held
<1>5. Balanced(db', spent')
  <2> SUFFICES ASSUME NEW u \in Users, NEW k \in Classrooms
               PROVE  db'.wallet[<<u, k>>] =
                        InitialFunds[<<u, k>>] - spent'[<<u, k>>]
                        + Moved(db', Sales(db', u, k)) - Moved(db', Purchases(db', u, k))
    BY DEF Balanced
  <2> DEFINE v == <<u, k>>
             s == Moved(db, Sales(db, u, k))
             p == Moved(db, Purchases(db, u, k))
  <2>1. Moved(db', Sales(db', u, k)) = s /\ Moved(db', Purchases(db', u, k)) = p
    BY <1>3 DEF Moved, Sales, Purchases, TradeIds
  <2>2. db.wallet[v] = InitialFunds[v] - spent[v] + s - p
    BY DEF BooksInv, Balanced
  <2>3. s \in Int /\ p \in Int
    <3>1. Sales(db, u, k) \in SUBSET TradeIds(db) /\ Purchases(db, u, k) \in SUBSET TradeIds(db)
      BY DEF Sales, Purchases
    <3>. QED BY <1>2, <3>1, MovedIsInt
  <2>4. v \in W /\ InitialFunds[v] \in Int
    BY ExchangeAssumption
  <2> HIDE DEF v, s, p, W
  <2>5. /\ db'.wallet[v] = db.wallet[v] - (IF v = w THEN amount ELSE 0)
        /\ spent'[v] = spent[v] + (IF v = w THEN amount ELSE 0)
        /\ db.wallet[v] \in Int /\ spent[v] \in Int
    BY <1>1, <1>2, <1>3, <2>4
  <2>6. db'.wallet[v] = InitialFunds[v] - spent'[v] + s - p
    BY <1>2, <2>2, <2>3, <2>4, <2>5
  <2>. QED BY <2>1, <2>6 DEF v
<1>. QED BY <1>1, <1>4, <1>5 DEF BooksInv

LEMMA SettleMatchBooks ==
  ASSUME IInv, BooksInv, NEW r \in Requests, SettleMatch(r), TypeOK'
  PROVE  BooksInv'
<1>1. PICK c \in book[r] : tx' = Settle(tx, mine[r], c)
  BY DEF SettleMatch, Heads
<1>2. /\ conn = r /\ pc[r] = "settle" /\ 0 < mine[r].remaining
      /\ UNCHANGED <<db, conn, spent>>
  BY DEF SettleMatch, IInv, TypeOK, Order
<1>3. conn # None /\ conn' # None
  BY <1>2, ExchangeAssumption
<1>4. /\ tx \in Database /\ tx' \in Database
      /\ spent \in [Users \X Classrooms -> Nat]
  BY <1>3 DEF IInv, TypeOK
<1>5. /\ mine[r] \in Order /\ c \in Order /\ Opposite(mine[r], c)
      /\ mine[r].remaining <= mine[r].shares /\ c.remaining <= c.shares
  BY <1>2 DEF IInv, TypeOK, LocalsSound, Placed, Matchmaking
<1> DEFINE t == Fill(mine[r], c)
<1>6. t \in Trade /\ t.buyer # t.seller
  BY <1>2, <1>5, FillFact DEF Allowed
<1>7. Balanced(tx, spent) /\ Kept(tx)
  BY <1>3 DEF BooksInv
<1> HIDE DEF t
<1>8. t = Fill(mine[r], c)
  BY DEF t
<1>9. Balanced(tx', spent)
  BY <1>1, <1>4, <1>5, <1>6, <1>7, <1>8, SettleBalanced
<1>10. Kept(tx')
  BY <1>1, <1>4, <1>5, <1>6, <1>7, <1>8, SettleKept
<1>. QED BY <1>2, <1>9, <1>10 DEF BooksInv

\* Every other step of a handler commits, forgets or opens a transaction, or
\* writes orders only.
LEMMA HandlerBooks ==
  ASSUME IInv, BooksInv, NEW r \in Requests, Handler(r), TypeOK'
  PROVE  BooksInv'
<1>1. CASE AcceptOrder(r) \/ RefuseOrder(r) \/ FindMatches(r) \/ FindNoMatch(r)
  BY <1>1 DEF AcceptOrder, RefuseOrder, FindMatches, FindNoMatch, BooksInv
<1>2. CASE CreateOrder(r)
  <2>1. PICK os : db' = [db EXCEPT !.orders = os]
    BY <1>2 DEF CreateOrder
  <2>2. SameBooks(db', db)
    BY <2>1, CreateOrderBooks DEF IInv, TypeOK
  <2>3. UNCHANGED <<tx, conn, spent>>
    BY <1>2 DEF CreateOrder
  <2>. QED BY <2>2, <2>3, BooksPersist DEF BooksInv
<1>3. CASE BeginSettlement(r)
  BY <1>3 DEF BeginSettlement, BooksInv
<1>4. CASE SettleMatch(r)
  BY <1>4, SettleMatchBooks
<1>5. CASE RollbackSettlement(r)
  BY <1>5 DEF RollbackSettlement, BooksInv
<1>6. CASE CommitSettlement(r)
  <2>1. conn # None
    BY <1>6, ExchangeAssumption DEF CommitSettlement
  <2>. QED BY <1>6, <2>1 DEF CommitSettlement, BooksInv
<1>7. CASE CancelOrder(r)
  <2>1. PICK os : db' = [db EXCEPT !.orders = os]
    BY <1>7 DEF CancelOrder
  <2>2. SameBooks(db', db)
    BY <2>1, CreateOrderBooks DEF IInv, TypeOK
  <2>3. UNCHANGED <<tx, conn, spent>>
    BY <1>7 DEF CancelOrder
  <2>. QED BY <2>2, <2>3, BooksPersist DEF BooksInv
<1>. QED BY <1>1, <1>2, <1>3, <1>4, <1>5, <1>6, <1>7 DEF Handler

-----------------------------------------------------------------------------
(* The invariant and the theorems *)

LEMMA InitBooks == Init => BooksInv
<1> SUFFICES ASSUME Init PROVE BooksInv
  OBVIOUS
<1>1. conn = None
  BY DEF Init
<1>2. Kept(db)
  <2>1. db.shares = Founding
    BY DEF Init
  <2>2. \A c \in Companies : Held(db, c) = TotalShares(c)
    BY <2>1 DEF Held, TotalShares
  <2>. QED BY <2>2, TotalIsInt DEF Kept
<1>3. Balanced(db, spent)
  <2>1. /\ db.wallet = InitialFunds /\ db.trades = <<>>
        /\ spent = [w \in Users \X Classrooms |-> 0]
    BY DEF Init
  <2> SUFFICES ASSUME NEW u \in Users, NEW k \in Classrooms
               PROVE  db.wallet[<<u, k>>] =
                        InitialFunds[<<u, k>>] - spent[<<u, k>>]
                        + Moved(db, Sales(db, u, k)) - Moved(db, Purchases(db, u, k))
    BY DEF Balanced
  <2>2. Sales(db, u, k) = {} /\ Purchases(db, u, k) = {}
    BY <2>1 DEF Sales, Purchases, TradeIds
  <2>3. Moved(db, {}) = 0
    BY SumOfNothing DEF Moved
  <2>4. InitialFunds[<<u, k>>] \in Int /\ spent[<<u, k>>] = 0
    BY <2>1, ExchangeAssumption
  <2>. QED BY <2>1, <2>2, <2>3, <2>4
<1>. QED BY <1>1, <1>2, <1>3 DEF BooksInv

LEMMA StepBooks == IInv /\ IInv' /\ BooksInv /\ [Next]_vars => BooksInv'
<1> SUFFICES ASSUME IInv, IInv', BooksInv, [Next]_vars PROVE BooksInv'
  OBVIOUS
<1>1. TypeOK'
  BY DEF IInv
<1>2. CASE UNCHANGED vars
  BY <1>2 DEF vars, BooksInv
<1>3. ASSUME NEW r \in Requests, Client(r)
      PROVE  BooksInv'
  <2>1. UNCHANGED <<db, tx, conn, spent>>
    BY <1>3 DEF Client, PlaceOrder, ReadCancelled
  <2>. QED  BY <2>1 DEF BooksInv
<1>4. ASSUME NEW r \in Requests, Handler(r)
      PROVE  BooksInv'
  BY <1>1, <1>4, HandlerBooks
<1>5. CASE Environment
  <2>1. \A u \in Users, c \in Companies :
          <<u, ClassroomOf[c]>> \in Users \X Classrooms
    BY ExchangeAssumption
  <2>2. ASSUME NEW u \in Users, NEW k \in Classrooms, ActivateClassroom(u, k)
        PROVE  BooksInv'
    BY <2>2 DEF ActivateClassroom, BooksInv
  <2>3. CASE Restart
    BY <2>3 DEF Restart, BooksInv
  <2>. QED BY <1>5, <2>1, <2>2, <2>3, OtherDebitBooks DEF Environment
<1>. QED BY <1>2, <1>3, <1>4, <1>5 DEF Next, Quiet

THEOREM BooksInvariance == Spec => []BooksInv
BY Invariance, InitBooks, StepBooks, PTL DEF Spec

\* In every wallet of every classroom the committed money is the opening
\* balance, less what other handlers debited, plus the sales, less the
\* purchases: a settlement that fails late takes all of its turns back.
THEOREM MoneyFollowsTradesAlways == Spec => []MoneyFollowsTrades
<1>1. BooksInv => MoneyFollowsTrades
  BY DEF BooksInv, Balanced, MoneyFollowsTrades
<1>. QED BY <1>1, BooksInvariance, PTL

\* No share of a company is ever lost, whatever the requests read before.
THEOREM NoShareIsLost == Spec => []NoShareLost
<1>1. BooksInv => NoShareLost
  BY DEF BooksInv, Kept, NoShareLost
<1>. QED BY <1>1, BooksInvariance, PTL

-----------------------------------------------------------------------------
(***************************************************************************)
(* Theorems about an exchange that serves one request at a time, for any    *)
(* number of users, companies and orders, with debits by other handlers and *)
(* restarts between any two statements: no share appears or vanishes, every *)
(* order accounts for its trades, live orders cross only after a failure,   *)
(* and a settlement keeps price-time priority.                              *)
(*                                                                         *)
(* With several requests none of these holds, for a handler writes what it   *)
(* computed from copies others have made stale.  The invariant says that of  *)
(* a single handler the copies ARE the rows, before the transaction begins   *)
(* and inside it.                                                           *)
(***************************************************************************)

-----------------------------------------------------------------------------
(* What is offered for sale, as a sum over all orders *)

Sells(o, u, c) == o.user = u /\ o.side = "sell" /\ o.company = c

Offer(d, u, c) ==
  [i \in OrderIds(d) |-> IF Sells(d.orders[i], u, c) THEN OpenShares(d.orders[i]) ELSE 0]

LEMMA OrdersTyped ==
  ASSUME NEW d \in Database
  PROVE  /\ IsFiniteSet(OrderIds(d)) /\ Len(d.orders) \in Nat
         /\ \A i \in OrderIds(d) : d.orders[i] \in Order /\ d.orders[i].remaining \in Nat
                                     /\ d.orders[i].shares \in Nat
<1>1. d.orders \in Seq(Order) /\ Len(d.orders) \in Nat
  BY DEF Database
<1>2. IsFiniteSet(OrderIds(d))
  BY <1>1, FS_Interval DEF OrderIds
<1>3. \A o \in Order : o.remaining \in Nat /\ o.shares \in Nat
  BY DEF Order
<1>. QED BY <1>1, <1>2, <1>3 DEF OrderIds

LEMMA OfferTyped ==
  ASSUME NEW d \in Database, NEW u, NEW c
  PROVE  \A i \in OrderIds(d) : Offer(d, u, c)[i] \in Nat /\ Offer(d, u, c)[i] \in Int
BY OrdersTyped DEF Offer, OpenShares

LEMMA PendingIsOffer ==
  ASSUME NEW d \in Database, NEW u, NEW c
  PROVE  /\ PendingSellShares(d, u, c) = SumOf(Offer(d, u, c), OrderIds(d))
         /\ PendingSellShares(d, u, c) \in Nat
<1> DEFINE S == OrderIds(d)
           T == {i \in S : /\ d.orders[i].user = u /\ d.orders[i].side = "sell"
                           /\ d.orders[i].status \in Live
                           /\ d.orders[i].company = c}
           f == Offer(d, u, c)
           g == [i \in OrderIds(d) |-> d.orders[i].remaining]
<1>1. IsFiniteSet(S) /\ T \in SUBSET S
  BY OrdersTyped
<1>2. /\ \A i \in T : f[i] \in Int /\ g[i] = f[i]
      /\ \A i \in S : i \notin T => f[i] = 0
      /\ \A i \in S : f[i] \in Nat
  BY OrdersTyped DEF Offer, OpenShares, Sells
<1>3. PendingSellShares(d, u, c) = SumOf(g, T)
  BY DEF PendingSellShares
<1> HIDE DEF S, T, f, g
<1>4. SumOf(f, S) = SumOf(g, T) /\ SumOf(f, S) \in Nat
  BY <1>1, <1>2, SumOfPart, SumIsNat
<1>. QED BY <1>3, <1>4 DEF S, f

\* One row is written: it counts for its seller, if it is an order to sell.
LEMMA PendingRow ==
  ASSUME NEW d \in Database, NEW e \in Database, SameBook(e, d), NEW k \in OrderIds(d),
         \A i \in OrderIds(d) :
           i # k /\ d.orders[i].side = "sell" => OpenShares(e.orders[i]) = OpenShares(d.orders[i]),
         NEW u, NEW c
  PROVE  PendingSellShares(e, u, c) =
           PendingSellShares(d, u, c)
             + IF Sells(d.orders[k], u, c) THEN OpenShares(e.orders[k]) - OpenShares(d.orders[k]) ELSE 0
<1> DEFINE S == OrderIds(d)
           f == Offer(d, u, c)
           g == Offer(e, u, c)
<1>1. IsFiniteSet(S) /\ OrderIds(e) = S /\ k \in S
  BY OrdersTyped DEF SameBook, OrderIds
<1>2. \A i \in S : Sells(e.orders[i], u, c) <=> Sells(d.orders[i], u, c)
  BY <1>1 DEF SameBook, Terms, Sells
<1>3. \A i \in S : i # k => g[i] = f[i]
  BY <1>1, <1>2 DEF Offer, Sells
<1>4. /\ f[k] = IF Sells(d.orders[k], u, c) THEN OpenShares(d.orders[k]) ELSE 0
      /\ g[k] = IF Sells(d.orders[k], u, c) THEN OpenShares(e.orders[k]) ELSE 0
  BY <1>1, <1>2 DEF Offer
<1>5. \A i \in S : f[i] \in Int /\ g[i] \in Int
  BY <1>1, OfferTyped
<1>6. /\ PendingSellShares(d, u, c) = SumOf(f, S)
      /\ PendingSellShares(e, u, c) = SumOf(g, S)
  BY <1>1, PendingIsOffer
<1> HIDE DEF S, f, g
<1>7. SumOf(g, S) = SumOf(f, S) - f[k] + g[k] /\ SumOf(f, S) \in Int
  BY <1>1, <1>3, <1>5, SumWrite, SumIsInt
<1>8. OpenShares(d.orders[k]) \in Int /\ OpenShares(e.orders[k]) \in Int
  <2>1. k \in OrderIds(d) /\ k \in OrderIds(e)
    BY <1>1
  <2>. QED BY <2>1, OrdersTyped DEF OpenShares
<1>. QED BY <1>4, <1>6, <1>7, <1>8

\* One row is added.
LEMMA PendingAppend ==
  ASSUME NEW d \in Database, NEW e \in Database, NEW o \in Order,
         e.orders = Append(d.orders, o), NEW u, NEW c
  PROVE  PendingSellShares(e, u, c) =
           PendingSellShares(d, u, c) + IF Sells(o, u, c) THEN OpenShares(o) ELSE 0
<1> DEFINE S == OrderIds(d)
           k == Len(d.orders) + 1
           f == Offer(d, u, c)
           g == Offer(e, u, c)
<1>0. d.orders \in Seq(Order)
  BY DEF Database
<1>1. /\ OrderIds(e) = S \cup {k} /\ k \notin S /\ e.orders[k] = o
      /\ \A i \in S : e.orders[i] = d.orders[i]
  BY <1>0 DEF OrderIds
<1>2. IsFiniteSet(S)
  BY OrdersTyped
<1>3. /\ \A i \in S : f[i] \in Int /\ g[i] = f[i]
      /\ g[k] \in Int
      /\ g[k] = IF Sells(o, u, c) THEN OpenShares(o) ELSE 0
  <2>1. \A i \in S : f[i] \in Int
    BY OfferTyped
  <2>2. \A i \in OrderIds(e) : g[i] \in Int
    BY OfferTyped
  <2>3. \A i \in S : g[i] = f[i]
    BY <1>1 DEF Offer
  <2>4. g[k] = IF Sells(o, u, c) THEN OpenShares(o) ELSE 0
    BY <1>1 DEF Offer
  <2>. QED BY <1>1, <2>1, <2>2, <2>3, <2>4
<1>4. /\ PendingSellShares(d, u, c) = SumOf(f, S)
      /\ PendingSellShares(e, u, c) = SumOf(g, OrderIds(e))
  BY PendingIsOffer
<1> HIDE DEF S, f, g, k
<1>5. SumOf(g, S \cup {k}) = SumOf(f, S) + g[k]
  BY <1>1, <1>2, <1>3, SumInsert
<1>. QED BY <1>1, <1>3, <1>4, <1>5

\* The rows are those of the same orders, with the same shares left.
LEMMA PendingSame ==
  ASSUME NEW d, NEW e, e.orders = d.orders, NEW u, NEW c
  PROVE  PendingSellShares(e, u, c) = PendingSellShares(d, u, c)
BY DEF PendingSellShares, OrderIds

-----------------------------------------------------------------------------
(* What was traded under an order *)

Under(d, i) == {j \in TradeIds(d) : i \in {d.trades[j].buyOrder, d.trades[j].sellOrder}}

LEMMA TradedIsNat ==
  ASSUME NEW d \in Database, NEW i
  PROVE  TradedShares(d, i) \in Nat
<1> DEFINE f == [j \in TradeIds(d) |-> d.trades[j].shares]
           T == Under(d, i)
<1>1. \A t \in Trade : t.shares \in Nat
  BY DEF Trade
<1>2. IsFiniteSet(T) /\ \A j \in T : f[j] \in Nat
  BY <1>1, TradesTyped, FS_Subset DEF Under
<1>3. TradedShares(d, i) = SumOf(f, T)
  BY DEF TradedShares, Under
<1> HIDE DEF f, T
<1>. QED BY <1>2, <1>3, SumIsNat

LEMMA TradedAppend ==
  ASSUME NEW d \in Database, NEW e \in Database, NEW t \in Trade,
         e.trades = Append(d.trades, t), NEW i
  PROVE  TradedShares(e, i) =
           TradedShares(d, i) + IF i \in {t.buyOrder, t.sellOrder} THEN t.shares ELSE 0
<1> DEFINE f == [j \in TradeIds(d) |-> d.trades[j].shares]
           g == [j \in TradeIds(e) |-> e.trades[j].shares]
           S == Under(d, i)
           T == Under(e, i)
           n == Len(d.trades) + 1
           hit == i \in {t.buyOrder, t.sellOrder}
<1>1. /\ TradeIds(e) = TradeIds(d) \cup {n} /\ n \notin TradeIds(d)
      /\ e.trades[n] = t
      /\ \A j \in TradeIds(d) : e.trades[j] = d.trades[j]
  <2>1. d.trades \in Seq(Trade)
    BY DEF Database
  <2>. QED BY <2>1 DEF TradeIds
<1>2. /\ IsFiniteSet(S) /\ n \notin S
      /\ \A j \in S : f[j] \in Int /\ g[j] = f[j]
      /\ g[n] = t.shares /\ g[n] \in Int
  <2>1. \A x \in Trade : x.shares \in Int
    BY DEF Trade
  <2>. QED BY <1>1, <2>1, TradesTyped, FS_Subset DEF Under
<1>3. /\ TradedShares(d, i) = SumOf(f, S) /\ TradedShares(e, i) = SumOf(g, T)
      /\ TradedShares(d, i) \in Nat
  BY TradedIsNat DEF TradedShares, Under
<1>4. /\ \A j \in TradeIds(d) : j \in T <=> j \in S
      /\ S \subseteq TradeIds(d) /\ T \subseteq TradeIds(d) \cup {n}
      /\ n \in T <=> hit
  BY <1>1 DEF Under
<1> HIDE DEF f, g, S, T, n, hit
<1>5. CASE hit
  <2>1. T = S \cup {n}
    BY <1>1, <1>4, <1>5
  <2>2. SumOf(g, T) = SumOf(f, S) + g[n]
    BY <1>2, <2>1, SumInsert
  <2>. QED BY <1>2, <1>3, <1>5, <2>2 DEF hit
<1>6. CASE ~hit
  <2>1. T \subseteq S /\ S \subseteq T
    BY <1>1, <1>4, <1>6
  <2>2. T = S
    BY <2>1, Zenon
  <2>3. SumOf(g, S) = SumOf(f, S)
    BY <1>2, SumsAgree
  <2>. QED BY <1>3, <1>6, <2>2, <2>3 DEF hit
<1>. QED BY <1>5, <1>6

\* An order that does not exist yet was never traded.
LEMMA NothingTraded ==
  ASSUME NEW d \in Database, HonoursOrders(d), NEW i, i \notin OrderIds(d)
  PROVE  TradedShares(d, i) = 0
<1>1. Under(d, i) = {}
  BY DEF Under, HonoursOrders, AllowedIn, TradeIds
<1>. QED BY <1>1, SumOfNothing DEF TradedShares, Under

-----------------------------------------------------------------------------
(* The books of one request at a time *)

Accounted(d) ==
  \A i \in OrderIds(d) :
    LET o == d.orders[i] IN
    /\ o.shares = o.remaining + TradedShares(d, i)
    /\ o.status = "filled" <=> o.remaining = 0
    /\ o.status = "open" => o.remaining = o.shares
    /\ o.status = "partial" => o.remaining < o.shares

Offered(d) ==
  \A u \in Users, c \in Companies : PendingSellShares(d, u, c) <= d.shares[<<c, u>>]

Conserved(d) == \A c \in Companies : Held(d, c) = TotalShares(c)

Booked(d) == Accounted(d) /\ Offered(d) /\ Conserved(d)

\* A settlement may trade order o with the resting order c: both are rows.
Tradable(d, o, c) ==
  /\ o.id \in OrderIds(d) /\ d.orders[o.id] = o /\ o.status \in Live
  /\ c.id \in OrderIds(d) /\ d.orders[c.id] = c /\ c.status \in Live
  /\ Opposite(o, c) /\ 0 < o.remaining
  /\ o.remaining <= o.shares /\ c.remaining <= c.shares

\* What one turn of the settlement makes of the orders.
LEMMA SettleOrders ==
  ASSUME NEW d \in Database, NEW o \in Order, NEW c \in Order, Tradable(d, o, c),
         NEW n, n = Fill(o, c).shares, NEW e, e = Settle(d, o, c)
  PROVE  /\ o.id # c.id /\ Len(e.orders) = Len(d.orders)
         /\ \A i \in OrderIds(d) :
              e.orders[i] = IF i = o.id THEN Reduced(o, n)
                            ELSE IF i = c.id THEN Reduced(c, n) ELSE d.orders[i]
<1> DEFINE t == Fill(o, c)
           p == Reduced(o, t.shares)
           q == Reduced(c, t.shares)
           d1 == CreateTrade(d, t)
           d2 == UpdateOrder(d1, p)
           d3 == UpdateOrder(d2, q)
<1>1. e = MoveShares(MoveMoney(d3, t), t)
  BY DEF Settle, UpdateCompany
<1>2. /\ DOMAIN d = {"wallet", "shares", "orders", "trades", "valuation"}
      /\ d.orders \in Seq(Order) /\ DOMAIN d.orders = OrderIds(d)
  BY DEF Database, OrderIds
<1>3. /\ p.id = o.id /\ Overwritten(o, p) = p
      /\ q.id = c.id /\ Overwritten(c, q) = q
  BY DEF Reduced, Overwritten, Order
<1>4. o.id # c.id
  BY DEF Tradable, Opposite
<1>5. DOMAIN d1 = DOMAIN d /\ d1.orders = d.orders
  BY <1>2 DEF CreateTrade
<1> HIDE DEF d1, p, q
<1>6. /\ DOMAIN d2 = DOMAIN d
      /\ d2.orders = [d1.orders EXCEPT ![o.id] = Overwritten(d1.orders[o.id], p)]
  BY <1>2, <1>3, <1>5 DEF UpdateOrder
<1>7. d2.orders = [d.orders EXCEPT ![o.id] = p]
  BY <1>3, <1>5, <1>6 DEF Tradable
<1>8. d2.orders[c.id] = c
  BY <1>2, <1>4, <1>7 DEF Tradable
<1> HIDE DEF d2
<1>9. /\ DOMAIN d3 = DOMAIN d
      /\ d3.orders = [d2.orders EXCEPT ![c.id] = Overwritten(d2.orders[c.id], q)]
  BY <1>2, <1>3, <1>6 DEF UpdateOrder
<1>10. d3.orders = [d2.orders EXCEPT ![c.id] = q]
  BY <1>3, <1>8, <1>9
<1> HIDE DEF d3
<1> DEFINE m == MoveMoney(d3, t)
<1>11. DOMAIN m = DOMAIN d /\ m.orders = d3.orders
  BY <1>2, <1>9 DEF MoveMoney, Credit, Debit
<1> HIDE DEF m
<1>12. LET f == MoveShares(m, t) IN f.orders = m.orders
  BY <1>2, <1>11 DEF MoveShares, SubtractShareholderShares, UpsertShareholder
<1>13. e.orders = [[d.orders EXCEPT ![o.id] = p] EXCEPT ![c.id] = q]
  BY <1>1, <1>7, <1>10, <1>11, <1>12 DEF m
<1>14. DOMAIN e.orders = DOMAIN d.orders /\ Len(e.orders) = Len(d.orders)
  <2>1. p \in Order /\ q \in Order
    <3>1. t \in Trade /\ 0 < t.shares /\ t.shares <= o.remaining /\ t.shares <= c.remaining
      BY FillFact DEF Tradable
    <3>2. t.shares \in Nat
      BY <3>1 DEF Trade
    <3>. QED BY <3>1, <3>2, ReducedFact DEF Tradable, p, q
  <2>. QED BY <1>2, <1>13, <2>1
<1>. QED BY <1>2, <1>4, <1>13, <1>14 DEF p, q, Tradable

\* What that leaves of each of the two.
LEMMA SettleReduces ==
  ASSUME NEW o \in Order, NEW n \in Nat, 0 < n, n <= o.remaining, o.remaining <= o.shares,
         o.status \in Live
  PROVE  LET p == Reduced(o, n) IN
         /\ p \in Order /\ Terms(p, o) /\ p.id = o.id
         /\ p.remaining = o.remaining - n /\ OpenShares(p) = OpenShares(o) - n
         /\ p.status = IF o.remaining = n THEN "filled" ELSE "partial"
<1> DEFINE p == Reduced(o, n)
<1>1. p \in Order /\ Terms(p, o) /\ p.id = o.id
  BY ReducedFact
<1>2. p.remaining = o.remaining - n /\ p.status = IF o.remaining = n THEN "filled" ELSE "partial"
  BY DEF Reduced, Order
<1> HIDE DEF p
<1>3. OpenShares(o) = o.remaining /\ o.remaining \in Nat
  BY DEF OpenShares, Order
<1>4. OpenShares(p) = o.remaining - n
  BY <1>2, <1>3 DEF OpenShares, Live
<1>. QED BY <1>1, <1>2, <1>3, <1>4 DEF p

LEMMA SettleAccounted ==
  ASSUME NEW d \in Database, Sound(d), Accounted(d), NEW o \in Order, NEW c \in Order,
         Tradable(d, o, c), NEW e \in Database, e = Settle(d, o, c)
  PROVE  Accounted(e)
<1> DEFINE t == Fill(o, c)
           n == t.shares
<1>1. /\ t \in Trade /\ 0 < n /\ n <= o.remaining /\ n <= c.remaining
      /\ {t.buyOrder, t.sellOrder} = {o.id, c.id}
  <2>1. o.side = "buy" \/ o.side # "buy"
    OBVIOUS
  <2>. QED BY <2>1, FillFact DEF Tradable
<1>2. n \in Nat
  BY <1>1 DEF Trade
<1>3. e.trades = Append(d.trades, t)
  BY <1>1, SettleMoves
<1>4. /\ Len(e.orders) = Len(d.orders) /\ o.id # c.id
      /\ \A i \in OrderIds(d) :
           e.orders[i] = IF i = o.id THEN Reduced(o, n)
                         ELSE IF i = c.id THEN Reduced(c, n) ELSE d.orders[i]
  BY SettleOrders
<1>5. \A i : TradedShares(e, i) = TradedShares(d, i) + IF i \in {o.id, c.id} THEN n ELSE 0
  BY <1>1, <1>3, TradedAppend
<1> HIDE DEF n, t
<1> SUFFICES ASSUME NEW i \in OrderIds(d)
             PROVE  LET x == e.orders[i] IN
                    /\ x.shares = x.remaining + TradedShares(e, i)
                    /\ x.status = "filled" <=> x.remaining = 0
                    /\ x.status = "open" => x.remaining = x.shares
                    /\ x.status = "partial" => x.remaining < x.shares
  BY <1>4 DEF Accounted, OrderIds
<1>6. LET x == d.orders[i] IN
      /\ x.shares = x.remaining + TradedShares(d, i)
      /\ x.status = "filled" <=> x.remaining = 0
      /\ x.status = "open" => x.remaining = x.shares
      /\ x.status = "partial" => x.remaining < x.shares
      /\ x.shares \in Nat /\ x.remaining \in Nat
  BY OrdersTyped DEF Accounted
<1>7. TradedShares(d, i) \in Nat
  BY TradedIsNat
<1>8. ASSUME NEW x \in Order, x = d.orders[i], x.status \in Live, n <= x.remaining,
             x.remaining <= x.shares, e.orders[i] = Reduced(x, n), i \in {o.id, c.id}
      PROVE  LET y == e.orders[i] IN
             /\ y.shares = y.remaining + TradedShares(e, i)
             /\ y.status = "filled" <=> y.remaining = 0
             /\ y.status = "open" => y.remaining = y.shares
             /\ y.status = "partial" => y.remaining < y.shares
  <2> DEFINE y == Reduced(x, n)
  <2>1. /\ y.remaining = x.remaining - n /\ y.shares = x.shares
        /\ y.status = IF x.remaining = n THEN "filled" ELSE "partial"
    BY <1>1, <1>2, <1>8, SettleReduces DEF Terms
  <2>2. TradedShares(e, i) = TradedShares(d, i) + n
    BY <1>5, <1>8
  <2> HIDE DEF y
  <2>3. /\ y.shares = y.remaining + TradedShares(e, i)
        /\ y.status = "filled" <=> y.remaining = 0
        /\ y.status = "open" => y.remaining = y.shares
        /\ y.status = "partial" => y.remaining < y.shares
    BY <1>1, <1>2, <1>6, <1>7, <1>8, <2>1, <2>2
  <2>. QED BY <1>8, <2>3 DEF y
<1>9. CASE i = o.id
  BY <1>1, <1>4, <1>8, <1>9 DEF Tradable
<1>10. CASE i = c.id
  BY <1>1, <1>4, <1>8, <1>10 DEF Tradable
<1>11. CASE i \notin {o.id, c.id}
  <2>1. TradedShares(e, i) = TradedShares(d, i) /\ e.orders[i] = d.orders[i]
    BY <1>4, <1>5, <1>7, <1>11
  <2>. QED BY <1>6, <2>1
<1>. QED BY <1>9, <1>10, <1>11

\* The seller offers as much less as the trade takes from him, and has it to give.
LEMMA SettleOffered ==
  ASSUME NEW d \in Database, Sound(d), Offered(d), NEW o \in Order, NEW c \in Order,
         Tradable(d, o, c), NEW e \in Database, e = Settle(d, o, c), SameBook(e, d)
  PROVE  /\ Offered(e)
         /\ LET t == Fill(o, c) IN d.shares[<<t.company, t.seller>>] >= t.shares
<1> DEFINE t == Fill(o, c)
           n == t.shares
           s == IF o.side = "buy" THEN c ELSE o
           b == IF o.side = "buy" THEN o ELSE c
<1>1. /\ t \in Trade /\ 0 < n /\ n <= o.remaining /\ n <= c.remaining
      /\ t.sellOrder = s.id /\ Allowed(t, b, s)
  BY FillFact DEF Tradable
<1>2. /\ n \in Nat /\ t.company \in Companies /\ t.seller \in Users /\ t.buyer \in Users
      /\ t.buyer # t.seller
      /\ s \in Order /\ s.side = "sell" /\ s.user = t.seller /\ s.company = t.company
      /\ b \in Order /\ b.side = "buy"
      /\ n <= s.remaining /\ s.remaining <= s.shares /\ s.status \in Live
      /\ s.id \in OrderIds(d) /\ d.orders[s.id] = s
      /\ b.id \in OrderIds(d) /\ d.orders[b.id] = b
      /\ {o.id, c.id} = {b.id, s.id}
  BY <1>1 DEF Trade, Allowed, Tradable
<1>3. /\ o.id # c.id
      /\ \A i \in OrderIds(d) :
           e.orders[i] = IF i = o.id THEN Reduced(o, n)
                         ELSE IF i = c.id THEN Reduced(c, n) ELSE d.orders[i]
  BY SettleOrders
<1>4. e.orders[s.id] = Reduced(s, n)
  BY <1>2, <1>3
<1>5. t.buyer # t.seller =>
        \A q \in Companies \X Users :
          /\ q = <<t.company, t.buyer>> => e.shares[q] = d.shares[q] + t.shares
          /\ q = <<t.company, t.seller>> =>
               (d.shares[q] >= t.shares => e.shares[q] = d.shares[q] - t.shares)
          /\ q \notin {<<t.company, t.buyer>>, <<t.company, t.seller>>}
               => e.shares[q] = d.shares[q]
  <2>1. t \in Trade
    BY <1>1
  <2> HIDE DEF t
  <2>2. t = Fill(o, c)
    BY DEF t
  <2>. QED BY <2>1, <2>2, SettleMoves
<1> HIDE DEF t, n, s, b
<1>6. OpenShares(Reduced(s, n)) = OpenShares(s) - n /\ OpenShares(s) = s.remaining /\ s.remaining \in Nat
  BY <1>1, <1>2, SettleReduces DEF OpenShares, Order
<1>7. ASSUME NEW i \in OrderIds(d), i # s.id, d.orders[i].side = "sell"
      PROVE  e.orders[i] = d.orders[i]
  BY <1>2, <1>3, <1>7
<1>8. \A u, x : PendingSellShares(e, u, x) =
                  PendingSellShares(d, u, x) - IF Sells(s, u, x) THEN n ELSE 0
  <2> TAKE u, x
  <2>1. PendingSellShares(e, u, x) =
          PendingSellShares(d, u, x)
            + IF Sells(d.orders[s.id], u, x) THEN OpenShares(e.orders[s.id]) - OpenShares(d.orders[s.id])
              ELSE 0
    BY <1>2, <1>7, PendingRow
  <2>2. PendingSellShares(d, u, x) \in Nat
    BY PendingIsOffer
  <2>. QED BY <1>2, <1>4, <1>6, <2>1, <2>2
<1>9. s.remaining <= d.shares[<<t.company, t.seller>>]
  <2> DEFINE f == Offer(d, t.seller, t.company)
             S == OrderIds(d)
  <2>1. /\ IsFiniteSet(S) /\ s.id \in S /\ \A i \in S : f[i] \in Nat
        /\ PendingSellShares(d, t.seller, t.company) = SumOf(f, S)
    BY <1>2, OrdersTyped, OfferTyped, PendingIsOffer
  <2>2. f[s.id] = s.remaining
    BY <1>2, <1>6 DEF Offer, Sells
  <2>3. PendingSellShares(d, t.seller, t.company) <= d.shares[<<t.company, t.seller>>]
    BY <1>2 DEF Offered
  <2>4. /\ d.shares[<<t.company, t.seller>>] \in Nat
        /\ PendingSellShares(d, t.seller, t.company) \in Nat
    BY <1>2, PendingIsOffer DEF Database
  <2> HIDE DEF f, S
  <2>5. f[s.id] <= SumOf(f, S)
    BY <2>1, SumHasPart
  <2>. QED BY <1>6, <2>1, <2>2, <2>3, <2>4, <2>5
<1>10. d.shares[<<t.company, t.seller>>] >= n
  <2>1. d.shares[<<t.company, t.seller>>] \in Nat
    BY <1>2 DEF Database
  <2>. QED BY <1>2, <1>6, <1>9, <2>1
<1>11. ASSUME NEW u \in Users, NEW x \in Companies
       PROVE  PendingSellShares(e, u, x) <= e.shares[<<x, u>>]
  <2> DEFINE q == <<x, u>>
  <2>1. /\ PendingSellShares(d, u, x) <= d.shares[q]
        /\ PendingSellShares(d, u, x) \in Nat /\ d.shares[q] \in Nat
    BY PendingIsOffer DEF Offered, Database
  <2>2. Sells(s, u, x) <=> q = <<t.company, t.seller>>
    BY <1>2 DEF Sells
  <2>3. q \in Companies \X Users /\ <<t.company, t.buyer>> # <<t.company, t.seller>>
    BY <1>2
  <2>4. /\ q = <<t.company, t.buyer>> => e.shares[q] = d.shares[q] + n
        /\ q = <<t.company, t.seller>> => e.shares[q] = d.shares[q] - n
        /\ q \notin {<<t.company, t.buyer>>, <<t.company, t.seller>>}
             => e.shares[q] = d.shares[q]
    <3> HIDE DEF q
    <3>. QED BY <1>2, <1>5, <1>10, <2>3 DEF n
  <2>5. PendingSellShares(e, u, x) =
          PendingSellShares(d, u, x) - IF Sells(s, u, x) THEN n ELSE 0
    BY <1>8
  <2> HIDE DEF q
  <2>6. PendingSellShares(e, u, x) <= e.shares[q]
    BY <1>2, <2>1, <2>2, <2>3, <2>4, <2>5
  <2>. QED BY <2>6 DEF q
<1>. QED BY <1>10, <1>11 DEF Offered, t, n

LEMMA SettleConserved ==
  ASSUME NEW d \in Database, NEW o \in Order, NEW c \in Order,
         NEW t \in Trade, t = Fill(o, c), NEW e \in Database, e = Settle(d, o, c),
         t.buyer # t.seller, d.shares[<<t.company, t.seller>>] >= t.shares, Conserved(d)
  PROVE  Conserved(e)
<1> DEFINE Q == Companies \X Users
<1>1. /\ d.shares \in [Q -> Nat] /\ e.shares \in [Q -> Nat]
      /\ t.shares \in Nat /\ t.company \in Companies
      /\ t.buyer \in Users /\ t.seller \in Users
  BY DEF Database, Trade
<1>. SUFFICES ASSUME NEW co \in Companies
              PROVE  Held(e, co) = Held(d, co)
  BY DEF Conserved
<1> DEFINE f == [u \in Users |-> d.shares[<<co, u>>]]
           g == [u \in Users |-> e.shares[<<co, u>>]]
<1>2. /\ IsFiniteSet(Users)
      /\ f \in [Users -> Int] /\ g \in [Users -> Int]
  BY <1>1, ExchangeAssumption
<1>3. Held(d, co) = SumOf(f, Users) /\ Held(e, co) = SumOf(g, Users)
  BY DEF Held
<1>4. \A u \in Users :
        /\ <<co, u>> = <<t.company, t.buyer>> => g[u] = f[u] + t.shares
        /\ <<co, u>> = <<t.company, t.seller>> => g[u] = f[u] - t.shares
        /\ <<co, u>> \notin {<<t.company, t.buyer>>, <<t.company, t.seller>>}
             => g[u] = f[u]
  BY SettleMoves, SMTT(30)
<1> HIDE DEF f, g
<1>5. CASE co # t.company
  <2>1. \A u \in Users : g[u] = f[u] /\ f[u] \in Int
    BY <1>2, <1>4, <1>5
  <2>. QED BY <1>2, <1>3, <2>1, SumsAgree
<1>6. CASE co = t.company
  <2>1. /\ g[t.buyer] = f[t.buyer] + t.shares
        /\ g[t.seller] = f[t.seller] - t.shares
        /\ \A u \in Users : u \notin {t.buyer, t.seller} => g[u] = f[u]
    BY <1>1, <1>4, <1>6
  <2>2. t.shares \in Int
    BY <1>1
  <2>. QED BY <1>1, <1>2, <1>3, <2>1, <2>2, SumExchange
<1>. QED BY <1>5, <1>6

LEMMA SettleBooked ==
  ASSUME NEW d \in Database, Sound(d), Booked(d), NEW o \in Order, NEW c \in Order,
         Tradable(d, o, c), NEW e \in Database, e = Settle(d, o, c), SameBook(e, d)
  PROVE  Booked(e)
<1> DEFINE t == Fill(o, c)
<1>1. t \in Trade /\ t.buyer # t.seller
  BY FillFact DEF Tradable, Allowed
<1>2. Accounted(e)
  BY SettleAccounted DEF Booked
<1>3. Offered(e) /\ d.shares[<<t.company, t.seller>>] >= t.shares
  BY SettleOffered DEF Booked
<1> HIDE DEF t
<1>4. Conserved(e)
  BY <1>1, <1>3, SettleConserved DEF Booked, t
<1>. QED BY <1>2, <1>3, <1>4 DEF Booked

\* A new order that offers no more than its user still has.
LEMMA AppendBooked ==
  ASSUME NEW d \in Database, Sound(d), Booked(d), NEW o \in Order, NEW e \in Database,
         e.orders = Append(d.orders, o), e.shares = d.shares, e.trades = d.trades,
         o.status = "open", o.remaining = o.shares, 0 < o.shares,
         o.side = "sell" =>
           PendingSellShares(d, o.user, o.company) + o.shares <= d.shares[<<o.company, o.user>>]
  PROVE  Booked(e)
<1>1. /\ e.orders = Append(d.orders, o) /\ e.shares = d.shares /\ e.trades = d.trades
      /\ d.orders \in Seq(Order)
  BY DEF Database
<1> DEFINE k == Len(d.orders) + 1
<1>2. /\ OrderIds(e) = OrderIds(d) \cup {k} /\ k \notin OrderIds(d) /\ e.orders[k] = o
      /\ \A i \in OrderIds(d) : e.orders[i] = d.orders[i]
  BY <1>1 DEF OrderIds
<1>3. \A i : TradedShares(e, i) = TradedShares(d, i)
  BY <1>1 DEF TradedShares, TradeIds
<1>4. TradedShares(d, k) = 0
  BY <1>2, NothingTraded DEF Sound
<1> HIDE DEF k
<1>5. Accounted(e)
  <2>1. \A i \in OrderIds(d) :
          LET x == e.orders[i] IN
          /\ x.shares = x.remaining + TradedShares(e, i)
          /\ x.status = "filled" <=> x.remaining = 0
          /\ x.status = "open" => x.remaining = x.shares
          /\ x.status = "partial" => x.remaining < x.shares
    <3> TAKE i \in OrderIds(d)
    <3>1. e.orders[i] = d.orders[i] /\ TradedShares(e, i) = TradedShares(d, i)
      BY <1>2, <1>3
    <3>. QED BY <3>1, Zenon DEF Booked, Accounted
  <2>2. o.shares \in Nat
    BY DEF Order
  <2>3. TradedShares(e, k) = 0
    BY <1>3, <1>4
  <2>4. /\ o.shares = o.remaining + TradedShares(e, k)
        /\ o.status = "filled" <=> o.remaining = 0
        /\ o.status = "open" => o.remaining = o.shares
        /\ o.status = "partial" => o.remaining < o.shares
    BY <2>2, <2>3
  <2>. QED BY <1>2, <2>1, <2>4 DEF Accounted
<1>60. \A u, c : PendingSellShares(e, u, c) =
                   PendingSellShares(d, u, c) + IF Sells(o, u, c) THEN OpenShares(o) ELSE 0
  <2> TAKE u, c
  <2>. QED BY PendingAppend
<1>6. Offered(e)
  <2>0. e.shares = d.shares
    BY <1>1
  <2> SUFFICES ASSUME NEW u \in Users, NEW c \in Companies
               PROVE  PendingSellShares(e, u, c) <= d.shares[<<c, u>>]
    BY <2>0, Zenon DEF Offered
  <2>1. PendingSellShares(e, u, c) =
          PendingSellShares(d, u, c) + IF Sells(o, u, c) THEN OpenShares(o) ELSE 0
    BY <1>60
  <2>2. /\ PendingSellShares(d, u, c) <= d.shares[<<c, u>>]
        /\ PendingSellShares(d, u, c) \in Nat
    BY PendingIsOffer DEF Booked, Offered
  <2>3. OpenShares(o) = o.shares
    BY DEF OpenShares, Live
  <2>. QED BY <2>1, <2>2, <2>3 DEF Sells
<1>7. Conserved(e)
  BY <1>1 DEF Booked, Conserved, Held
<1>. QED BY <1>5, <1>6, <1>7 DEF Booked

\* A live order is withdrawn.
LEMMA CancelBooked ==
  ASSUME NEW d \in Database, Sound(d), Booked(d), NEW k \in OrderIds(d),
         d.orders[k].status \in Live, NEW e \in Database, SameBook(e, d),
         e.orders[k].remaining = d.orders[k].remaining, e.orders[k].status = "cancelled",
         \A i \in OrderIds(d) : i # k => e.orders[i] = d.orders[i],
         e.shares = d.shares, e.trades = d.trades
  PROVE  Booked(e)
<1> DEFINE row == e.orders[k]
<1>1. /\ d.orders[k] \in Order /\ e.shares = d.shares /\ e.trades = d.trades
      /\ Len(e.orders) = Len(d.orders)
  BY OrdersTyped DEF SameBook
<1>3. OrderIds(e) = OrderIds(d)
  BY <1>1 DEF OrderIds
<1>2. /\ Terms(row, d.orders[k]) /\ row.remaining = d.orders[k].remaining
      /\ row.status = "cancelled" /\ row \in Order
  BY <1>1, <1>3, OrdersTyped DEF SameBook
<1>5. Accounted(e)
  <2>1. \A i : TradedShares(e, i) = TradedShares(d, i)
    BY <1>1 DEF TradedShares, TradeIds
  <2>2. 0 < d.orders[k].remaining
    BY DEF Sound, OrdersSound
  <2>3. \A i \in OrderIds(d) : i # k =>
          LET x == e.orders[i] IN
          /\ x.shares = x.remaining + TradedShares(e, i)
          /\ x.status = "filled" <=> x.remaining = 0
          /\ x.status = "open" => x.remaining = x.shares
          /\ x.status = "partial" => x.remaining < x.shares
    BY <1>3, <2>1 DEF Booked, Accounted
  <2>4. /\ row.shares = row.remaining + TradedShares(e, k)
        /\ row.status = "filled" <=> row.remaining = 0
        /\ row.status = "open" => row.remaining = row.shares
        /\ row.status = "partial" => row.remaining < row.shares
    <3>1. /\ row.shares = d.orders[k].shares /\ row.remaining = d.orders[k].remaining
          /\ row.status = "cancelled" /\ d.orders[k].remaining \in Nat
      BY <1>1, <1>2 DEF Terms, Order
    <3>2. d.orders[k].shares = d.orders[k].remaining + TradedShares(d, k)
      BY DEF Booked, Accounted
    <3>3. TradedShares(e, k) = TradedShares(d, k)
      BY <2>1
    <3>. QED BY <2>2, <3>1, <3>2, <3>3
  <2>. QED BY <1>3, <2>3, <2>4 DEF Accounted
<1>60. \A u, c : PendingSellShares(e, u, c) =
                   PendingSellShares(d, u, c)
                     + IF Sells(d.orders[k], u, c) THEN OpenShares(e.orders[k]) - OpenShares(d.orders[k])
                       ELSE 0
  <2> TAKE u, c
  <2>1. \A i \in OrderIds(d) :
          i # k /\ d.orders[i].side = "sell" => OpenShares(e.orders[i]) = OpenShares(d.orders[i])
    BY Zenon
  <2>. QED BY <2>1, PendingRow
<1>6. Offered(e)
  <2>0. e.shares = d.shares
    BY <1>1
  <2> SUFFICES ASSUME NEW u \in Users, NEW c \in Companies
               PROVE  PendingSellShares(e, u, c) <= d.shares[<<c, u>>]
    BY <2>0, Zenon DEF Offered
  <2>1. PendingSellShares(e, u, c) =
          PendingSellShares(d, u, c)
            + IF Sells(d.orders[k], u, c) THEN OpenShares(e.orders[k]) - OpenShares(d.orders[k]) ELSE 0
    BY <1>60
  <2>2. /\ PendingSellShares(d, u, c) <= d.shares[<<c, u>>]
        /\ PendingSellShares(d, u, c) \in Nat /\ d.shares[<<c, u>>] \in Nat
    BY PendingIsOffer DEF Booked, Offered, Database
  <2>3. OpenShares(e.orders[k]) = 0 /\ OpenShares(d.orders[k]) \in Nat
    BY <1>1, <1>2, <1>3 DEF OpenShares, Live, Order
  <2>. QED BY <2>1, <2>2, <2>3
<1>7. Conserved(e)
  BY <1>1 DEF Booked, Conserved, Held
<1>. QED BY <1>5, <1>6, <1>7 DEF Booked

LEMMA BookedPersists ==
  ASSUME NEW d, NEW e, Booked(d),
         e.orders = d.orders, e.shares = d.shares, e.trades = d.trades
  PROVE  Booked(e)
<1>1. Accounted(e)
  BY DEF Booked, Accounted, TradedShares, TradeIds, OrderIds
<1>2. Offered(e)
  BY DEF Booked, Offered, PendingSellShares, OrderIds
<1>3. Conserved(e)
  BY DEF Booked, Conserved, Held
<1>. QED BY <1>1, <1>2, <1>3 DEF Booked

-----------------------------------------------------------------------------
(* A settlement: e is what order o, with the resting orders B still to be      *)
(* traded, has made of the rows d so far                                     *)

\* q is to be served before m.
Better(o, q, m) ==
  /\ q.status \in Live /\ q.side = m.side /\ q.company = m.company /\ q.user # o.user
  /\ \/ q.side = "sell" /\ q.price < m.price
     \/ q.side = "buy" /\ q.price > m.price
     \/ q.price = m.price /\ CreatedAt[q.id] < CreatedAt[m.id]

\* Trade t is with an earlier order, at its price, and whatever was to be served
\* before has been.
InOrder(d, e, o, t) ==
  \E k \in OrderIds(d) :
    /\ k < o.id /\ d.orders[k] \in Matching(d, o)
    /\ t.buyOrder = (IF o.side = "buy" THEN o.id ELSE k)
    /\ t.sellOrder = (IF o.side = "buy" THEN k ELSE o.id)
    /\ t.price = d.orders[k].price
    /\ \A j \in OrderIds(d) :
         Better(o, d.orders[j], d.orders[k]) => e.orders[j].status = "filled"

Settling(d, e, o, B) ==
  /\ o.id \in OrderIds(e) /\ o = e.orders[o.id]
  /\ o.status \in Live \/ o.remaining = 0
  /\ o.id = Len(d.orders)
  /\ \A c \in B : c \in Matching(d, o) /\ c = e.orders[c.id]
  /\ \A j \in OrderIds(d) :
       /\ e.orders[j].status \in Live => d.orders[j].status \in Live
       /\ d.orders[j] \in Matching(d, o) =>
            d.orders[j] \in B \/ e.orders[j].status = "filled" \/ o.remaining = 0
  /\ Len(e.trades) >= Len(d.trades)
  /\ \A i \in 1 .. Len(d.trades) : e.trades[i] = d.trades[i]
  /\ \A i \in Len(d.trades) + 1 .. Len(e.trades) : InOrder(d, e, o, e.trades[i])

\* What is found depends on the terms of the order and on the rows of orders.
LEMMA MatchingSame ==
  ASSUME NEW d, NEW e, NEW o, NEW p, e.orders = d.orders, Terms(p, o)
  PROVE  Matching(e, p) = Matching(d, o)
BY DEF Matching, Terms, Crosses, OrderIds

LEMMA MatchingRows ==
  ASSUME NEW d \in Database, OrdersSound(d), NEW o, NEW c \in Matching(d, o)
  PROVE  /\ c.id \in OrderIds(d) /\ d.orders[c.id] = c
         /\ c.status \in Live /\ c.company = o.company /\ c.side # o.side
         /\ c.user # o.user /\ Crosses(o, c)
BY DEF Matching, OrdersSound

\* What would be served before a resting order crosses as well, and comes first.
LEMMA BetterMatches ==
  ASSUME NEW d \in Database, OrdersSound(d), NEW o \in Order,
         NEW j \in OrderIds(d), NEW k \in OrderIds(d), d.orders[k] \in Matching(d, o),
         Better(o, d.orders[j], d.orders[k])
  PROVE  d.orders[j] \in Matching(d, o) /\ Before(o, d.orders[j], d.orders[k])
<1> DEFINE q == d.orders[j]
           m == d.orders[k]
<1>1. /\ m.company = o.company /\ m.side # o.side /\ Crosses(o, m)
      /\ q \in Order /\ m \in Order
  BY MatchingRows, OrdersTyped
<1>2. /\ q.price \in Nat /\ m.price \in Nat /\ o.price \in Nat
      /\ q.side \in Sides /\ m.side \in Sides /\ o.side \in Sides
  BY <1>1 DEF Order
<1>3. /\ q.status \in Live /\ q.company = o.company /\ q.side # o.side /\ q.user # o.user
      /\ q.side = m.side
  BY <1>1 DEF Better
<1>4. Crosses(o, q) /\ Before(o, q, m)
  <2>1. \/ q.side = "sell" /\ q.price < m.price
        \/ q.side = "buy" /\ q.price > m.price
        \/ q.price = m.price /\ CreatedAt[q.id] < CreatedAt[m.id]
    BY DEF Better
  <2>. QED BY <1>1, <1>2, <1>3, <2>1 DEF Crosses, Before, Sides
<1>5. q \in Matching(d, o)
  BY <1>3, <1>4 DEF Matching
<1>. QED BY <1>4, <1>5

LEMMA SettlingBegins ==
  ASSUME NEW d \in Database, OrdersSound(d), NEW o \in Order, o.id = Len(d.orders),
         o.id \in OrderIds(d), o = d.orders[o.id], o.status \in Live
  PROVE  Settling(d, d, o, Matching(d, o))
<1>1. Len(d.trades) \in Nat
  BY DEF Database
<1>2. \A c \in Matching(d, o) : c = d.orders[c.id]
  BY MatchingRows
<1>3. Len(d.trades) + 1 .. Len(d.trades) = {}
  BY <1>1
<1>. QED BY <1>1, <1>2, <1>3 DEF Settling

\* One more turn: the best of the resting orders is traded.
LEMMA SettlingGoesOn ==
  ASSUME NEW d \in Database, OrdersSound(d), NEW e \in Database, Len(e.orders) = Len(d.orders),
         NEW o \in Order, NEW B \in SUBSET Order, Settling(d, e, o, B),
         NEW c \in Heads(o, B), Tradable(e, o, c),
         NEW f \in Database, f = Settle(e, o, c),
         NEW p, p = Reduced(o, Fill(o, c).shares)
  PROVE  Settling(d, f, p, B \ {c})
<1> DEFINE t == Fill(o, c)
           n == t.shares
           q == Reduced(c, n)
<1>1. /\ c \in B /\ c \in Order /\ c \in Matching(d, o)
      /\ \A s \in B : ~Before(o, s, c)
  BY DEF Heads, Settling
<1>2. /\ t \in Trade /\ 0 < n /\ n <= o.remaining /\ n <= c.remaining
      /\ t.price = c.price
      /\ t.buyOrder = (IF o.side = "buy" THEN o.id ELSE c.id)
      /\ t.sellOrder = (IF o.side = "buy" THEN c.id ELSE o.id)
  <2>1. t.price = c.price
    BY DEF Fill
  <2>. QED BY <1>1, <2>1, FillFact DEF Tradable
<1>3. n \in Nat /\ (n = o.remaining \/ n = c.remaining)
  <2>1. n \in Nat
    BY <1>2 DEF Trade
  <2>2. n = Least(o.remaining, c.remaining)
    BY DEF Fill
  <2>. QED BY <2>1, <2>2 DEF Least
<1>4. f.trades = Append(e.trades, t)
  BY <1>1, <1>2, SettleMoves
<1>5. /\ o.id # c.id /\ Len(f.orders) = Len(e.orders)
      /\ \A i \in OrderIds(e) :
           f.orders[i] = IF i = o.id THEN p ELSE IF i = c.id THEN q ELSE e.orders[i]
  BY <1>1, SettleOrders
<1>6. /\ p \in Order /\ Terms(p, o) /\ p.id = o.id /\ p.remaining = o.remaining - n
      /\ p.status = IF o.remaining = n THEN "filled" ELSE "partial"
  BY <1>2, <1>3, SettleReduces DEF Tradable
<1>7. /\ q \in Order /\ q.id = c.id /\ q.remaining = c.remaining - n
      /\ q.status = IF c.remaining = n THEN "filled" ELSE "partial"
  BY <1>1, <1>2, <1>3, SettleReduces DEF Tradable
<1>8. Matching(d, p) = Matching(d, o)
  BY <1>6, MatchingSame
<1>9. OrderIds(f) = OrderIds(e) /\ OrderIds(e) = OrderIds(d)
  BY <1>5 DEF OrderIds
<1>10. c.id \in OrderIds(d) /\ d.orders[c.id] = c
  BY <1>1, MatchingRows
<1>11. o.remaining \in Nat /\ c.remaining \in Nat /\ o.remaining # 0
  BY <1>1 DEF Order, Tradable
<1> HIDE DEF t, n, q
<1>12. p.id \in OrderIds(f) /\ p = f.orders[p.id] /\ p.id = Len(d.orders)
  BY <1>5, <1>6, <1>9 DEF Tradable, Settling
<1>13. p.status \in Live \/ p.remaining = 0
  BY <1>3, <1>6, <1>11 DEF Live
\* A filled order stays so, and nothing that was done comes back.
<1>14. \A j \in OrderIds(d) :
         /\ e.orders[j].status = "filled" => f.orders[j].status = "filled"
         /\ f.orders[j].status \in Live => e.orders[j].status \in Live
  BY <1>5, <1>9 DEF Tradable, Live
<1>15. \A b \in B \ {c} : b \in Matching(d, p) /\ b = f.orders[b.id]
  <2> TAKE b \in B \ {c}
  <2>1. b \in Matching(d, o) /\ b = e.orders[b.id]
    BY DEF Settling
  <2>2. b.id \in OrderIds(d) /\ d.orders[b.id] = b /\ b.user # o.user
    BY <2>1, MatchingRows
  <2>3. b.id # c.id
    BY <1>10, <2>2
  <2>4. b.id # o.id
    BY <2>1, <2>2 DEF Tradable
  <2>. QED BY <1>5, <1>8, <1>9, <2>1, <2>2, <2>3, <2>4
<1>16. \A j \in OrderIds(d) :
         /\ f.orders[j].status \in Live => d.orders[j].status \in Live
         /\ d.orders[j] \in Matching(d, p) =>
              d.orders[j] \in B \ {c} \/ f.orders[j].status = "filled" \/ p.remaining = 0
  <2> TAKE j \in OrderIds(d)
  <2>1. /\ e.orders[j].status \in Live => d.orders[j].status \in Live
        /\ d.orders[j] \in Matching(d, o) =>
             d.orders[j] \in B \/ e.orders[j].status = "filled"
    BY <1>11 DEF Settling
  <2>2. d.orders[j] = c => f.orders[j] = q
    <3>1. d.orders[j] = c => j = c.id
      BY DEF OrdersSound
    <3>. QED BY <1>5, <1>9, <3>1
  <2>3. q.status = "filled" \/ p.remaining = 0
    BY <1>3, <1>6, <1>7, <1>11
  <2>. QED BY <1>8, <1>14, <2>1, <2>2, <2>3
<1>17. /\ e.trades \in Seq(Trade) /\ d.trades \in Seq(Trade)
       /\ Len(e.trades) >= Len(d.trades)
       /\ \A i \in 1 .. Len(d.trades) : e.trades[i] = d.trades[i]
  BY DEF Settling, Database
<1>18. /\ Len(f.trades) = Len(e.trades) + 1 /\ f.trades[Len(e.trades) + 1] = t
       /\ \A i \in 1 .. Len(e.trades) : f.trades[i] = e.trades[i]
  BY <1>2, <1>4, <1>17
<1>19. /\ Len(f.trades) >= Len(d.trades)
       /\ \A i \in 1 .. Len(d.trades) : f.trades[i] = d.trades[i]
  BY <1>17, <1>18
<1>20. InOrder(d, f, p, t)
  <2>1. c.id < p.id
    <3>1. c.id \in 1 .. Len(d.orders) /\ o.id = Len(d.orders)
      BY <1>10 DEF Settling, OrderIds
    <3>. QED BY <1>5, <1>6, <3>1
  <2>2. \A j \in OrderIds(d) : Better(p, d.orders[j], c) => f.orders[j].status = "filled"
    <3> TAKE j \in OrderIds(d)
    <3>1. Better(p, d.orders[j], c) => Better(o, d.orders[j], d.orders[c.id])
      BY <1>6, <1>10 DEF Better, Terms
    <3>2. Better(o, d.orders[j], d.orders[c.id]) =>
            d.orders[j] \in Matching(d, o) /\ Before(o, d.orders[j], c)
      BY <1>1, <1>10, BetterMatches
    <3>3. d.orders[j] \in Matching(d, o) =>
            d.orders[j] \in B \/ e.orders[j].status = "filled"
      BY <1>11 DEF Settling
    <3>. QED BY <1>1, <1>14, <3>1, <3>2, <3>3
  <2>. QED BY <1>1, <1>2, <1>6, <1>8, <1>10, <2>1, <2>2 DEF InOrder, Terms
<1>21. \A x : InOrder(d, e, o, x) => InOrder(d, f, p, x)
  <2> SUFFICES ASSUME NEW x, InOrder(d, e, o, x)
               PROVE  InOrder(d, f, p, x)
    OBVIOUS
  <2>1. PICK k \in OrderIds(d) :
          /\ k < o.id /\ d.orders[k] \in Matching(d, o)
          /\ x.buyOrder = (IF o.side = "buy" THEN o.id ELSE k)
          /\ x.sellOrder = (IF o.side = "buy" THEN k ELSE o.id)
          /\ x.price = d.orders[k].price
          /\ \A j \in OrderIds(d) :
               Better(o, d.orders[j], d.orders[k]) => e.orders[j].status = "filled"
    BY DEF InOrder
  <2>2. \A j \in OrderIds(d) :
          Better(p, d.orders[j], d.orders[k]) => f.orders[j].status = "filled"
    BY <1>6, <1>14, <2>1 DEF Better, Terms
  <2>. QED BY <1>6, <1>8, <2>1, <2>2 DEF InOrder, Terms
<1>22. \A i \in Len(d.trades) + 1 .. Len(f.trades) : InOrder(d, f, p, f.trades[i])
  <2>1. \A i \in Len(d.trades) + 1 .. Len(e.trades) : InOrder(d, e, o, e.trades[i])
    BY DEF Settling
  <2> TAKE i \in Len(d.trades) + 1 .. Len(f.trades)
  <2>2. CASE i = Len(e.trades) + 1
    BY <1>18, <1>20, <2>2
  <2>3. CASE i # Len(e.trades) + 1
    <3>1. i \in Len(d.trades) + 1 .. Len(e.trades) /\ i \in 1 .. Len(e.trades)
      BY <1>17, <1>18, <2>3
    <3>. QED BY <1>18, <1>21, <2>1, <3>1
  <2>. QED BY <2>2, <2>3
<1>. QED BY <1>12, <1>13, <1>15, <1>16, <1>19, <1>22 DEF Settling

-----------------------------------------------------------------------------
(* The invariant of one request at a time *)

OneAtATime == \A r, q \in Requests : r = q

\* Live orders of two users who would trade.
Crossing(a, b) ==
  /\ a.status \in Live /\ b.status \in Live
  /\ a.company = b.company /\ a.user # b.user /\ a.side # b.side
  /\ IF a.side = "buy" THEN a.price >= b.price ELSE a.price <= b.price

\* Order i is being matched.
Matched(i) == \E r \in Requests : pc[r] \in Matchmaking /\ mine[r].id = i

Uncrossed ==
  \A i, j \in OrderIds(db) :
    i < j /\ Crossing(db.orders[i], db.orders[j]) => j \in failed \/ Matched(j)

\* What the handler holds are the rows.
HandlerInv(r) ==
  LET o == mine[r] IN
  /\ pc[r] \in {"pending", "insert"} => o.status = "open"
  /\ pc[r] = "pending" /\ o.side = "sell" => have[r] = db.shares[<<o.company, o.user>>]
  /\ pc[r] = "insert" /\ o.side = "sell" =>
       PendingSellShares(db, o.user, o.company) + o.shares <= db.shares[<<o.company, o.user>>]
  /\ pc[r] \in {"match", "begin", "cancel"} => o = db.orders[o.id] /\ o.status \in Live
  /\ pc[r] \in {"match", "begin"} => o.id = Len(db.orders)
  /\ pc[r] = "begin" => book[r] = Matching(db, o)
  /\ pc[r] = "settle" => Settling(db, tx, o, book[r])

SerialInv ==
  /\ Booked(db) /\ (conn # None => Booked(tx))
  /\ Uncrossed
  /\ \A r \in Requests : HandlerInv(r)

\* Two orders cross exactly if the later one would find the earlier one.
LEMMA CrossingMatches ==
  ASSUME NEW d \in Database, NEW i \in OrderIds(d), NEW o \in Order,
         Crossing(d.orders[i], o)
  PROVE  d.orders[i] \in Matching(d, o)
<1> DEFINE m == d.orders[i]
<1>1. m \in Order
  BY OrdersTyped
<1>2. /\ m.side \in Sides /\ o.side \in Sides /\ m.price \in Nat /\ o.price \in Nat
  BY <1>1 DEF Order
<1>3. /\ m.status \in Live /\ m.company = o.company /\ m.user # o.user /\ m.side # o.side
      /\ Crosses(o, m)
  BY <1>2 DEF Crossing, Crosses, Sides
<1>. QED BY <1>3 DEF Matching

LEMMA SerialInit == Init => SerialInv
<1> SUFFICES ASSUME Init PROVE SerialInv
  OBVIOUS
<1>1. /\ db.orders = <<>> /\ db.trades = <<>> /\ db.shares = Founding /\ conn = None
      /\ \A r \in Requests : pc[r] = "idle"
  BY DEF Init
<1>2. OrderIds(db) = {}
  BY <1>1 DEF OrderIds
<1>3. Accounted(db) /\ Uncrossed
  BY <1>2 DEF Accounted, Uncrossed
<1>4. Conserved(db)
  BY <1>1 DEF Conserved, Held, TotalShares
<1>5. Offered(db)
  <2> SUFFICES ASSUME NEW u \in Users, NEW c \in Companies
               PROVE  PendingSellShares(db, u, c) <= db.shares[<<c, u>>]
    BY DEF Offered
  <2>1. {i \in OrderIds(db) : /\ db.orders[i].user = u /\ db.orders[i].side = "sell"
                              /\ db.orders[i].status \in Live
                              /\ db.orders[i].company = c} = {}
    BY <1>2
  <2>2. PendingSellShares(db, u, c) = 0
    BY <2>1, SumOfNothing DEF PendingSellShares
  <2>3. db.shares[<<c, u>>] \in Nat
    BY <1>1, ExchangeAssumption
  <2>. QED BY <2>2, <2>3
<1>6. \A r \in Requests : HandlerInv(r)
  BY <1>1 DEF HandlerInv
<1>. QED BY <1>1, <1>3, <1>4, <1>5, <1>6 DEF SerialInv, Booked

\* What is there of the invariants at a step of handler r.
LEMMA OnlyHandler ==
  ASSUME OneAtATime, IInv, SerialInv, NEW r \in Requests
  PROVE  /\ \A q \in Requests : q = r
         /\ db \in Database /\ Sound(db) /\ OrdersSound(db) /\ Booked(db)
         /\ HandlerInv(r) /\ LocalsSound(r)
         /\ pc[r] # "idle" => mine[r] \in Order
         /\ pc[r] \in Placed => mine[r].id \in OrderIds(db)
         /\ \A i : Matched(i) <=> pc[r] \in Matchmaking /\ mine[r].id = i
         /\ r # None
BY ExchangeAssumption DEF OneAtATime, IInv, TypeOK, SerialInv, Sound, Matched

\* A step that keeps rows and failures, and no order stops being matched.
LEMMA SerialLocal ==
  ASSUME OneAtATime, IInv, SerialInv, NEW r \in Requests,
         UNCHANGED <<db, tx, conn, failed>>, HandlerInv(r)',
         pc[r] \in Matchmaking => pc'[r] \in Matchmaking /\ mine'[r] = mine[r]
  PROVE  SerialInv'
<1>1. \A q \in Requests : HandlerInv(q)'
  BY OnlyHandler
<1>2. \A j : Matched(j) => Matched(j)'
  BY OnlyHandler DEF Matched
<1>3. Uncrossed'
  BY <1>2 DEF SerialInv, Uncrossed
<1>4. Booked(db)' /\ (conn # None => Booked(tx))'
  BY DEF SerialInv
<1>. QED BY <1>1, <1>3, <1>4 DEF SerialInv

LEMMA PlaceOrderSerial ==
  ASSUME OneAtATime, IInv, SerialInv, NEW r \in Requests, NEW u \in Users,
         NEW c \in Companies, NEW side \in Sides, NEW n \in Quantities, NEW p \in Prices,
         PlaceOrder(r, u, c, side, n, p)
  PROVE  SerialInv'
<1> DEFINE o == [id |-> 0, user |-> u, company |-> c, side |-> side, shares |-> n,
                 remaining |-> n, price |-> p, status |-> "open"]
           h == IF side = "buy" THEN db.wallet[<<u, ClassroomOf[c]>>] ELSE db.shares[<<c, u>>]
<1>1. /\ mine' = [mine EXCEPT ![r] = o] /\ have' = [have EXCEPT ![r] = h]
      /\ pc' = [pc EXCEPT ![r] = "pending"] /\ pc[r] = "idle"
      /\ UNCHANGED <<db, tx, conn, failed>>
  BY DEF PlaceOrder, Statement, Goto
<1>2. /\ mine'[r] = o /\ have'[r] = h /\ pc'[r] = "pending"
  BY <1>1 DEF IInv, TypeOK
<1>3. /\ o.status = "open" /\ o.user = u /\ o.company = c /\ o.side = side
  OBVIOUS
<1> HIDE DEF o
<1>4. HandlerInv(r)'
  BY <1>1, <1>2, <1>3 DEF HandlerInv
<1>. QED BY <1>1, <1>4, SerialLocal DEF Matchmaking

LEMMA AcceptOrderSerial ==
  ASSUME OneAtATime, IInv, SerialInv, NEW r \in Requests, AcceptOrder(r)
  PROVE  SerialInv'
<1>1. /\ pc' = [pc EXCEPT ![r] = "insert"] /\ pc[r] = "pending"
      /\ Affordable(db, mine[r], have[r])
      /\ UNCHANGED <<db, tx, conn, mine, failed>>
  BY DEF AcceptOrder, Statement, Goto
<1>2. pc'[r] = "insert" /\ mine'[r] = mine[r]
  BY <1>1 DEF IInv, TypeOK
<1> DEFINE o == mine[r]
<1>3. /\ o \in Order /\ db \in Database /\ HandlerInv(r)
  BY <1>1, OnlyHandler
<1>4. o.status = "open" /\ (o.side = "sell" => have[r] = db.shares[<<o.company, o.user>>])
  BY <1>1, <1>3 DEF HandlerInv
<1>5. /\ o.shares \in Nat /\ PendingSellShares(db, o.user, o.company) \in Nat
      /\ db.shares[<<o.company, o.user>>] \in Nat
  <2>1. o.user \in Users /\ o.company \in Companies
    BY <1>3 DEF Order
  <2>. QED BY <1>3, <2>1, PendingIsOffer DEF Order, Database
<1>6. o.side = "sell" =>
        PendingSellShares(db, o.user, o.company) + o.shares <= db.shares[<<o.company, o.user>>]
  BY <1>1, <1>4, <1>5 DEF Affordable
<1> HIDE DEF o
<1>7. HandlerInv(r)'
  BY <1>1, <1>2, <1>4, <1>6 DEF HandlerInv, o
<1>. QED BY <1>1, <1>7, SerialLocal DEF Matchmaking

\* A handler that has answered knows nothing.
LEMMA IdleInv ==
  ASSUME NEW r \in Requests, pc[r] = "idle"
  PROVE  HandlerInv(r)
BY DEF HandlerInv

LEMMA RefuseOrderSerial ==
  ASSUME OneAtATime, IInv, SerialInv, NEW r \in Requests, RefuseOrder(r)
  PROVE  SerialInv'
<1>1. /\ pc[r] = "pending" /\ pc'[r] = "idle"
      /\ UNCHANGED <<db, tx, conn, failed>>
  BY ReturnFact DEF RefuseOrder, Statement, IInv
<1>2. HandlerInv(r)'
  BY <1>1 DEF HandlerInv
<1>. QED BY <1>1, <1>2, SerialLocal DEF Matchmaking

LEMMA FindMatchesSerial ==
  ASSUME OneAtATime, IInv, SerialInv, NEW r \in Requests, FindMatches(r)
  PROVE  SerialInv'
<1>1. /\ pc' = [pc EXCEPT ![r] = "begin"] /\ pc[r] = "match"
      /\ book' = [book EXCEPT ![r] = Matching(db, mine[r])]
      /\ UNCHANGED <<db, tx, conn, mine, failed>>
  BY DEF FindMatches, Statement, Goto
<1>2. pc'[r] = "begin" /\ mine'[r] = mine[r] /\ book'[r] = Matching(db, mine[r])
  BY <1>1 DEF IInv, TypeOK
<1>3. HandlerInv(r)
  BY OnlyHandler
<1>4. HandlerInv(r)'
  BY <1>1, <1>2, <1>3 DEF HandlerInv
<1>. QED BY <1>1, <1>2, <1>4, SerialLocal DEF Matchmaking

LEMMA FindNoMatchSerial ==
  ASSUME OneAtATime, IInv, SerialInv, NEW r \in Requests, FindNoMatch(r)
  PROVE  SerialInv'
<1>1. /\ pc[r] = "match" /\ pc'[r] = "idle" /\ Matching(db, mine[r]) = {}
      /\ UNCHANGED <<db, tx, conn, failed>>
  BY ReturnFact DEF FindNoMatch, Statement, IInv
<1>2. \A q \in Requests : HandlerInv(q)'
  BY <1>1, OnlyHandler DEF HandlerInv
<1>3. /\ mine[r] \in Order /\ mine[r] = db.orders[mine[r].id] /\ db \in Database
  BY <1>1, OnlyHandler DEF HandlerInv
<1>4. \A i, j \in OrderIds(db) :
        i < j /\ Crossing(db.orders[i], db.orders[j]) => j \in failed
  <2> TAKE i, j \in OrderIds(db)
  <2> HAVE i < j /\ Crossing(db.orders[i], db.orders[j])
  <2>1. j \in failed \/ Matched(j)
    BY DEF SerialInv, Uncrossed
  <2>2. ~Matched(j)
    <3> SUFFICES ASSUME mine[r].id = j PROVE FALSE
      BY OnlyHandler
    <3>. QED BY <1>1, <1>3, CrossingMatches
  <2>. QED BY <2>1, <2>2
<1>5. Uncrossed'
  BY <1>1, <1>4 DEF Uncrossed
<1>. QED BY <1>1, <1>2, <1>5 DEF SerialInv

\* A step after which nobody is being served.
LEMMA Answered ==
  ASSUME OneAtATime, NEW r \in Requests, pc'[r] = "idle"
  PROVE  (\A q \in Requests : HandlerInv(q)') /\ (\A j : ~Matched(j)')
BY DEF OneAtATime, HandlerInv, Matched, Matchmaking

LEMMA CreateOrderSerial ==
  ASSUME OneAtATime, IInv, IInv', SerialInv, NEW r \in Requests, CreateOrder(r)
  PROVE  SerialInv'
<1> DEFINE n == Len(db.orders) + 1
           o == [mine[r] EXCEPT !.id = n]
<1>1. /\ conn = None /\ pc[r] = "insert" /\ pc' = [pc EXCEPT ![r] = "match"]
      /\ db' = [db EXCEPT !.orders = Append(@, o)] /\ mine' = [mine EXCEPT ![r] = o]
      /\ UNCHANGED <<tx, conn, failed>>
  BY DEF CreateOrder, Statement, Goto
<1>2. pc'[r] = "match" /\ mine'[r] = o
  BY <1>1 DEF IInv, TypeOK
<1>3. /\ mine[r] \in Order /\ db \in Database /\ db' \in Database
      /\ HandlerInv(r) /\ LocalsSound(r) /\ Sound(db) /\ Booked(db)
  BY <1>1, OnlyHandler DEF IInv, TypeOK
<1>4. n \in Nat /\ db.orders \in Seq(Order)
  BY <1>3 DEF Database
<1>5. /\ o \in Order /\ Terms(o, mine[r]) /\ o.id = n /\ o.status = "open"
      /\ o.remaining = o.shares /\ 0 < o.shares
  BY <1>1, <1>3, <1>4 DEF Order, Terms, HandlerInv, LocalsSound
<1>6. /\ db'.orders = Append(db.orders, o) /\ db'.shares = db.shares /\ db'.trades = db.trades
  BY <1>1, <1>3 DEF Database
<1>7. /\ OrderIds(db') = OrderIds(db) \cup {n} /\ Len(db'.orders) = n
      /\ db'.orders[n] = o /\ \A i \in OrderIds(db) : db'.orders[i] = db.orders[i] /\ i < n
  BY <1>4, <1>6 DEF OrderIds
<1>8. o.side = "sell" =>
        PendingSellShares(db, o.user, o.company) + o.shares <= db.shares[<<o.company, o.user>>]
  BY <1>1, <1>3, <1>5 DEF HandlerInv, Terms
<1> HIDE DEF o, n
<1>9. Booked(db')
  BY <1>3, <1>5, <1>6, <1>8, AppendBooked
<1>10. HandlerInv(r)'
  BY <1>2, <1>5, <1>7 DEF HandlerInv, Live
<1>11. \A q \in Requests : HandlerInv(q)'
  BY <1>10, OnlyHandler
<1>12. Uncrossed'
  <2> SUFFICES ASSUME NEW i \in OrderIds(db'), NEW j \in OrderIds(db'), i < j,
                      Crossing(db'.orders[i], db'.orders[j])
               PROVE  j \in failed \/ Matched(j)'
    BY <1>1 DEF Uncrossed
  <2>1. CASE j = n
    BY <1>2, <1>5, <2>1 DEF Matched, Matchmaking
  <2>2. CASE j # n
    <3>1. i \in OrderIds(db) /\ j \in OrderIds(db)
      BY <1>4, <1>7, <2>2 DEF OrderIds
    <3>2. j \in failed \/ Matched(j)
      BY <1>7, <3>1 DEF SerialInv, Uncrossed
    <3>3. ~Matched(j)
      BY <1>1, OnlyHandler DEF Matchmaking
    <3>. QED BY <3>2, <3>3
  <2>. QED BY <2>1, <2>2
<1>13. conn' = None
  BY <1>1
<1>. QED BY <1>9, <1>11, <1>12, <1>13 DEF SerialInv

LEMMA BeginSettlementSerial ==
  ASSUME OneAtATime, IInv, SerialInv, NEW r \in Requests, BeginSettlement(r)
  PROVE  SerialInv'
<1>1. /\ conn = None /\ pc[r] = "begin" /\ pc' = [pc EXCEPT ![r] = "settle"]
      /\ conn' = r /\ tx' = db /\ UNCHANGED <<db, mine, book, failed>>
  BY DEF BeginSettlement, Statement, Goto
<1>2. pc'[r] = "settle"
  BY <1>1 DEF IInv, TypeOK
<1>3. /\ mine[r] \in Order /\ db \in Database /\ OrdersSound(db) /\ Booked(db) /\ HandlerInv(r)
      /\ mine[r].id \in OrderIds(db)
  BY <1>1, OnlyHandler DEF Placed, Matchmaking
<1>4. /\ mine[r] = db.orders[mine[r].id] /\ mine[r].status \in Live
      /\ mine[r].id = Len(db.orders) /\ book[r] = Matching(db, mine[r])
  BY <1>1, <1>3 DEF HandlerInv
<1>5. Settling(db, db, mine[r], book[r])
  BY <1>3, <1>4, SettlingBegins
<1>6. HandlerInv(r)'
  BY <1>1, <1>2, <1>5 DEF HandlerInv
<1>7. \A q \in Requests : HandlerInv(q)'
  BY <1>6, OnlyHandler
<1>8. \A j : Matched(j) => Matched(j)'
  BY <1>1, <1>2, OnlyHandler DEF Matched, Matchmaking
<1>9. Uncrossed'
  BY <1>1, <1>8 DEF SerialInv, Uncrossed
<1>. QED BY <1>1, <1>3, <1>7, <1>9 DEF SerialInv

\* The settlement takes up two rows that may be traded.
LEMMA SettlesRows ==
  ASSUME OneAtATime, IInv, SerialInv, NEW r \in Requests, conn = r, pc[r] = "settle",
         mine[r].remaining > 0, NEW c \in Heads(mine[r], book[r])
  PROVE  mine[r] \in Order /\ c \in Order /\ c \in book[r] /\ Tradable(tx, mine[r], c)
<1> DEFINE o == mine[r]
           B == book[r]
<1>1. /\ o \in Order /\ db \in Database /\ OrdersSound(db)
      /\ HandlerInv(r) /\ LocalsSound(r) /\ r # None
  BY OnlyHandler
<1>2. tx \in Database /\ SameBook(tx, db) /\ B \in SUBSET Order
  BY <1>1 DEF IInv, TypeOK
<1>3. Settling(db, tx, o, B)
  BY <1>1 DEF HandlerInv
<1>4. c \in B /\ c \in Order
  BY <1>2 DEF Heads
<1>5. c.id \in OrderIds(tx) /\ tx.orders[c.id] = c /\ c.status \in Live
  BY <1>1, <1>2, <1>3, <1>4, MatchingRows DEF Settling, SameBook, OrderIds
<1>6. o.id \in OrderIds(tx) /\ tx.orders[o.id] = o /\ o.status \in Live
  BY <1>3 DEF Settling
<1>7. Opposite(o, c) /\ c.remaining <= c.shares /\ o.remaining <= o.shares
  BY <1>1, <1>4 DEF LocalsSound, Placed, Matchmaking
<1>8. 0 < o.remaining
  BY <1>1 DEF Order
<1>. QED BY <1>1, <1>4, <1>5, <1>6, <1>7, <1>8 DEF Tradable

LEMMA SettleMatchSerial ==
  ASSUME OneAtATime, IInv, IInv', SerialInv, NEW r \in Requests, SettleMatch(r)
  PROVE  SerialInv'
<1>1. PICK c \in Heads(mine[r], book[r]) :
        /\ CanDebit(tx, BuyerWallet(Fill(mine[r], c)), Amount(Fill(mine[r], c)))
        /\ tx' = Settle(tx, mine[r], c)
        /\ mine' = [mine EXCEPT ![r] = Reduced(@, Fill(@, c).shares)]
        /\ book' = [book EXCEPT ![r] = @ \ {c}]
  BY DEF SettleMatch
<1>2. /\ conn = r /\ pc[r] = "settle" /\ mine[r].remaining > 0
      /\ UNCHANGED <<db, conn, pc, failed>>
  BY DEF SettleMatch
<1> DEFINE o == mine[r]
           B == book[r]
           p == Reduced(o, Fill(o, c).shares)
<1>3. mine'[r] = p /\ book'[r] = B \ {c}
  BY <1>1 DEF IInv, TypeOK
<1>4. /\ o \in Order /\ db \in Database /\ OrdersSound(db) /\ Booked(db)
      /\ HandlerInv(r) /\ LocalsSound(r) /\ r # None
  BY <1>2, OnlyHandler
<1>5. /\ tx \in Database /\ tx' \in Database /\ Sound(tx) /\ SameBook(tx, db) /\ Booked(tx)
      /\ B \in SUBSET Order
  BY <1>2, <1>4 DEF IInv, TypeOK, SerialInv
<1>6. Settling(db, tx, o, B)
  BY <1>2, <1>4 DEF HandlerInv
<1>7. c \in B /\ c \in Order /\ Tradable(tx, o, c)
  BY <1>1, <1>2, SettlesRows
<1>10. Copy(tx, o) /\ Copy(tx, c)
  BY <1>7 DEF Copy, Tradable, Terms
<1> HIDE DEF o, B, p
<1>11. SameBook(tx', tx)
  BY <1>1, <1>4, <1>5, <1>7, <1>10, SettleFact DEF Tradable, o
<1>12. Booked(tx')
  BY <1>1, <1>4, <1>5, <1>7, <1>11, SettleBooked DEF o
<1>13. Settling(db, tx', p, B \ {c})
  <2>1. Len(tx.orders) = Len(db.orders)
    BY <1>5 DEF SameBook
  <2>. QED BY <1>1, <1>4, <1>5, <1>6, <1>7, <2>1, SettlingGoesOn DEF o, B, p
<1>14. HandlerInv(r)'
  BY <1>2, <1>3, <1>13 DEF HandlerInv
<1>15. \A q \in Requests : HandlerInv(q)'
  BY <1>14, OnlyHandler
<1>16. p.id = o.id
  BY <1>4 DEF p, Reduced, Order
<1>17. \A j : Matched(j) => Matched(j)'
  BY <1>2, <1>3, <1>16, OnlyHandler DEF Matched, o
<1>18. Uncrossed'
  BY <1>2, <1>17 DEF SerialInv, Uncrossed
<1>. QED BY <1>2, <1>4, <1>12, <1>15, <1>18 DEF SerialInv

LEMMA RollbackSettlementSerial ==
  ASSUME OneAtATime, IInv, SerialInv, NEW r \in Requests, RollbackSettlement(r)
  PROVE  SerialInv'
<1>1. /\ pc[r] = "settle" /\ conn' = None /\ failed' = failed \cup {mine[r].id}
      /\ Return(r) /\ db' = db
  BY DEF RollbackSettlement
<1>2. pc'[r] = "idle"
  BY <1>1, ReturnFact DEF IInv
<1>3. (\A q \in Requests : HandlerInv(q)') /\ Booked(db)
  BY <1>2, Answered, OnlyHandler
<1>4. \A j : j \in failed \/ Matched(j) => j \in failed'
  BY <1>1, OnlyHandler
<1>5. Uncrossed'
  BY <1>1, <1>4 DEF SerialInv, Uncrossed
<1>. QED BY <1>1, <1>3, <1>5 DEF SerialInv

\* What a settlement commits crosses with nothing it found: it went on until its
\* order was filled or all it found was.
LEMMA CommitSettlementSerial ==
  ASSUME OneAtATime, IInv, SerialInv, NEW r \in Requests, CommitSettlement(r)
  PROVE  SerialInv'
<1> DEFINE o == mine[r]
<1>1. /\ conn = r /\ pc[r] = "settle" /\ db' = tx /\ conn' = None /\ failed' = failed
      /\ Return(r) /\ (o.remaining = 0 \/ book[r] = {})
  BY DEF CommitSettlement
<1>2. pc'[r] = "idle"
  BY <1>1, ReturnFact DEF IInv
<1>3. (\A q \in Requests : HandlerInv(q)') /\ (\A j : ~Matched(j)')
  BY <1>2, Answered
<1>4. o \in Order /\ db \in Database /\ HandlerInv(r) /\ r # None
  BY <1>1, OnlyHandler
<1>5. tx \in Database /\ OrdersSound(tx) /\ SameBook(tx, db) /\ Booked(tx)
  BY <1>1, <1>4 DEF IInv, TypeOK, SerialInv, Sound
<1>6. Settling(db, tx, o, book[r])
  BY <1>1, <1>4 DEF HandlerInv
<1>7. OrderIds(tx) = OrderIds(db)
  BY <1>5 DEF SameBook, OrderIds
<1> HIDE DEF o
<1>8. ASSUME NEW i \in OrderIds(db), NEW j \in OrderIds(db), i < j,
             Crossing(tx.orders[i], tx.orders[j])
      PROVE  j \in failed
  <2>1. /\ tx.orders[i].status \in Live /\ db.orders[i].status \in Live
        /\ tx.orders[j].status \in Live /\ db.orders[j].status \in Live
    BY <1>6, <1>8 DEF Settling, Crossing
  <2>2. Terms(tx.orders[i], db.orders[i]) /\ Terms(tx.orders[j], db.orders[j])
    BY <1>5, <1>7, <1>8 DEF SameBook
  <2>3. CASE j = o.id
    <3>1. tx.orders[j] = o /\ 0 < o.remaining
      BY <1>5, <1>6, <1>7, <1>8, <2>1, <2>3 DEF Settling, OrdersSound
    <3>2. book[r] = {} /\ o.remaining # 0
      BY <1>1, <1>4, <3>1 DEF Order, o
    <3>3. Crossing(db.orders[i], o)
      BY <1>8, <2>1, <2>2, <3>1 DEF Crossing, Terms
    <3>4. db.orders[i] \in Matching(db, o)
      BY <1>4, <1>8, <3>3, CrossingMatches
    <3>. QED BY <1>6, <2>1, <3>2, <3>4 DEF Settling, Live
  <2>4. CASE j # o.id
    <3>1. Crossing(db.orders[i], db.orders[j])
      BY <1>8, <2>1, <2>2 DEF Crossing, Terms
    <3>2. j \in failed \/ Matched(j)
      BY <1>8, <3>1 DEF SerialInv, Uncrossed
    <3>. QED BY <2>4, <3>2, OnlyHandler DEF o
  <2>. QED BY <2>3, <2>4
<1>9. Uncrossed'
  BY <1>1, <1>7, <1>8 DEF Uncrossed, OrderIds
<1>. QED BY <1>1, <1>3, <1>5, <1>9 DEF SerialInv

LEMMA ReadCancelledSerial ==
  ASSUME OneAtATime, IInv, SerialInv, NEW r \in Requests, NEW u \in Users,
         NEW i \in OrderIds(db), ReadCancelled(r, u, i)
  PROVE  SerialInv'
<1>1. /\ pc[r] = "idle" /\ pc' = [pc EXCEPT ![r] = "cancel"]
      /\ mine' = [mine EXCEPT ![r] = db.orders[i]] /\ db.orders[i].status \in Live
      /\ UNCHANGED <<db, tx, conn, failed>>
  BY DEF ReadCancelled, Statement, Goto
<1>2. pc'[r] = "cancel" /\ mine'[r] = db.orders[i]
  BY <1>1 DEF IInv, TypeOK
<1>3. db.orders[i].id = i
  BY OnlyHandler DEF OrdersSound
<1>4. HandlerInv(r)'
  BY <1>1, <1>2, <1>3 DEF HandlerInv
<1>. QED BY <1>1, <1>4, SerialLocal DEF Matchmaking

LEMMA CancelOrderSerial ==
  ASSUME OneAtATime, IInv, IInv', SerialInv, NEW r \in Requests, CancelOrder(r)
  PROVE  SerialInv'
<1> DEFINE k == mine[r].id
           row == [db.orders[k] EXCEPT !.status = "cancelled"]
<1>1. /\ conn = None /\ pc[r] = "cancel" /\ Return(r)
      /\ db' = [db EXCEPT !.orders = [db.orders EXCEPT ![k] = row]]
      /\ UNCHANGED <<tx, conn, failed>>
  BY DEF CancelOrder, Statement
<1>2. pc'[r] = "idle"
  BY <1>1, ReturnFact DEF IInv
<1>3. (\A q \in Requests : HandlerInv(q)') /\ (\A j : ~Matched(j)')
  BY <1>2, Answered
<1>4. /\ db \in Database /\ db' \in Database /\ Sound(db) /\ Booked(db) /\ k \in OrderIds(db)
      /\ HandlerInv(r)
  BY <1>1, OnlyHandler DEF IInv, TypeOK, Placed
<1>5. db.orders[k].status \in Live
  BY <1>1, <1>4 DEF HandlerInv
<1>6. /\ db.orders \in Seq(Order) /\ db.orders[k] \in Order
  BY <1>4, OrdersTyped DEF Database
<1>7. /\ row.remaining = db.orders[k].remaining /\ row.status = "cancelled"
      /\ Terms(row, db.orders[k])
  BY <1>6 DEF Order, Terms
<1> HIDE DEF row, k
<1>8. /\ db'.orders = [db.orders EXCEPT ![k] = row]
      /\ db'.shares = db.shares /\ db'.trades = db.trades
  BY <1>1, <1>4 DEF Database
<1>9. /\ Len(db'.orders) = Len(db.orders) /\ db'.orders[k] = row
      /\ \A i \in OrderIds(db) : i # k => db'.orders[i] = db.orders[i]
  BY <1>4, <1>6, <1>8 DEF OrderIds
<1>10. SameBook(db', db) /\ OrderIds(db') = OrderIds(db)
  BY <1>7, <1>9 DEF SameBook, Terms, OrderIds
<1>11. Booked(db')
  BY <1>4, <1>5, <1>7, <1>8, <1>9, <1>10, CancelBooked
<1>12. Uncrossed'
  <2> SUFFICES ASSUME NEW i \in OrderIds(db), NEW j \in OrderIds(db), i < j,
                      Crossing(db'.orders[i], db'.orders[j])
               PROVE  j \in failed
    BY <1>1, <1>10 DEF Uncrossed
  <2>1. i # k /\ j # k
    BY <1>7, <1>9 DEF Crossing, Live
  <2>2. j \in failed \/ Matched(j)
    BY <1>9, <2>1 DEF SerialInv, Uncrossed
  <2>3. ~Matched(j)
    BY <1>1, OnlyHandler DEF Matchmaking
  <2>. QED BY <2>2, <2>3
<1>13. conn' = None
  BY <1>1
<1>. QED BY <1>3, <1>11, <1>12, <1>13 DEF SerialInv

\* A wallet is debited: no order and no holding knows of it.
LEMMA OtherDebitSerial ==
  ASSUME OneAtATime, IInv, SerialInv, NEW w \in Users \X Classrooms, NEW amount \in Spendings,
         OtherDebit(w, amount)
  PROVE  SerialInv'
<1>1. /\ conn = None /\ db' = [db EXCEPT !.wallet[w] = db.wallet[w] - amount]
      /\ UNCHANGED <<tx, conn, pc, mine, have, book, failed>>
  BY DEF OtherDebit, Debit
<1>2. db \in Database /\ Booked(db)
  BY DEF IInv, TypeOK, SerialInv
<1>3. db'.orders = db.orders /\ db'.shares = db.shares /\ db'.trades = db.trades
  BY <1>1, <1>2 DEF Database
<1>4. Booked(db')
  BY <1>2, <1>3, BookedPersists
<1>5. Uncrossed'
  BY <1>1, <1>3 DEF SerialInv, Uncrossed, Matched, OrderIds
<1>6. ASSUME NEW r \in Requests
      PROVE  HandlerInv(r)'
  <2>1. HandlerInv(r)
    BY DEF SerialInv
  <2>2. Terms(mine[r], mine[r])
    BY DEF Terms
  <2>3. Matching(db', mine[r]) = Matching(db, mine[r])
    BY <1>3, <2>2, MatchingSame
  <2>4. PendingSellShares(db', mine[r].user, mine[r].company) =
          PendingSellShares(db, mine[r].user, mine[r].company)
    BY <1>3, PendingSame
  <2>5. pc[r] # "settle"
    BY <1>1, ExchangeAssumption DEF IInv, TypeOK
  <2>. QED BY <1>1, <1>3, <2>1, <2>3, <2>4, <2>5 DEF HandlerInv
<1>7. conn' = None
  BY <1>1
<1>. QED BY <1>4, <1>5, <1>6, <1>7 DEF SerialInv

LEMMA RestartSerial ==
  ASSUME OneAtATime, IInv, SerialInv, Restart
  PROVE  SerialInv'
<1>1. /\ conn' = None /\ pc' = [r \in Requests |-> "idle"] /\ db' = db
      /\ failed' = failed \cup {mine[r].id : r \in {q \in Requests : pc[q] \in Matchmaking}}
  BY DEF Restart
<1>2. \A r \in Requests : HandlerInv(r)'
  BY <1>1 DEF HandlerInv
<1>3. \A j : j \in failed \/ Matched(j) => j \in failed'
  BY <1>1 DEF Matched
<1>4. Uncrossed'
  BY <1>1, <1>3 DEF SerialInv, Uncrossed
<1>. QED BY <1>1, <1>2, <1>4 DEF SerialInv

LEMMA SerialStep ==
  ASSUME OneAtATime, IInv, IInv', SerialInv, [Next]_vars
  PROVE  SerialInv'
<1>1. ASSUME UNCHANGED <<db, tx, conn, pc, mine, have, book, failed>>
      PROVE  SerialInv'
  BY <1>1 DEF SerialInv, Uncrossed, Matched, HandlerInv
<1>2. ASSUME NEW r \in Requests, Client(r)
      PROVE  SerialInv'
  BY <1>2, PlaceOrderSerial, ReadCancelledSerial DEF Client
<1>3. ASSUME NEW r \in Requests, Handler(r)
      PROVE  SerialInv'
  <2>1. CASE AcceptOrder(r) \/ RefuseOrder(r) \/ CreateOrder(r)
    BY <2>1, AcceptOrderSerial, RefuseOrderSerial, CreateOrderSerial
  <2>2. CASE FindMatches(r) \/ FindNoMatch(r) \/ BeginSettlement(r)
    BY <2>2, FindMatchesSerial, FindNoMatchSerial, BeginSettlementSerial
  <2>3. CASE SettleMatch(r) \/ RollbackSettlement(r) \/ CommitSettlement(r)
    BY <2>3, SettleMatchSerial, RollbackSettlementSerial, CommitSettlementSerial
  <2>4. CASE CancelOrder(r)
    BY <2>4, CancelOrderSerial
  <2>. QED BY <1>3, <2>1, <2>2, <2>3, <2>4 DEF Handler
<1>4. CASE Environment
  <2>1. ASSUME NEW u \in Users, NEW c \in Companies, NEW amount \in Spendings,
               OtherDebit(<<u, ClassroomOf[c]>>, amount)
        PROVE  SerialInv'
    <3>1. <<u, ClassroomOf[c]>> \in Users \X Classrooms
      BY ExchangeAssumption
    <3>. QED BY <2>1, <3>1, OtherDebitSerial
  <2>2. ASSUME NEW u \in Users, NEW k \in Classrooms, ActivateClassroom(u, k)
        PROVE  SerialInv'
    BY <1>1, <2>2 DEF ActivateClassroom
  <2>. QED BY <1>4, <2>1, <2>2, RestartSerial DEF Environment
<1>. QED BY <1>1, <1>2, <1>3, <1>4 DEF Next, Quiet, vars

THEOREM SerialInvariance ==
  ASSUME OneAtATime
  PROVE  Spec => []SerialInv
<1>1. IInv /\ IInv' /\ SerialInv /\ [Next]_vars => SerialInv'
  BY SerialStep
<1>. QED BY <1>1, Invariance, SerialInit, PTL DEF Spec

-----------------------------------------------------------------------------
(* What it says of the exchange *)

\* Of one request at a time: an order's remaining shares are its shares less what
\* was traded under it, its status says so, and nobody's live sell orders offer
\* more than he holds.  No settlement, cancellation or restart leaves an order
\* that says otherwise.
THEOREM OrdersAlwaysAccount ==
  ASSUME OneAtATime
  PROVE  Spec => []OrdersAccountForTrades
<1>1. SerialInv => OrdersAccountForTrades
  BY DEF SerialInv, Booked, Accounted, Offered, OrdersAccountForTrades
<1>. QED BY <1>1, SerialInvariance, PTL

\* Of one request at a time: the holdings of a company are all of its shares, no
\* more and no fewer, for a seller still holds what his order offers when it is
\* matched.
THEOREM SharesAreConserved ==
  ASSUME OneAtATime
  PROVE  Spec => []SharesConserved
<1>1. SerialInv => SharesConserved
  BY DEF SerialInv, Booked, Conserved, SharesConserved
<1>. QED BY <1>1, SerialInvariance, PTL

\* Of one request at a time: when nothing is in flight, two live orders of
\* different users cross only if the matching of the later one was rolled back or
\* cut by a restart.  A settlement that commits has left nothing to match.
THEOREM CrossedMeansFailed ==
  ASSUME OneAtATime
  PROVE  Spec => []CrossedOnlyAfterFailure
<1>1. SerialInv => CrossedOnlyAfterFailure
  <2> SUFFICES ASSUME SerialInv, \A r \in Requests : pc[r] = "idle"
               PROVE  \A i, j \in OrderIds(db) :
                        i < j /\ Crossing(db.orders[i], db.orders[j]) => j \in failed
    BY DEF CrossedOnlyAfterFailure, Crossing
  <2>1. \A j : ~Matched(j)
    BY DEF Matched, Matchmaking
  <2>. QED BY <2>1 DEF SerialInv, Uncrossed
<1>. QED BY <1>1, SerialInvariance, PTL

\* Trade i of the step is at the price of the earlier order, and every order to be
\* served before that one is filled.
Prioritised(i) ==
  LET t    == db'.trades[i]
      late == IF t.buyOrder > t.sellOrder THEN t.buyOrder ELSE t.sellOrder
      m    == db.orders[IF late = t.buyOrder THEN t.sellOrder ELSE t.buyOrder]
  IN /\ t.price = m.price
     /\ \A j \in OrderIds(db) :
          LET q == db.orders[j] IN
          /\ q.status \in Live /\ q.side = m.side
          /\ q.company = m.company /\ q.user # db.orders[late].user
          /\ \/ q.side = "sell" /\ q.price < m.price
             \/ q.side = "buy" /\ q.price > m.price
             \/ q.price = m.price /\ CreatedAt[j] < CreatedAt[m.id]
          => db'.orders[j].status = "filled"

LEMMA CommitPrioritises ==
  ASSUME OneAtATime, IInv, SerialInv, NEW r \in Requests, CommitSettlement(r),
         NEW i \in Len(db.trades) + 1 .. Len(db'.trades)
  PROVE  Prioritised(i)
<1> DEFINE o == mine[r]
           t == tx.trades[i]
<1>1. conn = r /\ pc[r] = "settle" /\ db' = tx
  BY DEF CommitSettlement
<1>2. /\ db \in Database /\ OrdersSound(db) /\ HandlerInv(r) /\ r # None
      /\ o \in Order
  BY <1>1, OnlyHandler
<1>3. SameBook(tx, db)
  BY <1>1, <1>2 DEF IInv
<1>4. Settling(db, tx, o, book[r])
  BY <1>1, <1>2 DEF HandlerInv
<1>5. InOrder(db, tx, o, t)
  BY <1>1, <1>4 DEF Settling
<1>6. o.id \in OrderIds(db) /\ o.user = db.orders[o.id].user
  BY <1>3, <1>4 DEF Settling, SameBook, OrderIds, Terms
<1> HIDE DEF o, t
<1>7. PICK k \in OrderIds(db) :
        /\ k < o.id /\ db.orders[k] \in Matching(db, o)
        /\ t.buyOrder = (IF o.side = "buy" THEN o.id ELSE k)
        /\ t.sellOrder = (IF o.side = "buy" THEN k ELSE o.id)
        /\ t.price = db.orders[k].price
        /\ \A j \in OrderIds(db) :
             Better(o, db.orders[j], db.orders[k]) => tx.orders[j].status = "filled"
  BY <1>5 DEF InOrder
<1> DEFINE late == IF t.buyOrder > t.sellOrder THEN t.buyOrder ELSE t.sellOrder
           early == IF late = t.buyOrder THEN t.sellOrder ELSE t.buyOrder
<1>8. late = o.id /\ early = k
  BY <1>6, <1>7 DEF OrderIds
<1>9. \A j \in OrderIds(db) :
        LET q == db.orders[j]
            m == db.orders[k]
        IN /\ q.status \in Live /\ q.side = m.side
           /\ q.company = m.company /\ q.user # db.orders[o.id].user
           /\ \/ q.side = "sell" /\ q.price < m.price
              \/ q.side = "buy" /\ q.price > m.price
              \/ q.price = m.price /\ CreatedAt[j] < CreatedAt[m.id]
           => tx.orders[j].status = "filled"
  BY <1>2, <1>6, <1>7 DEF Better, OrdersSound
<1>10. db'.trades[i] = t /\ t.price = db.orders[early].price
  BY <1>1, <1>7, <1>8 DEF t
<1> HIDE DEF late, early
<1>. QED BY <1>1, <1>8, <1>9, <1>10 DEF Prioritised, late, early

LEMMA TradesOnlyAtCommit ==
  ASSUME OneAtATime, IInv, SerialInv, [Next]_vars,
         NEW i \in Len(db.trades) + 1 .. Len(db'.trades)
  PROVE  Prioritised(i)
<1>1. db \in Database /\ Len(db.trades) \in Nat
  BY DEF IInv, TypeOK, Database
<1>2. ASSUME db'.trades = db.trades
      PROVE  Prioritised(i)
  <2>1. i \in Len(db.trades) + 1 .. Len(db.trades)
    BY <1>2
  <2>. QED BY <1>1, <2>1
<1>3. ASSUME NEW r \in Requests, Handler(r)
      PROVE  Prioritised(i)
  <2>1. CASE AcceptOrder(r) \/ RefuseOrder(r) \/ FindMatches(r) \/ FindNoMatch(r)
    BY <1>2, <2>1 DEF AcceptOrder, RefuseOrder, FindMatches, FindNoMatch
  <2>2. CASE BeginSettlement(r) \/ SettleMatch(r) \/ RollbackSettlement(r)
    BY <1>2, <2>2 DEF BeginSettlement, SettleMatch, RollbackSettlement
  <2>3. CASE CreateOrder(r)
    <3>1. PICK os : db' = [db EXCEPT !.orders = os]
      BY <2>3 DEF CreateOrder
    <3>. QED BY <1>1, <1>2, <3>1 DEF Database
  <2>4. CASE CancelOrder(r)
    <3>1. PICK os : db' = [db EXCEPT !.orders = os]
      BY <2>4 DEF CancelOrder
    <3>. QED BY <1>1, <1>2, <3>1 DEF Database
  <2>5. CASE CommitSettlement(r)
    BY <2>5, CommitPrioritises
  <2>. QED BY <1>3, <2>1, <2>2, <2>3, <2>4, <2>5 DEF Handler
<1>4. ASSUME NEW w, NEW amount, OtherDebit(w, amount)
      PROVE  Prioritised(i)
  <2>1. PICK ws : db' = [db EXCEPT !.wallet = ws]
    BY <1>4 DEF OtherDebit, Debit
  <2>. QED BY <1>1, <1>2, <2>1 DEF Database
<1>5. CASE Environment
  BY <1>2, <1>4, <1>5 DEF Environment, ActivateClassroom, Restart
<1>6. ASSUME NEW r \in Requests, Client(r)
      PROVE  Prioritised(i)
  BY <1>2, <1>6 DEF Client, PlaceOrder, ReadCancelled
<1>. QED BY <1>2, <1>3, <1>5, <1>6 DEF Next, Quiet, vars

\* Of one request at a time: a settlement keeps price-time priority.  Whatever it
\* commits was traded at the resting order's price, after every resting order of
\* another user with a better price, or an earlier second, had been filled.
THEOREM PriorityIsKept ==
  ASSUME OneAtATime
  PROVE  Spec => BestPriceFirst
<1>1. /\ IInv /\ SerialInv /\ [Next]_vars
      => [\A i \in Len(db.trades) + 1 .. Len(db'.trades) : Prioritised(i)]_db
  BY TradesOnlyAtCommit
<1>. QED BY <1>1, Invariance, SerialInvariance, PTL DEF Spec, BestPriceFirst, Prioritised

-----------------------------------------------------------------------------
(* The exchange implements the ledger *)

Books(d) == [wallet |-> d.wallet, shares |-> d.shares, offers |-> Offers(d)]

\* books are the books s, and what the trades m + 1 .. k of ts make of them.
Stepwise(books, s, ts, m, k) ==
  /\ m \in Nat /\ k \in Nat /\ m <= k
  /\ books[m] = s
  /\ \A n \in m + 1 .. k : books[n] = Ledger!Execute(books[n - 1], ts[n])

\* The ledger takes them for its course.
Taken(books, s, ts, m, k) == \A n \in m .. k : Ledger!Course(s, ts, m, k)[n] = books[n]

\* Trade by trade, what e has more than d leads from the books of d to those of e.
Followed(d, e) ==
  \E books :
    /\ books[Len(d.trades)] = Books(d) /\ books[Len(e.trades)] = Books(e)
    /\ \A n \in Len(d.trades) + 1 .. Len(e.trades) :
         /\ Ledger!CanExecute(books[n - 1], e.trades[n])
         /\ books[n] = Ledger!Execute(books[n - 1], e.trades[n])

\* The recursive definition of the ledger has the one solution.
LEMMA CourseFollows ==
  ASSUME NEW s, NEW ts, NEW m, NEW k, NEW books, Stepwise(books, s, ts, m, k)
  PROVE  Taken(books, s, ts, m, k)
<1>0. /\ m \in Nat /\ k \in Nat /\ m <= k /\ books[m] = s
      /\ \A n \in m + 1 .. k : books[n] = Ledger!Execute(books[n - 1], ts[n])
  BY DEF Stepwise
<1> DEFINE f == Ledger!Course(s, ts, m, k)
           h == [n \in m .. k |-> books[n]]
<1>1. h = [n \in m .. k |-> IF n = m THEN s ELSE Ledger!Execute(h[n - 1], ts[n])]
  <2>1. \A n \in m .. k : n # m => h[n] = Ledger!Execute(h[n - 1], ts[n])
    BY <1>0
  <2>2. h[m] = s
    BY <1>0
  <2>. QED BY <1>0, <2>1, <2>2
<1>2. f = CHOOSE g : g = [n \in m .. k |-> IF n = m THEN s ELSE Ledger!Execute(g[n - 1], ts[n])]
  BY DEF Ledger!Course
<1> HIDE DEF f, h
<1>3. f = [n \in m .. k |-> IF n = m THEN s ELSE Ledger!Execute(f[n - 1], ts[n])]
  BY <1>1, <1>2, Zenon
<1> DEFINE Bad == {n \in m .. k : f[n] # books[n]}
<1> SUFFICES ASSUME Bad # {} PROVE FALSE
  BY DEF f, Taken
<1>4. PICK n \in Bad : \A i \in Bad : n <= i
  <2>1. Bad \in SUBSET Nat
    BY <1>0
  <2>. QED BY <2>1, LeastNatural
<1>5. n # m
  BY <1>0, <1>3
<1>6. n - 1 \in m .. k /\ f[n - 1] = books[n - 1]
  BY <1>0, <1>4, <1>5
<1>7. f[n] = Ledger!Execute(f[n - 1], ts[n])
  BY <1>3, <1>5
<1>. QED BY <1>0, <1>5, <1>6, <1>7

LEMMA OfferTaken ==
  ASSUME NEW u, NEW c, NEW s, NEW p, NEW m, NEW n
  PROVE  [[user |-> u, company |-> c, side |-> s, price |-> p, open |-> m] EXCEPT !.open = n]
           = [user |-> u, company |-> c, side |-> s, price |-> p, open |-> n]
OBVIOUS

LEMMA SettleExecutes ==
  ASSUME NEW d \in Database, Sound(d), Booked(d), NEW o \in Order, NEW c \in Order,
         Tradable(d, o, c), NEW e \in Database, e = Settle(d, o, c), SameBook(e, d),
         NEW t, t = Fill(o, c), CanDebit(d, BuyerWallet(t), Amount(t))
  PROVE  /\ Ledger!CanExecute(Books(d), t)
         /\ Books(e) = Ledger!Execute(Books(d), t)
<1> DEFINE n == t.shares
           k == ClassroomOf[t.company]
           b == IF o.side = "buy" THEN o ELSE c
           s == IF o.side = "buy" THEN c ELSE o
           W == Users \X Classrooms
           Q == Companies \X Users
<1>1. /\ t \in Trade /\ 0 < n /\ n <= o.remaining /\ n <= c.remaining
      /\ t.buyOrder = b.id /\ t.sellOrder = s.id
      /\ Allowed(t, b, s)
  <2>1. /\ t.buyOrder = b.id /\ t.sellOrder = s.id
    BY DEF Fill
  <2>. QED BY <2>1, FillFact DEF Tradable
<1>2. /\ b.id \in OrderIds(d) /\ s.id \in OrderIds(d) /\ b.id # s.id
      /\ d.orders[b.id] = b /\ d.orders[s.id] = s
      /\ b.status \in Live /\ s.status \in Live /\ b \in Order /\ s \in Order
      /\ n <= b.remaining /\ n <= s.remaining
  BY <1>1, SettleOrders DEF Tradable
<1>3. /\ Len(e.orders) = Len(d.orders)
      /\ \A i \in OrderIds(d) :
           e.orders[i] = IF i = b.id THEN Reduced(b, n)
                         ELSE IF i = s.id THEN Reduced(s, n) ELSE d.orders[i]
  BY <1>2, SettleOrders
<1>4. /\ n \in Nat /\ t.price \in Nat /\ t.buyer \in Users /\ t.seller \in Users
      /\ t.company \in Companies /\ k \in Classrooms /\ t.buyer # t.seller
  BY <1>1, ExchangeAssumption DEF Trade, Allowed
<1>5. d.shares[<<t.company, t.seller>>] >= n
  BY SettleOffered DEF Booked
<1>6. d.wallet[<<t.buyer, k>>] >= Amount(t)
  BY DEF CanDebit, BuyerWallet
<1> HIDE DEF b, s
<1>7. \A x \in {b, s} :
        /\ Reduced(x, n).user = x.user /\ Reduced(x, n).company = x.company
        /\ Reduced(x, n).side = x.side /\ Reduced(x, n).price = x.price
        /\ OpenShares(Reduced(x, n)) = OpenShares(x) - n
        /\ OpenShares(x) = x.remaining
  <2> TAKE x \in {b, s}
  <2>1. x \in Order /\ x.status \in Live /\ n <= x.remaining /\ x.remaining <= x.shares
    BY <1>2 DEF Sound, OrdersSound
  <2>2. /\ Terms(Reduced(x, n), x) /\ OpenShares(Reduced(x, n)) = OpenShares(x) - n
    BY <1>1, <1>4, <2>1, SettleReduces
  <2>. QED BY <2>1, <2>2 DEF Terms, OpenShares
<1> DEFINE F == Offers(d)
           G == Offers(e)
<1>8. /\ F[b.id] = [user |-> b.user, company |-> b.company, side |-> b.side,
                    price |-> b.price, open |-> b.remaining]
      /\ F[s.id] = [user |-> s.user, company |-> s.company, side |-> s.side,
                    price |-> s.price, open |-> s.remaining]
  BY <1>2, <1>7 DEF Offers
<1>9. Ledger!CanExecute(Books(d), t)
  <2> DEFINE S == Books(d)
             x == S.offers[t.buyOrder]
             y == S.offers[t.sellOrder]
  <2>1. S.offers = F /\ S.shares = d.shares /\ S.wallet = d.wallet
    BY DEF Books
  <2>2. /\ x.side = b.side /\ x.user = b.user /\ x.company = b.company
        /\ x.price = b.price /\ x.open = b.remaining
    BY <1>1, <1>8, <2>1
  <2>3. /\ y.side = s.side /\ y.user = s.user /\ y.company = s.company
        /\ y.price = s.price /\ y.open = s.remaining
    BY <1>1, <1>8, <2>1
  <2>4. t.shares <= S.shares[<<t.company, t.seller>>]
    BY <1>4, <1>5, <2>1 DEF Trade, Database
  <2>5. t.shares * t.price <= S.wallet[<<t.buyer, ClassroomOf[t.company]>>]
    BY <1>4, <1>6, <2>1 DEF Amount, Database
  <2> HIDE DEF S
  <2>6. /\ x.side = "buy" /\ x.user = t.buyer /\ x.company = t.company
        /\ y.side = "sell" /\ y.user = t.seller /\ y.company = t.company
        /\ t.buyer # t.seller /\ y.price <= t.price /\ t.price <= x.price
    BY <1>1, <2>2, <2>3 DEF Allowed
  <2>7. 0 < t.shares /\ t.shares <= x.open /\ t.shares <= y.open
    BY <1>1, <1>2, <2>2, <2>3
  <2>8. Ledger!CanExecute(S, t)
    BY <2>4, <2>5, <2>6, <2>7 DEF Ledger!CanExecute
  <2>. QED BY <2>8 DEF S
<1>10. G = [i \in DOMAIN F |-> IF i \in {t.buyOrder, t.sellOrder}
                               THEN [F[i] EXCEPT !.open = @ - n] ELSE F[i]]
  <2>1. DOMAIN F = OrderIds(d) /\ OrderIds(e) = OrderIds(d)
    BY <1>3 DEF Offers, OrderIds
  <2>2. G[b.id] = [F[b.id] EXCEPT !.open = @ - n] /\ G[s.id] = [F[s.id] EXCEPT !.open = @ - n]
    <3> DEFINE B == Reduced(b, n)
               S == Reduced(s, n)
    <3>1. /\ G[b.id] = [user |-> B.user, company |-> B.company, side |-> B.side,
                        price |-> B.price, open |-> OpenShares(B)]
          /\ G[s.id] = [user |-> S.user, company |-> S.company, side |-> S.side,
                        price |-> S.price, open |-> OpenShares(S)]
      BY <1>2, <1>3, <2>1 DEF Offers
    <3>2. /\ G[b.id] = [user |-> b.user, company |-> b.company, side |-> b.side,
                        price |-> b.price, open |-> b.remaining - n]
          /\ G[s.id] = [user |-> s.user, company |-> s.company, side |-> s.side,
                        price |-> s.price, open |-> s.remaining - n]
      BY <1>7, <3>1
    <3> HIDE DEF F, G, n
    <3>3. [F[b.id] EXCEPT !.open = @ - n] = [F[b.id] EXCEPT !.open = b.remaining - n]
      BY <1>8
    <3>4. [F[s.id] EXCEPT !.open = @ - n] = [F[s.id] EXCEPT !.open = s.remaining - n]
      BY <1>8
    <3>5. [F[b.id] EXCEPT !.open = b.remaining - n] = G[b.id]
      <4>1. \A x : [[user |-> b.user, company |-> b.company, side |-> b.side, price |-> b.price,
                     open |-> b.remaining] EXCEPT !.open = x]
                   = [user |-> b.user, company |-> b.company, side |-> b.side,
                      price |-> b.price, open |-> x]
        BY OfferTaken
      <4>. QED BY <1>8, <3>2, <4>1, Zenon
    <3>6. [F[s.id] EXCEPT !.open = s.remaining - n] = G[s.id]
      <4>1. \A x : [[user |-> s.user, company |-> s.company, side |-> s.side, price |-> s.price,
                     open |-> s.remaining] EXCEPT !.open = x]
                   = [user |-> s.user, company |-> s.company, side |-> s.side,
                      price |-> s.price, open |-> x]
        BY OfferTaken
      <4>. QED BY <1>8, <3>2, <4>1, Zenon
    <3>. QED BY <3>3, <3>4, <3>5, <3>6, Zenon
  <2>3. \A i \in OrderIds(d) : i # b.id /\ i # s.id => G[i] = F[i]
    BY <1>3, <2>1 DEF Offers
  <2>4. G = [i \in OrderIds(d) |-> G[i]]
    BY <2>1 DEF Offers
  <2> HIDE DEF F, G, n
  <2>. QED BY <1>1, <2>1, <2>2, <2>3, <2>4
<1>11. e.wallet = [d.wallet EXCEPT ![<<t.buyer, k>>] = @ - Amount(t),
                                   ![<<t.seller, k>>] = @ + Amount(t)]
  <2> DEFINE a == Amount(t)
             x == <<t.buyer, k>>
             y == <<t.seller, k>>
  <2>1. x \in W /\ y \in W /\ x # y /\ a \in Int
    BY <1>4 DEF Amount
  <2>2. \A w \in W : e.wallet[w] = d.wallet[w] - (IF x = w THEN a ELSE 0) + (IF y = w THEN a ELSE 0)
    BY <1>1, SettleMoves DEF BuyerWallet, SellerWallet
  <2>3. d.wallet \in [W -> Int] /\ e.wallet \in [W -> Int]
    BY DEF Database
  <2> HIDE DEF a, x, y, W
  <2>4. e.wallet = [d.wallet EXCEPT ![x] = @ - a, ![y] = @ + a]
    BY <2>1, <2>2, <2>3
  <2>. QED BY <2>4 DEF a, x, y
<1>12. e.shares = [d.shares EXCEPT ![<<t.company, t.buyer>>] = @ + n,
                                   ![<<t.company, t.seller>>] = @ - n]
  <2> DEFINE x == <<t.company, t.buyer>>
             y == <<t.company, t.seller>>
  <2>1. x \in Q /\ y \in Q /\ x # y
    BY <1>4
  <2>2. \A q \in Q :
          /\ q = x => e.shares[q] = d.shares[q] + n
          /\ q = y => e.shares[q] = d.shares[q] - n
          /\ q \notin {x, y} => e.shares[q] = d.shares[q]
    BY <1>1, <1>4, <1>5, SettleMoves
  <2>3. d.shares \in [Q -> Nat] /\ e.shares \in [Q -> Nat]
    BY DEF Database
  <2> HIDE DEF n, x, y, Q
  <2>4. e.shares = [d.shares EXCEPT ![x] = @ + n, ![y] = @ - n]
    BY <1>4, <2>1, <2>2, <2>3
  <2>. QED BY <2>4 DEF n, x, y
<1>13. Books(e) = Ledger!Execute(Books(d), t)
  <2>1. /\ Books(d).wallet = d.wallet /\ Books(d).shares = d.shares /\ Books(d).offers = F
        /\ Books(e) = [wallet |-> e.wallet, shares |-> e.shares, offers |-> G]
    BY DEF Books
  <2> HIDE DEF F, G
  <2>. QED BY <1>10, <1>11, <1>12, <2>1 DEF Ledger!Execute, Amount
<1>. QED BY <1>9, <1>13

LEMMA FollowedAtOnce ==
  ASSUME NEW d \in Database
  PROVE  Followed(d, d)
<1> DEFINE m == Len(d.trades)
           books == [n \in {m} |-> Books(d)]
<1>1. m \in Nat /\ books[m] = Books(d)
  BY DEF Database
<1>2. m + 1 .. m = {}
  BY <1>1
<1> HIDE DEF books
<1>. QED BY <1>1, <1>2 DEF Followed

LEMMA FollowedOn ==
  ASSUME NEW d \in Database, NEW e \in Database, NEW f \in Database, Followed(d, e),
         Len(d.trades) <= Len(e.trades), NEW t \in Trade, f.trades = Append(e.trades, t),
         Ledger!CanExecute(Books(e), t), Books(f) = Ledger!Execute(Books(e), t)
  PROVE  Followed(d, f)
<1> DEFINE m == Len(d.trades)
           k == Len(e.trades)
<1>1. PICK books : /\ books[m] = Books(d) /\ books[k] = Books(e)
                   /\ \A n \in m + 1 .. k :
                        /\ Ledger!CanExecute(books[n - 1], e.trades[n])
                        /\ books[n] = Ledger!Execute(books[n - 1], e.trades[n])
  BY DEF Followed
<1>2. /\ m \in Nat /\ k \in Nat /\ m <= k /\ Len(f.trades) = k + 1 /\ f.trades[k + 1] = t
      /\ \A n \in 1 .. k : f.trades[n] = e.trades[n]
  BY DEF Database
<1> DEFINE more == [n \in Nat |-> IF n <= k THEN books[n] ELSE Books(f)]
<1>3. more[m] = Books(d) /\ more[k] = Books(e) /\ more[k + 1] = Books(f)
  BY <1>1, <1>2
<1>4. \A n \in m + 1 .. k : more[n] = books[n] /\ more[n - 1] = books[n - 1]
  BY <1>2
<1> HIDE DEF more, m, k
<1>5. ASSUME NEW n \in m + 1 .. k + 1
      PROVE  /\ Ledger!CanExecute(more[n - 1], f.trades[n])
             /\ more[n] = Ledger!Execute(more[n - 1], f.trades[n])
  <2>1. CASE n = k + 1
    <3>1. n - 1 = k
      BY <1>2, <2>1
    <3>. QED BY <1>2, <1>3, <2>1, <3>1
  <2>2. CASE n # k + 1
    <3>1. n \in m + 1 .. k /\ n \in 1 .. k
      BY <1>2, <2>2
    <3>. QED BY <1>1, <1>2, <1>4, <3>1
  <2>. QED BY <2>1, <2>2
<1>. QED BY <1>2, <1>3, <1>5 DEF Followed, m, k

\* Inside a settlement the ledger has come as far as the rows of the transaction.
LedgerInv == \A r \in Requests : pc[r] = "settle" => Followed(db, tx)

LEMMA LedgerInvStep ==
  ASSUME OneAtATime, IInv, IInv', SerialInv, LedgerInv, [Next]_vars
  PROVE  LedgerInv'
<1>1. ASSUME NEW r \in Requests, BeginSettlement(r)
      PROVE  LedgerInv'
  <2>1. Followed(db, db) /\ tx' = db /\ db' = db
    BY <1>1, OnlyHandler, FollowedAtOnce DEF BeginSettlement
  <2>. QED BY <2>1 DEF LedgerInv
<1>2. ASSUME NEW r \in Requests, SettleMatch(r)
      PROVE  LedgerInv'
  <2>1. PICK c \in Heads(mine[r], book[r]) :
          /\ CanDebit(tx, BuyerWallet(Fill(mine[r], c)), Amount(Fill(mine[r], c)))
          /\ tx' = Settle(tx, mine[r], c)
    BY <1>2 DEF SettleMatch
  <2>2. /\ conn = r /\ pc[r] = "settle" /\ mine[r].remaining > 0 /\ db' = db /\ conn' = conn
    BY <1>2 DEF SettleMatch
  <2>3. r # None /\ Settling(db, tx, mine[r], book[r])
    BY <2>2, OnlyHandler DEF HandlerInv
  <2>4. /\ tx \in Database /\ tx' \in Database /\ db \in Database /\ Sound(tx) /\ Booked(tx)
        /\ Followed(db, tx)
    BY <2>2, <2>3 DEF IInv, TypeOK, SerialInv, LedgerInv
  <2>5. mine[r] \in Order /\ c \in Order /\ Tradable(tx, mine[r], c)
    BY <1>2, <2>1, <2>2, SettlesRows
  <2>6. Fill(mine[r], c) \in Trade
    BY <2>5, FillFact DEF Tradable
  <2>7. SameBook(tx', tx)
    BY <2>1, <2>4, <2>5, SettleFact DEF Tradable, Copy, Terms
  <2>8. /\ Ledger!CanExecute(Books(tx), Fill(mine[r], c))
        /\ Books(tx') = Ledger!Execute(Books(tx), Fill(mine[r], c))
    BY <2>1, <2>4, <2>5, <2>7, SettleExecutes
  <2>9. tx'.trades = Append(tx.trades, Fill(mine[r], c))
    BY <2>1, <2>4, <2>5, <2>6, SettleMoves
  <2>10. Len(db.trades) <= Len(tx.trades)
    BY <2>3, <2>4 DEF Settling, Database
  <2>11. Followed(db, tx')
    BY <2>4, <2>6, <2>8, <2>9, <2>10, FollowedOn
  <2>. QED BY <2>2, <2>11 DEF LedgerInv
<1>3. ASSUME conn' = None
      PROVE  LedgerInv'
  BY <1>3, ExchangeAssumption DEF IInv, TypeOK, LedgerInv
<1>4. ASSUME UNCHANGED <<db, tx, conn>>
      PROVE  LedgerInv'
  BY <1>4 DEF IInv, TypeOK, LedgerInv
<1>5. ASSUME NEW r \in Requests, Handler(r)
      PROVE  LedgerInv'
  <2>1. CASE AcceptOrder(r) \/ RefuseOrder(r) \/ FindMatches(r) \/ FindNoMatch(r)
    BY <1>4, <2>1 DEF AcceptOrder, RefuseOrder, FindMatches, FindNoMatch
  <2>2. CASE CreateOrder(r) \/ CancelOrder(r)
    BY <1>3, <2>2 DEF CreateOrder, CancelOrder, Statement
  <2>3. CASE RollbackSettlement(r) \/ CommitSettlement(r)
    BY <1>3, <2>3 DEF RollbackSettlement, CommitSettlement
  <2>. QED BY <1>1, <1>2, <1>5, <2>1, <2>2, <2>3 DEF Handler
<1>6. ASSUME NEW r \in Requests, Client(r)
      PROVE  LedgerInv'
  <2>1. UNCHANGED <<db, tx, conn>>
    BY <1>6 DEF Client, PlaceOrder, ReadCancelled
  <2>. QED BY <1>4, <2>1
<1>7. CASE Environment
  BY <1>3, <1>4, <1>7 DEF Environment, OtherDebit, ActivateClassroom, Restart
<1>. QED BY <1>4, <1>5, <1>6, <1>7 DEF Next, Quiet, vars

\* The offers of the ledger are a sequence.
LEMMA OffersTyped ==
  ASSUME NEW d \in Database
  PROVE  /\ Len(Offers(d)) = Len(d.orders) /\ Len(d.orders) \in Nat
         /\ DOMAIN Offers(d) = OrderIds(d)
         /\ \E S : Offers(d) \in Seq(S)
<1>1. Len(d.orders) \in Nat
  BY DEF Database
<1> DEFINE S == {Offers(d)[i] : i \in OrderIds(d)}
<1>2. Offers(d) = [i \in 1 .. Len(d.orders) |-> Offers(d)[i]] /\ DOMAIN Offers(d) = OrderIds(d)
  BY DEF Offers, OrderIds
<1>3. Offers(d) \in [1 .. Len(d.orders) -> S]
  BY <1>2 DEF OrderIds
<1> HIDE DEF S
<1>4. Offers(d) \in Seq(S) /\ Len(Offers(d)) = Len(d.orders)
  BY <1>1, <1>3
<1>. QED BY <1>1, <1>2, <1>4

LEMMA OffersSame ==
  ASSUME NEW d, NEW e, e.orders = d.orders
  PROVE  Offers(e) = Offers(d)
BY DEF Offers, OrderIds

LEMMA LedgerInit == Init => Ledger!Init
<1> SUFFICES ASSUME Init PROVE db.trades = <<>> /\ Offers(db) = <<>>
  BY DEF Ledger!Init
<1>1. db.orders = <<>> /\ db.trades = <<>>
  BY DEF Init
<1>2. OrderIds(db) = {}
  BY <1>1 DEF OrderIds
<1>3. Offers(db) = <<>>
  BY <1>2 DEF Offers
<1>. QED BY <1>1, <1>3

LEMMA CreateOrderOffers ==
  ASSUME OneAtATime, IInv, IInv', SerialInv, NEW r \in Requests, CreateOrder(r)
  PROVE  Ledger!Offer
<1> DEFINE n == Len(db.orders) + 1
           o == [mine[r] EXCEPT !.id = n]
           x == Offers(db')[n]
<1>1. db' = [db EXCEPT !.orders = Append(@, o)] /\ pc[r] = "insert"
  BY DEF CreateOrder, Statement
<1>2. /\ mine[r] \in Order /\ db \in Database /\ db' \in Database
      /\ HandlerInv(r) /\ LocalsSound(r)
  BY <1>1, OnlyHandler DEF IInv, TypeOK
<1>3. db.orders \in Seq(Order) /\ n \in Nat
  BY <1>2 DEF Database
<1>10. o \in Order /\ o.status = mine[r].status /\ o.remaining = mine[r].remaining
  BY <1>2, <1>3 DEF Order
<1>4. o.status = "open" /\ 0 < o.remaining
  BY <1>1, <1>2, <1>10 DEF HandlerInv, LocalsSound
<1>5. /\ db'.orders = Append(db.orders, o) /\ db'.shares = db.shares /\ db'.trades = db.trades
      /\ db'.wallet = db.wallet
  BY <1>1, <1>2 DEF Database
<1> HIDE DEF o
<1>6. /\ OrderIds(db') = OrderIds(db) \cup {n} /\ Len(db'.orders) = n
      /\ db'.orders[n] = o /\ \A i \in OrderIds(db) : db'.orders[i] = db.orders[i] /\ i < n
  BY <1>3, <1>5, <1>10 DEF OrderIds
<1>7. Len(Offers(db)) + 1 = n /\ Len(Offers(db')) = n
  BY <1>2, <1>6, OffersTyped
<1>8. x.open > 0
  BY <1>4, <1>6 DEF Offers, OpenShares, Live
<1>9. Offers(db') = Append(Offers(db), x)
  <2>1. /\ \A i \in OrderIds(db) : Offers(db')[i] = Offers(db)[i]
        /\ DOMAIN Offers(db') = 1 .. n
    BY <1>6 DEF Offers, OrderIds
  <2>2. PICK S : Offers(db) \in Seq(S)
    BY <1>2, OffersTyped
  <2>3. PICK T : Offers(db') \in Seq(T)
    BY <1>2, OffersTyped
  <2> HIDE DEF x, n
  <2>4. /\ Append(Offers(db), x) \in Seq(S \cup {x}) /\ Len(Append(Offers(db), x)) = n
        /\ \A i \in 1 .. n : Append(Offers(db), x)[i] = IF i = n THEN x ELSE Offers(db)[i]
    BY <1>3, <1>7, <2>2
  <2>5. \A i \in 1 .. n : Offers(db')[i] = Append(Offers(db), x)[i]
    <3> TAKE i \in 1 .. n
    <3>1. CASE i = n
      BY <2>4, <3>1 DEF x
    <3>2. CASE i # n
      <4>1. i \in OrderIds(db)
        BY <1>6, <3>2 DEF OrderIds
      <4>. QED BY <2>1, <2>4, <3>2, <4>1
    <3>. QED BY <3>1, <3>2
  <2>. QED BY <1>7, <2>3, <2>4, <2>5
<1>. QED BY <1>5, <1>7, <1>8, <1>9 DEF Ledger!Offer, x

LEMMA CancelOrderWithdraws ==
  ASSUME OneAtATime, IInv, IInv', SerialInv, NEW r \in Requests, CancelOrder(r)
  PROVE  Ledger!Withdraw
<1> DEFINE k == mine[r].id
           row == [db.orders[k] EXCEPT !.status = "cancelled"]
           F == Offers(db)
           G == Offers(db')
<1>1. /\ pc[r] = "cancel" /\ db' = [db EXCEPT !.orders = [db.orders EXCEPT ![k] = row]]
  BY DEF CancelOrder, Statement
<1>2. /\ db \in Database /\ db' \in Database /\ OrdersSound(db) /\ k \in OrderIds(db)
      /\ HandlerInv(r)
  BY <1>1, OnlyHandler DEF IInv, TypeOK, Placed
<1>3. db.orders \in Seq(Order) /\ db.orders[k] \in Order
  BY <1>2, OrdersTyped DEF Database
<1>4. /\ row.status = "cancelled" /\ Terms(row, db.orders[k])
  BY <1>3 DEF Order, Terms
<1> HIDE DEF row, k
<1>5. /\ db'.orders = [db.orders EXCEPT ![k] = row]
      /\ db'.shares = db.shares /\ db'.trades = db.trades /\ db'.wallet = db.wallet
  BY <1>1, <1>2 DEF Database
<1>6. /\ Len(db'.orders) = Len(db.orders) /\ db'.orders[k] = row
      /\ \A i \in OrderIds(db) : i # k => db'.orders[i] = db.orders[i]
  BY <1>2, <1>3, <1>5 DEF OrderIds
<1>7. F[k].open > 0
  BY <1>1, <1>2 DEF Offers, OpenShares, HandlerInv, OrdersSound, k
<1>8. G = [F EXCEPT ![k].open = 0]
  <2>1. DOMAIN F = OrderIds(db) /\ OrderIds(db') = OrderIds(db)
    BY <1>6 DEF Offers, OrderIds
  <2>2. G[k] = [F[k] EXCEPT !.open = 0]
    <3>1. /\ F[k] = [user |-> row.user, company |-> row.company, side |-> row.side,
                     price |-> row.price, open |-> OpenShares(db.orders[k])]
          /\ G[k] = [user |-> row.user, company |-> row.company, side |-> row.side,
                     price |-> row.price, open |-> 0]
      BY <1>2, <1>4, <1>6, <2>1 DEF Offers, OpenShares, Live, Terms
    <3>. QED BY <3>1, OfferTaken
  <2>3. \A i \in OrderIds(db) : i # k => G[i] = F[i]
    BY <1>6, <2>1 DEF Offers
  <2>4. G = [i \in OrderIds(db) |-> G[i]] /\ F = [i \in OrderIds(db) |-> F[i]]
    BY <2>1 DEF Offers
  <2> HIDE DEF F, G
  <2>5. G = [F EXCEPT ![k] = [F[k] EXCEPT !.open = 0]]
    BY <2>1, <2>2, <2>3, <2>4
  <2>. QED BY <2>5
<1>9. k \in 1 .. Len(F)
  BY <1>2, OffersTyped DEF OrderIds
<1>. QED BY <1>5, <1>7, <1>8, <1>9 DEF Ledger!Withdraw

LEMMA OtherDebitSpends ==
  ASSUME IInv, NEW w \in Users \X Classrooms, NEW amount \in Spendings, OtherDebit(w, amount)
  PROVE  Ledger!Spend
<1>1. /\ db' = [db EXCEPT !.wallet[w] = db.wallet[w] - amount]
      /\ amount > 0 /\ db.wallet[w] >= amount
  BY DEF OtherDebit, Debit, CanDebit
<1>2. db \in Database /\ db.wallet[w] \in Int /\ amount \in Nat
  BY ExchangeAssumption DEF IInv, TypeOK, Database
<1>3. /\ db'.wallet = [db.wallet EXCEPT ![w] = @ - amount]
      /\ db'.shares = db.shares /\ db'.trades = db.trades /\ db'.orders = db.orders
  BY <1>1, <1>2 DEF Database
<1>4. amount \in 1 .. db.wallet[w]
  BY <1>1, <1>2
<1>5. Offers(db') = Offers(db)
  BY <1>3, OffersSame
<1>. QED BY <1>3, <1>4, <1>5 DEF Ledger!Spend

\* What was followed trade by trade is the course of the ledger.
LEMMA FollowedCourse ==
  ASSUME NEW d \in Database, NEW e \in Database, Len(d.trades) <= Len(e.trades), Followed(d, e)
  PROVE  LET m == Len(d.trades)
             k == Len(e.trades)
             course == Ledger!Course(Books(d), e.trades, m, k)
         IN /\ course[k] = Books(e)
            /\ \A n \in m + 1 .. k : Ledger!CanExecute(course[n - 1], e.trades[n])
<1>1. PICK m, k, s, ts : m = Len(d.trades) /\ k = Len(e.trades) /\ s = Books(d) /\ ts = e.trades
  OBVIOUS
<1>2. PICK books : /\ books[m] = s /\ books[k] = Books(e)
                   /\ \A n \in m + 1 .. k :
                        /\ Ledger!CanExecute(books[n - 1], ts[n])
                        /\ books[n] = Ledger!Execute(books[n - 1], ts[n])
  BY <1>1 DEF Followed
<1>3. m \in Nat /\ k \in Nat /\ m <= k
  BY <1>1 DEF Database
<1>4. Stepwise(books, s, ts, m, k)
  BY <1>2, <1>3 DEF Stepwise
<1>5. Taken(books, s, ts, m, k)
  BY <1>4, CourseFollows, Zenon
<1>6. \A n \in m + 1 .. k : Ledger!CanExecute(Ledger!Course(s, ts, m, k)[n - 1], ts[n])
  <2> TAKE n \in m + 1 .. k
  <2>1. n - 1 \in m .. k
    BY <1>3
  <2>. QED BY <1>2, <1>5, <2>1 DEF Taken
<1>7. Ledger!Course(s, ts, m, k)[k] = Books(e)
  BY <1>2, <1>3, <1>5 DEF Taken
<1>. QED BY <1>1, <1>6, <1>7, Zenon

LEMMA CommitSettles ==
  ASSUME OneAtATime, IInv, SerialInv, LedgerInv, NEW r \in Requests, CommitSettlement(r)
  PROVE  Ledger!Settle \/ UNCHANGED Ledger!vars
<1>1. conn = r /\ pc[r] = "settle" /\ db' = tx
  BY DEF CommitSettlement
<1>2. r # None /\ Settling(db, tx, mine[r], book[r]) /\ db \in Database
  BY <1>1, OnlyHandler DEF HandlerInv
<1>3. tx \in Database /\ Followed(db, tx)
  BY <1>1, <1>2 DEF IInv, TypeOK, LedgerInv
<1> DEFINE m == Len(db.trades)
           k == Len(tx.trades)
           course == Ledger!Course(Books(db), tx.trades, m, k)
<1>4. /\ m \in Nat /\ k \in Nat /\ m <= k
      /\ \A i \in 1 .. m : tx.trades[i] = db.trades[i]
  BY <1>2, <1>3 DEF Settling, Database
<1>5. CASE k > m
  <2>1. /\ course[k] = Books(tx)
        /\ \A n \in m + 1 .. k : Ledger!CanExecute(course[n - 1], tx.trades[n])
    BY <1>2, <1>3, <1>4, FollowedCourse
  <2>2. Ledger!Books = Books(db)
    BY DEF Ledger!Books, Books
  <2> HIDE DEF course, m, k
  <2>. QED BY <1>1, <1>4, <1>5, <2>1, <2>2 DEF Ledger!Settle, Books, course, m, k
<1>6. CASE k = m
  <2> DEFINE x == tx.trades
             y == db.trades
  <2>1. Books(tx) = Books(db)
    BY <1>3, <1>6 DEF Followed
  <2>2. x \in Seq(Trade) /\ y \in Seq(Trade)
    BY <1>2, <1>3 DEF Database
  <2>3. Len(x) = Len(y) /\ \A i \in 1 .. Len(y) : x[i] = y[i]
    BY <1>4, <1>6
  <2> HIDE DEF x, y
  <2>4. x = y
    BY <2>2, <2>3
  <2>. QED BY <1>1, <2>1, <2>4 DEF Ledger!vars, Books, x, y
<1>. QED BY <1>4, <1>5, <1>6

LEMMA LedgerStep ==
  ASSUME OneAtATime, IInv, IInv', SerialInv, LedgerInv, [Next]_vars
  PROVE  [Ledger!Next]_Ledger!vars
<1>1. ASSUME UNCHANGED db
      PROVE  UNCHANGED Ledger!vars
  BY <1>1 DEF Ledger!vars
<1>2. ASSUME NEW r \in Requests, Handler(r)
      PROVE  [Ledger!Next]_Ledger!vars
  <2>1. CASE AcceptOrder(r) \/ RefuseOrder(r) \/ FindMatches(r) \/ FindNoMatch(r)
    BY <1>1, <2>1 DEF AcceptOrder, RefuseOrder, FindMatches, FindNoMatch
  <2>2. CASE BeginSettlement(r) \/ SettleMatch(r) \/ RollbackSettlement(r)
    BY <1>1, <2>2 DEF BeginSettlement, SettleMatch, RollbackSettlement
  <2>3. CASE CreateOrder(r)
    BY <2>3, CreateOrderOffers DEF Ledger!Next
  <2>4. CASE CancelOrder(r)
    BY <2>4, CancelOrderWithdraws DEF Ledger!Next
  <2>5. CASE CommitSettlement(r)
    BY <2>5, CommitSettles DEF Ledger!Next
  <2>. QED BY <1>2, <2>1, <2>2, <2>3, <2>4, <2>5 DEF Handler
<1>3. ASSUME NEW r \in Requests, Client(r)
      PROVE  UNCHANGED db
  BY <1>3 DEF Client, PlaceOrder, ReadCancelled
<1>4. ASSUME NEW u \in Users, NEW c \in Companies, NEW amount \in Spendings,
             OtherDebit(<<u, ClassroomOf[c]>>, amount)
      PROVE  Ledger!Next
  <2>1. <<u, ClassroomOf[c]>> \in Users \X Classrooms
    BY ExchangeAssumption
  <2>. QED BY <1>4, <2>1, OtherDebitSpends DEF Ledger!Next
<1>5. CASE Environment
  BY <1>1, <1>4, <1>5 DEF Environment, ActivateClassroom, Restart
<1>. QED BY <1>1, <1>2, <1>3, <1>5 DEF Next, Quiet, vars

\* Of one request at a time, the exchange implements the ledger: everything it
\* commits is an offer, a withdrawal, money spent elsewhere, or a whole batch of
\* trades the offers, the sellers' shares and the buyers' money allow one by one.
THEOREM ExchangeImplementsLedger ==
  ASSUME OneAtATime
  PROVE  Spec => ImplementsLedger
<1>1. Init => LedgerInv
  BY DEF Init, LedgerInv
<1>2. IInv /\ IInv' /\ SerialInv /\ LedgerInv /\ [Next]_vars => LedgerInv'
  BY LedgerInvStep
<1>3. IInv /\ IInv' /\ SerialInv /\ LedgerInv /\ [Next]_vars => [Ledger!Next]_Ledger!vars
  BY LedgerStep
<1>. QED BY <1>1, <1>2, <1>3, LedgerInit, Invariance, SerialInvariance, PTL
       DEF Spec, ImplementsLedger, Ledger!Spec
=============================================================================
