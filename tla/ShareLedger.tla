----------------------------- MODULE ShareLedger -----------------------------
(***************************************************************************)
(* What the exchange promises its users, without handlers, transactions or  *)
(* a matching engine: a book of offers, and settlements.  One settlement is *)
(* a batch of trades done together.  Each trade takes its shares from an    *)
(* offer to sell and an offer to buy that still have them open, from a      *)
(* seller who has the shares and a buyer who has the money, at a price both *)
(* accept; it moves exactly those shares one way and the money the other.   *)
(* A batch happens entirely or not at all.                                  *)
(***************************************************************************)
EXTENDS Integers, Sequences

CONSTANTS Users, Companies, Classrooms, ClassroomOf

VARIABLES
  wallet,   \* [Users \X Classrooms -> Int]
  shares,   \* [Companies \X Users -> Nat]
  offers,   \* sequence of [user, company, side, price, open]
  trades    \* sequence of executed trades

vars == <<wallet, shares, offers, trades>>

Books == [wallet |-> wallet, shares |-> shares, offers |-> offers]

CanExecute(s, t) ==
  LET b == s.offers[t.buyOrder]
      q == s.offers[t.sellOrder]
  IN /\ b.side = "buy" /\ b.user = t.buyer /\ b.company = t.company
     /\ q.side = "sell" /\ q.user = t.seller /\ q.company = t.company
     /\ t.buyer # t.seller
     /\ q.price <= t.price /\ t.price <= b.price
     /\ 0 < t.shares /\ t.shares <= b.open /\ t.shares <= q.open
     /\ t.shares <= s.shares[<<t.company, t.seller>>]
     /\ t.shares * t.price <= s.wallet[<<t.buyer, ClassroomOf[t.company]>>]

Execute(s, t) ==
  LET k == ClassroomOf[t.company]
      m == t.shares * t.price
  IN [wallet |-> [s.wallet EXCEPT ![<<t.buyer, k>>] = @ - m,
                                  ![<<t.seller, k>>] = @ + m],
      shares |-> [s.shares EXCEPT ![<<t.company, t.buyer>>] = @ + t.shares,
                                  ![<<t.company, t.seller>>] = @ - t.shares],
      offers |-> [i \in DOMAIN s.offers |->
                    IF i \in {t.buyOrder, t.sellOrder}
                      THEN [s.offers[i] EXCEPT !.open = @ - t.shares]
                      ELSE s.offers[i]]]

\* The books s, and what the trades m + 1 .. k of ts make of them one by one.
Course(s, ts, m, k) ==
  LET books[n \in m .. k] == IF n = m THEN s ELSE Execute(books[n - 1], ts[n])
  IN books

-----------------------------------------------------------------------------
Init == trades = <<>> /\ offers = <<>>

Offer ==
  /\ Len(offers') = Len(offers) + 1
  /\ LET o == offers'[Len(offers')] IN
       o.open > 0 /\ offers' = Append(offers, o)
  /\ UNCHANGED <<wallet, shares, trades>>

Withdraw ==
  /\ \E i \in 1 .. Len(offers) :
       offers[i].open > 0 /\ offers' = [offers EXCEPT ![i].open = 0]
  /\ UNCHANGED <<wallet, shares, trades>>

\* Money spent elsewhere.
Spend ==
  /\ \E w \in Users \X Classrooms :
       \E m \in 1 .. wallet[w] : wallet' = [wallet EXCEPT ![w] = @ - m]
  /\ UNCHANGED <<shares, offers, trades>>

Settle ==
  /\ Len(trades') > Len(trades)
  /\ \A i \in 1 .. Len(trades) : trades'[i] = trades[i]
  /\ LET books == Course(Books, trades', Len(trades), Len(trades')) IN
     /\ \A n \in Len(trades) + 1 .. Len(trades') :
          CanExecute(books[n - 1], trades'[n])
     /\ [wallet |-> wallet', shares |-> shares', offers |-> offers']
          = books[Len(trades')]

Next == Offer \/ Withdraw \/ Spend \/ Settle

Spec == Init /\ [][Next]_vars
=============================================================================
