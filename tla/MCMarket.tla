------------------------------ MODULE MCMarket ------------------------------
(***************************************************************************)
(* One listed company of fifty shares: 28 are of u1, 21 of u3, and one is of  *)
(* u2, who has bought it in a round that is still open; and a name that is    *)
(* free.  Each behaviour draws one of the mixes of requests.                  *)
(***************************************************************************)
EXTENDS Market

CONSTANTS u1, u2, u3, k1, k2, c1, c2, x1, p1

MCFunds == [w \in Users \X Classrooms |-> IF w[2] = k1 THEN 4 ELSE 2]
MCHomeRoom == [u \in Users |-> k1]

MCFirm == [c \in Companies |->
  IF c = c1
  THEN [owner |-> u1, total |-> 50, initial |-> 5, capital |-> 6, valuation |-> 5,
        listed |-> TRUE, status |-> "active", room |-> k1]
  ELSE None]
MCPot == [c \in Companies |-> IF c = c1 THEN 8 ELSE None]
MCHolding == [x \in Companies \X Users |->
  IF x = <<c1, u1>> THEN 28 ELSE IF x = <<c1, u2>> THEN 1
  ELSE IF x = <<c1, u3>> THEN 21 ELSE 0]

MCOffers == {[target |-> 4, num |-> 3, den |-> 52]}
MCRewards == {-1, 1}
MCTypes == {"liquidation"}
MCThreshold == [t \in {"general", "liquidation"} |-> IF t = "general" THEN 50 ELSE 70]

\* float64 knows no 29/50 and no 28/50: 29/50 * 100 is less than 58, and 28/50 * 100
\* more than 56; these are all such quotients of fifty.
MCRoundedDown == {<<29, 50>>}
MCRoundedUp == {<<7, 50>>, <<14, 50>>, <<28, 50>>}

\* A round is open: three shares for 4, one of them sold for 1.
MCRound == [x \in Rounds |->
  IF x = x1
  THEN [co |-> c1, offer |-> CHOOSE o \in MCOffers : TRUE, status |-> "open",
        current |-> 1, shares |-> 3]
  ELSE None]
MCInvestments == << [round |-> x1, user |-> u2, amount |-> 1, shares |-> 1] >>

\* And the liquidation of the company is put to the vote; u1 and u2 together have
\* just the shares that it needs.
MCProposal == [p \in Proposals |->
  IF p = p1
  THEN [co |-> c1, by |-> u1, type |-> "liquidation", threshold |-> 58,
        status |-> "active"]
  ELSE None]

Two == { {"CreateRound", "CancelRound", "AddKpiRevenue"},
         {"Invest", "CancelRound", "CloseRoundEarly"},
         {"Invest", "ExecuteDividend", "SharesChangeHands"} }

Three == { {"CreateCompany", "ActivateClassroom"},
           {"CancelRound", "SharesChangeHands", "ExecuteDividend"},
           {"CreateProposal", "CastVote", "CancelProposal", "ReadProposal",
            "VotingEnds", "ExecuteLiquidation"} }

Four == { {"CreateDisclosure", "ReviewDisclosure"},
          {"Transfer", "AdminCompanyCredit"},
          {"ExecuteDividend", "AddKpiRevenue"},
          {"CastVote", "AddKpiRevenue", "ExecuteLiquidation"} }

\* One request at a time, for the comment on CancelRoundAndRefund.
MCCancel == {{"Invest", "SharesChangeHands", "CancelRound"}}
MCCancelRequests == [m \in MCCancel |-> 3]

MCWorkloads == Two \cup Three \cup Four
MCMaxRequests ==
  [m \in MCWorkloads |-> IF m \in Two THEN 2 ELSE IF m \in Three THEN 3 ELSE 4]

Symmetry == Permutations(Requests)
=============================================================================
