SPECIFICATION Spec
CONSTANTS
  None = None
  u1 = u1
  u2 = u2
  u3 = u3
  k1 = k1
  k2 = k2
  c1 = c1
  c2 = c2
  x1 = x1
  p1 = p1
  Users = {u1, u2, u3}
  Classrooms = {k1, k2}
  Requests = {r1}
  InitialFunds <- MCFunds
  HomeRoom <- MCHomeRoom
  Workloads <- MCCancel
  MaxRequests <- MCCancelRequests
  MaxRestarts = 0
  Companies = {c1, c2}
  StartFirm <- MCFirm
  StartPot <- MCPot
  StartHolding <- MCHolding
  FoundingShares = 3
  ListingThreshold = 6
  Capitals = {2}
  Amounts = {3}
  Disclosures = {d1, d2}
  Rewards <- MCRewards
  Blocks = {1, 2}
  Admin = u1
  AdminRoom = k1
  Keys = {y1}
  Rounds = {x1, x2}
  StartRound <- MCRound
  StartInvestments <- MCInvestments
  Offers <- MCOffers
  Lots = {1, 2}
  Dividends = {v1}
  Proposals = {p1, p2}
  StartProposal <- MCProposal
  ProposalTypes <- MCTypes
  DefaultThreshold <- MCThreshold
  Thresholds = {0, 44}
  RoundedUp <- MCRoundedUp
  RoundedDown <- MCRoundedDown
  TaxPercent = 20
INVARIANT
  CancelUndoesRound
