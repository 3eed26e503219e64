SPECIFICATION Spec
CONSTANTS
  founder = founder
  k1 = k1
  firm = firm
  None = None
  Users = {founder, u2}
  Companies = {firm}
  Classrooms = {k1}
  ClassroomOf <- MCClassroomOf
  Requests = {r1, r2}
  Quantities = {1, 2}
  Prices = {1, 2}
  InitialFunds <- MCFunds
  Founding <- MCFounding
  OpeningValue <- MCOpeningValue
  CreatedAt <- MCCreatedTied
  MaxOrders = 3
  HomeRoom <- MCHomeRoom
  Spendings = {}
  MaxEvents = 1
SYMMETRY Symmetry
INVARIANTS
  TypeOK
  MoneyFollowsTrades
  NoOverdraft
  TradesHonourOrders
  NoShareLost
