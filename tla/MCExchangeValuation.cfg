SPECIFICATION Spec
CONSTANTS
  founder = founder
  k1 = k1
  firm = firm
  None = None
  Users = {founder, u2}
  Companies = {firm}
  Classrooms = {k1}
  ClassroomOf <- MCClassroomOf
  Requests = {r1}
  Quantities = {1, 2}
  Prices = {1, 2}
  InitialFunds <- MCFunds
  Founding <- MCFounding
  OpeningValue <- MCOpeningValue
  CreatedAt <- MCCreatedAt
  MaxOrders = 2
  HomeRoom <- MCHomeRoom
  Spendings = {2}
  MaxEvents = 0
INVARIANT ValuationFollowsTrades
