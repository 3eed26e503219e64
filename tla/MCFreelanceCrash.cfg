SPECIFICATION MCSpec
CONSTANTS
  k1 = k1
  None = None
  Users = {a, b}
  Jobs = {j1}
  Classrooms = {k1}
  Requests = {r1}
  Prices = {0, 1, 2}
  InitialFunds <- MCFunds
  HomeRoom <- MCHomeRoom
  Spendings = {1}
  MaxEvents = 0
  MaxRestarts = 1
SYMMETRY Symmetry
INVARIANT EscrowConserved
