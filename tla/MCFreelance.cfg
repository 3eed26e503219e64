SPECIFICATION MCSpec
CONSTANTS
  k1 = k1
  None = None
  Users = {a, b, c}
  Jobs = {j1, j2}
  Classrooms = {k1, k2}
  Requests = {r1, r2}
  Prices = {0, 1, 2}
  InitialFunds <- MCFunds
  HomeRoom <- MCHomeRoom
  Spendings = {1}
  MaxEvents = 1
  MaxRestarts = 1
SYMMETRY Symmetry
INVARIANTS
  TypeOK
  NoOverdraft
  ContractsAreFunded
  FreelancerKnown
  PaymentsAreEarned
  CompletedIsPaid
  SerialContracts
