SPECIFICATION PlannedSpec
CONSTANTS
  g1 = g1
  g2 = g2
  alice = alice
  bob = bob
  carol = carol
  None = None
  Nodes = {g1, g2}
  Origins = {g1, g2}
  Users = {alice, bob, carol}
  Home <- HomeOutside
  Clients = {"c1", "c2"}
  W = 64
  Balances = {9}
  Amounts = {5, 62}
  Base = 4
  LocalRate = 1
  CrossRate = 3
  QueueCap = 1
  Budgets <- AllPlans
INVARIANTS TypeOK MoneyKept ChainSound
PROPERTY SubmitReturns
CHECK_DEADLOCK FALSE
