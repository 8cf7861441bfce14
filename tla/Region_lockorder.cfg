SPECIFICATION FairSpec
CONSTANTS
  g1 = g1
  g2 = g2
  alice = alice
  bob = bob
  carol = carol
  None = None
  Nodes = {g1, g2}
  Origins = {g1}
  Users = {alice, bob}
  Home <- HomeInside
  Clients = {"c1"}
  W = 64
  Balances = {16}
  Amounts = {5}
  Base = 4
  LocalRate = 1
  CrossRate = 3
  QueueCap = 1
  Budgets <- OnlySave
PROPERTY SaveReturns
CHECK_DEADLOCK FALSE
