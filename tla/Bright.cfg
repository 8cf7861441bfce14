SPECIFICATION Spec
CONSTANTS
  g1 = g1
  g2 = g2
  h1 = h1
  h2 = h2
  k1 = k1
  k2 = k2
  p1 = p1
  p2 = p2
  p3 = p3
  Accounts = {1, 2, 3, 4}
  Callers = {k1, k2}
  MinGenesisUsers = 2
  MaxWeight = 60
  Month = 1
  Tenth = 2
  LowScore = 30
  Lows = 2
  SlashPercent = 20
  CapPercent = 30
  TermLen = 2
  CoolDown = 1
  MaxTerms = 1
  Busy = 100
  Wrap = 4096
  MaxHeight = 6
  MaxTime = 2
  MaxStops = 1
  MaxBans = 1
  Debtors = {p3}
  Guarantors = {g1, g2}
  Debts = {3}
  BlocksPerEpoch = 2
  AppealWindow = 1
  Rates <- ThreeRates
  GoodEpochs = 1
  MaxProvisions = 1
  KeepSettled = 0
  LastBlock = 4
  MaxDefaults = 2
  Holders = {h1, h2}
  Locks = {1, 2}
  Nullifiers = {1, 2}
  FaceValues = {1, 3}
  Week = 1
  LastDay = 3
  MaxIssues = 2
  Proposers = {p3}
  PBase = 10
  UpdateInterval = 1
  VotingDelay = 1
  VotingLen = 1
  TransitionBlocks = 1
  Quorum = 5
  Weights = {2, 5}
  NewValues = {0, 50}
  EndHeight = 3
  MaxVotes = 2
  MaxProposals = 2
  MaxTallies = 2
  Keepers = {h1, h2}
  Participants = {p1, p2, p3}
  Seeds = {1, 2}
  CommitWindow = 1
  RevealWindow = 1
  EndTime = 3
  Sides = {p1, p2}
  PerEpoch = 2
  MaxBlocks = 3
  MaxMerges = 2
SYMMETRY Sym
PROPERTIES UsersSound GovernanceSound DefaultsSound ParamsSound ValidatorsSound
CHECK_DEADLOCK FALSE
