SPECIFICATION Spec
CONSTANTS
  c1 = c1
  c2 = c2
  Communities = {"g", "a", "b", "c", "d"}
  Root = "g"
  Bonds = {10, 90}
  MaxDistance = 1
  MinSecurityCoeff = 10
  Parties = {"a", "b"}
  Stakes = {0, 1}
  MaxTime = 1
  MaxEdges = 2
  Reasons = {"fraud", "double spend"}
  Cooldown <- Short
  Offenders = {"b", "c"}
  Final = {"fraud"}
  Callers = {c1, c2}
  TransferAmounts = {1, 2, 3}
  Kept <- Kept32
  PoolWidth = 4
  MaxTransfers = 4
  Owners = {"o", "p"}
  IDWidth = 4
  FirstID = 2
  MaxNames = 6
  MaxHeight = 1
  Keys = {1, 2, 3}
  Founders = {2, 3}
  Hashes = {1, 2}
  MaxRequests = 2
  MaxRoots = 2
  MaxMembers = 4
  p1 = p1
  p2 = p2
  p3 = p3
  p4 = p4
  r1 = r1
  r2 = r2
  r3 = r3
  Players = {p1, p2, p4}
  Regions = {r1}
  Activities = {r1, r2}
  StartGold = 4
  MaxGold = 6
  MaxSlots = 1
  RegionLimit = 2
  MaxLevel = 3
  XPPerLevel = 2
  MonsterXP = 1
  MonsterGold = 1
  CraftCost = 2
  MallCost = 3
  Brief = {p4}
  XPWidth = 7
  Timeout = 1
  Prices = {0, 3}
  Gains = {0, 5}
  MaxAssets = 2
  MaxKills = 3
  MaxSeconds = 2
  Citizens = {p1, p2, p3}
  GuildNames = {"cats", "dogs"}
  GuildXP = 2
  SkillCost = 1
  ProposalLife = 0
  GuildWidth = 8
  Deposits = {2, 7}
  GuildGains = {1, 7}
  MaxGuilds = 2
  MaxMotions = 1
  MaxDays = 1
  MaxDeposits = 2
  MaxGains = 2
  Partners = {c1, c2}
  Names = {r1, r2, r3}
  Scores = {1, 2, 3}
  PartySize = 2
  BoardSize = 2
  MaxParties = 2
  MaxContribution = 1
  MaxUpdates = 4
  MaxLists = 1
  Customers = {c1, c2}
  Authors = {c1, c2}
  Pleas = {1}
  GoldWidth = 5
  Shares = 2
  Rates = {1, 4}
  Cooldowns = {0, 1}
  DailyLimits = {0, 3}
  Announcement = 1
  Golds = {1, 2}
  Units = {1}
  MallPrices = {1}
  MaxHours = 2
  MaxGoldOps = 5
  MaxChanges = 2
SYMMETRY Sym
INVARIANTS GraphSound BridgeSound NamespacesSound GameSound
PROPERTIES SlashingSound GuildsSound PartiesSound EconomySound
CHECK_DEADLOCK FALSE
