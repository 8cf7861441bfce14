SPECIFICATION Spec
CONSTANTS
  s1 = s1
  s2 = s2
  k1 = k1
  k2 = k2
  loop = loop
  Spenders = {s1, s2}
  Secrets = {k1, k2}
  Genesis <- Seeds
  SplitFrom = 6
  Amounts = {3}
  W = 8
  MaxInputs = 2
  MaxCalls = 2
  MaxStops = 1
  Commitments = {1, 2, 3, 4, 5}
  Actors = {s1, s2, loop}
  Loop = loop
  BorrowerSeeds = {"x"}
  LenderSeeds = {k1, k2}
  NoSeed = "none"
  MaxLoans = 1
  MaxCrashes = 1
  Domains = {1, 2}
  Users = {"u"}
  TransferAmounts = {199, 400}
  Epochs = {1}
  Communities = {"c", "d"}
  Ferries = {"f1"}
  PoolWidth = 512
  Totals = {0, 2, 5, 30}
  Counts = {1, 3}
  Weights = {1, 4}
  Payers = {s1, s2}
  FragmentWidth = 64
  MaxPayments = 4
  FerryNodes = {"f1", "f2"}
  Receipts = {"a", "b"}
  ReceiptID <- SameID
  Forged = {"b"}
  Injectors = {"f1"}
  Expiring = {"a"}
  Storing <- OneGift
  Bound = {k1, k2}
  Assets = {"asset"}
  AssetOf <- SameAsset
  BlocksPerEpoch = 2
  KeepEpochs = 1
  MaxBlocks = 3
  MaxEpoch = 4
  MaxTries = 2
SYMMETRY Sym
INVARIANTS NotesSound TreeSound LoansSound FragmentsSound
PROPERTIES RouterSound ReceiptsSound
CHECK_DEADLOCK FALSE
