SPECIFICATION AloneSpec
CONSTANTS
  v1 = v1
  v2 = v2
  v3 = v3
  v4 = v4
  Validators <- Four
  KeyOrder <- OrderFour
  Payloads = {}
  NoTxs = "nil"
  None = None
  MaxHeight = 4
  MaxRound = 1
PROPERTY EventuallyCommits
CHECK_DEADLOCK FALSE
