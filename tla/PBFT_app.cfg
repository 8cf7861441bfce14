SPECIFICATION Spec
CONSTANTS
  v1 = v1
  v2 = v2
  v3 = v3
  v4 = v4
  Validators <- Two
  KeyOrder <- OrderTwo
  Payloads = {"tx"}
  NoTxs = "nil"
  None = None
  MaxHeight = 2
  MaxRound = 1
INVARIANTS TypeOK QuorumsBacked PrevotesAgree
CHECK_DEADLOCK FALSE
