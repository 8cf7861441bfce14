SPECIFICATION Spec
CONSTANTS
  v1 = v1
  v2 = v2
  v3 = v3
  v4 = v4
  Validators <- Two
  KeyOrder <- OrderTwo
  Payloads = {"tx1", "tx2"}
  NoTxs = "nil"
  None = None
  MaxHeight = 2
  MaxRound = 1
INVARIANT Agreement
CHECK_DEADLOCK FALSE
