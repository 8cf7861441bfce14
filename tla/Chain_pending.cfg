SPECIFICATION FairSpec
CONSTANTS
  Clients = {"c1"}
  Data <- TwoData
  Payloads <- Mixed
  W = 65536
  MaxBatch = 1
  EventCap = 1
  HistoryCap = 3
  CacheCap = 2
  CacheKeep = 1
  MaxTx = 1
  MaxHeight = 3
  MaxStops = 0
PROPERTY PendingResolved
CHECK_DEADLOCK FALSE
