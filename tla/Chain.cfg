SPECIFICATION FairSpec
CONSTANTS
  Clients = {"c1", "c2"}
  Data <- AllData
  Payloads <- AllMixed
  W = 1024
  MaxBatch = 1
  EventCap = 1
  HistoryCap = 2
  CacheCap = 1
  CacheKeep = 1
  MaxTx = 2
  MaxHeight = 3
  MaxStops = 1
INVARIANTS TypeOK RunsSound HistorySound PoolParts
PROPERTY BlocksProgress
CHECK_DEADLOCK FALSE
