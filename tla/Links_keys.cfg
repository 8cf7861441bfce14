SPECIFICATION Spec
CONSTANTS
  Conns = {c1, c2}
  IDs = {d1}
  Writers = {w1, w2}
  None = None
  Busy = {c1}
  MaxFrames = 2
  MaxSkip = 2
  MaxSent = 4
  MaxKeys = 4
  MaxChain = 2
  Nodes = {"a", "b", "c"}
  Nobody = Nobody
  Calls = {"x", "y"}
  Tables <- FriendsOf
  Meant <- MeantCalls
  Hosts = {"s", "r", "q", "f", "g"}
  CoreTable <- CoreOf
  Neighbours <- NeighboursOf
  Searching = {"s"}
  HopMax = 2
  SlotLimit = 2
  RelayCap = 1
  BeaconTTL = 1
  Window = 2
  LastTick = 3
  MaxBeacons = 1
  Callers = {"u", "v"}
  Buddies = {"f", "g"}
  Unmapped = Unmapped
  Attempts = 2
  SignalCap = 1
  Stations = {"s", "h", "i", "j", "x"}
  Talker = "s"
  Trusted = {"h", "i", "j", "x"}
  Linked <- LinkedTo
  Address <- AddressOf
  Port <- PortOf
  Lengths <- HopsOf
  Offset = 2
  MaxSwitches = 3
  MaxMessages = 2
INVARIANT FramesReadable
CHECK_DEADLOCK FALSE
