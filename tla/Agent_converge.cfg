SPECIFICATION MCSpec
CONSTANTS
  Neighbors = {n1, n2}
  PrefixSet = {k1}
  Proto <- AllBGP
  Ifaces = {i1}
  ASNs = {1, 2}
  Cores = {c1, c2}
  Opts = {t1}
  AFs = {v4, v6}
  Attrs = {a1, a2}
  BFDParams = {b1, b2, "unset"}
  Areas = {r1, r2}
  OSPFParams = {x1, "unset"}
  None = None
  ConfigAS = 1
  MaxFaults = 0
  Owners = {o1, o2}
  ConfigOwner = config
  ConfigPeers <- OneConfigPeer
  Requests <- EachKind
  DefaultAF = v4
  DefaultBFD = b1
  MaxCalls = 3
  MaxRestarts = 0
  MaxCrashes = 0
  CancelWhen = "idle"
INVARIANTS
  PrefixesConverge PrefixesTracked PeersConverge BFDConverge OSPFConverge
  ShutdownLeavesNothing
PROPERTIES RemovesOnlyUndesired PeersWithdrawnLast
CHECK_DEADLOCK FALSE
