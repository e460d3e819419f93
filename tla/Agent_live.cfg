SPECIFICATION FairSpec
CONSTANTS
  Neighbors = {n1}
  PrefixSet = {k1}
  Proto <- AllBGP
  Ifaces = {}
  ASNs = {1}
  Cores = {c1}
  Opts = {}
  AFs = {v4}
  Attrs = {a1}
  BFDParams = {b1}
  Areas = {r1}
  OSPFParams = {x1}
  None = None
  ConfigAS = 1
  MaxFaults = 1
  Owners = {o1}
  ConfigOwner = config
  ConfigPeers <- NoPeers
  Requests <- PeerAndPrefix
  DefaultAF = v4
  DefaultBFD = b1
  MaxCalls = 2
  MaxRestarts = 0
  MaxCrashes = 0
  CancelWhen = "any"
PROPERTIES Settles Recovers ShutdownEnds
CHECK_DEADLOCK FALSE
