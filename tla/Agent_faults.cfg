SPECIFICATION Spec
CONSTANTS
  Neighbors = {n1}
  PrefixSet = {k1}
  Proto <- AllBGP
  Ifaces = {i1}
  ASNs = {1, 2}
  Cores = {c1}
  Opts = {}
  AFs = {v4}
  Attrs = {a1}
  BFDParams = {b1}
  Areas = {r1}
  OSPFParams = {x1}
  None = None
  ConfigAS = 0
  MaxFaults = 1
  Owners = {o1}
  ConfigOwner = config
  ConfigPeers <- NoPeers
  Requests <- PeerPrefixBFDOSPF
  DefaultAF = v4
  DefaultBFD = b1
  MaxCalls = 2
  MaxRestarts = 1
  MaxCrashes = 1
  CancelWhen = "any"
INVARIANTS TypeOK NoLostUpdate
PROPERTY RemovesOnlyUndesired
CHECK_DEADLOCK FALSE
