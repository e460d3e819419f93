SPECIFICATION FairSpec
CONSTANTS
  Neighbors = {}
  PrefixSet = {k1}
  Proto <- AllBGP
  Ifaces = {}
  ASNs = {1}
  Cores = {c1}
  Opts = {}
  AFs = {v4}
  Attrs = {}
  BFDParams = {b1}
  Areas = {r1}
  OSPFParams = {x1}
  None = None
  ConfigAS = 1
  MaxFaults = 0
  Owners = {o1}
  ConfigOwner = config
  ConfigPeers <- NoPeers
  Requests <- AnyPrefix
  DefaultAF = v4
  DefaultBFD = b1
  MaxCalls = 1
  MaxRestarts = 1
  MaxCrashes = 0
  CancelWhen = "never"
PROPERTY PrefixDriftRepaired
