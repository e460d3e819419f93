SPECIFICATION Spec
CONSTANTS
  Neighbors = {}
  PrefixSet = {k1}
  Proto <- AllBGP
  Ifaces = {}
  ASNs = {1}
  Cores = {c1}
  Opts = {}
  AFs = {v4}
  Attrs = {a1}
  BFDParams = {b1}
  Areas = {r1}
  OSPFParams = {x1}
  None = None
  ConfigAS = 1
  MaxFaults = 1
  Owners = {o1}
  ConfigOwner = config
  ConfigPeers <- NoPeers
  Requests <- AnyPrefix
  DefaultAF = v4
  DefaultBFD = b1
  MaxCalls = 3
  MaxRestarts = 0
  MaxCrashes = 0
  CancelWhen = "never"
INVARIANT PrefixesConverge
