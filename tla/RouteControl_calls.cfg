SPECIFICATION Spec
CONSTANTS
  WidthV4 = 2
  WidthV6 = 3
  V4InV6Prefix <- MCV4InV6
  SubnetMin = 1
  SubnetMax = 1
  Host = o1
  Ranged = o2
  Admin = admin
  Owners = {o1, o2, admin}
  PrefixSet <- MCPrefixes
  OtherKeys = {n1}
  Kind <- MCKind
  PolicyOf <- MCPolicies
  Calls = {c1, c2}
  PerOwner = 1
  WithdrawAlls = {TRUE, FALSE}
  MaxCalls = 3
INVARIANTS
  TypeOK SerialUniqueOwner PolicyKept EventsTellStore GaugesCount SessionsCounted
  ChangesSeen
SYMMETRY MCSymmetry
CHECK_DEADLOCK FALSE
