SPECIFICATION MCSpec
CONSTANTS
  BGPKeys = {b1}
  BFDKeys = {f1, f2}
  OSPFKeys = {p1}
  Wide = f2
  Via <- MCVia
INVARIANTS
  TypeOK
  EventsTellPolls
PROPERTIES
  EventsTellChanges
  EndsTold
