SPECIFICATION FairSpec
CONSTANTS
  Streams = {s1}
  Publishers = {p1}
  Owners = {o1}
  Types = {t1}
  NoOwner = noOwner
  OwnerFilter <- MCOwnerFilter
  TypeFilter <- MCTypeFilter
  Cap = 1
  MaxEvents = 3
PROPERTY StopEnds
CHECK_DEADLOCK FALSE
