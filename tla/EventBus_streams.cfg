SPECIFICATION MCSpec
CONSTANTS
  Streams = {s1, s2}
  Publishers = {p1, p2}
  Owners = {o1, o2}
  Types = {t1}
  NoOwner = noOwner
  OwnerFilter <- MCOwnerFilter
  TypeFilter <- MCTypeFilter
  Cap = 2
  MaxEvents = 3
INVARIANTS TypeOK NeverSendsOnClosed NothingElseLost
PROPERTIES StreamsDeliver PublishEnds StreamsEnd
CHECK_DEADLOCK FALSE
