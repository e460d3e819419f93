SPECIFICATION MCSpec
CONSTANTS
  Specs <- TwoSpecs
  Passwords = {w1}
  Nodes = {m1}
  Absent = Absent
  Lagging = {"cluster", "cr"}
  Troubles = {"recreate", "edit", "rotate", "meddle", "fault", "crash"}
  MaxTroubles = 1
INVARIANTS TypeOK NoOrphanRoles
PROPERTIES EditsKept Settles
CHECK_DEADLOCK FALSE
