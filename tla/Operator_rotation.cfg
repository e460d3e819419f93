SPECIFICATION FairSpec
CONSTANTS
  Specs <- OneSpec
  Passwords = {w1, w2}
  Nodes = {m1}
  Absent = Absent
  Lagging = {"cluster"}
  Troubles = {"rotate"}
  MaxTroubles = 1
PROPERTY SecretRotates
CHECK_DEADLOCK FALSE
