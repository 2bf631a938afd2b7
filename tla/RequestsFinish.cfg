SPECIFICATION FairSpec
CONSTANTS
  k1 = k1
  k2 = k2
  r1 = r1
  r2 = r2
  Turn = {t1, t2}
  Tool = {k1, k2}
  Request = {r1, r2}
  NoTurn = NoTurn
  ToolOf <- TwoTools
  Cancellable = {}
PROPERTIES
  RequestFinishes
CHECK_DEADLOCK FALSE
