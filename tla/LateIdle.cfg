SPECIFICATION Spec
CONSTANTS
  k1 = k1
  k2 = k2
  r1 = r1
  r2 = r2
  Turn = {t1, t2}
  Tool = {k1}
  Request = {r1, r2}
  NoTurn = NoTurn
  ToolOf <- OneTool
  Cancellable = {t1, t2}
SYMMETRY Turns
PROPERTIES
  CompletedTurnIsIdle
CHECK_DEADLOCK FALSE
