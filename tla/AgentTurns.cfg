SPECIFICATION Spec
CONSTANTS
  k1 = k1
  k2 = k2
  r1 = r1
  r2 = r2
  Turn = {t1, t2, t3}
  Tool = {k1}
  Request = {r1, r2}
  NoTurn = NoTurn
  ToolOf <- OneTool
  Cancellable = {t1}
SYMMETRY Turns
INVARIANTS
  TypeOK
  TurnsRecordedOnce
  HeldRequests
  PromptsAreAnswerable
  WindowAgrees
PROPERTIES
  ToolOutcomeSticks
CHECK_DEADLOCK FALSE
