SPECIFICATION FairSpec
CONSTANTS
  a = a
  b = b
  c = c
  Data = {a, b, c}
  NoData = NoData
  NoSocket = NoSocket
  Socket = {1, 2, 3}
  ToSend <- Crossing
  MaxFaults = 2
INVARIANTS
  TypeOK
  UndeliveredIsKept
  NoGap
  ConnectedToEachOther
  FailureIsFinal
  GraceTimersOnlyWhenClosed
PROPERTIES
  ImplementsChannel
  EverythingArrives
  GoneClientsAreDisposed
CHECK_DEADLOCK FALSE
