SPECIFICATION FairSpec
CONSTANTS
  Window = {w1, w2}
  Key = {k}
  Value = {x}
  Absent = Absent
  NoBackup = NoBackup
  MaxCalls = 4
  MaxFaults = 1
INVARIANTS
  TypeOK
  UnsavedIsPending
  QuietWindowsAgree
  ClosedIsSaved
CHECK_DEADLOCK FALSE
PROPERTIES
  WindowsAgree
  CloseEnds
