SPECIFICATION ObservedSpec
CONSTANTS
  Window = {w1}
  Key = {k}
  Value = {x, y}
  Absent = Absent
  NoBackup = NoBackup
  MaxCalls = 4
  MaxFaults = 0
INVARIANTS
  LastStoreWins
CHECK_DEADLOCK FALSE
