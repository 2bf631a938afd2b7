SPECIFICATION Spec
CONSTANTS
  MaxEdits = 1
  MaxExternal = 0
  MaxFaults = 0
  Nothing = Nothing
INVARIANTS
  RevertedIsOnDisk
CHECK_DEADLOCK FALSE
