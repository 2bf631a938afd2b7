SPECIFICATION Spec
CONSTANTS
  MaxEdits = 1
  MaxExternal = 1
  MaxFaults = 1
  Nothing = Nothing
INVARIANTS
  TypeOK
  SavesDoNotOverlap
  ErrorIsDirty
  
  BackupIsCurrent
PROPERTIES
  
  HotExit
CHECK_DEADLOCK FALSE
