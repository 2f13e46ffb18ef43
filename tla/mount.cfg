CONSTANTS
  Width = 8
  IntWidth = 4
  Limits = {4, 7, 8, 9, 14, 30, 70, 133, 134, 255}
  Memory = 31
  MaxFields = 4
SPECIFICATION Spec
INVARIANTS TypeOK TablesListReplicas TableWithinLimit RegularNeverCrashes
PROPERTIES MountIsBounded
CHECK_DEADLOCK FALSE
