CONSTANTS
  Width = 8
  IntWidth = 4
  Limits = {30}
  Memory = 31
  MaxFields = 2
SPECIFICATION Spec
INVARIANTS PathsReadable
CHECK_DEADLOCK FALSE
