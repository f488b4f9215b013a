SPECIFICATION Spec
CONSTANTS
  Key = {1, 2}
  Value = {v1, v2}
  MaxLevel = 2
  MaxNodes = 3
  GenLevel = 0
  None = None
  Modes = {TRUE}
  KeyNotFound = KeyNotFound
INVARIANTS DeletedKeyIsGone
CHECK_DEADLOCK FALSE
