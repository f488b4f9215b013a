SPECIFICATION Spec
CONSTANTS
  Key = {1, 2, 3}
  Value = {v1, v2}
  MaxLevel = 2
  MaxNodes = 2
  GenLevel = 0
  None = None
  Modes = {TRUE, FALSE}
  KeyNotFound = KeyNotFound
SYMMETRY ValueSymmetry
INVARIANTS AnswersFollowWrites ScanShowsRange FaultCauses
CHECK_DEADLOCK FALSE
