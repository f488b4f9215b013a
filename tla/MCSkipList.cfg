SPECIFICATION SLSpec
CONSTANTS
  Key = {1, 2}
  Value = {v1, v2}
  MaxLevel = 2
  MaxNodes = 4
  GenLevel = 0
  None = None
SYMMETRY Interchangeable
INVARIANTS LevelsAreSorted FindReturnsNewestOfHighest
PROPERTIES ImplementsKeyStacks
CHECK_DEADLOCK FALSE
