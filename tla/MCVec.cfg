SPECIFICATION VecSpec
CONSTANTS
  u = u
  v = v
  Vector = {u, v}
  Value = {0, 2}
  MaxLen = 3
INVARIANTS CrashOnlyIfGrowthFailed ReadsAsWritten DotProductIsInnerProduct
CHECK_DEADLOCK FALSE
