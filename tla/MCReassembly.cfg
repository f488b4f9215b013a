SPECIFICATION Spec
CONSTANTS
  c1 = c1
  c2 = c2
  Conn = {c1, c2}
  StreamLen = 4
  HeaderLen = 2
  InBody = {4}
  Nuls = {3}
  Modulus = 8
  Isns <- MCIsns
  MaxNodes = 3
  None = None
INVARIANTS StreamRestored TwiceOnlyFromOverlap MissingCauses
CHECK_DEADLOCK FALSE
