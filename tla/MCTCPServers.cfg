SPECIFICATION FairSpec
CONSTANTS
  Client = {c1, c2, c3}
  MsgLen = 3
  BufSize = 2
  None = None
INVARIANTS EchoEndsByItsClient ForwardedInBlocks
PROPERTIES ServedClientIsLeft
CHECK_DEADLOCK FALSE
