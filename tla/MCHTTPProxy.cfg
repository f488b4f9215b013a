SPECIFICATION FairSpec
CONSTANTS
  Client = {c1, c2}
  Requests <- MCRequests
  Responses <- MCResponses
  BufSize = 6
  Backlog = 2
  None = None
INVARIANTS RequestEndDetected FatalCauses
PROPERTIES WholeResponseForBodyless ServedToTheEnd
CHECK_DEADLOCK FALSE
