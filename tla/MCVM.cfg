SPECIFICATION FairSpec
CONSTANTS
  W = 256
  Start = 8
  Images <- MCImages
INVARIANTS ProgramUnchanged EndsWhereTheTextSays
PROPERTIES ComputesResult
CHECK_DEADLOCK FALSE
