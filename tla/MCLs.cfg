SPECIFICATION FairSpec
CONSTANTS
  Entry <- MCEntry
  Dir <- MCDir
  Parent <- MCParent
  Outside = "outside"
  Hidden = {"h"}
  Rank <- MCRank
  Size <- MCSize
  Time <- MCTime
  NameLen <- MCLen
  Unreadable = {}
  Unreachable = {"sub"}
  Overlong = {"long"}
  NoOwner = {"x"}
  Commands <- MCCommands
  Widths <- MCWidths
  Cwd = "top"
  IntValues = 8
  MaxRemovals = 2
  MaxDepth = 3
INVARIANTS ListingIsComplete ListingIsSorted CrashHasCause
PROPERTIES Terminates
CHECK_DEADLOCK FALSE
