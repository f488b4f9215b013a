SPECIFICATION FairSpec
CONSTANTS
  Plans <- MCPlans
  Tables <- MCTables
  MaxCalls = 5
INVARIANTS RowsFollowPlan NoRowTwice CrashCauses
PROPERTIES EndIsFinal CallsReturn
CHECK_DEADLOCK FALSE
