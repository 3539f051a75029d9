CONSTANTS
  PrintTables = {"orders", "lineitem"}
  PrintScale = 1000
SPECIFICATION PrintSpec
INVARIANT RowLoads
CHECK_DEADLOCK FALSE
