CONSTANTS
  Runs = 3
  Batch = 2
  Caller = "user"
  SqlFails = FALSE
  DbgenFails = FALSE
SPECIFICATION Spec
PROPERTIES
  Finishes
CHECK_DEADLOCK FALSE
