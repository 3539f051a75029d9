CONSTANTS
  Runs = 3
  Batch = 1
  Caller = "user"
  SqlFails = FALSE
  DbgenFails = TRUE
SPECIFICATION Spec
INVARIANTS
  RF2Apart
CHECK_DEADLOCK FALSE
