CONSTANTS
  Runs = 2
  Batch = 2
  Caller = "user"
  SqlFails = FALSE
  DbgenFails = FALSE
SPECIFICATION Spec
INVARIANTS
  RF1Apart
CHECK_DEADLOCK FALSE
