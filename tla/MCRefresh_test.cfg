CONSTANTS
  Runs = 10
  Batch = 2
  Caller = "test"
  SqlFails = TRUE
  DbgenFails = FALSE
SPECIFICATION Spec
INVARIANTS
  TypeOK
  Applied
  NoGap
PROPERTIES
  Finishes
