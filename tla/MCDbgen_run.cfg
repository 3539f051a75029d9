CONSTANTS
  Modulus <- MCModulus
  Base <- TwoRows
  MaxProcs = 3
  Commands <- MCCommands
  LineCounts <- MCLineCounts
  VarDraws <- MCVarDraws
  MaxCrashes <- MCCrashes
SPECIFICATION Spec
INVARIANTS
  TypeOK
  RowsAsSerial
  CompleteOnExit
  NothingBufferedAtFork
PROPERTIES
  Terminates
  IsDataSet
