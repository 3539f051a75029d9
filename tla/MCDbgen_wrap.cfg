CONSTANTS
  Modulus <- SmallModulus
  Base <- TenOrders
  MaxProcs = 2
  Commands <- TwoSteps
  LineCounts <- AllLines
  VarDraws <- FewDraws
  MaxCrashes <- NoCrashes
SPECIFICATION Spec
INVARIANTS
  RowsAsSerial
