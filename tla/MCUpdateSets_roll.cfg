CONSTANTS
  OrderBase = 20
  UpdateScale = 1
  Units = 20
  Parts = 6
  UpdateCommands <- Rollover
  Junk = {0, 5}
SPECIFICATION UpdateSpec
INVARIANTS
  DeletesLiveAfterRollover
