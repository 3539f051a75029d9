CONSTANTS
  RowScale = 101
  OrderDays <- MCOrderDays
  CustDraws <- MCCustDraws
  PartDraws <- MCPartDraws
  Amounts <- MCAmounts
  MaxLines = 2
  ShipLag = {1, 121}
  CommitLag = {30, 90}
  ReceiptLag = {1, 30}
  Files <- MCFiles
  Wanted = "b"
  Colours = 3
  TextColumns <- MCColumns
  TextLengths <- MCTextLengths
  Vocabularies <- MCVocabularies
  TEXT_POOL_SIZE = 300
  BcdDigits = 4
  Numbers <- MCNumbers
  Operands <- MCOperands
  PrintTables <- MCPrintTables
  PrintScale = 300
  Templates <- MCTemplates
  QueryLists <- MCQueryLists
  FlagSets <- MCFlagSets
  SNUM <- MCSNUM
  QM = 127
  QA = 3
  Rndms = {1, 9, 31, 63, 96, 126}
  Snums <- MCSnums
  Permutation <- MCPermutation
  QueryArgs <- MCQueryArgs
  Defaults = {TRUE, FALSE}
  Newer = {TRUE, FALSE}
  Workloads <- MCWorkloads
  RunTypes = {"P", "T", "S", "E"}
  GM = 31
  GA = 3
  GWidth = 64
  RNG_A = 13
  RNG_C = 1
  GSeeds = {1, 2, 17, 30}
  Jumps <- MCJumps
  TopMask = 16
  ToolsBase <- MCToolsBase
  ToolsCommands <- MCToolsCommands
  UpdParts = 5
  SetUnits = 5
  UPD_PCT = 1
  OrderBase = 20
  UpdateScale = 1
  Units = 20
  Parts = 6
  UpdateCommands <- MCCommands
  Junk = {0, 5}
SPECIFICATION KitSpec
INVARIANTS
  KeysRefer
  DatesAgree
  DrawnByWeight
  ColoursDiffer
  TextLength
  DrawsReserved
  BcdExact
  RowLoads
  ChecksumCovers
  OwnParameters
  ParametersDiffer
  QueryIsTemplate
  Executed
  JumpIsSteps
  ToolsAsSerial
  ToolsComplete
  InsertsFresh
  DeletesLive
  Balanced
  SegmentsEven
  DrawnBeyondScale
PROPERTIES
  CalendarExact
  QgenEnds
CHECK_DEADLOCK FALSE
