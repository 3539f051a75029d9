CONSTANTS
  Tests = 2
  NUM_STREAMS = 2
  Queries = 2
  N_OPTMZ = 0
  N_RUN = 1
  Plans <- MCPlans
  MaxFails = 1
SPECIFICATION Spec
INVARIANTS
  TypeOK
  OwnEnd
  Accounted
PROPERTIES
  ReportFinal
  Ends
