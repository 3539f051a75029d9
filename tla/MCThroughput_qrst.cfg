CONSTANTS
  Tests = 1
  NUM_STREAMS = 2
  Queries = 2
  N_OPTMZ = 1
  N_RUN = 1
  Plans <- Restarting
  MaxFails = 0
SPECIFICATION Spec
PROPERTIES
  RestartBetweenBatches
