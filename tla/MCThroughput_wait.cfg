CONSTANTS
  Tests = 1
  NUM_STREAMS = 2
  Queries = 1
  N_OPTMZ = 0
  N_RUN = 1
  Plans <- WithTimeout
  MaxFails = 0
SPECIFICATION Spec
PROPERTIES
  TimedEnds
