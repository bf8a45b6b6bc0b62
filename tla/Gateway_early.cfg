SPECIFICATION FairSpec
CONSTANTS
  EarlyStop = TRUE
  MaxConns = 1
  MaxQueue = 1
  MaxReadies = 1
PROPERTY StopReturns
CHECK_DEADLOCK FALSE
