SPECIFICATION FairSpec
CONSTANTS
  EarlyStop = FALSE
  MaxConns = 2
  MaxQueue = 2
  MaxReadies = 2
INVARIANTS
  OneWriter
  NoPayloadSleeps
  IdentifyUnderWay
  ThreadsCanMove
PROPERTIES
  HelloIsAnswered
  Reconnects
  StopReturns
  ImplementsGatewayLink
CHECK_DEADLOCK FALSE
