SPECIFICATION FairSpec
CONSTANTS
  MaxRequests = 3
  MaxBacklog = 1
INVARIANTS
  OnePlace
  AppliedAtMostOnce
  OnlyRetriesOvertaken
  ThreadsCanMove
PROPERTIES
  QuietAfterShutdown
  EveryRequestEnds
  ShutdownReturns
  TickReturns
  ImplementsRestChannel
CHECK_DEADLOCK FALSE
