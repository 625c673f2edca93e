CONSTANTS
  PublicMax = 2
  Batch = 1
  MaxSends = 2
  MaxObjects = 2
SPECIFICATION FairSpec
CHECK_DEADLOCK FALSE
INVARIANTS TypeOK NoLostWakeup SourcesKeepStateAlive
PROPERTIES ArrivalOrder KeepsContract EveryReceiptSettles TimedRequestEnds
