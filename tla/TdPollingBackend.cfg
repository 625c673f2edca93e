CONSTANTS
  Callbacks = {c1, c2}
  DeadlineOutcomes = {TRUE, FALSE}
SPECIFICATION FairSpec
INVARIANTS OneFinalResult ClientOutlivesItsUse
PROPERTIES FailureIsTold EveryCloseReported KeyIsReleased
CHECK_DEADLOCK FALSE
