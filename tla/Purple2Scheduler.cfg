CONSTANTS
  Idles = {i1}
  Timeouts = {o1}
  Workers = {w1, w2}
  MaxLoads = 2
  MaxLogins = 1
CHECK_DEADLOCK FALSE
SPECIFICATION FairSpec
INVARIANTS TypeOK PumpServesItsWork UnloadLeavesNothing
PROPERTIES QuietInTheEnd
