CONSTANTS
  Xfers = {x1, x2, x3}
  Files = {f1, f2}
  Targets = {"topic"}
  ActingHandlers = {"handlers", "errorHandlers", "cancelHandlers"}
SYMMETRY Symmetry
SPECIFICATION Spec
INVARIANTS RefsAccounted SlotsFollowTransfers
PROPERTIES SentOnceIfWanted
CHECK_DEADLOCK FALSE
