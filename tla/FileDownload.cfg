CONSTANTS
  s1 = s1
  i1 = i1
  i2 = i2
  Xfers = {s1, i1, i2}
  Standard = {s1}
  Files = {f1}
  ActingHandlers = {"handlers"}
SYMMETRY Symmetry
SPECIFICATION Spec
INVARIANTS NothingDangles SlotsFollowRequests InlineFilesCleaned
CHECK_DEADLOCK FALSE
