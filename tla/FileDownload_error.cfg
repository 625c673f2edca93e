CONSTANTS
  s1 = s1
  i1 = i1
  i2 = i2
  Xfers = {s1, i1, i2}
  Standard = {s1}
  Files = {f1}
  ActingHandlers = {"errorHandlers"}
SYMMETRY Symmetry
SPECIFICATION Spec
INVARIANT NothingDangles
CHECK_DEADLOCK FALSE
