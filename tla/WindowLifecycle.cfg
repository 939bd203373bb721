SPECIFICATION Spec
CONSTANTS
  Windows = {w1, w2, w3}
  QuitOnEmpty = TRUE
  NewObservers = 1
  MaxFuel = 8
  None = None
SYMMETRY WindowSymmetry
INVARIANTS
  Consistent
  RemovedGoesAway
  HaltsIfRemoved
PROPERTIES
  QuitsWithLast
  ClosedIsObserved
CHECK_DEADLOCK FALSE
