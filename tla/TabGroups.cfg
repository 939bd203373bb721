SPECIFICATION Spec
CONSTANTS
  Windows = {w1, w2, w3, w4}
  MaxGroupId = 4
  MaxLate = 1
SYMMETRY WindowSymmetry
INVARIANTS
  Consistent
CHECK_DEADLOCK FALSE
