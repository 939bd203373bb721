SPECIFICATION Spec
CONSTANTS
  Windows = {w1, w2, w3}
  MaxGroupId = 3
  MaxLate = 0
PROPERTIES
  AddKeepsTabs
CHECK_DEADLOCK FALSE
