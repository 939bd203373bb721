SPECIFICATION Spec
CONSTANTS
  Keys = {k1, k2, k3}
  MaxId = 3
  MaxDepth = 2
  Released = {k3}
PROPERTIES
  DroppedIsNotInvoked
CHECK_DEADLOCK FALSE
