SPECIFICATION Spec
CONSTANTS
  root1 = root1
  root2 = root2
  panel = panel
  label = label
  MaxWindow = 1
  Views = {root1, panel, label}
  Path <- OnePath
  Cached = {panel}
  Read = {panel, label}
  Focusable = {}
  MaxFuel = 3
PROPERTIES
  RecycledOnlyUnnotified
CHECK_DEADLOCK FALSE
