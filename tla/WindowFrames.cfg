SPECIFICATION FairSpec
CONSTANTS
  root1 = root1
  root2 = root2
  panel = panel
  label = label
  MaxWindow = 2
  Views = {root1, panel, label, root2}
  Path <- PanelPath
  Cached = {panel}
  Read = {panel, label}
  Focusable = {label}
  MaxFuel = 3
INVARIANTS
  StaleIsMarked
  StaleIsDue
  Consistent
PROPERTIES ChangesReachScreen
CHECK_DEADLOCK FALSE
