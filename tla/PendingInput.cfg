SPECIFICATION FairSpec
CONSTANTS
  a = a
  b = b
  editor = editor
  Keys = {a, b}
  Focuses = {editor}
  NoFocus = NoFocus
  Keymaps <- AllKeymaps
  MaxTyped = 4
  Fuel <- FuelOf
INVARIANTS
  Consistent
  HandledInOrder
  LeftIsDropped
  AsTyped
  ObserversKnow
PROPERTIES
  BoundInputRuns
CHECK_DEADLOCK FALSE
