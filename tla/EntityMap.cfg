SPECIFICATION Spec
CONSTANTS
  Threads = {main, worker1}
  Main = main
  Ids = {e1, e2}
  Handles = {h1, h2, h3}
  Slot = Slot
  None = None
SYMMETRY HandleSymmetry
INVARIANTS
  CountIsHandles
  UnreferencedListedOnce
PROPERTIES
  KeepsPromise
CHECK_DEADLOCK FALSE
