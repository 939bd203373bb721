SPECIFICATION FairSpec
CONSTANTS
  Entities = {e1, e2}
  Globals = {g1}
  MaxId = 2
  MaxNest = 2
  MaxFuel = 6
  Kinds <- AllKinds
INVARIANTS
  Consistent
  OwedIsPending
  ReleasedIsForgotten
  ObserversHearNotify
PROPERTIES
  EventsInOrder
  UnreferencedReleased
  OwedDelivered
CHECK_DEADLOCK FALSE
