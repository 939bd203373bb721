SPECIFICATION Spec
CONSTANTS
  Keys = {k1, k2, k3}
  MaxId = 3
  MaxDepth = 2
  Released = {k3}
INVARIANTS
  OneOwner
  NoSubscriberLost
PROPERTIES
  OutermostPassReachesAll
  KeepsPromise
CHECK_DEADLOCK FALSE
