\* One job through two workers and two replicas of the API.
CONSTANTS
  Jobs = {j1}
  Workers = {w1, w2}
  Dispatchers = {d1, d2}
  Nobody = Nobody
  Capacity = 1
  Prefetch = 1
  DeliveryLimit = 1
  MaxGeneration = 2
  MaxLosses = 2
SPECIFICATION Spec
SYMMETRY Alike
INVARIANTS TypeOK QueuedIsReachable EngineHoldsLease
CHECK_DEADLOCK FALSE
