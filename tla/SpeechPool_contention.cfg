\* Two jobs wait for one engine.
CONSTANTS
  Jobs = {j1, j2}
  Workers = {w1, w2}
  Dispatchers = {d1}
  Nobody = Nobody
  Capacity = 1
  Prefetch = 2
  DeliveryLimit = 1
  MaxGeneration = 1
  MaxLosses = 1
SPECIFICATION Spec
SYMMETRY Alike
PROPERTY AcknowledgedIsSettled
CHECK_DEADLOCK FALSE
