\* One job to its end, whatever fails.
CONSTANTS
  Jobs = {j1}
  Workers = {w1, w2}
  Dispatchers = {d1}
  Nobody = Nobody
  Capacity = 1
  Prefetch = 1
  DeliveryLimit = 1
  MaxGeneration = 2
  MaxLosses = 1
SPECIFICATION FairSpec
PROPERTY JobsSettle
CHECK_DEADLOCK FALSE
