\* What a coordinator of a pool keeps when its connection is lost.
SPECIFICATION Spec
CONSTANTS
  Workers = {w1, w2}
  Nobody = Nobody
  Modes = {"pool"}
  PoolPrefetch = 1
INVARIANT DisconnectStopsEngine
CHECK_DEADLOCK FALSE
