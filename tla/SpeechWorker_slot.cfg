\* Two coordinators and one slot: of a pool, with one in standby, or both with
\* work of their own.
SPECIFICATION FairSpec
CONSTANTS
  Workers = {w1, w2}
  Nobody = Nobody
  Modes = {"pool", "legacy"}
  PoolPrefetch = 2
INVARIANTS TypeOK EngineOfOwner AbortedNeverComputes
PROPERTIES HandleEnds SlotIsHandedOver
CHECK_DEADLOCK FALSE
