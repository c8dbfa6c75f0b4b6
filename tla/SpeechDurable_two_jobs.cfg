SPECIFICATION Spec
CONSTANTS
  Jobs = {j1, j2}
  Workers = {w1}
  NoWorker = NoWorker
  GlobalConcurrency = 1
  MaxAttempts = 2
  MaxPendingJobs = 2
  LeaseLength = 2
  ReclaimGrace = 0
  DeadlineLength = 4
  OutboxRetention = 4
  MaxChunk = 0
  MaxGeneration = 2
  MaxTime = 5
SYMMETRY JobSymmetry
INVARIANTS
  EnginesWithinCapacity
  NoEngineForgotten
PROPERTY
  ImplementsLeasePool
CHECK_DEADLOCK FALSE
