SPECIFICATION FairSpec
CONSTANTS
  Jobs = {j1}
  Workers = {w1}
  NoWorker = NoWorker
  GlobalConcurrency = 1
  MaxAttempts = 2
  MaxPendingJobs = 1
  LeaseLength = 2
  ReclaimGrace = 1
  DeadlineLength = 5
  OutboxRetention = 5
  MaxChunk = 1
  MaxGeneration = 3
  MaxTime = 7
INVARIANTS
  TypeOK
  OneGrantPerGeneration
  QueuedIsInOutbox
  ResultOfLastExecution
PROPERTIES
  ProgressKept
  OutcomeIsFinal
  EveryJobEnds
CHECK_DEADLOCK FALSE
