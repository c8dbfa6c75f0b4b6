SPECIFICATION FairSpec
CONSTANTS
  LastDay = 3
  HotDays = 2
  RetentionDays = 3
  DayLimit = 2
  QueueLimit = 2
  MaxStops = 1
  BusyDays = {0, 1}
  ReadDays = {0}
INVARIANTS TypeOK NothingLost ReadsComplete
PROPERTIES ArchiveImmutable EndedDayArchived
