SPECIFICATION FairSpec
CONSTANTS
  Requests = {r1, r2}
  Removers = {x1}
  Nobody = Nobody
  MaxUploads = 2
  MaxMishaps = 2
INVARIANTS TypeOK ObjectsOnRecord SourceOfActiveJob
PROPERTIES LedgerSettles SourcesGo
CHECK_DEADLOCK FALSE
