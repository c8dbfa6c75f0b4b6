SPECIFICATION FairSpec
CONSTANTS
  m1 = m1
  m2 = m2
  c1 = c1
  Migrations <- MCMigrations
  Connects <- MCConnects
  Nobody = Nobody
  Runtimes = {1, 2, 3, 4, 5}
  MaxMishaps = 2
INVARIANTS TypeOK SessionOfRecord OneClientUnlessEscaped
PROPERTIES AnswersAreTrue RequestsEnd
CHECK_DEADLOCK FALSE
