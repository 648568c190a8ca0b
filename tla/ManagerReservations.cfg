SPECIFICATION MCSpec
CONSTANTS
  Threads = {t1, t2}
  t1 = t1
  t2 = t2
  NoThread = NoThread
  NoCache = NoCache
  RepositorySize = 22
  CodeCacheSize = 10
  MaxCaches = 2
  Retries = 3
  Align = 2
  Header = 2
  Helpers = 1
  Sizes = {2, 5}
  TrimSizes = {0}
  InitMayFail = TRUE
INVARIANTS
  OnlyFirstAttemptFails
PROPERTIES
  FullOnlyWhenNoRoom
  ReservationsEnd
