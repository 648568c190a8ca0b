SPECIFICATION MCSpec
CONSTANTS
  Threads = {t1, t2}
  t1 = t1
  t2 = t2
  NoThread = NoThread
  NoCache = NoCache
  RepositorySize = 24
  CodeCacheSize = 8
  MaxCaches = 3
  Retries = 3
  Align = 2
  Header = 2
  Helpers = 1
  Sizes = {2}
  TrimSizes = {0}
  InitMayFail = FALSE
SYMMETRY ThreadSymmetry
INVARIANTS
  ExclusiveOwnership
