SPECIFICATION CompilationSpec
CONSTANTS
  Threads = {t1, t2, t3}
  Plans = {p1, p2, p3, p4}
  t1 = t1
  t2 = t2
  t3 = t3
  p1 = p1
  p2 = p2
  p3 = p3
  p4 = p4
  NoPlan = NoPlan
  PoolThreshold = 2
  AllocMayFail = TRUE
  MaxTotal = 4
  a1 = a1
  a2 = a2
  a3 = a3
  Areas = {a1, a2, a3}
  DefaultSize = 4
  InitialSize = 2
  RegionSize = 4
  PoolSizes = {0, 1}
  Round = 2
  Sizes = {1, 4, 5}
  Garbage = {0, 7}
  MaxRegions = 3
  m1 = m1
  m2 = m2
  m3 = m3
  m4 = m4
  m5 = m5
  m6 = m6
  None = None
  Caches <- TwoCaches
  Metas = {m1, m2, m4, m5, m6}
  startPC <- Starts
  endPC <- Ends
  BucketSize = 4
  StoreSize = 4
  MaxStores = 2
SYMMETRY AreaSymmetry
INVARIANTS
  PlanTypeOK
  PlansUnshared
  PoolAccounted
  SegmentsSound
  MemoryUnshared
  BytesExact
  SearchSafe
  RemovalSucceeds
  LookupExact
  StoresSound
