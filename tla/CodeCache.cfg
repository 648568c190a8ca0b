SPECIFICATION CacheSpec
CONSTANTS
  Align = 2
  HeaderSize = 1
  FreeBlockSize = 1
  MinSizeBlock = 6
  CodeBase = 2
  CodeTop = 22
  Recycling = TRUE
  RepositorySpace = 30
  WarmSizes = {0, 1, 8}
  ColdSizes = {0, 3}
  TrimSizes = {1}
  t1 = t1
  t2 = t2
  m1 = m1
  m2 = m2
  m3 = m3
  NoThread = NoThread
  NoSlot = NoSlot
  NoMethod = NoMethod
  Threads = {t1, t2}
  Methods = {m1, m2, m3}
  Slots = 2
  TempSlots = 2
  SyncArraySize = 1
  SlabEntries = 2
  MayFail = {"slab", "block"}
  RecursiveMonitors = TRUE
  MaxPC = 2
  MaxDirect = 1
INVARIANTS
  TypeOK
  NoOverlap
  NothingLost
  FreeListExact
  AllocationExact
  RepositoryFollowsHole
  TrampolinesSound
  ReservationHonoured
PROPERTIES
  ImplementsStore
  ReplacementsKept
  ImplementsTargets
  ReservationReturns
