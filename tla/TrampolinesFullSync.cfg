SPECIFICATION TrampolinesSpec
CONSTANTS
  t1 = t1
  m1 = m1
  m2 = m2
  NoThread = NoThread
  NoSlot = NoSlot
  NoMethod = NoMethod
  Threads = {t1}
  Methods = {m1, m2}
  Slots = 2
  TempSlots = 2
  SyncArraySize = 1
  SlabEntries = 2
  MayFail = {"block"}
  RecursiveMonitors = TRUE
  MaxPC = 2
  MaxDirect = 0
INVARIANTS
  NoLostReplacement
