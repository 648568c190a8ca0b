SPECIFICATION TrampolinesFairSpec
CONSTANTS
  t1 = t1
  m1 = m1
  NoThread = NoThread
  NoSlot = NoSlot
  NoMethod = NoMethod
  Threads = {t1}
  Methods = {m1}
  Slots = 1
  TempSlots = 1
  SyncArraySize = 1
  SlabEntries = 1
  MayFail = {}
  RecursiveMonitors = FALSE
  MaxPC = 1
  MaxDirect = 0
CHECK_DEADLOCK FALSE
PROPERTIES
  ReservationReturns
