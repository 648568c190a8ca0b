SPECIFICATION PlanSpec
CONSTANTS
  Threads = {t1, t2}
  Plans = {p1, p2}
  t1 = t1
  t2 = t2
  p1 = p1
  p2 = p2
  NoPlan = NoPlan
  PoolThreshold = 2
  AllocMayFail = TRUE
  MaxTotal = 2
PROPERTIES
  RemainingPlansInUse
