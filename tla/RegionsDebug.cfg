SPECIFICATION Spec
CONSTANTS
  a1 = a1
  a2 = a2
  a3 = a3
  Areas = {a1, a2, a3}
  DefaultSize = 4
  InitialSize = 2
  RegionSize = 4
  PoolSizes = {0, 1}
  Round = 2
  Sizes = {1, 4, 5}
  Garbage = {0, 7}
  MaxRegions = 3
INVARIANTS
  DebugBytesExact
