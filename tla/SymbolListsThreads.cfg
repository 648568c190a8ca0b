SPECIFICATION Spec
CONSTANTS
  t1 = t1
  t2 = t2
  Threads = {t1, t2}
  MaxNodes = 4
CHECK_DEADLOCK FALSE
INVARIANTS
  CountsAreLengths
