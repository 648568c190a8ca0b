SPECIFICATION FlowSpec
CONSTANTS
  n1 = n1
  n2 = n2
  n3 = n3
  Start = Start
  End = End
  None = None
  Blocks = {n1, n2, n3}
  Possible <- Edges
  Catchers <- SomeCatchers
  Exceptions = {1, 2, 3}
  Caught <- Classes
  Numbers = {0, 1, 2, 3}
  MaxDegree = 2
INVARIANTS
  GraphSound
  HandlersCorrect
  OrderCorrect
  DominatorsCorrect
  ControlDependenceCorrect
PROPERTIES
  RemovalSpares
  RemovalsEnd
