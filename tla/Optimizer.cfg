SPECIFICATION Spec
CONSTANTS
  Tables <- NJTables
  Strategies = {"cold", "warm", "hot"}
  Managers <- NJManagers
  Needs <- NJNeeds
  Requestable <- RequestedByOthers
  Requested <- NJRequested
  Blocks = {"b1"}
  Facts <- AllFacts
  Effects <- SomeEffects
  Declining <- OrderBlocks
  Limits = {7, 99}
INVARIANTS
  RequestsRespected
  IndexStable
  AnalysesCurrent
