CONSTANTS
  Suppliers = {v1}
  NoSupplier = none
  MaxRounds = 2
  AutoReleaseRfq = FALSE
  EnableNegotiation = TRUE
  ScenarioRunner = TRUE
  MaxFaults = 2
  MaxOrders = 2
SPECIFICATION FairSpec
INVARIANTS StagesFollowDecisions CompletedHasOrder
PROPERTIES CaseMovesAsAssumed ComesToRest
CHECK_DEADLOCK FALSE
