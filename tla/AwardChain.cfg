CONSTANTS
  cat = cat
  head = head
  exec = exec
  eng = eng
  Suppliers = {v1, v2}
  NoSupplier = none
  MaxRounds = 0
  People = {cat, head, eng}
  RolesOf <- MCRolesOf
  Tiers = {0, 1}
  MinSuppliers = 1
  ScenarioRunner = TRUE
  MaxSignatures = 2
  MaxOrders = 1
SPECIFICATION Spec
INVARIANTS ReleasedOrderIsCovered
PROPERTIES SignaturesAreNotUndone ImplementsDesk
CHECK_DEADLOCK FALSE
