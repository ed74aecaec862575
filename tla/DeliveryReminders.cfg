SPECIFICATION ChaseSpec
CONSTANTS
  Suppliers = {}
  NoSupplier = NoSupplier
  MaxRounds = 0
  Cases = {c1, c2}
  Offsets <- MCOffsets
  PageLimit = 1
  Tries = 2
  LastDay = 2
  MaxChaseFaults = 1
INVARIANTS CompletedLeftNothingDue
PROPERTY CancelledIsNotChased
SYMMETRY Symmetry
CHECK_DEADLOCK FALSE
