SPECIFICATION FileSpec
CONSTANTS
  plain = plain
  other = other
  bare = bare
  k1 = k1
  k2 = k2
  k3 = k3
  drawing = drawing
  odd = odd
  mute = mute
  Requisitions = {plain, other, bare}
  NumberIn <- MCNumberIn
  CaseId <- MCCaseId
  Named = {k3}
  Specs = {drawing, odd, mute}
  Says <- MCSays
  Suspect = {odd}
  Derived <- MCDerived
  Supplements <- MCSupplements
  LastMonth = 1
  MaxMoves = 1
INVARIANTS NothingReadIsWeakened
PROPERTIES RequirementsResolve MovedCaseIsKept
CHECK_DEADLOCK FALSE
