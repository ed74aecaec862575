CONSTANTS
  Suppliers = {v1}
  NoSupplier = none
  MaxRounds = 1
  Parts = {p1, p2}
  Decline = decline
  NoLines = nolines
  SealedBidEnabled = TRUE
  RoundsAhead = 1
SPECIFICATION Spec
INVARIANTS ColumnsBlankUntilApproval NoBidStranded CommercialOnlyAfterApproval
PROPERTY VerdictsKeepToTheirParts
