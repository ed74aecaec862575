CONSTANTS
  Suppliers = {v1, v2}
  NoSupplier = none
  MaxRounds = 2
  MaxOrders = 2
SPECIFICATION Spec
SYMMETRY SupplierSymmetry
INVARIANTS OrderedOnlyWhenAwarded PlacedOrderIsReleased RoundsAreAuthorised
PROPERTY AwardIsSettled
