CONSTANTS
  Suppliers = {v1, v2}
  NoSupplier = none
  MaxRounds = 0
  MaxSuppliers = 1
  MaxReminders = 1
  AutoRelease = FALSE
  AutoSend = FALSE
  MaxRfqs = 2
SPECIFICATION Spec
SYMMETRY SupplierSymmetry
INVARIANTS NothingOutBeforeRelease SomebodyWasAsked InvitationsAreBounded
