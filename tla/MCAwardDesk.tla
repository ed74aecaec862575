----------------------------- MODULE MCAwardDesk -----------------------------
(* AwardDesk on a small instance. *)
EXTENDS AwardDesk

SupplierSymmetry == Permutations(Suppliers)
=============================================================================
