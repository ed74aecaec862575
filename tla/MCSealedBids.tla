---------------------------- MODULE MCSealedBids ----------------------------
(* SealedBids on small instances. *)
EXTENDS SealedBids, TLC

SupplierSymmetry == Permutations(Suppliers)
=============================================================================
