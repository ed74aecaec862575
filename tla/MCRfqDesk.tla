------------------------------ MODULE MCRfqDesk ------------------------------
(* RfqDesk on a small instance. *)
EXTENDS RfqDesk, TLC

SupplierSymmetry == Permutations(Suppliers)
=============================================================================
