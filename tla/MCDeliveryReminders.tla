------------------------- MODULE MCDeliveryReminders -------------------------
(* An instance of DeliveryReminders for TLC. *)
EXTENDS DeliveryReminders, TLC

\* A reminder before the delivery date and one after it; the code has two of
\* each.
MCOffsets == {-1, 1}

Symmetry == Permutations(Cases)
=============================================================================
