---------------------------- MODULE MCInventory ----------------------------
(* Bounded instances of Inventory. *)
EXTENDS Inventory

\* NULL for an expiry date, outside the day numbers.
MCNoExpiry == -1

\* A mistyped quantity, and two good ones.
MCQuantities == {-1, 1, 2}

=============================================================================
