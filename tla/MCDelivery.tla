------------------------------ MODULE MCDelivery ------------------------------
(* A run through the roles of a delivery, for TLC. *)
EXTENDS Delivery
=============================================================================
