------------------------------ MODULE MCDelivery ------------------------------
(* A small instance of Delivery; its bounds are in the configuration. *)
EXTENDS Delivery

=============================================================================
