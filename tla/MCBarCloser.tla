----------------------------- MODULE MCBarCloser -----------------------------
(* A small instance of BarCloser; its bounds are in the configurations. *)
EXTENDS BarCloser

=============================================================================
