----------------------------- MODULE MCSession -----------------------------
(* A small instance of Session. *)
EXTENDS Session

OneKey == {"deals"}
TwoStarters == {"start1", "start2"}
TwoStoppers == {"stop1", "stop2"}

=============================================================================
