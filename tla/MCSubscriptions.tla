-------------------------- MODULE MCSubscriptions --------------------------
(* A small instance of Subscriptions. *)
EXTENDS Subscriptions

OneSpotConsumer == {"quotes"}
OneBarConsumer == {"bars1"}
TwoCalls == {"call1", "call2"}

=============================================================================
