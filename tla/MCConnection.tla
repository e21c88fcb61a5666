---------------------------- MODULE MCConnection ----------------------------
(* A small instance of Connection: one order and one historical request.    *)
EXTENDS Connection

MCRequests == {"order", "deals"}
MCResendable == {"deals"}

=============================================================================
