------------------------------ MODULE MCBrackets ------------------------------
(* A small instance of Brackets; its bounds are in the configuration. *)
EXTENDS Brackets

\* Either one command and a loss, or two commands and none: what the bounds leave of it.
MCInit ==
    /\ Submitted
    /\ counts \in {[Nothing EXCEPT !.commands = MaxCommands - 1],
                   [Nothing EXCEPT !.losses = MaxLosses]}
MCSpec == MCInit /\ [][Next]_vars

=============================================================================
