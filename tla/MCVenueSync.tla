----------------------------- MODULE MCVenueSync -----------------------------
(* The node's bracket, new and protected, a trader's pending order, and one on an
   unloaded symbol. *)
EXTENDS VenueSync

Case(ours, loaded, named, protected, moved, lost, rebuilt) ==
    [ours |-> ours, loaded |-> loaded, named |-> named, pends |-> ~ours, protected |-> protected,
     moves |-> moved, losses |-> lost, rebuilds |-> rebuilt]
Bracket(protected, moved, lost, rebuilt) ==
    Case(TRUE, TRUE, Level, protected, moved, lost, rebuilt)
Trader(protected, moved, lost, rebuilt) ==
    Case(FALSE, TRUE, {"SL"}, protected, moved, lost, rebuilt)
MCCases == {Bracket(FALSE, 3, 1, 0), Bracket(FALSE, 3, 0, 1), Bracket(FALSE, 2, 1, 1),
            Bracket(TRUE, 3, 0, 0), Bracket(TRUE, 2, 1, 0), Trader(FALSE, 3, 1, 0),
            Trader(TRUE, 2, 1, 0),
            Case(FALSE, FALSE, {"TP"}, FALSE, 2, 1, 1)}
RebuildCases == {Bracket(TRUE, 2, 0, 1)}
MCPrices == [l \in Level |-> IF l = "SL" THEN {1, 2} ELSE {3}]
MCMoves == {"fill", "end", "replace", "amend", "trail", "close", "trigger", "raise"}
=============================================================================
