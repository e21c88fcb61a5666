------------------------------ MODULE MCOrders ------------------------------
(***************************************************************************)
(* OrderLife and NodeOrder over one account, which holds either a trader's *)
(* pending order or one position: the two meet in no state but the maps    *)
(* keyed by their ids.                                                     *)
(***************************************************************************)
EXTENDS OrderLife, NodeOrder

Both == <<vars, nodeVars>>
BothInit == Init /\ NodeInit
BothNext ==
    \/ asked = NoAsk /\ ~position.open /\ Next /\ UNCHANGED nodeVars
    \/ broker.clock = 0 /\ link = "up" /\ counts.losses = 0 /\ NodeNext /\ UNCHANGED vars
BothSpec == BothInit /\ [][BothNext]_Both

-----------------------------------------------------------------------------
(* The trader's pending orders and the modifies *)

LimitOrder == [state |-> "open", type |-> "LIMIT", volume |-> 400, limit |-> 1100000, stop |-> 0,
               method |-> 0, expiry |-> 5, slippage |-> 0, relativeSL |-> 50, sl |-> 0,
               trailing |-> TRUE, deals |-> {}, ts |-> 0]

\* A limit order that expires, with a trailing relative stop-loss; a stop-limit order with an
\* absolute one, its price finer than the instrument's grid.
MCPlaced == {LimitOrder,
             [LimitOrder EXCEPT !.type = "STOP_LIMIT", !.limit = 1100350, !.stop = 1100050,
                                !.method = 2, !.expiry = 0, !.slippage = 3, !.relativeSL = 0,
                                !.sl = 1050000, !.trailing = FALSE]}

\* Another quantity; another price; the prices held, as Nautilus shows them; a quantity the
\* venue cannot express.
MCChanges == {[quantity |-> 2000, price |-> 0, trigger |-> 0],
              [quantity |-> 0, price |-> 1120000, trigger |-> 0],
              [quantity |-> 0, price |-> 0, trigger |-> 1100000],
              [quantity |-> 2005, price |-> 0, trigger |-> 0]}
MCSymbols == {[digits |-> 4, stepVolume |-> 100, minVolume |-> 100]}

-----------------------------------------------------------------------------
(* The node's order lists *)

Entry == [id |-> <<"e">>, type |-> "MARKET", side |-> "BUY", quantity |-> 2000, exotic |-> FALSE,
          tif |-> "GTC", reduceOnly |-> FALSE, linked |-> TRUE]
StopLeg == [id |-> <<"s">>, type |-> "STOP_MARKET", side |-> "SELL", quantity |-> 2000,
            exotic |-> FALSE, tif |-> "GTC", reduceOnly |-> TRUE, parent |-> <<"e">>,
            level |-> 1090000]
LimitLeg == [StopLeg EXCEPT !.id = <<"t">>, !.type = "LIMIT", !.level = 1110000]
Alone == [Entry EXCEPT !.linked = FALSE]
Sold(order) == [order EXCEPT !.side = IF @ = "BUY" THEN "SELL" ELSE "BUY"]

\* Lists the venue takes: a market order, brackets with either leg or both, each side.
Taken == {<<Alone>>, <<Sold(Alone)>>, <<[Alone EXCEPT !.tif = "IOC"]>>,
          <<Entry, StopLeg, LimitLeg>>, <<Entry, LimitLeg>>, <<Entry, StopLeg>>,
          <<Sold(Entry), [Sold(StopLeg) EXCEPT !.level = 1110000],
                         [Sold(LimitLeg) EXCEPT !.level = 1090000]>>}

\* Lists it does not take, each in one respect.
Strange == {<<Entry>>, <<[Alone EXCEPT !.exotic = TRUE]>>, <<[Alone EXCEPT !.tif = "DAY"]>>,
            <<[Alone EXCEPT !.quantity = 2005]>>, <<[Alone EXCEPT !.id = <<"e", "|">>]>>,
            <<[Alone EXCEPT !.id = <<"e", "e", "e", "e", "e">>]>>, <<Entry, StopLeg, StopLeg>>,
            <<Entry, [StopLeg EXCEPT !.side = "BUY"]>>, <<Entry, [StopLeg EXCEPT !.quantity = 1000]>>,
            <<Entry, [StopLeg EXCEPT !.level = 1110000]>>, <<Entry, [StopLeg EXCEPT !.level = 1090005]>>,
            <<Entry, [StopLeg EXCEPT !.parent = <<"o">>]>>,
            <<Entry, [StopLeg EXCEPT !.reduceOnly = FALSE]>>,
            <<Entry, [StopLeg EXCEPT !.id = <<"s", "s", "s", "s">>],
                     [LimitLeg EXCEPT !.id = <<"t", "t", "t", "t">>]>>}
MCAsks == Taken \cup Strange

\* A trader's texts: none, a copy of the adapter's, and texts close to one.
Copied == EncodeLabel(<<"e">>)
MCTexts == {<<<<>>, <<>>>>, <<Copied, EncodeComment([sl |-> <<"s">>, tp |-> <<"t">>])>>,
            <<Copied, <<Marker, "|", KeyTP, "t", "|", KeySL, "s">>>>,
            <<Copied, <<Marker, "|", KeySL, "s", "|", KeySL, "t">>>>,
            <<Copied, <<Marker, "|", KeySL>>>>, <<Copied, <<"n", "o", "t", "e">>>>,
            <<<<Marker, ":">>, EncodeComment([sl |-> <<"s">>, tp |-> NoId])>>,
            <<<<Marker, ":", "e", " ">>, EncodeComment([sl |-> <<"s">>, tp |-> NoId])>>,
            <<<<Marker, "e">>, EncodeComment([sl |-> <<"s">>, tp |-> NoId])>>}

\* The spec as loaded; with a coarser volume step; with fewer digits.
MCFirstSpec == [digits |-> 5, stepVolume |-> 50, minVolume |-> 50]
MCSpecs == {MCFirstSpec,
            [digits |-> 5, stepVolume |-> 100, minVolume |-> 100],
            [digits |-> 2, stepVolume |-> 50, minVolume |-> 50],
            [digits |-> 5, stepVolume |-> 100, minVolume |-> 50]}
MCSlips == {-20, 0, 25}
MCMoves == {1085000, 1085005}
MCLots == {500, 1000}
=============================================================================
