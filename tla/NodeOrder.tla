------------------------------ MODULE NodeOrder ------------------------------
(***************************************************************************)
(* The node's own order in values, from the order list a strategy submits  *)
(* to what Nautilus is told of its position after a restart (execution.py, *)
(* reconciliation.py).                                                     *)
(*                                                                         *)
(* All a restart has is at the broker: the entry's label and comment, and  *)
(* the position's levels.  A position a trader opened may carry any text.  *)
(* Requests are answered in one step here: OrderLife, Brackets and         *)
(* VenueSync are about what happens while one is on its way.               *)
(***************************************************************************)
EXTENDS ExecutionReports

CONSTANTS
    FirstSpec,     \* the symbol's full spec at the first start
    Specs,         \* the specs the broker may give at a restart
    Asks,          \* the order lists a strategy submits: the entry, then its legs
    Bid, Ask,      \* the market, in millionths
    Slips,         \* how far from it an entry fills
    TraderTexts,   \* the labels and comments of a trader's order: <<label, comment>>
    Moves,         \* the prices a leg is moved to
    Lots,          \* the quantities a strategy or a trader closes
    MaxSteps       \* bound on what changes an open position

ASSUME NodeOrderAssumption ==
    /\ Bid \in Nat /\ Ask \in Nat /\ MaxSteps \in Nat /\ Slips \subseteq Int
    /\ Moves \subseteq Nat /\ Lots \subseteq Nat /\ InstrumentOf(FirstSpec).ok

VARIABLES
    spec,       \* the instrument loaded
    asked,      \* the order list submitted, and the levels the strategy wants now
    position,   \* external: the position at the broker
    cache,      \* external: the leg prices Nautilus's cache holds, by client order id
    status      \* the mass status of the last restart

nodeVars == <<spec, asked, position, cache, status>>

NoAsk == [stage |-> "none"]
NoPosition == [open |-> FALSE]
NoStatus == [told |-> FALSE]

NodeInit ==
    /\ spec = InstrumentOf(FirstSpec)
    /\ asked = NoAsk /\ position = NoPosition /\ cache = {} /\ status = NoStatus

-----------------------------------------------------------------------------
(* Submitting *)

LegsOf(list) == Tail(list)
LegOf(list, type) == SelectSeq(LegsOf(list), LAMBDA leg : leg.type = type)
LevelAsked(list, type) == IF LegOf(list, type) = <<>> THEN 0 ELSE LegOf(list, type)[1].level
LegId(list, type) == IF LegOf(list, type) = <<>> THEN NoId ELSE LegOf(list, type)[1].id

\* _open(): the request, refused before anything is sent when it cannot be expressed.
Submits(list) ==
    /\ asked = NoAsk /\ ~position.open
    /\ LET entry == list[1]
           request == IF Len(list) = 1 THEN MarketOrder(entry)
                      ELSE Bracket(spec, entry, LegsOf(list), Bid, Ask)
       IN asked' = IF request.ok
                   THEN [stage |-> "sent", list |-> list, request |-> request,
                         levels |-> [sl |-> LevelAsked(list, "STOP_MARKET"),
                                     tp |-> LevelAsked(list, "LIMIT")]]
                   ELSE [stage |-> "refused"]
    /\ cache' = IF asked'.stage = "refused" THEN {}
                ELSE {[id |-> leg.id, price |-> leg.level] : leg \in ToSet(LegsOf(list))}
    /\ UNCHANGED <<spec, position, status>>

\* External: the broker fills it and sets the levels off the fill.
Fills(slip) ==
    /\ asked.stage = "sent" /\ ~position.open
    /\ LET r == asked.request
           buying == r.side = "BUY"
           price == (IF buying THEN Ask ELSE Bid) + slip
           level(distance, below) ==
               IF distance = 0 THEN 0
               ELSE price + (IF below THEN -distance ELSE distance) * PriceGrain
       IN position' = [open |-> TRUE, side |-> r.side, volume |-> r.volume, closed |-> 0,
                       filled |-> r.volume, price |-> price,
                       label |-> r.label, comment |-> r.comment, ours |-> TRUE,
                       sl |-> level(r.relativeSL, buying), tp |-> level(r.relativeTP, ~buying),
                       trailing |-> FALSE, method |-> 2, slip |-> slip, steps |-> 0]
    /\ UNCHANGED <<spec, asked, cache, status>>

\* External: a trader opens the position, with a label and a comment of any kind.
TraderOpens(text) ==
    /\ asked = NoAsk /\ ~position.open
    /\ position' = [open |-> TRUE, side |-> "BUY", volume |-> 100, closed |-> 0, filled |-> 100,
                    price |-> Ask, label |-> text[1], comment |-> text[2], ours |-> FALSE,
                    sl |-> Ask - 10000, tp |-> Ask + 10000, trailing |-> TRUE, method |-> 2,
                    slip |-> 0, steps |-> 0]
    /\ UNCHANGED <<spec, asked, cache, status>>

-----------------------------------------------------------------------------
(* Levels and closes *)

\* External: the position with the levels of an amend.
WithLevels(amend) ==
    [position EXCEPT !.sl = amend.sl, !.tp = amend.tp, !.trailing = amend.trailing,
                     !.method = amend.method]
Live == position.open /\ ~status.told    \* a restart ends what is followed here
Mine == position.open /\ position.ours /\ asked.stage \in {"sent", "corrected"}
Step(p) == [p EXCEPT !.steps = @ + 1]

\* The bracket's correcting amend: the levels asked for, measured from no fill.
Corrects ==
    /\ Live /\ Mine /\ asked.stage = "sent"
    /\ asked' = [asked EXCEPT !.stage = "corrected"]
    /\ LET now == [sl |-> position.sl, tp |-> position.tp] IN
       position' = IF now = asked.levels THEN position
                   ELSE WithLevels(AmendLevels(asked.levels, position))
    /\ UNCHANGED <<spec, cache, status>>

\* _modify(), _amend_legs(): one level moved, both sent.
MovesLeg(level, price) ==
    /\ Live /\ Mine /\ asked.stage = "corrected" /\ position.steps < MaxSteps
    /\ LET type == IF level = "SL" THEN "STOP_MARKET" ELSE "LIMIT"
           wanted == LegPrice(spec, level, IF level = "TP" THEN price ELSE 0,
                              IF level = "SL" THEN price ELSE 0)
           now == [sl |-> position.sl, tp |-> position.tp]
           field == IF level = "SL" THEN "sl" ELSE "tp"
           id == LegId(asked.list, type)
       IN /\ id # NoId /\ now[field] # 0 /\ wanted # -1
          /\ position' = Step(WithLevels(AmendLevels([now EXCEPT ![field] = wanted], position)))
          /\ asked' = [asked EXCEPT !.levels[field] = wanted]
          /\ cache' = {[c EXCEPT !.price = IF c.id = id THEN wanted ELSE @] : c \in cache}
    /\ UNCHANGED <<spec, status>>

\* _close(): part of the position by the node; the broker takes no more than is open.
Closes(quantity) ==
    /\ Live /\ Mine /\ asked.stage = "corrected" /\ position.steps < MaxSteps
    /\ LET o == [type |-> "MARKET", reduceOnly |-> TRUE, exotic |-> FALSE, tif |-> "IOC",
                 linked |-> FALSE, quantity |-> quantity,
                 side |-> IF position.side = "BUY" THEN "SELL" ELSE "BUY"]
           request == ClosePosition(position.side, o)
       IN /\ request.ok /\ request.volume < position.volume
          /\ position' = Step([position EXCEPT !.volume = @ - request.volume,
                                               !.closed = @ + request.volume])
    /\ UNCHANGED <<spec, asked, cache, status>>

\* External: the trader closes part of it, or takes a level off.
TraderReduces(volume) ==
    /\ Live /\ volume < position.volume /\ position.steps < MaxSteps
    /\ position' = Step([position EXCEPT !.volume = @ - volume, !.closed = @ + volume])
    /\ UNCHANGED <<spec, asked, cache, status>>
TraderRemoves(field) ==
    /\ Live /\ position[field] # 0 /\ position.steps < MaxSteps
    /\ position' = Step([position EXCEPT ![field] = 0])
    /\ asked' = IF Mine THEN [asked EXCEPT !.levels[field] = 0] ELSE asked
    /\ UNCHANGED <<spec, cache, status>>

-----------------------------------------------------------------------------
(* The restart *)

Record(id, venue, type, quantity, price, linked, parent, average, state) ==
    [id |-> id, venue |-> venue, position |-> 1, state |-> state, average |-> average,
     terms |-> [type |-> type, quantity |-> quantity,
                price |-> IF type = "LIMIT" THEN price ELSE 0,
                trigger |-> IF type = "STOP_MARKET" THEN price ELSE 0],
     linked |-> linked, parent |-> parent]

\* The client order ids a position's texts hold: none of its legs' but with its entry's.
NamesIn(p) ==
    LET entry == ParseLabel(p.label)
        legs == IF entry = NoId THEN NotARecord ELSE ParseComment(p.comment)
    IN [entry |-> entry, legs |-> IF legs = NotARecord THEN NoLegs ELSE legs]

\* _leg(): a leg at the position's level, cancelled where it has none.
LegRecord(p, digits, venue, names) ==
    LET field == IF venue = "SL" THEN "sl" ELSE "tp"
        id == names.legs[field]
        level == p[field]
    IN Record(id, venue, IF venue = "SL" THEN "STOP_MARKET" ELSE "LIMIT", VolumeToUnits(p.volume),
              IF level = 0 THEN 0 ELSE PriceOf(level, digits),
              {names.legs.sl, names.legs.tp} \ {NoId, id}, IF id = NoId THEN NoId ELSE names.entry,
              0, IF level = 0 THEN "canceled" ELSE "accepted")

\* _Position.reports(): the entry, its closes as one order, and its legs: those its texts
\* name or, for a position that is not the node's, its levels.
Records(p, digits, names) ==
    LET average == PriceOf(p.price, digits)
        legs == {venue \in {"SL", "TP"} :
                    LET field == IF venue = "SL" THEN "sl" ELSE "tp" IN
                    IF names.entry = NoId THEN p[field] # 0 ELSE names.legs[field] # NoId}
        closes == IF p.closed = 0 THEN {} ELSE {p.closed}
    IN {Record(names.entry, "entry", "MARKET", VolumeToUnits(p.filled), 0,
               {names.legs.sl, names.legs.tp} \ {NoId}, NoId, average, "filled")}
       \cup {Record(NoId, "close", "MARKET", VolumeToUnits(v), 0, {}, NoId, average, "filled") :
                v \in closes}
       \cup {LegRecord(p, digits, venue, names) : venue \in legs}

\* The node starts again, with the symbol's spec as the broker gives it now and with or
\* without its cache, and reports its position.
Restart(symbol, kept) ==
    /\ Live /\ InstrumentOf(symbol).ok
    /\ spec' = InstrumentOf(symbol)
    /\ cache' = IF kept THEN cache ELSE {}
    /\ LET open == {[position |-> 1, quantity |-> VolumeToUnits(position.volume)]}
           mass == MassStatus(Records(position, spec'.digits, NamesIn(position)), open, spec',
                              cache')
       IN status' = [told |-> TRUE, orders |-> mass.orders, positions |-> mass.positions,
                     before |-> spec]
    /\ UNCHANGED <<asked, position>>

NodeNext ==
    \/ \E list \in Asks : Submits(list)
    \/ \E slip \in Slips : Fills(slip)
    \/ \E text \in TraderTexts : TraderOpens(text)
    \/ Corrects
    \/ \E level \in {"SL", "TP"}, price \in Moves : MovesLeg(level, price)
    \/ \E quantity \in Lots : Closes(quantity) \/ TraderReduces(VolumeFromQuantity(quantity))
    \/ \E field \in {"sl", "tp"} : TraderRemoves(field)
    \/ \E symbol \in Specs, kept \in BOOLEAN : Restart(symbol, kept)

NodeSpec == NodeInit /\ [][NodeNext]_nodeVars

-----------------------------------------------------------------------------
(* Properties *)

\* What the strategy asked for is what a restart restores: a bracket that filled at the
\* market it was measured from needs no correction, and after a restart its entry and each
\* leg that still has its level are reported under the ids submitted, the legs at the
\* prices last asked for.  Nothing of a trader's position goes under a client order id
\* unless its label is exactly the one the adapter writes, and its legs unless its comment
\* is.
RestoredAsAsked ==
    LET legs == {<<r.id, r.terms.trigger + r.terms.price>> :
                    r \in {o \in status.orders : o.venue \in {"SL", "TP"}
                                                 /\ o.state = "accepted"}}
        of(type, level) == IF level = 0 THEN {} ELSE {<<LegId(asked.list, type), level>>}
        names == NamesIn(position)
    IN /\ (Mine /\ asked.stage = "sent" /\ position.slip = 0 /\ position.steps = 0) =>
              <<position.sl, position.tp>> = <<asked.levels.sl, asked.levels.tp>>
       /\ (/\ status.told /\ status.before = spec /\ status.positions # {}
           /\ Mine /\ asked.stage = "corrected") =>
              /\ \E r \in status.orders : r.venue = "entry" /\ r.id = asked.list[1].id
              /\ legs = of("STOP_MARKET", asked.levels.sl) \cup of("LIMIT", asked.levels.tp)
       /\ (status.told /\ ~position.ours) =>
              /\ names.entry # NoId => position.label = EncodeLabel(names.entry)
              /\ names.legs # NoLegs => position.comment = EncodeComment(names.legs)

\* A mass status is whole: every order it links to or names as a parent is in it, since
\* Nautilus fails on one it cannot find, and a position is reported with all its fills or
\* not at all.
MassStatusWhole ==
    status.told =>
        /\ \A r \in status.orders :
              r.linked \cup ({r.parent} \ {NoId}) \subseteq {o.id : o \in status.orders}
        /\ \/ status.orders = {} /\ status.positions = {}
           \/ LET filled(venue) == {r.terms.quantity : r \in {o \in status.orders : o.venue = venue}}
              IN \A p \in status.positions : \E e \in filled("entry"), c \in filled("close") \cup {0} :
                    p.quantity = e - c

=============================================================================
