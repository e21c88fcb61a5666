-------------------------- MODULE OrderTranslation --------------------------
(***************************************************************************)
(* Nautilus's values as the venue's requests, and back                     *)
(* (common/order_translation.py, parsing.py, venue_records.py).            *)
(*                                                                         *)
(* A price is an integer in millionths and a quantity one in thousandths   *)
(* of a unit, each ten times finer than the venue's own scale, so a value  *)
(* the venue cannot express exists.  Zero stands for a field left out.     *)
(***************************************************************************)
EXTENDS OrderRecord

PriceGrain == 10     \* millionths in 1 / PRICE_SCALE
VolumeGrain == 10    \* thousandths of a unit in 1 / VOLUME_SCALE
Refused == [ok |-> FALSE]    \* Unsupported is raised
Nothing == [ok |-> TRUE, volume |-> 0]   \* no request is needed

-----------------------------------------------------------------------------
(* Scales *)

\* volume_to_units()
VolumeToUnits(volume) == volume * VolumeGrain

\* The grid of `digits` decimals, as multiples of a grain.
PriceStep(digits) == 10^(6 - digits)
SizeStep(precision) == 10^(3 - precision)

\* _precision(), of a quantity.
Precision(units) == CHOOSE p \in 0..3 : /\ units % SizeStep(p) = 0
                                        /\ \A r \in 0..(p - 1) : units % SizeStep(r) # 0

\* instrument_from_symbol(): the grids a symbol's full spec gives its instrument.
InstrumentOf(symbol) ==
    LET size == Precision(VolumeToUnits(symbol.stepVolume)) IN
    IF symbol.digits > 5 \/ symbol.stepVolume = 0 THEN Refused
    ELSE IF Precision(VolumeToUnits(symbol.minVolume)) > size THEN Refused
    ELSE [ok |-> TRUE, digits |-> symbol.digits, size |-> size]

\* price_of(): a double rounded half-even to `digits` decimals.
PriceOf(value, digits) ==
    LET step == PriceStep(digits)
        down == value \div step
        twice == 2 * (value % step)
        up == twice > step \/ (twice = step /\ down % 2 = 1)
    IN step * (IF up THEN down + 1 ELSE down)

\* _require_on_price_grid(), and reports.price() and quantity() at the instrument's own.
OnPriceGrid(instrument, price) == price % PriceStep(instrument.digits) = 0
OnSizeGrid(instrument, units) == units % SizeStep(instrument.size) = 0

\* volume_from_quantity(); 0 when it is refused.
VolumeFromQuantity(quantity) ==
    IF quantity > 0 /\ quantity % VolumeGrain = 0 THEN quantity \div VolumeGrain ELSE 0

\* relative_level(); 0 when it is refused.
RelativeLevel(reference, level, below) ==
    LET distance == IF below THEN reference - level ELSE level - reference IN
    IF reference > 0 /\ reference % PriceGrain = 0 /\ distance > 0 /\ distance % PriceGrain = 0
    THEN distance \div PriceGrain ELSE 0

-----------------------------------------------------------------------------
(* Orders that open *)

\* _require_expressible(); `exotic` is a quote quantity, an emulation trigger or an
\* execution algorithm.
Expressible(o, market) ==
    ~o.exotic /\ o.tif \in (IF market THEN {"GTC", "IOC"} ELSE {"GTC"})

\* _require_opening_market_order()
OpensAtMarket(o) == o.type = "MARKET" /\ ~o.reduceOnly /\ Expressible(o, TRUE)

\* _new_order(), with its levels as distances.
NewOrder(entry, legs, relativeSL, relativeTP) ==
    LET volume == VolumeFromQuantity(entry.quantity) IN
    IF volume = 0 \/ ~FitsClientOrderId(entry.id) \/ ~FitsLabel(entry.id) \/ ~FitsComment(legs)
    THEN Refused
    ELSE [ok |-> TRUE, side |-> entry.side, volume |-> volume, label |-> EncodeLabel(entry.id),
          comment |-> EncodeComment(legs), relativeSL |-> relativeSL, relativeTP |-> relativeTP]

\* market_order()
MarketOrder(o) == IF OpensAtMarket(o) /\ ~o.linked THEN NewOrder(o, NoLegs, 0, 0) ELSE Refused

\* _require_protective_leg()
IsProtectiveLeg(entry, leg) ==
    /\ Expressible(leg, FALSE) /\ leg.type \in {"STOP_MARKET", "LIMIT"}
    /\ leg.side # entry.side /\ leg.quantity = entry.quantity /\ leg.reduceOnly
    /\ leg.parent = entry.id

\* bracket(): a market entry and its legs as one request; the distances are measured
\* from the side of the market the entry fills on.
Bracket(instrument, entry, legs, bid, ask) ==
    LET of(type) == SelectSeq(legs, LAMBDA leg : leg.type = type)
        stops == of("STOP_MARKET")
        limits == of("LIMIT")
        id(found) == IF found = <<>> THEN NoId ELSE found[1].id
        buying == entry.side = "BUY"
        reference == IF buying THEN ask ELSE bid
        away(found, below) ==
            IF found = <<>> THEN 0 ELSE RelativeLevel(reference, found[1].level, below)
        relativeSL == away(stops, buying)
        relativeTP == away(limits, ~buying)
    IN IF /\ Len(legs) \in 1..2 /\ OpensAtMarket(entry)
          /\ \A i \in DOMAIN legs : IsProtectiveLeg(entry, legs[i])
          /\ Len(stops) <= 1 /\ Len(limits) <= 1
          /\ \A i \in DOMAIN legs : OnPriceGrid(instrument, legs[i].level)
          /\ (stops = <<>> \/ relativeSL # 0) /\ (limits = <<>> \/ relativeTP # 0)
       THEN NewOrder(entry, [sl |-> id(stops), tp |-> id(limits)], relativeSL, relativeTP)
       ELSE Refused

-----------------------------------------------------------------------------
(* Orders that close, and levels *)

\* close_position()
ClosePosition(positionSide, o) ==
    LET volume == VolumeFromQuantity(o.quantity) IN
    IF /\ o.type = "MARKET" /\ o.reduceOnly /\ Expressible(o, TRUE) /\ ~o.linked
       /\ positionSide \in {"BUY", "SELL"} /\ positionSide # o.side /\ volume # 0
    THEN [ok |-> TRUE, volume |-> volume] ELSE Refused

\* amend_levels(): both levels at once, with the position's own terms.
AmendLevels(levels, terms) ==
    [sl |-> levels.sl, tp |-> levels.tp, method |-> terms.method,
     trailing |-> levels.sl # 0 /\ terms.trailing]

\* leg_price(); -1 when it is refused.
LegPrice(instrument, level, price, trigger) ==
    LET wanted == IF level = "SL" THEN trigger ELSE price
        other == IF level = "SL" THEN price ELSE trigger
    IN IF other # 0 \/ ~OnPriceGrid(instrument, wanted) THEN -1 ELSE wanted

-----------------------------------------------------------------------------
(* Pending orders *)

PendingTypes == {"LIMIT", "STOP", "STOP_LIMIT"}    \* PENDING_ORDER_TYPES
StopTypes == {"STOP", "STOP_LIMIT"}

\* _amended_price(); -1 when it is refused.
AmendedPrice(instrument, held, wanted, settable) ==
    IF wanted = 0 \/ (held # 0 /\ PriceOf(held, instrument.digits) = wanted) THEN held
    ELSE IF ~settable \/ ~OnPriceGrid(instrument, wanted) THEN -1
    ELSE wanted

\* Mutant: the expiration is left to the venue.
SentAgainButExpiry(order) ==
    [slippage |-> order.slippage, expiry |-> 0, trailing |-> order.trailing,
     relativeSL |-> order.relativeSL, sl |-> order.sl,
     method |-> IF order.type \in StopTypes THEN order.method ELSE 0]

\* What an amend sends again unchanged; a relative level goes before an absolute one, and
\* the trailing flag only with a stop-loss.
SentAgain(order) ==
    [slippage |-> order.slippage, expiry |-> order.expiry,
     trailing |-> (order.relativeSL # 0 \/ order.sl # 0) /\ order.trailing,
     relativeSL |-> order.relativeSL, sl |-> IF order.relativeSL # 0 THEN 0 ELSE order.sl,
     method |-> IF order.type \in StopTypes THEN order.method ELSE 0]

\* amend_order(): the pending order with the values given.
AmendOrder(instrument, order, change) ==
    LET volume == IF change.quantity = 0 THEN order.volume ELSE VolumeFromQuantity(change.quantity)
        limit == AmendedPrice(instrument, order.limit, change.price, order.type = "LIMIT")
        stop == AmendedPrice(instrument, order.stop, change.trigger, order.type \in StopTypes)
    IN IF order.type \notin PendingTypes \/ volume = 0 \/ -1 \in {limit, stop} THEN Refused
       ELSE IF <<volume, limit, stop>> = <<order.volume, order.limit, order.stop>> THEN Nothing
       ELSE [ok |-> TRUE, volume |-> volume,
             limit |-> IF order.type = "LIMIT" THEN limit ELSE 0,
             stop |-> IF order.type \in StopTypes THEN stop ELSE 0,
             kept |-> SentAgain(order)]

\* carries(): the order has the volume and the prices the request asks for.
Carries(request, order, digits) ==
    LET same(asked, held) ==
            asked = 0 \/ (held # 0 /\ PriceOf(held, digits) = PriceOf(asked, digits))
    IN request.volume = order.volume /\ same(request.limit, order.limit)
                                     /\ same(request.stop, order.stop)

=============================================================================
