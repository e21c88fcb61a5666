-------------------------- MODULE ExecutionReports --------------------------
(***************************************************************************)
(* Venue records as Nautilus's reports (common/execution_reports.py, and   *)
(* the records venue_book.py and reconciliation.py make of one order).     *)
(*                                                                         *)
(* A report holds an order's terms: its type, quantity, price and trigger  *)
(* price, zero where it has none.  A record that does not fit the          *)
(* instrument's grids cannot be reported (ValueError).                     *)
(***************************************************************************)
EXTENDS OrderTranslation, FiniteSets

\* EXTERNAL_TYPE
ExternalType(type) ==
    CASE type = "LIMIT" -> "LIMIT"
      [] type = "STOP" -> "STOP_MARKET"
      [] type = "STOP_LIMIT" -> "STOP_LIMIT"
      [] OTHER -> "MARKET"

\* The terms of a broker order (_external_report(), _order_report()).
TermsOf(order, digits) ==
    LET type == ExternalType(order.type) IN
    [type |-> type,
     quantity |-> VolumeToUnits(order.volume),
     price |-> IF type \in {"LIMIT", "STOP_LIMIT"} THEN PriceOf(order.limit, digits) ELSE 0,
     trigger |-> IF type \in {"STOP_MARKET", "STOP_LIMIT"} THEN PriceOf(order.stop, digits)
                 ELSE 0]

\* reports.quantity() and reports.price(): the values fit the instrument.
Fits(terms, instrument) ==
    /\ OnSizeGrid(instrument, terms.quantity)
    /\ OnPriceGrid(instrument, terms.price) /\ OnPriceGrid(instrument, terms.trigger)

\* _time_in_force(): a good-till-date order is told by its expiry.
TimeInForce(order) == IF order.expiry # 0 THEN "GTD" ELSE "GTC"

\* order_status_report(): an external order as it stood before any fill.
OrderStatusReport(order, digits) ==
    [status |-> "accepted", filled |-> 0, terms |-> TermsOf(order, digits),
     tif |-> TimeInForce(order)]

\* held_order_report(): what the record does not change is taken from the order held.
HeldOrderReport(held, kind, terms) ==
    [status |-> IF kind = "updated" THEN (IF held.filled > 0 THEN "partial" ELSE "accepted")
                ELSE kind,
     filled |-> held.filled,
     terms |-> [type |-> held.terms.type, quantity |-> terms.quantity,
                price |-> IF terms.price = 0 THEN held.terms.price ELSE terms.price,
                trigger |-> IF terms.trigger = 0 THEN held.terms.trigger ELSE terms.trigger],
     tif |-> held.tif]

\* changes_terms(): another quantity or price, the fills alike.
ChangesTerms(held, report) ==
    /\ report.filled = held.filled
    /\ \/ report.terms.quantity # held.terms.quantity
       \/ held.terms.price # 0 /\ report.terms.price \notin {0, held.terms.price}
       \/ held.terms.trigger # 0 /\ report.terms.trigger \notin {0, held.terms.trigger}

-----------------------------------------------------------------------------
(* The mass status *)

\* _priced(): the record with the price its type needs, the held one, else its fills'
\* average, or none.  `held` is the orders Nautilus holds, a price each.
Priced(record, held) ==
    LET own == {o \in held : o.id = record.id /\ o.id # NoId /\ o.price # 0}
        known == IF own # {} THEN (CHOOSE o \in own : TRUE).price ELSE record.average
    IN
    IF record.terms.type = "LIMIT" /\ record.terms.price = 0
    THEN [record EXCEPT !.terms.price = known]
    ELSE IF record.terms.type = "STOP_MARKET" /\ record.terms.trigger = 0
    THEN [record EXCEPT !.terms.trigger = known]
    ELSE record
HasPrice(record) ==
    CASE record.terms.type = "LIMIT" -> record.terms.price # 0
      [] record.terms.type = "STOP_MARKET" -> record.terms.trigger # 0
      [] record.terms.type = "STOP_LIMIT" -> record.terms.price # 0 /\ record.terms.trigger # 0
      [] OTHER -> TRUE

\* Mutant: a record left out for want of a price stays linked.
GoneMisfits(leftOut, misfits, unfit, fitting) ==
    {r.id : r \in misfits \cup {o \in fitting : o.position \in unfit}}

\* The ids of what is not reported: it has no price, does not fit, or its position is not
\* reported.
Gone(leftOut, misfits, unfit, fitting) ==
    {r.id : r \in leftOut \cup misfits \cup {o \in fitting : o.position \in unfit}}

\* mass_status(): a position's records go together, and what is left out is unlinked from
\* the orders kept.  `held` as for Priced.
MassStatus(records, positions, instrument, held) ==
    LET priced == {Priced(r, held) : r \in records}
        leftOut == {r \in priced : ~HasPrice(r)}
        kept == priced \ leftOut
        misfits == {r \in kept : ~Fits(r.terms, instrument)}
        unfit == ({r.position : r \in misfits} \ {0})
                 \cup {p.position : p \in {q \in positions : ~OnSizeGrid(instrument, q.quantity)}}
        gone == Gone(leftOut, misfits, unfit, kept \ misfits)
        reported == {r \in kept \ misfits : r.position \notin unfit}
    IN [orders |-> {[r EXCEPT !.linked = @ \ gone,
                              !.parent = IF @ \in gone THEN NoId ELSE @] : r \in reported},
        positions |-> {p \in positions : p.position \notin unfit}]

=============================================================================
