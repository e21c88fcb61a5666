------------------------------ MODULE OrderLife ------------------------------
(***************************************************************************)
(* One order's life in values: what Nautilus asks, what the broker holds   *)
(* and what Nautilus is told (execution.py, venue_book.py).                *)
(*                                                                         *)
(* A trader's pending order, which the strategy modifies, cancels and      *)
(* queries while the trader changes it and the broker fills it.  Orders    *)
(* share nothing but the maps keyed by their ids, so the account holds     *)
(* one.  A reconnect pass is one step here: VenueSync takes it apart.      *)
(*                                                                         *)
(* Everything between two awaits is one action.  The read loop may read    *)
(* several frames before a task whose answer it read goes on.              *)
(***************************************************************************)
EXTENDS ExecutionReports

CONSTANTS
    Symbols,       \* the symbol's full spec as the broker may give it
    Placed,        \* the pending orders a trader places
    Changes,       \* the modifies a strategy asks for
    MaxModifies,   \* bound on the modifies
    MaxTroubles    \* bound on what else happens: see MayHappen

ASSUME OrderLifeAssumption ==
    /\ {MaxModifies, MaxTroubles} \subseteq Nat
    /\ \A s \in Symbols : s.digits \in 0..9 /\ s.stepVolume \in Nat /\ s.minVolume \in Nat

VARIABLES
    instrument,   \* the instrument loaded
    broker,       \* external: the pending order, and when another than the node changed it
    requests,     \* sent and not yet served
    stream,       \* external: the frames the node has not read
    link,         \* "up" or "down"
    node,         \* the client's state: the record NewNode
    nautilus,     \* external: the order as Nautilus holds it
    counts,       \* history: what the bounds bound
    seen          \* history: what the properties leave out or rule out

vars == <<instrument, broker, requests, stream, link, node, nautilus, counts, seen>>

-----------------------------------------------------------------------------
(* State *)

NoOrder == [state |-> "none"]
Idle == [n |-> 0]      \* no request of that kind awaits an answer

NewNode == [
    held |-> NoOrder,      \* the order in _open_orders
    reported |-> FALSE,    \* it is in _reported
    waiting |-> <<>>,      \* the modifies waiting for the order's lock
    modify |-> Idle,       \* the one that holds it, its request sent
    cancel |-> Idle,
    query |-> Idle,
    inbox |-> <<>>]        \* answers read, their tasks not yet run

NewNautilus == [status |-> "none", deals |-> {},
                terms |-> [type |-> "MARKET", quantity |-> 0, price |-> 0, trigger |-> 0],
                tif |-> "GTC", updating |-> FALSE, cancelling |-> FALSE]

Init ==
    /\ instrument \in {i \in {InstrumentOf(s) : s \in Symbols} : i.ok}
    /\ broker = [order |-> NoOrder, clock |-> 0, others |-> 0]
    /\ requests = <<>> /\ stream = <<>> /\ link = "up"
    /\ node = NewNode /\ nautilus = NewNautilus
    /\ counts = [modifies |-> 0, cancels |-> 0, moves |-> 0, timeouts |-> 0, losses |-> 0,
                 queries |-> 0, sent |-> 0]
    /\ seen = [undone |-> FALSE, stale |-> FALSE, missed |-> FALSE, passed |-> FALSE]

Open(order) == order.state = "open"
IsOpen(n) == n.status \in {"accepted", "partial"}

-----------------------------------------------------------------------------
(* External: Nautilus *)

Units(deals) == MapThenSumSet(LAMBDA d : VolumeToUnits(d.volume), deals)

\* It applies a status report to an order it holds open, or learns the order from it.  A
\* report of the same order ends its pending update; one of an ended order closes it.
TakesReport(n, report) ==
    IF n.status = "none" \/ IsOpen(n)
    THEN [n EXCEPT !.status = report.status, !.terms = report.terms, !.tif = report.tif,
                   !.updating = FALSE, !.cancelling = @ /\ IsOpen(report)]
    ELSE n

\* A fill report, each deal once; the order is filled once its quantity is.
TakesFill(n, deal) ==
    IF n.status = "none" THEN n
    ELSE LET deals == n.deals \cup {deal}
             over == Units(deals) >= n.terms.quantity
         IN [n EXCEPT !.deals = deals,
                      !.status = IF ~IsOpen(n) THEN @ ELSE IF over THEN "filled" ELSE "partial",
                      !.updating = @ /\ ~over, !.cancelling = @ /\ ~over]

\* A mass status's report, with the order's deals: the terms of an order it holds are let be.
TakesMassStatus(n, report, deals) ==
    IF n.status = "none" THEN [TakesReport(n, report) EXCEPT !.deals = deals]
    ELSE IF IsOpen(n)
    THEN [n EXCEPT !.status = report.status, !.deals = @ \cup deals, !.updating = FALSE,
                   !.cancelling = FALSE]
    ELSE [n EXCEPT !.deals = @ \cup deals]

ModifyRejected(n) == [n EXCEPT !.updating = FALSE]
CancelRejected(n) == [n EXCEPT !.cancelling = FALSE]

-----------------------------------------------------------------------------
(* The venue model, for one external order; w is the pair of node and nautilus *)

EndedKinds == {"cancelled", "expired"}

\* Mutant: a state older than the one held is taken.
TakesStateAny(n, e) ==
    \/ e.kind \in {"accepted", "partial"} /\ ~n.reported
    \/ e.kind \in {"replaced", "partial"} /\ Open(n.held)

\* _keep_open_order(): whether the event's state is taken as the latest.
TakesState(n, e) ==
    \/ e.kind \in {"accepted", "partial"} /\ ~n.reported
    \/ /\ e.kind \in {"replaced", "partial"}
       /\ Open(n.held) /\ e.order.ts >= n.held.ts
KeepOpenOrder(n, e) ==
    IF e.kind = "filled" \/ e.kind \in EndedKinds THEN [n EXCEPT !.held = NoOrder]
    ELSE IF TakesState(n, e) THEN [n EXCEPT !.held = e.order] ELSE n

\* _external_update() of a record that is no fill.
ExternalUpdate(n, kind, order) ==
    LET terms == TermsOf(order, instrument.digits) IN
    IF IsOpen(n)
    THEN TakesReport(n, HeldOrderReport([filled |-> Units(n.deals), terms |-> n.terms,
                                         tif |-> n.tif], kind, terms))
    ELSE n

\* _external_event() and what _handle_record() sends of it.
OnEvent(w, e) ==
    LET n == w.node
        next == [KeepOpenOrder(n, e) EXCEPT !.reported = @ \/ e.kind # "replaced"]
        first == TakesReport(w.nautilus, OrderStatusReport(e.order, instrument.digits))
        known == IF n.reported THEN w.nautilus ELSE first
        told == CASE e.kind = "accepted" -> known
                  [] e.kind \in {"partial", "filled"} -> TakesFill(known, e.deal)
                  [] e.kind = "replaced" ->
                        IF n.reported /\ TakesState(n, e)
                        THEN ExternalUpdate(w.nautilus, "updated", e.order) ELSE w.nautilus
                  [] e.kind \in EndedKinds ->
                        IF n.reported THEN ExternalUpdate(w.nautilus, e.kind, e.order)
                        ELSE w.nautilus
    IN [node |-> next, nautilus |-> told]

\* _updated(): whether the answer's event told Nautilus of the order.
Updated(n, e) == e.kind = "replaced" /\ n.reported /\ TakesState(n, e)

\* _order_stands(): the order as held, which ends Nautilus's pending update.
OrderStands(w) ==
    IF Open(w.node.held)
    THEN [w EXCEPT !.nautilus = ExternalUpdate(w.nautilus, "updated", w.node.held)] ELSE w

Now == [node |-> node, nautilus |-> nautilus]
Becomes(w) == node' = w.node /\ nautilus' = w.nautilus
Count(what) == [counts EXCEPT ![what] = @ + 1]

\* A change by the trader, a cancel, a query, a timeout and a loss happen once each at most.
MayHappen(what) ==
    /\ counts[what] = 0
    /\ counts.moves + counts.cancels + counts.queries + counts.timeouts + counts.losses
           < MaxTroubles

-----------------------------------------------------------------------------
(* External: the broker and the trader *)

Frame(n, kind, order) == [n |-> n, kind |-> kind, order |-> order]
Fill(kind, order, deal) == [n |-> 0, kind |-> kind, order |-> order, deal |-> deal]
Arrives(frames) == stream' = IF link = "up" THEN stream \o frames ELSE stream

\* The order changes at a time of its own, not by a request of the node's.
Tick == broker.clock + 1
Changed(order) == broker' = [order |-> order, clock |-> Tick, others |-> Tick]
At(order) == [order EXCEPT !.ts = Tick]
BrokerUnchanged == UNCHANGED <<instrument, requests, link, node, nautilus>>

TraderPlaces(o) ==
    /\ broker.order = NoOrder
    /\ LET order == [o EXCEPT !.ts = Tick] IN
       Changed(order) /\ Arrives(<<Frame(0, "accepted", order)>>)
    /\ UNCHANGED <<counts, seen>> /\ BrokerUnchanged

\* The trader moves the prices or sets another expiry.
TraderChanges ==
    /\ Open(broker.order) /\ MayHappen("moves")
    /\ \E order \in {[broker.order EXCEPT !.limit = IF @ = 0 THEN 0 ELSE @ + 20000,
                                          !.stop = IF @ = 0 THEN 0 ELSE @ + 20000],
                     [broker.order EXCEPT !.expiry = @ + 1]} :
          Changed(At(order)) /\ Arrives(<<Frame(0, "replaced", At(order))>>)
    /\ counts' = Count("moves") /\ UNCHANGED seen /\ BrokerUnchanged

\* A part of what is left, or all of it.
BrokerFills(part) ==
    /\ Open(broker.order)
    /\ LET o == broker.order
           left == o.volume - Units(o.deals) \div VolumeGrain
           volume == IF part THEN left \div 2 ELSE left
           deal == [id |-> Tick, volume |-> volume]
           order == [At(o) EXCEPT !.deals = @ \cup {deal}, !.state = IF part THEN @ ELSE "filled"]
       IN /\ part => o.deals = {} /\ volume > 0
          /\ Changed(order)
          /\ Arrives(<<Fill(IF part THEN "partial" ELSE "filled", order, deal)>>)
    /\ UNCHANGED <<counts, seen>> /\ BrokerUnchanged

\* The trader cancels it, or its expiry passes.
Ends(kind) ==
    /\ Open(broker.order) /\ (kind = "expired" => broker.order.expiry # 0)
    /\ LET order == [At(broker.order) EXCEPT !.state = kind] IN
       Changed(order) /\ Arrives(<<Frame(0, kind, order)>>)
    /\ UNCHANGED <<counts, seen>> /\ BrokerUnchanged

\* An amend as the broker applies it: it may clear or keep what the request leaves out.
AmendedBy(order, request, clears) ==
    LET kept == request.kept
        set(sent, none, held) == IF sent # none THEN sent ELSE IF clears THEN none ELSE held
    IN [At(order) EXCEPT
            !.volume = request.volume,
            !.limit = IF request.limit = 0 THEN @ ELSE request.limit,
            !.stop = IF request.stop = 0 THEN @ ELSE request.stop,
            !.slippage = set(kept.slippage, 0, @), !.expiry = set(kept.expiry, 0, @),
            !.trailing = set(kept.trailing, FALSE, @), !.method = set(kept.method, 0, @),
            !.relativeSL = set(kept.relativeSL, 0, @), !.sl = set(kept.sl, 0, @)]

\* The order had the amend changed nothing but what the strategy asked for.
AskedAlone(order, change) ==
    LET asked(wanted, held) ==
            IF wanted = 0 \/ PriceOf(held, instrument.digits) = wanted THEN held ELSE wanted
    IN [At(order) EXCEPT
            !.volume = IF change.quantity = 0 THEN @ ELSE VolumeFromQuantity(change.quantity),
            !.limit = asked(change.price, @), !.stop = asked(change.trigger, @)]

\* It applies an amend, refuses it, or answers with the order as it was.
ServesAmend(r) ==
    \/ /\ Open(broker.order) /\ r.body.volume * VolumeGrain > Units(broker.order.deals)
       /\ \E clears \in BOOLEAN :
            LET order == AmendedBy(broker.order, r.body, clears) IN
            /\ broker' = [order |-> order, clock |-> Tick, others |-> broker.others]
            /\ Arrives(<<Frame(r.n, "replaced", order)>>)
            /\ seen' = [seen EXCEPT !.undone =
                  @ \/ (/\ r.clear /\ broker.others <= r.basis
                        /\ order # AskedAlone(broker.order, r.change))]
    \/ Arrives(<<Frame(r.n, "refused", NoOrder)>>) /\ UNCHANGED <<broker, seen>>
    \/ /\ Open(broker.order) /\ Arrives(<<Frame(r.n, "replaced", broker.order)>>)
       /\ UNCHANGED <<broker, seen>>
ServesCancel(r) ==
    \/ /\ Open(broker.order)
       /\ LET order == [At(broker.order) EXCEPT !.state = "cancelled"] IN
          Changed(order) /\ Arrives(<<Frame(r.n, "cancelled", order)>>)
       /\ UNCHANGED seen
    \/ Arrives(<<Frame(r.n, "refused", NoOrder)>>) /\ UNCHANGED <<broker, seen>>
Serve ==
    /\ requests # <<>> /\ requests' = Tail(requests)
    /\ LET r == Head(requests) IN
       \/ r.kind = "amend" /\ ServesAmend(r)
       \/ r.kind = "cancel" /\ ServesCancel(r)
       \/ /\ r.kind \in {"listed", "details"}
          /\ Arrives(<<Frame(r.n, r.kind,
                             IF r.kind = "listed" /\ ~Open(broker.order) THEN NoOrder
                             ELSE broker.order)>>)
          /\ UNCHANGED <<broker, seen>>
    /\ UNCHANGED <<instrument, link, node, nautilus, counts>>

-----------------------------------------------------------------------------
(* The node: commands *)

Send(kind, fields) ==
    /\ requests' = Append(requests, [n |-> counts.sent + 1, kind |-> kind] @@ fields)
    /\ UNCHANGED stream
NodeUnchanged == UNCHANGED <<instrument, broker, link>>

\* _modify(): refused if the order is not held, else it waits for the order's lock.
Modify(change) ==
    /\ IsOpen(nautilus) /\ ~nautilus.cancelling /\ counts.modifies < MaxModifies
    /\ LET asked == [nautilus EXCEPT !.updating = TRUE] IN
       Becomes(IF Open(node.held)
               THEN [node |-> [node EXCEPT !.waiting = Append(@, change)], nautilus |-> asked]
               ELSE [node |-> node, nautilus |-> ModifyRejected(asked)])
    /\ counts' = Count("modifies")
    /\ UNCHANGED <<requests, stream, seen>> /\ NodeUnchanged

\* _amend_pending() up to its request: refused, nothing to change, or sent.
AmendStarts ==
    /\ node.modify = Idle /\ node.waiting # <<>>
    /\ LET change == Head(node.waiting)
           n == [node EXCEPT !.waiting = Tail(@)]
           request == IF Open(node.held) THEN AmendOrder(instrument, node.held, change)
                      ELSE Refused
           inFlight == \/ \E k \in DOMAIN requests : requests[k].kind = "amend"
                       \/ \E k \in DOMAIN stream : stream[k].n # 0 /\ stream[k].kind = "replaced"
       IN \/ /\ request = Refused \/ (request # Nothing /\ link = "down")
             /\ Becomes([node |-> n, nautilus |-> ModifyRejected(nautilus)])
             /\ UNCHANGED <<requests, stream, counts>>
          \/ /\ request = Nothing
             /\ Becomes(OrderStands([node |-> n, nautilus |-> nautilus]))
             /\ UNCHANGED <<requests, stream, counts>>
          \/ /\ request \notin {Refused, Nothing} /\ link = "up"
             /\ node' = [n EXCEPT !.modify = [n |-> counts.sent + 1, request |-> request]]
             /\ Send("amend", [body |-> request, change |-> change, basis |-> node.held.ts,
                               clear |-> ~inFlight])
             /\ counts' = Count("sent") /\ UNCHANGED nautilus
    /\ UNCHANGED seen /\ NodeUnchanged

\* _cancel(), _cancel_pending() up to its request.
Cancel ==
    /\ IsOpen(nautilus) /\ ~nautilus.cancelling /\ MayHappen("cancels")
    /\ node.cancel = Idle
    /\ \/ /\ Open(node.held) /\ link = "up"
          /\ node' = [node EXCEPT !.cancel = [n |-> counts.sent + 1]]
          /\ nautilus' = [nautilus EXCEPT !.cancelling = TRUE]
          /\ Send("cancel", [body |-> Nothing])
          /\ counts' = [Count("cancels") EXCEPT !.sent = @ + 1]
       \/ /\ ~Open(node.held) \/ link = "down"
          /\ nautilus' = CancelRejected([nautilus EXCEPT !.cancelling = TRUE])
          /\ counts' = Count("cancels") /\ UNCHANGED <<node, requests, stream>>
    /\ UNCHANGED seen /\ NodeUnchanged

\* _query_order(), _answer() up to its first request; nothing is asked while disconnected.
Query ==
    /\ nautilus.status # "none" /\ link = "up" /\ node.query = Idle
    /\ MayHappen("queries")
    /\ node' = [node EXCEPT !.query = [n |-> counts.sent + 1]]
    /\ Send("listed", [body |-> Nothing])
    /\ counts' = [Count("queries") EXCEPT !.sent = @ + 1]
    /\ UNCHANGED <<nautilus, seen>> /\ NodeUnchanged

-----------------------------------------------------------------------------
(* The node: what it reads *)

Awaited == {node.modify.n, node.cancel.n, node.query.n} \ {0}

\* The read loop wakes the request's task, or hands an event or a late answer on.
Read ==
    /\ stream # <<>> /\ stream' = Tail(stream)
    /\ LET e == Head(stream) IN
       Becomes(IF e.n \in Awaited THEN [Now EXCEPT !.node.inbox = Append(@, e)]
               ELSE IF e.kind \in {"refused", "listed", "details"} THEN Now
               ELSE OnEvent(Now, e))
    /\ UNCHANGED <<requests, counts, seen>> /\ NodeUnchanged

\* The rest of _amend_pending(): judged by the answer itself, and told if nothing else did.
AmendResumes(w, e) ==
    LET request == w.node.modify.request
        free == [w EXCEPT !.node.modify = Idle]
        applied == OnEvent(free, e)
        rejected == [applied EXCEPT !.nautilus = ModifyRejected(@)]
    IN IF e.kind = "refused" THEN [free EXCEPT !.nautilus = ModifyRejected(@)]
       ELSE IF ~Open(applied.node.held) THEN applied
       ELSE IF e.kind = "replaced" /\ ~Carries(request, e.order, instrument.digits) THEN rejected
       ELSE IF Updated(free.node, e) THEN applied ELSE OrderStands(applied)

\* The rest of _cancel_pending().
CancelResumes(w, e) ==
    LET free == [w EXCEPT !.node.cancel = Idle]
        applied == OnEvent(free, e)
    IN IF e.kind = "refused" THEN [free EXCEPT !.nautilus = CancelRejected(@)]
       ELSE IF Open(applied.node.held) THEN [applied EXCEPT !.nautilus = CancelRejected(@)]
       ELSE applied

\* unfilled_order(), _order_report(), _status(): the order as the broker states it.
ReportOf(order) ==
    [status |-> IF order.state # "open" THEN order.state
                ELSE IF order.deals # {} THEN "partial" ELSE "accepted",
     filled |-> Units(order.deals), terms |-> TermsOf(order, instrument.digits),
     tif |-> TimeInForce(order)]

\* The rest of _answer(): an order with fills goes out as a mass status, one without alone.
QueryAnswered(w, e) ==
    LET done == [w EXCEPT !.node.query = Idle]
        report == ReportOf(e.order)
    IN IF e.order.deals # {}
       THEN [done EXCEPT !.nautilus = TakesMassStatus(@, report, e.order.deals)]
       ELSE [done EXCEPT !.nautilus = TakesReport(@, report)]

\* The task of the first answer read goes on, up to its next request.
Resume ==
    /\ node.inbox # <<>>
    /\ LET e == Head(node.inbox)
           w == [Now EXCEPT !.node.inbox = Tail(@)]
           asksOn == e.kind = "listed" /\ (Open(e.order) => e.order.deals # {})
       IN \/ /\ e.n = node.modify.n /\ Becomes(AmendResumes(w, e))
             /\ seen' = [seen EXCEPT !.passed = @ \/ (/\ e.kind = "replaced"
                                                       /\ ~(nautilus.deals \subseteq e.order.deals))]
             /\ UNCHANGED <<requests, stream, counts>>
          \/ /\ e.n = node.cancel.n /\ Becomes(CancelResumes(w, e))
             /\ UNCHANGED <<requests, stream, counts, seen>>
          \/ /\ e.n = node.query.n /\ asksOn
             /\ Send("details", [body |-> Nothing]) /\ counts' = Count("sent")
             /\ Becomes([w EXCEPT !.node.query = [n |-> counts.sent + 1]])
             /\ UNCHANGED seen
          \/ /\ e.n = node.query.n /\ ~asksOn /\ Becomes(QueryAnswered(w, e))
             /\ seen' = [seen EXCEPT !.stale = @ \/ (Open(node.held) /\ e.order.ts < node.held.ts),
                                     !.missed = @ /\ Open(e.order)]
             /\ UNCHANGED <<requests, stream, counts>>
    /\ NodeUnchanged

\* A request's timeout, its answer not read: the outcome is unknown and nothing is told.
TimesOut(task) ==
    /\ node[task] # Idle /\ MayHappen("timeouts")
    /\ \A k \in DOMAIN node.inbox : node.inbox[k].n # node[task].n
    /\ node' = [node EXCEPT ![task] = Idle]
    /\ counts' = Count("timeouts")
    /\ UNCHANGED <<requests, stream, nautilus, seen>> /\ NodeUnchanged

\* The connection is lost once the tasks answered have run: what is on the way is gone and
\* every request awaited fails, its outcome unknown.
Disconnects ==
    /\ link = "up" /\ node.inbox = <<>> /\ MayHappen("losses")
    /\ link' = "down" /\ requests' = <<>> /\ stream' = <<>>
    /\ node' = [node EXCEPT !.modify = Idle, !.cancel = Idle, !.query = Idle]
    /\ counts' = Count("losses")
    /\ UNCHANGED <<instrument, broker, nautilus, seen>>

\* _resend_changed() of the report Nautilus skipped.
ResendChanged(n, report) ==
    IF IsOpen(n) /\ ChangesTerms([filled |-> Units(n.deals), terms |-> n.terms], report)
    THEN TakesReport(n, report) ELSE n

\* The reconnect pass: an order that is open, or has deals, is loaded and reported; one that
\* ended without a fill is in no list it reads.
Reconnects ==
    /\ link = "down" /\ link' = "up"
    /\ LET o == broker.order
           listed == Open(o) \/ (o # NoOrder /\ o.deals # {})
           told == TakesMassStatus(nautilus, ReportOf(o), o.deals)
       IN /\ node' = [node EXCEPT !.held = IF Open(o) THEN o ELSE NoOrder,
                                  !.reported = @ \/ listed]
          /\ nautilus' = IF ~listed THEN nautilus
                         ELSE IF Open(o) THEN ResendChanged(told, ReportOf(o)) ELSE told
          /\ seen' = [seen EXCEPT !.missed = ~listed /\ o # NoOrder
                                             /\ nautilus.status # o.state]
    /\ UNCHANGED <<instrument, broker, requests, stream, counts>>

Next ==
    \/ \E o \in Placed : TraderPlaces(o)
    \/ TraderChanges
    \/ \E part \in BOOLEAN : BrokerFills(part)
    \/ \E kind \in {"cancelled", "expired"} : Ends(kind)
    \/ \E change \in Changes : Modify(change)
    \/ AmendStarts \/ Cancel \/ Query
    \/ Serve \/ Read \/ Resume
    \/ \E task \in {"modify", "cancel", "query"} : TimesOut(task)
    \/ Disconnects \/ Reconnects

Spec == Init /\ [][Next]_vars

-----------------------------------------------------------------------------
(* Properties *)

Quiet ==
    /\ link = "up" /\ requests = <<>> /\ stream = <<>>
    /\ node.inbox = <<>> /\ node.waiting = <<>> /\ Awaited = {}

\* Amending a pending order changes nothing but what the strategy asked for: the expiry,
\* the slippage, the levels and the price not named are the order's own after it, whether
\* the broker keeps or clears what a request leaves out, and no modify undoes the one
\* before it.  A change by the trader the node has not read, and an amend whose answer is
\* still on the way, may be undone.
AmendTouchesOnlyAsked == ~seen.undone

\* Once everything sent is read, Nautilus holds the order the broker holds: its quantity,
\* prices, fills and end, though tasks go on after later events, answers come after their
\* timeout, and the connection was lost.  Left out: an order that ended unfilled while the
\* connection was down, until it is queried; a query's answer overtaken by an event; and an
\* amend's answer overtaken by a fill (FilledIsTold).
NautilusShowsOrder ==
    LET o == broker.order IN
    (Quiet /\ o # NoOrder /\ ~seen.stale /\ ~seen.missed /\ ~seen.passed) =>
        /\ nautilus.deals = o.deals
        /\ IF Open(o) THEN IsOpen(nautilus) /\ nautilus.terms = TermsOf(o, instrument.digits)
           ELSE nautilus.status = o.state

\* An order that ended while its amend's answer waited: "the record that ended it tells
\* Nautilus".  Violated: the fill of an order amended to less, applied before the amend's
\* answer, leaves the order Nautilus holds partly filled.
FilledIsTold ==
    (Quiet /\ seen.passed /\ counts.losses = 0 /\ broker.order.state = "filled") =>
        nautilus.status = "filled"

\* While no answer is lost, every modify and cancel is answered: none leaves Nautilus with
\* an order pending update or pending cancel.  Left out as above: FilledIsTold's case.
CommandsAnswered ==
    (Quiet /\ counts.timeouts = 0 /\ counts.losses = 0 /\ ~seen.passed) =>
        ~nautilus.updating /\ ~nautilus.cancelling

\* Nautilus follows a trader's pending order: once all is read it shows what the broker
\* holds, and no command on it is left without an answer.
OrderFollowed == NautilusShowsOrder /\ CommandsAnswered

=============================================================================
