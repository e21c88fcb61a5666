------------------------------ MODULE VenueSync ------------------------------
(***************************************************************************)
(* The venue model kept in step with the broker (execution.py), and        *)
(* Nautilus with both.                                                     *)
(*                                                                         *)
(* A broker (external) holds one position and its orders and sends an      *)
(* execution event for every change, in order, on one stream.  The answer  *)
(* to a request of the node's is an event too, but it is applied by the    *)
(* task that asked, possibly after events that came later.  A rebuild      *)
(* holds events in a buffer while it reads the broker; a lost connection   *)
(* loses the events of the outage, and the reconnect's pass reads          *)
(* everything again and hands Nautilus a mass status.  A position a        *)
(* background rebuild no longer finds is kept until its close event, or    *)
(* its deals, end it.                                                      *)
(***************************************************************************)
EXTENDS Reconciliation

CONSTANTS
    Cases,       \* the kinds of position tried: whose it is, on which symbol, whether it
                 \* stands protected from the start; bounds: moves of the broker and the
                 \* traders, lost connections, background rebuilds
    Volume,      \* the entry's volume
    Prices,      \* the prices each level may take, by level
    Moves        \* the kinds of moves the broker may make

ASSUME VenueAssumption ==
    /\ Volume \in Nat \ {0}
    /\ Prices \in [Level -> SUBSET (Nat \ {0})]

VARIABLES
    case,      \* the position tried
    venue,     \* what the broker holds
    moves,     \* broker moves so far
    stream,    \* what the broker sent and the client has not read
    answers,   \* answers read whose task has not applied them yet
    book,      \* VenueBook
    naut,      \* the orders Nautilus holds, by name
    refused,   \* history: events Nautilus refuses in the state the order was in
    misread,   \* history: a change of the node's own was told as a trader's
    overtaken, \* history: the model took an older state for the newer one (Overtakes)
    amends,    \* the node's amends of the position in flight
    closes,    \* the node's closes in flight
    link,      \* "up", or "down"
    losses, rebuilds,
    holding,   \* _buffer is not None
    held,      \* the events in _buffer
    pass,      \* where the rebuild or the reconnect's pass is
    read,      \* what it has read
    brokerMs,  \* _broker_ms: the newest broker time seen
    timer      \* the wait for a kept position's close: "none", "armed", "reading"

linkVars == <<link, losses, rebuilds>>
passVars == <<holding, held, pass, read>>
nodeVars == <<book, naut, refused, misread, overtaken, amends, closes, brokerMs>>
vars == <<case, venue, moves, stream, answers, nodeVars, linkVars, passVars, timer>>

-----------------------------------------------------------------------------
(* Nautilus (external): the orders it holds and what it does with an event *)

Submitted(n) == [status |-> "submitted", quantity |-> n, filled |-> 0, deals |-> {}]
Ended == {"filled", "canceled"}
HeldClosed(n) == {w \in DOMAIN n : n[w].status \in Ended}

\* An event of an order as Nautilus holds it: the order after it, or refused.  A fill
\* it holds already is dropped; one after a cancel is legal.
Takes(order, r) ==
    CASE r.kind = "ACCEPTED" -> order.status = "submitted"
      [] r.kind = "UPDATED" -> order.status \in {"submitted", "accepted"}
      [] r.kind = "CANCELED" -> order.status \in {"submitted", "accepted"}
      [] r.kind = "FILLED" -> /\ order.status # "filled"
                              /\ order.filled + r.volume <= order.quantity
WithFill(order, r) ==
    LET filled == order.filled + r.volume IN
    [order EXCEPT !.filled = filled, !.deals = @ \cup {r.deal},
                  !.status = IF filled >= order.quantity THEN "filled" ELSE @]
After(order, r) ==
    CASE r.kind = "ACCEPTED" -> [order EXCEPT !.status = "accepted",
                                              !.quantity = IF r.quantity > 0 THEN r.quantity ELSE @]
      [] r.kind = "UPDATED" -> [order EXCEPT !.quantity = r.quantity]
      [] r.kind = "CANCELED" -> [order EXCEPT !.status = "canceled"]
      [] r.kind = "FILLED" -> WithFill(order, r)

\* An order that is not the node's: _order_event() tells nothing of one Nautilus does not
\* hold, _external_update() nothing but a fill of one that ended.
Outside(who) == who[1] = "external" \/ Len(who) = 3

\* What Nautilus makes of record r: s is its orders and what it refused.  A report of
\* an order it holds is reconciled with it.
Hears(s, r) ==
    LET known == r.who \in DOMAIN s.naut
        order == s.naut[r.who]
        new == [Submitted(r.quantity) EXCEPT !.status = "accepted"]
        reported == IF r.deal = 0 THEN new ELSE WithFill(new, r)
        fill == [r EXCEPT !.kind = "FILLED"]
        state == IF known THEN order.status ELSE "unknown"
        refuse == [s EXCEPT !.refused = @ \cup {<<r.kind, r.who, state>>}]
        put(o) == [s EXCEPT !.naut = [w \in DOMAIN s.naut \cup {r.who} |->
                                        IF w = r.who THEN o ELSE s.naut[w]]]
    IN CASE r.t \notin {"event", "report"} -> s
         [] r.t = "event" /\ Outside(r.who) /\ r.kind # "FILLED" /\ (~known \/ state \in Ended) -> s
         [] r.t = "report" /\ ~known -> put(reported)
         [] r.t = "report" /\ known ->
                IF r.deal \in {0} \cup order.deals THEN s
                ELSE IF Takes(order, fill) THEN put(WithFill(order, r)) ELSE refuse
         [] OTHER -> IF known /\ r.deal # 0 /\ r.deal \in order.deals THEN s
                     ELSE IF known /\ Takes(order, r) THEN put(After(order, r)) ELSE refuse

\* Nautilus reconciles a mass status: each order it names becomes as reported, but no
\* fill is taken back and no order that ended opens again.
Reconciled(n, reports) ==
    LET named == {r.who : r \in reports}
        of(w) == CHOOSE r \in reports : r.who = w
        as(r) == [status |-> r.status, quantity |-> r.quantity, filled |-> r.filled,
                  deals |-> r.deals]
        older(w) == w \in DOMAIN n /\ (\/ n[w].status \in Ended /\ of(w).status = "accepted"
                                      \/ n[w].deals \ of(w).deals # {})
    IN [w \in DOMAIN n \cup named |->
          IF w \notin named \/ older(w) THEN n[w] ELSE as(of(w))]

-----------------------------------------------------------------------------
(* The broker (external) *)

NoSnapshot == [open |-> FALSE, volume |-> 0, levels |-> NoLevels, protective |-> 0,
               protectiveVolume |-> 0, protectiveMs |-> -1, openedMs |-> -1,
               updatedMs |-> 0, pending |-> {}]
NoLists == [orders |-> {}, deals |-> {}]

Order(id, type, by, v, volume, levels) ==
    [id |-> id, type |-> type, ours |-> by = "node" /\ type = "OPENING",
     named |-> IF type = "OPENING" /\ by = "node" THEN case.named ELSE {},
     created |-> v.now + 1, updatedMs |-> v.now + 1, status |-> "WORKING", volume |-> volume,
     levels |-> levels, stopOut |-> by = "broker" /\ type = "CLOSING",
     pends |-> id = 1 /\ case.pends]

OrderOf(v, id) == CHOOSE o \in v.orders : o.id = id
DealOf(v, id) == CHOOSE d \in v.deals : d.id = id
PutOrder(v, o) == [v EXCEPT !.orders = {q \in @ : q.id # o.id} \cup {o}]
NextOrder(v) == Cardinality(v.orders) + 1
Tick(v) == [v EXCEPT !.now = @ + 1]

Left(v, o) == o.volume - VolumeOf({d \in v.deals : d.order = o.id})

\* The execution event of kind for order id, as the broker stands in v after it.
Event(v, kind, id, by, deal) ==
    LET o == OrderOf(v, id)
        d == DealOf(v, deal)
    IN [type |-> o.type, kind |-> kind, order |-> id, volume |-> o.volume, left |-> Left(v, o),
        orderMs |-> o.updatedMs,
        created |-> o.created, levels |-> o.levels, pends |-> o.pends, ours |-> o.ours,
        named |-> o.named, server |-> by = "broker", stopOut |-> o.stopOut,
        closing |-> o.type # "OPENING", hasPosition |-> TRUE, positionMs |-> v.updatedMs,
        positionVolume |-> v.volume, positionOpen |-> v.open, openedMs |-> v.openedMs,
        deal |-> deal, dealVolume |-> IF deal = 0 THEN 0 ELSE d.volume,
        dealMs |-> IF deal = 0 THEN -1 ELSE d.ms, price |-> IF deal = 0 THEN 0 ELSE d.price,
        answer |-> by = "node", by |-> by]

\* Order id changes to o at the broker's next time, and the position by delta.
Change(v, o, delta) ==
    LET ms == v.now + 1
        volume == v.volume + delta
    IN [PutOrder(v, [o EXCEPT !.updatedMs = ms]) EXCEPT
            !.now = ms, !.volume = volume, !.open = volume > 0,
            !.updatedMs = IF delta = 0 /\ o.type # "PROTECTIVE" THEN @ ELSE ms,
            !.openedMs = IF @ < 0 /\ delta > 0 THEN ms ELSE @]

\* ... with a deal of n at price.
Deal(v, o, n, delta, price) ==
    LET w == Change(v, o, delta) IN
    [w EXCEPT !.deals = @ \cup {[id |-> Cardinality(v.deals) + 1, order |-> o.id, volume |-> n,
                                 ms |-> w.now, closing |-> o.type # "OPENING", price |-> price]}]
LastDeal(v) == Cardinality(v.deals)

\* The protective order follows the position's volume, and ends with it.
Follow(v) ==
    IF v.protective = 0 THEN [v |-> v, s |-> <<>>]
    ELSE LET o == OrderOf(v, v.protective)
             w == Change(v, IF v.open THEN [o EXCEPT !.volume = v.volume]
                            ELSE [o EXCEPT !.status = "CANCELLED"], 0)
             kind == IF v.open THEN "REPLACED" ELSE "CANCELLED"
         IN [v |-> IF v.open THEN w ELSE [w EXCEPT !.protective = 0],
             s |-> <<Event(w, kind, o.id, "broker", 0)>>]

\* The venue goes to v and sends events s.
Sends(v, s) ==
    /\ moves < case.moves
    /\ moves' = moves + 1
    /\ venue' = v
    /\ stream' = IF link = "up" THEN stream \o s ELSE stream
    /\ UNCHANGED <<case, answers, nodeVars, linkVars, passVars, timer>>

EntryOrder == OrderOf(venue, 1)
EntryLeft == Left(venue, EntryOrder)
LevelsNow == IF venue.protective = 0 THEN NoLevels ELSE OrderOf(venue, venue.protective).levels

FillEntry(n) ==
    /\ "fill" \in Moves /\ EntryOrder.status = "WORKING" /\ n <= EntryLeft
    /\ venue.open \/ venue.deals = {}
    /\ LET kind == IF n = EntryLeft THEN "FILLED" ELSE "PARTIAL_FILL"
           o == [EntryOrder EXCEPT !.status = IF n = EntryLeft THEN "FILLED" ELSE @]
           v == Deal(venue, o, n, n, 0)
           after == Follow(v)
       IN Sends(after.v, <<Event(v, kind, 1, "broker", LastDeal(v))>> \o after.s)

EndEntry ==
    /\ "end" \in Moves /\ EntryOrder.status = "WORKING"
    /\ LET v == Change(venue, [EntryOrder EXCEPT !.status = "CANCELLED"], 0)
       IN Sends(v, <<Event(v, "CANCELLED", 1, "trader", 0)>>)

\* A pending order is amended, by the node for one: the event is then its answer.
ReplaceEntry(by) ==
    /\ "replace" \in Moves /\ case.pends /\ EntryOrder.status = "WORKING"
    /\ LET v == Change(venue, EntryOrder, 0)
       IN Sends(v, <<Event(v, "REPLACED", 1, by, 0)>>)

\* The levels go to levels, asked by whom: the entry's own become a protective order
\* once it filled, a later change replaces or cancels it.
SetLevels(v, by, levels) ==
    LET old == OrderOf(v, v.protective)
        new == Order(NextOrder(v), "PROTECTIVE", "broker", v, v.volume, levels)
        kind == IF v.protective = 0 THEN "ACCEPTED"
                ELSE IF levels = NoLevels THEN "CANCELLED" ELSE "REPLACED"
        o == IF v.protective = 0 THEN new
             ELSE IF levels = NoLevels THEN [old EXCEPT !.status = "CANCELLED"]
             ELSE [old EXCEPT !.levels = levels]
        w == [Change(v, o, 0) EXCEPT !.protective = IF kind = "CANCELLED" THEN 0 ELSE o.id]
    IN <<w, Event(w, kind, o.id, by, 0)>>

LevelChoices == [Level -> {0} \cup UNION {Prices[l] : l \in Level}]
Proper(levels) == \A l \in Level : levels[l] \in {0} \cup Prices[l]

Protect ==
    /\ venue.open /\ venue.protective = 0 /\ ProtectiveOrders(venue) = {}
    /\ \E levels \in {f \in LevelChoices : Proper(f) /\ {l \in Level : f[l] # 0} = case.named} :
          /\ levels # NoLevels
          /\ LET s == SetLevels(venue, "broker", levels) IN Sends(s[1], <<s[2]>>)

Amend(by) ==
    /\ "amend" \in Moves /\ venue.open /\ moves < case.moves
    /\ by = "node" => link = "up" /\ book.pos.known /\ book.pos.ours /\ book.pos.open /\ ~holding
                     /\ amends = 0 /\ answers = {}
    /\ \E levels \in {f \in LevelChoices : Proper(f) /\ f # LevelsNow} :
          LET s == SetLevels(venue, by, levels) IN
          /\ venue' = s[1] /\ moves' = moves + 1
          /\ stream' = IF link = "up" THEN Append(stream, s[2]) ELSE stream
          /\ amends' = IF by = "node" THEN amends + 1 ELSE amends
          /\ UNCHANGED <<case, answers, book, naut, refused, misread, overtaken, closes, brokerMs, linkVars, passVars,
                         timer>>

\* The broker moves a trailing stop-loss.
Trail(price) ==
    /\ "trail" \in Moves /\ venue.open /\ LevelsNow["SL"] \notin {0, price}
    /\ LET o == OrderOf(venue, venue.protective)
           v == [PutOrder(venue, [o EXCEPT !.levels["SL"] = price, !.updatedMs = venue.now + 1])
                    EXCEPT !.now = @ + 1]
       IN Sends(v, <<[Event(v, "TRAILED", o.id, "broker", 0) EXCEPT !.type = "TRAIL"]>>)

\* A closing order of n: accepted, filled, and the protective order after it.
CloseEvents(by, n) ==
    LET o == Order(NextOrder(venue), "CLOSING", by, venue, n, NoLevels)
        v == Tick(PutOrder(venue, o))
        w == Deal(v, [o EXCEPT !.status = "FILLED"], n, -n, 0)
        after == Follow(w)
        filled == [Event(w, "FILLED", o.id, by, LastDeal(w)) EXCEPT !.answer = FALSE]
    IN <<after.v, <<Event(v, "ACCEPTED", o.id, by, 0), filled>> \o after.s>>

\* A position closes in full only once its entry has ended.
MayClose(n) == venue.open /\ n <= venue.volume /\ (n = venue.volume => EntryOrder.status # "WORKING")

ClosePart(by, n) ==
    /\ "close" \in Moves /\ MayClose(n)
    /\ LET s == CloseEvents(by, n) IN Sends(s[1], s[2])

\* The node's close (_close()): sent for an open position, with the newest broker time
\* seen as its anchor.
NodeCloses(n) ==
    /\ "close" \in Moves /\ MayClose(n) /\ moves < case.moves
    /\ link = "up" /\ pass \in {"idle", "rebuild"} /\ Close(1) \notin DOMAIN naut /\ answers = {}
    /\ book.pos.known /\ book.pos.open
    /\ LET s == CloseEvents("node", n) IN
       /\ venue' = s[1] /\ moves' = moves + 1 /\ stream' = stream \o s[2]
    /\ closes' = {[id |-> 1, volume |-> n, anchor |-> Max({brokerMs, book.pos.updated}), answer |-> 0]}
    /\ naut' = [w \in DOMAIN naut \cup {Close(1)} |->
                  IF w = Close(1) THEN Submitted(n)
                  ELSE naut[w]]
    /\ UNCHANGED <<case, answers, book, refused, misread, overtaken, amends, brokerMs, linkVars, passVars, timer>>

\* A level triggers: the protective order fills the whole position.
Trigger(l) ==
    /\ "trigger" \in Moves /\ MayClose(venue.volume) /\ LevelsNow[l] # 0
    /\ LET o == OrderOf(venue, venue.protective)
           v == [Deal(venue, [o EXCEPT !.status = "FILLED"], venue.volume, -venue.volume, o.levels[l])
                    EXCEPT !.protective = 0]
       IN Sends(v, <<Event(v, "FILLED", o.id, "broker", LastDeal(v))>>)

\* A trader raises the position by hand.
Raise ==
    /\ "raise" \in Moves /\ venue.open
    /\ LET o == [Order(NextOrder(venue), "OPENING", "trader", venue, 1, NoLevels) EXCEPT !.pends = FALSE]
           v == Tick(PutOrder(venue, o))
           w == Deal(v, [o EXCEPT !.status = "FILLED"], 1, 1, 0)
           after == Follow(w)
       IN Sends(after.v, <<Event(v, "ACCEPTED", o.id, "trader", 0),
                           Event(w, "FILLED", o.id, "trader", LastDeal(w))>> \o after.s)

\* What the broker answers to a reconcile request, and to the requests for lists.
SnapshotOf(v) ==
    [open |-> v.open, volume |-> v.volume, protective |-> v.protective,
     levels |-> IF v.protective = 0 THEN NoLevels ELSE OrderOf(v, v.protective).levels,
     protectiveVolume |-> IF v.protective = 0 THEN 0 ELSE OrderOf(v, v.protective).volume,
     protectiveMs |-> IF v.protective = 0 THEN -1 ELSE OrderOf(v, v.protective).updatedMs,
     openedMs |-> v.openedMs, updatedMs |-> v.updatedMs,
     pending |-> {[id |-> o.id, ms |-> o.updatedMs, left |-> Left(v, o), pends |-> o.pends] :
                    o \in {o \in v.orders : o.type = "OPENING" /\ o.status = "WORKING"}}]
ListsOf(v) == [orders |-> v.orders, deals |-> v.deals]

-----------------------------------------------------------------------------
(* The client: events applied, or held while a rebuild runs *)

Node == [book |-> book, naut |-> naut, refused |-> refused, misread |-> misread,
         overtaken |-> overtaken, amends |-> amends, closes |-> closes, brokerMs |-> brokerMs]
Becomes(s) ==
    /\ book' = s.book /\ naut' = s.naut /\ refused' = s.refused /\ misread' = s.misread
    /\ overtaken' = s.overtaken
    /\ amends' = s.amends /\ closes' = s.closes /\ brokerMs' = s.brokerMs

\* A trader closed the same volume: nothing the broker says tells the two closes apart.
TwinClose(e) ==
    \E o \in venue.orders : /\ o.type = "CLOSING" /\ ~o.stopOut
                            /\ o.id # e.order /\ o.volume = e.volume

\* What Nautilus and the node make of the records said of event e: the closes they name
\* are matched (_bookkeep()), and an answer ends its request.
Names(r, id) == \E i \in DOMAIN r : r[i].t = "event" /\ r[i].who = Close(id)
Manual(r) == \E i \in DOMAIN r : r[i].t = "activity" /\ r[i].kind = "MANUAL_CHANGE"
Heeds(s, heard, e, r) ==
    [s EXCEPT
        !.naut = heard.naut, !.refused = heard.refused,
        !.misread = @ \/ (Manual(r) /\ e.by = "node" /\ ~TwinClose(e)),
        !.amends = IF e.answer /\ e.type = "PROTECTIVE" THEN @ - 1 ELSE @,
        !.closes = {c \in @ : ~Names(r, c.id) /\
                              ~(e.answer /\ e.type = "CLOSING" /\ c.answer = e.order)},
        !.brokerMs = Max({@, EventMs(e)})]
Hearing(s, records) == FoldLeft(Hears, [naut |-> s.naut, refused |-> s.refused], records)
Applied(s, e, said) ==
    [Heeds(s, Hearing(s, said.r), e, said.r) EXCEPT
        !.book = said.b,
        !.overtaken = @ \/ (e.type = "PROTECTIVE" /\ e.orderMs < s.book.pos.stated)]

\* _apply_execution_event() and _on_trailing_stop()
ApplyEvent(s, e) ==
    Applied(s, e, IF e.type = "TRAIL" THEN TrailingStopMoved(s.book, e, HeldClosed(s.naut))
                  ELSE Apply(s.book, e, s.closes, s.amends > 0, HeldClosed(s.naut)))
ApplyAll(s, events) == FoldLeft(ApplyEvent, s, events)

\* _on_execution_event() of the events es.
OnEvents(s, es) ==
    /\ held' = IF holding THEN held \o es ELSE held
    /\ Becomes(IF holding THEN s ELSE ApplyAll(s, es))

Next_(what) == Head(stream).type \in what
Events == {"OPENING", "PROTECTIVE", "CLOSING", "TRAIL"}

\* Event e passes the answer to an amend, whose older levels the model then takes for
\* the newer ones; a trailing move does no harm to one that restates the order.
Overtakes(e) ==
    \E a \in answers : /\ a.type = "PROTECTIVE"
                       /\ e.type = "PROTECTIVE" \/ (e.type = "TRAIL" /\ a.kind = "ACCEPTED")

\* The read loop takes an event: an answer goes to the task that waits for it.
Deliver ==
    /\ stream # <<>> /\ Next_(Events)
    /\ stream' = Tail(stream)
    /\ IF Head(stream).answer
       THEN /\ answers' = answers \cup {Head(stream)}
            /\ UNCHANGED <<nodeVars, held>>
       ELSE /\ answers' = answers
            /\ OnEvents([Node EXCEPT !.overtaken = @ \/ Overtakes(Head(stream))], <<Head(stream)>>)
    /\ UNCHANGED <<case, venue, moves, linkVars, holding, pass, read, timer>>

\* The task that asked goes on with its answer (_close(), _apply_answer()): after the
\* events read in the same go, and before any step of another task.
TakeAnswer(e) ==
    /\ e \in answers
    /\ answers' = answers \ {e}
    /\ OnEvents([Node EXCEPT !.closes = {IF e.type = "CLOSING" THEN [c EXCEPT !.answer = e.order] ELSE c :
                                            c \in @}], <<e>>)
    /\ UNCHANGED <<case, venue, moves, stream, linkVars, holding, pass, read, timer>>

-----------------------------------------------------------------------------
(* Rebuilding the model *)

NoRead == [snapshot |-> NoSnapshot, lists |-> NoLists]
ReadMs(snapshot) == Max({brokerMs, snapshot.updatedMs, snapshot.protectiveMs}
                           \cup {o.ms : o \in snapshot.pending})

\* _waiting_legs(): the legs of a bracket whose protective order has not come.
WaitingLegs == IF book.pos.protective = 0 THEN case.named ELSE {}

\* _load(keep_gone=True), to settle a bracket.
BeginRebuild ==
    /\ link = "up" /\ pass = "idle" /\ rebuilds < case.rebuilds /\ answers = {}
    /\ rebuilds' = rebuilds + 1
    /\ pass' = "rebuild" /\ holding' = TRUE /\ held' = <<>> /\ read' = NoRead
    /\ UNCHANGED <<case, venue, moves, stream, answers, nodeVars, link, losses, timer>>

\* The broker answers a request: in order with the events it pushed, or, early, before
\* events it has not pushed yet.
Answers(reply, early) ==
    /\ link = "up"
    /\ ~\E i \in DOMAIN stream : stream[i].type = reply.type
    /\ \/ stream' = Append(stream, reply)
       \/ early /\ stream' = <<reply>> \o stream
    /\ UNCHANGED <<case, venue, moves, answers, nodeVars, linkVars, passVars, timer>>

Serve ==
    \/ /\ pass \in {"rebuild", "pass", "again"}
       /\ Answers([type |-> "SNAPSHOT", snapshot |-> SnapshotOf(venue)], pass = "rebuild")
    \/ pass = "lists" /\ Answers([type |-> "LISTS", lists |-> ListsOf(venue)], FALSE)
    \/ timer = "reading" /\ Answers([type |-> "DEALS", lists |-> ListsOf(venue)], TRUE)

\* _answer_as_held(): the legs of a standing position the rebuild ended are cancelled,
\* but those Nautilus holds closed.
AnswerAsHeld(s, before, stood) ==
    LET ended(l) == /\ stood.known /\ stood.ours /\ stood.open
                    /\ before.legs[l].alive /\ ~stood.legs[l].alive
                    /\ Leg(l) \notin HeldClosed(s.naut)
        heard == Hearing(s, PerLevel(stood, LAMBDA p, l :
                                Says(p, When(ended(l), OrderEvent("CANCELED", Leg(l))))).r)
    IN [s EXCEPT !.naut = heard.naut, !.refused = heard.refused]

\* The model loaded stands at once and the events held are applied; a kept position is
\* waited for, any other's legs are answered as the broker holds them.
Settles(loaded, released) ==
    /\ Becomes(IF loaded.kept THEN released ELSE AnswerAsHeld(released, book.pos, loaded.pos))
    /\ timer' = IF loaded.kept /\ timer = "none" THEN "armed" ELSE timer
Rebuilt(loaded, ms) ==
    Settles(loaded, ApplyAll([Node EXCEPT !.book = loaded, !.brokerMs = ms], held))

\* The snapshot of a background rebuild (_settle_from_broker()).
RebuildStands ==
    /\ pass = "rebuild" /\ stream # <<>> /\ Next_({"SNAPSHOT"}) /\ answers = {}
    /\ LET snapshot == Head(stream).snapshot
           ms == ReadMs(snapshot)
       IN Rebuilt(Load(book, snapshot, IF snapshot.open THEN venue.orders ELSE {}, TRUE, ms,
                       WaitingLegs, HeldClosed(naut)), ms)
    /\ stream' = Tail(stream)
    /\ pass' = "idle" /\ holding' = FALSE /\ held' = <<>> /\ read' = NoRead
    /\ UNCHANGED <<case, venue, moves, answers, linkVars>>

\* The reconnect's pass reads the snapshot, then the lists.
TakeSnapshot ==
    /\ pass \in {"pass", "again"} /\ stream # <<>> /\ Next_({"SNAPSHOT"}) /\ answers = {}
    /\ LET snapshot == Head(stream).snapshot IN
       read' = IF pass = "pass" \/ snapshot.open THEN [read EXCEPT !.snapshot = snapshot] ELSE read
    /\ pass' = IF pass = "pass" THEN "lists" ELSE "stand"
    /\ stream' = Tail(stream)
    /\ UNCHANGED <<case, venue, moves, answers, nodeVars, linkVars, holding, held, timer>>

\* A position its deals leave open and the snapshot lacks is looked for once more.
TakeLists ==
    /\ pass = "lists" /\ stream # <<>> /\ Next_({"LISTS"}) /\ answers = {}
    /\ read' = [read EXCEPT !.lists = Head(stream).lists]
    /\ pass' = IF ~read.snapshot.open /\ OpenVolume(Head(stream).lists) > 0 THEN "again" ELSE "stand"
    /\ stream' = Tail(stream)
    /\ UNCHANGED <<case, venue, moves, answers, nodeVars, linkVars, holding, held, timer>>

\* _mass_status(): the reports, each under the id Nautilus holds its order by
\* (_known_id(), told here by the order's deals).
MassStatus(snapshot, lists) ==
    LET holders(r) == {w \in DOMAIN naut : r.deals # {} /\ r.deals \subseteq naut[w].deals}
        named(r) == IF r.who[1] = "external" /\ r.who \notin DOMAIN naut /\ holders(r) # {}
                    THEN [r EXCEPT !.who = CHOOSE w \in holders(r) : TRUE] ELSE r
    IN {named(r) : r \in Reconcile(snapshot, lists, book.closes, closes, naut)}

\* closed_in_reconciliation(): the mass status carried the close of a position the
\* model lacks.
ClosedInPass(b, lists, reports) ==
    /\ ~b.pos.known /\ OpenVolume(lists) = 0
    /\ \E d \in lists.deals : \E r \in reports : d.id \in r.deals

Stood(loaded, reports) ==
    Becomes([Node EXCEPT
        !.book = [loaded EXCEPT !.closedInReconciliation = ClosedInPass(loaded, read.lists, reports)],
        !.naut = Reconciled(naut, reports), !.brokerMs = ReadMs(read.snapshot), !.amends = 0,
        !.closes = {}])

\* _stand() and the mass status, which Nautilus reconciles before the pass goes on; a
\* close whose answer was lost is no longer in flight after it.
PassStands ==
    /\ pass = "stand" /\ answers = {}
    /\ Stood(Load(book, read.snapshot, read.lists.orders, FALSE, ReadMs(read.snapshot), {},
                  HeldClosed(naut)),
             IF book.loaded THEN MassStatus(read.snapshot, read.lists) ELSE {})
    /\ pass' = "release"
    /\ UNCHANGED <<case, venue, moves, stream, answers, linkVars, holding, held, read, timer>>

\* The checkpoint is written and the events held are applied.
PassReleases ==
    /\ pass = "release" /\ answers = {}
    /\ Becomes(ApplyAll(Node, held))
    /\ pass' = "idle" /\ holding' = FALSE /\ held' = <<>> /\ read' = NoRead
    /\ UNCHANGED <<case, venue, moves, stream, answers, linkVars, timer>>

\* The connection is lost: what it carried is gone, a rebuild fails and the events it
\* held are applied to the model that stands.
Lose ==
    /\ link = "up" /\ losses < case.losses
    /\ link' = "down" /\ losses' = losses + 1
    /\ stream' = <<>>
    /\ Becomes([ApplyAll(Node, held) EXCEPT
                  !.amends = Cardinality({e \in answers : e.type = "PROTECTIVE"})])
    /\ pass' = "idle" /\ holding' = FALSE /\ held' = <<>> /\ read' = NoRead
    /\ timer' = IF timer = "reading" THEN "armed" ELSE timer
    /\ UNCHANGED <<case, venue, moves, answers, rebuilds>>

\* _reload(), as soon as the connection is back; the tasks answered or failed before
\* have gone on by then.
Reconnect ==
    /\ link = "down" /\ answers = {}
    /\ link' = "up"
    /\ pass' = "pass" /\ holding' = TRUE /\ held' = <<>> /\ read' = NoRead
    /\ UNCHANGED <<case, venue, moves, stream, answers, nodeVars, losses, rebuilds, timer>>

-----------------------------------------------------------------------------
(* A kept position whose close event does not come *)

\* _await_close(): the wait is over.  It is long against the broker's pushes: an event of
\* the entry has come by then.
CloseWaited ==
    /\ timer = "armed" /\ answers = {}
    /\ ~\E i \in DOMAIN stream : stream[i].type = "OPENING"
    /\ timer' = IF AwaitsClose(book) /\ link = "up" THEN "reading" ELSE "none"
    /\ UNCHANGED <<case, venue, moves, stream, answers, nodeVars, linkVars, passVars>>

\* The closing deals the model does not hold.
ClosingDeals(b, lists) ==
    {d \in lists.deals : d.closing /\ d.ms > b.pos.updated /\ d.id \notin b.appliedDeals}

\* _closing_events(): the events the broker sends for them; the last carries the
\* closed position.
ClosingEvents(b, lists) ==
    LET deals == SetToSortSeq(ClosingDeals(b, lists), LAMBDA c, d : c.ms < d.ms)
        event(i) ==
            LET d == deals[i]
                o == CHOOSE q \in lists.orders : q.id = d.order
                later == \E j \in (i + 1)..Len(deals) : deals[j].order = d.order
            IN [type |-> o.type, kind |-> IF later THEN "PARTIAL_FILL" ELSE "FILLED",
                order |-> o.id, volume |-> o.volume, left |-> 0, orderMs |-> o.updatedMs,
                created |-> o.created, levels |-> o.levels, pends |-> o.pends, ours |-> o.ours,
                named |-> o.named, server |-> o.type = "PROTECTIVE", stopOut |-> o.stopOut,
                closing |-> TRUE, hasPosition |-> i = Len(deals), positionMs |-> d.ms,
                positionVolume |-> 0, positionOpen |-> FALSE, openedMs |-> -1,
                deal |-> d.id, dealVolume |-> d.volume, dealMs |-> d.ms, price |-> d.price,
                answer |-> FALSE, by |-> "deals"]
    IN [i \in DOMAIN deals |-> event(i)]

\* _close_from_deals(): unless an event or a rebuild answered the position meanwhile.
CloseFromDeals ==
    /\ timer = "reading" /\ stream # <<>> /\ Next_({"DEALS"}) /\ answers = {}
    /\ timer' = "none"
    /\ stream' = Tail(stream)
    /\ LET lists == Head(stream).lists IN
       IF ~AwaitsClose(book) THEN UNCHANGED <<nodeVars, held>>
       ELSE IF OpenVolume(lists) > 0
            THEN Becomes([Node EXCEPT !.book = EndKeep(book)]) /\ UNCHANGED held
            ELSE OnEvents(Node, ClosingEvents(book, lists))
    /\ UNCHANGED <<case, venue, moves, answers, linkVars, holding, pass, read>>

-----------------------------------------------------------------------------
(* The specification *)

NewNode ==
    [book |-> NewBook(case.loaded),
     naut |-> [w \in IF case.ours THEN {Entry} \cup {Leg(l) : l \in case.named} ELSE {} |->
                  Submitted(Volume)],
     refused |-> {}, misread |-> FALSE, overtaken |-> FALSE, amends |-> 0, closes |-> {},
     brokerMs |-> -1]
NewVenue == [now |-> 0, orders |-> {}, deals |-> {}, volume |-> 0, open |-> FALSE,
             openedMs |-> -1, updatedMs |-> 0, protective |-> 0]
Creator == IF case.ours THEN "node" ELSE "trader"
FirstLevels == [l \in Level |-> IF l \in case.named THEN Min(Prices[l]) ELSE 0]

\* The node and the venue start as s and v with events es on their way.
Starts(s, v, es) ==
    /\ venue = v /\ stream = es
    /\ book = s.book /\ naut = s.naut /\ refused = s.refused /\ misread = s.misread
    /\ overtaken = s.overtaken /\ amends = s.amends /\ closes = s.closes /\ brokerMs = s.brokerMs

\* The order is sent, or its position stands filled, protected and told.
Started(sent, filled, stands) ==
    LET accepted == Event(sent, "ACCEPTED", 1, Creator, 0)
        opened == <<accepted, Event(filled, "FILLED", 1, "broker", 1), stands[2]>>
    IN IF case.protected THEN Starts(ApplyAll(NewNode, opened), stands[1], <<>>)
       ELSE Starts(NewNode, sent, <<accepted>>)
FilledStart(sent, filled) == Started(sent, filled, SetLevels(filled, "broker", FirstLevels))
SentStart(entry, sent) ==
    FilledStart(sent, Deal(sent, [entry EXCEPT !.status = "FILLED"], Volume, Volume, 0))
OrderedStart(entry) == SentStart(entry, Tick(PutOrder(NewVenue, entry)))

Init ==
    /\ case \in Cases
    /\ OrderedStart(Order(1, "OPENING", Creator, NewVenue, Volume, NoLevels))
    /\ moves = 0 /\ answers = {}
    /\ link = "up" /\ losses = 0 /\ rebuilds = 0
    /\ holding = FALSE /\ held = <<>> /\ pass = "idle" /\ read = NoRead
    /\ timer = "none"

BrokerMoves ==
    \/ \E n \in 1..Volume : FillEntry(n)
    \/ EndEntry
    \/ \E by \in {"node", "trader"} : ReplaceEntry(by)
    \/ Protect
    \/ \E by \in {"node", "trader"} : Amend(by)
    \/ \E price \in Prices["SL"] : Trail(price)
    \/ \E by \in {"trader", "broker"}, n \in 1..(Volume + 1) : ClosePart(by, n)
    \/ \E n \in 1..Volume : NodeCloses(n)
    \/ \E l \in Level : Trigger(l)
    \/ Raise

ClientSteps ==
    \/ Deliver \/ \E e \in answers : TakeAnswer(e)
    \/ Serve \/ RebuildStands \/ TakeSnapshot \/ TakeLists \/ PassStands \/ PassReleases
    \/ Reconnect \/ CloseWaited \/ CloseFromDeals

Next == BrokerMoves \/ ClientSteps \/ BeginRebuild \/ Lose
Spec == Init /\ [][Next]_vars

-----------------------------------------------------------------------------
(* Properties *)

\* Type invariant; the buffer is held exactly while a rebuild or a pass runs.
TypeOK ==
    /\ case \in Cases /\ moves \in 0..case.moves
    /\ amends \in Nat /\ losses \in 0..case.losses /\ rebuilds \in 0..case.rebuilds
    /\ link \in {"up", "down"} /\ holding \in BOOLEAN /\ misread \in BOOLEAN
    /\ pass \in {"idle", "rebuild", "pass", "lists", "again", "stand", "release"}
    /\ timer \in {"none", "armed", "reading"}
    /\ holding <=> pass # "idle"
    /\ ~holding => held = <<>>
    /\ \A l \in Level : book.pos.levels[l] \in {0} \cup Prices[l]

\* Nothing is on its way, no rebuild runs and no close is waited for.
Settled == /\ stream = <<>> /\ answers = {} /\ link = "up" /\ pass = "idle"
           /\ ~AwaitsClose(book) /\ timer = "none"

\* Once everything sent has arrived, the venue model is the broker's: the position's
\* volume, levels and protective order and the pending orders, whatever order answers,
\* events, held events and snapshots were applied in (venue_book.py, _sync() and
\* _keep_open_order(): "its older position state must not undo the newer one").  Left
\* out: an older protective state that passed a newer one (Overtakes), and a pending
\* order whose whole life fell into a pass.
BookMatchesVenue ==
    Settled /\ ~overtaken =>
        /\ (book.pos.known /\ book.pos.open) <=> venue.open
        /\ venue.open => book.pos.volume = venue.volume
        /\ venue.open /\ case.loaded => /\ book.pos.levels = LevelsNow
                                        /\ book.pos.protective = venue.protective
        /\ case.loaded /\ ~case.ours /\ ~book.closedInReconciliation =>
              book.pending = SnapshotOf(venue).pending

\* Nautilus can apply every event it is told in the state its order is in; after a loss
\* or a rebuild, held events may repeat what a report said of an order that has ended,
\* but no fill is ever refused (_order_event(), _entry_event(), _level_changes()).
NothingRefused ==
    ~overtaken => \A r \in refused :
        /\ losses + rebuilds > 0 /\ r[1] # "FILLED"
        /\ r[3] \in Ended \/ <<r[1], r[3]>> = <<"ACCEPTED", "accepted">>

\* What the node itself asked for, a close or an amend, is never published as a trader's
\* manual change (OperationsInFlight; "A manual change by a trader").
NodeNotTakenForTrader == ~misread

\* A leg of the node's that Nautilus and the model hold dead: a level set again by a
\* trader does not revive it; a later load does, in the model only.
DeadLeg(who) ==
    \E l \in Level : /\ who = Leg(l) /\ naut[who].status = "canceled"
                     /\ ~book.pos.legs[l].alive \/ losses + rebuilds > 0

\* Events and reports tell the same story: a mass status built now names no order
\* Nautilus lacks but ended ones without a fill, no deal it lacks, and, where no rebuild
\* ran, every order as Nautilus holds it (reconciliation.py against venue_book.py).
MassStatusAddsNothing ==
    Settled /\ case.loaded /\ ~overtaken =>
        \A r \in MassStatus(SnapshotOf(venue), ListsOf(venue)) :
            /\ r.who \in DOMAIN naut \/ (r.status = "canceled" /\ r.deals = {})
            /\ r.deals \subseteq UNION {naut[w].deals : w \in DOMAIN naut}
            /\ rebuilds = 0 /\ r.who \in DOMAIN naut /\ ~DeadLeg(r.who) =>
                  /\ naut[r.who].deals = r.deals
                  /\ \/ naut[r.who].status = r.status
                     \/ naut[r.who].status = "submitted" /\ Unprotected(book.pos)
                  /\ r.status = "accepted" /\ naut[r.who].status = "accepted" =>
                        naut[r.who].quantity = r.quantity

\* No deal fills two orders, by its event, a repeat, or the timer that closes a kept
\* position from its deals (_close_from_deals(), deal_applied()).
DealsToldOnce ==
    losses = 0 => \A v, w \in DOMAIN naut : v # w => naut[v].deals \cap naut[w].deals = {}

\* What Nautilus is told happened once, and by whom it was done: no deal fills two orders,
\* and the node's own closes and amends are not a trader's.
ToldOnceAndRight == DealsToldOnce /\ NodeNotTakenForTrader

\* Of a position that closed, no leg is left open in Nautilus: its quantity follows a
\* partial close, so its fill or its cancel ends it (docs/execution.md:257, "It follows a
\* partial close like the node's legs").
NoLegLeftOpen ==
    Settled /\ ~overtaken /\ ~venue.open /\ venue.deals # {} =>
        \A w \in DOMAIN naut : w[1] = "leg" => naut[w].status \in Ended
=============================================================================
