------------------------------ MODULE VenueBook ------------------------------
(***************************************************************************)
(* The venue model (venue_book.py, foreign_legs.py): what the node believes *)
(* the broker holds, and what each execution event means to Nautilus.      *)
(*                                                                         *)
(* Operators only: the book is a value, every method an operator from a    *)
(* book (and an event) to the next book and the records told.  The book of *)
(* ONE position is modelled, as the code keeps positions in a dictionary   *)
(* and no method relates two of them; it is long, short being symmetric.   *)
(* Prices are small numbers, stop-losses below take-profits, 0 for no      *)
(* level.  VenueSync feeds the book.                                       *)
(***************************************************************************)
EXTENDS Integers, Sequences, SequencesExt, FiniteSets, FiniteSetsExt

Level == {"SL", "TP"}
Levels == <<"SL", "TP">>
NoLevels == [l \in Level |-> 0]
Fills == {"FILLED", "PARTIAL_FILL"}
EndedKinds == {"CANCELLED", "EXPIRED", "REJECTED"}

-----------------------------------------------------------------------------
(* What the book holds *)

NoLeg == [named |-> FALSE, alive |-> FALSE, accepted |-> FALSE, quantity |-> 0, filled |-> 0]
NoForeignLeg == [generation |-> 0, alive |-> FALSE, quantity |-> 0, filled |-> 0]

\* known: the position is in _positions; entry, protective: broker order ids, 0 for
\* None; ours: the entry has the node's record; the times are -1 for none.
NoPosition ==
    [known |-> FALSE, open |-> FALSE, volume |-> 0, entry |-> 0, ours |-> FALSE,
     entryAccepted |-> FALSE, legs |-> [l \in Level |-> NoLeg],
     foreign |-> [l \in Level |-> NoForeignLeg], unknownTold |-> FALSE,
     awaiting |-> FALSE, protective |-> 0, protectiveVolume |-> 0, retired |-> {},
     levels |-> NoLevels, opened |-> -1, updated |-> -1, trailed |-> -1, stated |-> -1]

\* loaded: the symbol's instrument is loaded (price_precision is not None);
\* pending: _open_orders and _unloaded_orders, the orders standing and how each was
\* last seen; closes: broker order id and close id of each matched close.
NewBook(loaded) ==
    [loaded |-> loaded, pos |-> NoPosition, closes |-> {}, closesAccepted |-> {},
     pending |-> {}, endedEntries |-> {}, reported |-> {}, seen |-> {},
     appliedDeals |-> {}, kept |-> FALSE, keptMs |-> -1, unconfirmed |-> FALSE,
     closedInReconciliation |-> FALSE]

(* What Nautilus is told.  who names an order: the node's own entry, legs and *)
(* closes by their role, any other by its venue order id.                     *)
Entry == <<"entry">>
Leg(l) == <<"leg", l>>
ForeignLeg(l, generation) == <<"leg", l, generation>>
Close(id) == <<"close", id>>
External(order) == <<"external", order>>

Told(kind, who, quantity, deal, volume) ==
    [t |-> "event", kind |-> kind, who |-> who, quantity |-> quantity, deal |-> deal,
     volume |-> volume]
OrderEvent(kind, who) == Told(kind, who, 0, 0, 0)
Updated(who, quantity) == Told("UPDATED", who, quantity, 0, 0)
Filled(who, e) == Told("FILLED", who, 0, e.deal, e.dealVolume)
ExternalOrder(who, quantity, deal, volume) ==
    [t |-> "report", kind |-> "REPORT", who |-> who, quantity |-> quantity, deal |-> deal,
     volume |-> volume]
Activity(kind, action) == [t |-> "activity", kind |-> kind, action |-> action]
AwaitProtection == [t |-> "await"]
EntryUnknown == [t |-> "unknown"]

When(condition, record) == IF condition THEN <<record>> ELSE <<>>

\* What a method leaves: the position and the records told; one after another.
Says(p, r) == [p |-> p, r |-> r]
Nothing(p) == Says(p, <<>>)
Then(said, next) == [next EXCEPT !.r = said.r \o @]
\* A method's step on the position for each level, in the code's order.
PerLevel(p, step(_, _)) == FoldLeft(LAMBDA said, l : Then(said, step(said.p, l)), Nothing(p), Levels)

-----------------------------------------------------------------------------
(* Reading an event *)

\* _event_ms(): the broker's newest time the event carries.
EventMs(e) == Max({e.orderMs} \cup (IF e.hasPosition THEN {e.positionMs} ELSE {})
                              \cup (IF e.deal # 0 THEN {e.dealMs} ELSE {}))

\* _key(): what tells a repeat from another event.
Key(e) == IF e.deal # 0 THEN <<e.order, e.kind, e.deal>>
          ELSE <<e.order, e.kind, e.orderMs, e.levels, e.volume>>

\* which_level() of a long position's protective order.
WhichLevel(levels, price) ==
    CASE levels["TP"] = 0 -> "SL"
      [] levels["SL"] = 0 -> "TP"
      [] OTHER -> IF price >= levels["TP"] THEN "TP" ELSE "SL"

\* entry_of(): the earliest created opening order with the node's record, else the
\* earliest; 0 for none.  orders is a set of order records.
EntryOf(orders) ==
    LET opening == {o \in orders : o.type = "OPENING"}
        named == {o \in opening : o.ours}
        pick(os) == (CHOOSE o \in os : \A q \in os : o.created < q.created \/
                        (o.created = q.created /\ o.id <= q.id)).id
    IN IF named # {} THEN pick(named) ELSE IF opening # {} THEN pick(opening) ELSE 0

\* Mutant: a position state is applied whatever its time.
SyncAnyState(p, e) ==
    IF e.hasPosition
    THEN [p EXCEPT !.opened = IF e.openedMs >= 0 THEN e.openedMs ELSE @,
                   !.updated = e.positionMs, !.volume = e.positionVolume,
                   !.open = e.positionOpen]
    ELSE p

\* _sync(): the event's state of the position, unless it is older than the one held;
\* without one, a deal moves the volume known.
Sync(p, e) ==
    LET opened == IF e.hasPosition /\ e.openedMs >= 0 THEN e.openedMs ELSE p.opened IN
    CASE e.hasPosition /\ e.positionMs < p.updated -> [p EXCEPT !.opened = opened]
      [] e.hasPosition /\ e.positionMs >= p.updated ->
            [p EXCEPT !.opened = opened, !.updated = e.positionMs,
                      !.volume = e.positionVolume, !.open = e.positionOpen]
      [] ~e.hasPosition /\ e.deal # 0 /\ ~e.closing ->
            [p EXCEPT !.volume = @ + e.dealVolume, !.open = TRUE]
      [] ~e.hasPosition /\ e.deal # 0 /\ e.closing /\ p.open ->
            [p EXCEPT !.volume = Max({@ - e.dealVolume, 0}), !.open = @ /\ p.volume > e.dealVolume]
      [] OTHER -> p

-----------------------------------------------------------------------------
(* The legs of a position the node did not open (foreign_legs.py) *)

\* _rest(): what a foreign leg covers besides its fills.
Rest(p) == IF p.protective = 0 THEN p.volume ELSE p.protectiveVolume

\* _open(): a new leg, at the first generation the model has not ended and Nautilus
\* does not hold closed.
NewForeign(p, l, heldClosed) ==
    LET from == p.foreign[l].generation + 1
        free == {g \in from..(from + Cardinality(heldClosed)) : ForeignLeg(l, g) \notin heldClosed}
    IN [generation |-> Min(free), alive |-> TRUE, quantity |-> Rest(p), filled |-> 0]
OpenForeign(p, l, leg) ==
    Says([p EXCEPT !.foreign[l] = leg],
         <<ExternalOrder(ForeignLeg(l, leg.generation), leg.quantity, 0, 0)>>)

\* level_changes() of foreign_legs.py: the position's level l went from old.
ForeignLevel(p, old, l, heldClosed) ==
    LET leg == p.foreign[l]
        new == p.levels[l]
        who == ForeignLeg(l, leg.generation)
        quantity == leg.filled + Rest(p)
    IN CASE new # 0 /\ ~leg.alive -> OpenForeign(p, l, NewForeign(p, l, heldClosed))
         [] new = 0 /\ leg.alive ->
              Says([p EXCEPT !.foreign[l].alive = FALSE], <<OrderEvent("CANCELED", who)>>)
         [] leg.alive /\ new # 0 /\ (new # old[l] \/ leg.quantity # quantity) ->
              Says([p EXCEPT !.foreign[l].quantity = quantity], <<Updated(who, quantity)>>)
         [] OTHER -> Nothing(p)

ForeignLevelChanges(p, old, heldClosed) ==
    IF p.entry = 0
    THEN LET tell == p.levels # NoLevels /\ ~p.unknownTold
         IN Says([p EXCEPT !.unknownTold = @ \/ tell], When(tell, EntryUnknown))
    ELSE PerLevel(p, LAMBDA q, l : ForeignLevel(q, old, l, heldClosed))

\* open_legs(): the legs of a position just loaded; Nautilus learns them from the
\* reconciliation's reports.
OpenForeignLegs(p, heldClosed) ==
    IF p.entry = 0 THEN [p EXCEPT !.unknownTold = TRUE]
    ELSE [p EXCEPT !.foreign = [l \in Level |->
            IF p.levels[l] # 0 THEN NewForeign(p, l, heldClosed) ELSE @[l]]]

\* filled(): the quantity is raised to cover the fill first.
ForeignFilled(p, l, e) ==
    LET leg == p.foreign[l]
        who == ForeignLeg(l, leg.generation)
        filled == leg.filled + e.dealVolume
        quantity == Max({leg.quantity, filled})
    IN Says([p EXCEPT !.foreign[l] =
                [@ EXCEPT !.filled = filled, !.quantity = quantity, !.alive = filled < quantity]],
            When(filled > leg.quantity, Updated(who, quantity)) \o <<Filled(who, e)>>)

-----------------------------------------------------------------------------
(* The node's legs *)

\* _cancel_legs() and foreign_legs.cancel_all().
CancelLegs(p) ==
    PerLevel(p, LAMBDA q, l :
        Says([q EXCEPT !.legs[l].alive = FALSE], When(q.legs[l].alive, OrderEvent("CANCELED", Leg(l)))))
CancelForeign(p) ==
    PerLevel(p, LAMBDA q, l :
        Says([q EXCEPT !.foreign[l].alive = FALSE],
             When(q.foreign[l].alive, OrderEvent("CANCELED", ForeignLeg(l, q.foreign[l].generation)))))

\* _closed_by(): what is left of a position a deal has closed.
AndForeign(said) == Then(said, CancelForeign(said.p))
ClosedBy(p) == AndForeign(CancelLegs([p EXCEPT !.protective = 0, !.levels = NoLevels]))

\* _level_changes(), one level: accepted with its level, cancelled with it, moved and
\* resized with the protective order.
LevelChange(p, old, l, manual) ==
    LET leg == p.legs[l]
        new == p.levels[l]
        quantity == leg.filled + p.protectiveVolume
        changed(action) == When(manual /\ old[l] # new, Activity("MANUAL_CHANGE", action))
        set == IF old[l] = 0 THEN "LEVEL_ADDED" ELSE "LEVEL_MOVED"
        follow == leg.alive /\ leg.accepted /\
                     (old[l] \notin {0, new} \/ leg.quantity # quantity)
    IN CASE new # 0 /\ leg.alive /\ ~leg.accepted ->
              Says([p EXCEPT !.legs[l] = [@ EXCEPT !.accepted = TRUE, !.quantity = quantity]],
                   <<Told("ACCEPTED", Leg(l), quantity, 0, 0)>> \o
                   When(manual, Activity("MANUAL_CHANGE", set)))
         [] new = 0 /\ old[l] # 0 ->
              Says([p EXCEPT !.legs[l].alive = FALSE],
                   When(leg.alive, OrderEvent("CANCELED", Leg(l))) \o changed("LEVEL_REMOVED"))
         [] OTHER ->
              Says([p EXCEPT !.legs[l].quantity = IF follow THEN quantity ELSE @],
                   When(follow, Updated(Leg(l), quantity)) \o changed(set))

LevelChanges(p, old, manual) == PerLevel(p, LAMBDA q, l : LevelChange(q, old, l, manual))

\* _adopt(): order takes the entry's place; its legs are alive from the entry's own
\* event on, or, restored by a load, while their level or their wait lasts.
Adopt(p, order, ours, named, restored, waiting) ==
    [p EXCEPT
        !.entry = order, !.ours = ours, !.entryAccepted = IF ours THEN restored ELSE @,
        !.legs = [l \in Level |->
            IF ~ours \/ l \notin named THEN @[l]
            ELSE IF ~restored THEN [NoLeg EXCEPT !.named = TRUE, !.alive = TRUE]
            ELSE IF p.levels[l] # 0
                 THEN [NoLeg EXCEPT !.named = TRUE, !.alive = TRUE, !.accepted = TRUE,
                                    !.quantity = p.volume]
                 ELSE [NoLeg EXCEPT !.named = TRUE, !.alive = l \in waiting]]]

-----------------------------------------------------------------------------
(* Orders Nautilus learns only from reports *)

Standing(b, order) == {o \in b.pending : o.id = order}
Stands(b, e) == [b EXCEPT !.pending = (@ \ Standing(b, e.order)) \cup
                    {[id |-> e.order, ms |-> e.orderMs, left |-> e.left, pends |-> e.pends]}]
Gone(b, order) == [b EXCEPT !.pending = @ \ Standing(b, order)]

\* _keep_open_order(): whether the event's state of a pending order is its latest.
TakesState(b, e) ==
    /\ e.pends
    /\ \/ e.kind \in {"ACCEPTED", "PARTIAL_FILL"} /\ e.order \notin b.reported
       \/ /\ e.kind \in {"REPLACED", "PARTIAL_FILL"}
          /\ \E held \in Standing(b, e.order) : e.orderMs >= held.ms

\* _external_event(): reported once, then its events.
ExternalEvent(b, e) ==
    LET known == e.order \in b.reported
        who == External(e.order)
        ended == e.kind = "FILLED" \/ e.kind \in EndedKinds
        kept == IF e.pends /\ ended THEN Gone(b, e.order)
                ELSE IF TakesState(b, e) THEN Stands(b, e) ELSE b
        reports == ~known /\ e.kind \in Fills \cup {"ACCEPTED"}
    IN [b |-> IF reports THEN [kept EXCEPT !.reported = @ \cup {e.order}] ELSE kept,
        r |-> CASE reports -> <<ExternalOrder(who, e.volume, e.deal, e.dealVolume)>>
                [] known /\ e.kind \in Fills -> <<Filled(who, e)>>
                [] known /\ e.kind = "REPLACED" /\ (e.pends => TakesState(b, e)) ->
                      <<Updated(who, e.volume)>>
                [] known /\ e.kind \in EndedKinds -> <<OrderEvent("CANCELED", who)>>
                [] OTHER -> <<>>]

-----------------------------------------------------------------------------
(* The events of each kind of order *)

\* _position_for(): created from the event if the model never saw it.
PositionFor(b) == [b.pos EXCEPT !.known = TRUE]
Unprotected(p) == \E l \in Level : p.legs[l].alive /\ ~p.legs[l].accepted

\* ... and waits for the protective order of a leg not accepted yet.
Waiting(said) ==
    LET waits == Unprotected(said.p) /\ ~said.p.awaiting
    IN Says([said.p EXCEPT !.awaiting = @ \/ waits], said.r \o When(waits, AwaitProtection))

\* Mutant: the acceptance is told by its own event only.
EntryFillUnaccepted(p, e) ==
    Waiting(Then(Says(p, <<Filled(Entry, e)>>),
                 IF p.protective = 0 THEN Nothing(p) ELSE LevelChanges(p, NoLevels, FALSE)))

\* _entry_event(), a fill: the acceptance it may have overtaken is told first; a
\* protective order that came before it accepts the legs now.
EntryFill(p, e) ==
    LET accepted == [p EXCEPT !.entryAccepted = TRUE]
        filled == When(~p.entryAccepted, OrderEvent("ACCEPTED", Entry)) \o <<Filled(Entry, e)>>
    IN Waiting(Then(Says(p, filled), IF p.protective = 0 THEN Nothing(accepted)
                                     ELSE LevelChanges(accepted, NoLevels, FALSE)))

EntryAccepted(p, e) ==
    Says([p EXCEPT !.entryAccepted = TRUE], When(~p.entryAccepted, OrderEvent("ACCEPTED", Entry)))

\* ... an end: the remainder of a filled entry leaves the position and its legs; a
\* position that never opened is dropped.
Dropped(said) == IF said.p.volume = 0 /\ ~said.p.open THEN Says(NoPosition, said.r) ELSE said
EntryEnded(p, e) ==
    Dropped(Then(Says(p, <<OrderEvent("CANCELED", Entry)>>),
                 IF e.kind = "REJECTED" \/ p.volume = 0 THEN CancelLegs(p) ELSE Nothing(p)))

EntryEvent(p, e) ==
    CASE e.kind = "ACCEPTED" -> EntryAccepted(p, e)
      [] e.kind \in Fills -> EntryFill(p, e)
      [] e.kind \in EndedKinds -> EntryEnded(p, e)
      [] OTHER -> Nothing(p)

\* _raises(): the opening order was created after its position opened.
Raises(p, e) ==
    LET opened == IF e.hasPosition /\ e.openedMs >= 0 THEN e.openedMs ELSE p.opened
    IN ~e.ours /\ opened >= 0 /\ e.created > opened

\* The events an opening order tells of: its own if it is the node's entry, else an
\* external order's and, if it is the entry just learnt, the legs of its levels.
OpeningTold(p, e, learnt, outside, heldClosed) ==
    IF p.ours /\ p.entry = e.order THEN EntryEvent(p, e)
    ELSE Then(Says(p, outside \o When(e.kind \in Fills /\ p.ours /\ ~e.server /\ ~e.stopOut,
                                      Activity("MANUAL_CHANGE", "OPENED"))),
              IF learnt /\ p.levels # NoLevels THEN ForeignLevelChanges(p, NoLevels, heldClosed)
              ELSE Nothing(p))

\* ... a fill that leaves the position closed ends what is left of it.
OpeningEnds(said, e, closed) ==
    Then([said EXCEPT !.r = @ \o When(e.kind \in Fills /\ e.stopOut,
                Activity("STOP_OUT", IF said.p.open THEN "PARTIALLY_CLOSED" ELSE "CLOSED"))],
         IF closed /\ (\E l \in Level : said.p.legs[l].named \/ said.p.foreign[l].generation > 0)
         THEN ClosedBy(said.p) ELSE Nothing(said.p))

\* The position an opening order leaves, as said, in the book.
OpeningBook(b, e, own, said) ==
    [b |-> [b EXCEPT !.pos = said.p,
                     !.endedEntries = IF own /\ ~said.p.known THEN @ \cup {e.order} ELSE @],
     r |-> said.r]

OpeningOf(b, e, p, learnt, outside, heldClosed) ==
    LET own == p.ours /\ p.entry = e.order IN
    OpeningBook(IF own THEN b ELSE outside.b, e, own,
                OpeningEnds(OpeningTold(p, e, learnt, outside.r, heldClosed), e,
                            e.kind \in Fills /\ ~p.open))

\* The entry is learnt from its event; one that ended keeps its legs dead.
Adopted(b, p, e, learnt) ==
    LET adopted == IF learnt THEN Adopt(p, e.order, e.ours, e.named, FALSE, {}) ELSE p IN
    IF e.order \in b.endedEntries
    THEN [adopted EXCEPT !.entryAccepted = TRUE,
                         !.legs = [l \in Level |-> [@[l] EXCEPT !.alive = FALSE]]]
    ELSE adopted

\* _opening()
Opening(b, e, heldClosed) ==
    LET found == PositionFor(b)
        learnt == found.entry = 0 /\ ~Raises(found, e)
    IN IF e.order \in b.endedEntries /\ e.kind \notin Fills THEN [b |-> b, r |-> <<>>]
       ELSE OpeningOf(b, e, Sync(Adopted(b, found, e, learnt), e), learnt, ExternalEvent(b, e),
                      heldClosed)

\* _triggered(): the protective order filled, for the level its price tells: the node's
\* leg, the foreign leg, or none of them, when it is told as an external order.
OwnTriggered(p, l, e) ==
    LET filled == p.legs[l].filled + e.dealVolume IN
    Says([p EXCEPT !.legs[l] = [@ EXCEPT !.filled = filled, !.alive = filled < p.legs[l].quantity]],
         <<Filled(Leg(l), e)>>)
TriggeredLeg(p, l, levels) ==
    CASE levels # NoLevels /\ p.ours /\ p.legs[l].alive -> "own"
      [] levels # NoLevels /\ ~p.ours /\ p.foreign[l].alive -> "foreign"
      [] OTHER -> "none"
TriggerTold(p, l, e, leg, known) ==
    CASE leg = "own" -> OwnTriggered(p, l, e)
      [] leg = "foreign" -> ForeignFilled(p, l, e)
      [] OTHER -> Says(p, <<IF known THEN Filled(External(e.order), e)
                            ELSE ExternalOrder(External(e.order), e.volume, e.deal, e.dealVolume)>>)
EndsClosed(said) == Then(said, IF said.p.open THEN Nothing(said.p) ELSE ClosedBy(said.p))
WithPos(b, said) == [b |-> [b EXCEPT !.pos = said.p], r |-> said.r]

TriggeredOf(b, e, p, levels, l) ==
    LET leg == TriggeredLeg(p, l, levels) IN
    WithPos([b EXCEPT !.reported = IF leg = "none" THEN @ \cup {e.order} ELSE @],
            EndsClosed(TriggerTold([p EXCEPT !.protectiveVolume = Max({@ - e.dealVolume, 0})],
                                   l, e, leg, e.order \in b.reported)))
Triggered(b, e) ==
    LET levels == IF e.levels # NoLevels THEN e.levels ELSE b.pos.levels IN
    TriggeredOf(b, e, Sync(PositionFor(b), e), levels, WhichLevel(levels, e.price))

\* The levels an accepted or replaced protective order states: a trailing move made
\* after that state keeps its stop-loss.
StatedLevels(p, e) ==
    IF /\ e.order = p.protective /\ e.orderMs < p.trailed
       /\ p.levels["SL"] # 0 /\ e.levels["SL"] # 0
    THEN [e.levels EXCEPT !["SL"] = p.levels["SL"]]
    ELSE e.levels

\* _protective(), but a fill.  amending: the node has an amend of this position in
\* flight; late: the event matches an amend whose answer was lost.
LevelsTold(q, old, manual, heldClosed) ==
    IF q.ours THEN LevelChanges(q, old, manual) ELSE ForeignLevelChanges(q, old, heldClosed)
Protective(b, e, ours, heldClosed) ==
    LET p == PositionFor(b)
        stale == \/ e.order \in p.retired
                 \/ e.kind # "ACCEPTED" /\ p.protective \notin {0, e.order}
        stated == [p EXCEPT
            !.retired = IF p.protective \notin {0, e.order} THEN @ \cup {p.protective} ELSE @,
            !.protective = e.order, !.protectiveVolume = e.volume,
            !.levels = StatedLevels(p, e), !.stated = Max({@, e.orderMs}), !.awaiting = FALSE]
        cancelled == [p EXCEPT !.retired = @ \cup {e.order}, !.protective = 0,
                               !.levels = NoLevels]
    IN WithPos(b, IF stale \/ e.kind \notin {"ACCEPTED", "REPLACED", "CANCELLED"} THEN Nothing(p)
                  ELSE LevelsTold(Sync(IF e.kind = "CANCELLED" THEN cancelled ELSE stated, e),
                                  p.levels, ~e.server /\ ~ours, heldClosed))

\* trailing_stop_moved(): unless a newer state of the protective order was applied.
TrailingStopMoved(b, e, heldClosed) ==
    LET key == <<"trailing", e.order, e.orderMs, e.levels>>
        p == [b.pos EXCEPT !.levels["SL"] = e.levels["SL"], !.trailed = Max({@, e.orderMs})]
        seen == [b EXCEPT !.seen = @ \cup {key}]
    IN IF ~b.loaded \/ ~b.pos.known \/ key \in b.seen \/ e.order # b.pos.protective
       THEN [b |-> b, r |-> <<>>]
       ELSE WithPos(seen, IF e.orderMs < b.pos.stated THEN Nothing(b.pos)
                          ELSE LevelsTold(p, b.pos.levels, FALSE, heldClosed))

-----------------------------------------------------------------------------
(* Closing orders *)

\* OperationsInFlight.closing(): the close whose answer named the order, else one
\* unanswered of the same volume sent before the order was created.
ClosingCandidates(closes, e) ==
    LET answered == {c \in closes : c.answer = e.order}
        fits == {c \in closes : c.answer = 0 /\ c.volume = e.volume
                                /\ (c.anchor < 0 \/ e.created > c.anchor)}
    IN {c.id : c \in IF answered # {} THEN answered ELSE fits}

CloseOf(b, order) == {m.close : m \in {m \in b.closes : m.order = order}}

\* The close a closing order is taken for, as a set of at most one id: the one matched
\* before, else one in flight no other order has.
MatchedClose(b, closes, e) ==
    LET candidates == ClosingCandidates(closes, e) \ {m.close : m \in b.closes} IN
    IF CloseOf(b, e.order) # {} THEN CloseOf(b, e.order)
    ELSE IF ~e.server /\ ~e.stopOut /\ e.order \notin b.reported /\ candidates # {}
         THEN {CHOOSE c \in candidates : TRUE} ELSE {}

\* _node_close()
NodeClose(b, e, id) ==
    LET accepts == e.order \notin b.closesAccepted /\ e.kind \in Fills \cup {"ACCEPTED"} IN
    [b |-> [b EXCEPT !.closesAccepted = IF accepts THEN @ \cup {e.order} ELSE @,
                     !.closes = @ \cup {[order |-> e.order, close |-> id]}],
     r |-> When(accepts, OrderEvent("ACCEPTED", Close(id)))
           \o When(e.kind \in Fills, Filled(Close(id), e))
           \o When(e.kind \in EndedKinds, OrderEvent("CANCELED", Close(id)))]

\* _close_activity()
CloseActivity(p, e) ==
    LET action == IF p.open THEN "PARTIALLY_CLOSED" ELSE "CLOSED" IN
    IF e.stopOut THEN <<Activity("STOP_OUT", action)>>
    ELSE When(p.ours /\ ~e.server, Activity("MANUAL_CHANGE", action))

\* _closing()
ClosingOf(said, p, e, matched) ==
    LET filled == e.kind \in Fills
        activity == IF filled /\ ~matched THEN CloseActivity(p, e) ELSE <<>>
    IN WithPos(said.b, Then(Says(p, said.r \o activity),
                            IF filled /\ ~p.open THEN ClosedBy(p) ELSE Nothing(p)))
ClosingAs(b, e, ids) ==
    IF ids # {} THEN NodeClose(b, e, CHOOSE id \in ids : TRUE) ELSE ExternalEvent(b, e)
ClosingMatched(b, e, ids) ==
    ClosingOf(ClosingAs(b, e, ids), Sync(PositionFor(b), e), e, ids # {})
Closing(b, e, closes) == ClosingMatched(b, e, MatchedClose(b, closes, e))

-----------------------------------------------------------------------------
(* A symbol the node has not loaded: activity, never an order *)

\* _unloaded() and _track_unloaded()
Unloaded(b, e) ==
    LET synced == IF e.hasPosition \/ e.kind \in Fills
                  THEN [b EXCEPT !.pos = Sync(PositionFor(b), e)] ELSE b
        left(o) == o.left - e.dealVolume
        tracked ==
            CASE e.type = "PROTECTIVE" -> synced
              [] e.type # "PROTECTIVE" /\ e.kind \in {"ACCEPTED", "REPLACED"} -> Stands(synced, e)
              [] e.type # "PROTECTIVE" /\ e.kind = "PARTIAL_FILL" ->
                    [synced EXCEPT !.pending =
                        {[o EXCEPT !.left = left(o)] : o \in
                            {o \in Standing(b, e.order) : left(o) > 0}}
                        \cup (@ \ Standing(b, e.order))]
              [] OTHER -> Gone(synced, e.order)
        action == CASE e.kind \in Fills -> IF ~e.closing THEN "OPENED"
                                           ELSE IF e.hasPosition /\ e.positionOpen
                                                THEN "PARTIALLY_CLOSED" ELSE "CLOSED"
                    [] e.type = "PROTECTIVE" /\ e.kind \notin Fills -> "CHANGED"
                    [] e.type # "PROTECTIVE" /\ e.kind = "ACCEPTED" -> "OPENED"
                    [] e.type # "PROTECTIVE" /\ e.kind = "REPLACED" -> "CHANGED"
                    [] OTHER -> "CLOSED"
    IN [b |-> tracked,
        r |-> <<Activity(IF e.stopOut THEN "STOP_OUT" ELSE "UNLOADED_SYMBOL", action)>>]

-----------------------------------------------------------------------------
(* Applying an event *)

\* _handle().  closes: the node's closes in flight; ours: an amend of the node's
\* explains a change of the levels.
Handle(b, e, closes, ours, heldClosed) ==
    IF ~b.loaded THEN Unloaded(b, e)
    ELSE CASE e.type = "PROTECTIVE" /\ e.kind \in Fills -> Triggered(b, e)
           [] e.type = "PROTECTIVE" /\ e.kind \notin Fills -> Protective(b, e, ours, heldClosed)
           [] e.type = "CLOSING" -> Closing(b, e, closes)
           [] e.type = "OPENING" -> Opening(b, e, heldClosed)

\* Mutant: fills are not told apart from their repeats.
RepeatedButFills(b, e) == Key(e) \in b.seen /\ e.kind \notin Fills

\* An event seen before, or a deal already applied whatever event carried it.
Repeated(b, e) == Key(e) \in b.seen \/ (e.kind \in Fills /\ e.deal \in b.appliedDeals)

\* An event of a kept position dated since its snapshot ends the keep.
EndsKeep(b, e) == b.kept /\ EventMs(e) >= b.keptMs

\* apply(): what it said is remembered; a position that closed is no longer kept.
Remembered(b, e, said) ==
    LET open == said.b.pos.known /\ said.b.pos.open IN
    [said EXCEPT !.b = [@ EXCEPT
        !.seen = @ \cup {Key(e)},
        !.appliedDeals = IF e.kind \in Fills THEN @ \cup {e.deal} ELSE @,
        !.kept = @ /\ open /\ ~EndsKeep(b, e),
        !.unconfirmed = @ \/ (b.kept /\ open /\ EndsKeep(b, e))]]
Apply(b, e, closes, ours, heldClosed) ==
    IF b.closedInReconciliation \/ Repeated(b, e) THEN [b |-> b, r |-> <<>>]
    ELSE Remembered(b, e, Handle(b, e, closes, ours, heldClosed))

\* awaits_close()
AwaitsClose(b) == b.kept \/ (b.unconfirmed /\ b.pos.known /\ b.pos.open)

\* end_keep()
EndKeep(b) == [b EXCEPT !.kept = FALSE, !.unconfirmed = FALSE]

-----------------------------------------------------------------------------
(* Loading a snapshot *)

\* A position with a live leg that the snapshot lacks is kept for its close event.
GoneKept(b, snapshot, keepGone) ==
    /\ keepGone /\ ~snapshot.open /\ b.pos.known /\ b.pos.open
    /\ \E l \in Level : b.pos.legs[l].alive \/ b.pos.foreign[l].alive

\* ... a restored leg without its level waits again; the protective order gives the
\* legs its volume.
Protected(p, snapshot) ==
    LET waits == [p EXCEPT !.awaiting = Unprotected(p)] IN
    IF snapshot.protective = 0 THEN waits
    ELSE [waits EXCEPT
            !.protective = snapshot.protective, !.protectiveVolume = snapshot.protectiveVolume,
            !.stated = snapshot.protectiveMs,
            !.legs = [l \in Level |->
                IF @[l].accepted THEN [@[l] EXCEPT !.quantity = snapshot.protectiveVolume]
                ELSE @[l]]]
WithForeign(p, heldClosed) ==
    IF p.ours \/ p.levels = NoLevels THEN p ELSE OpenForeignLegs(p, heldClosed)

\* The open position of a snapshot, from its own order list.
LoadedPosition(b, snapshot, orders, entry, waiting, heldClosed) ==
    LET order == CHOOSE o \in orders : o.id = entry
        settled == {l \in Level : b.pos.legs[l].named /\
                        (~b.pos.legs[l].alive \/ b.pos.legs[l].accepted)}
        bare == [NoPosition EXCEPT
            !.known = TRUE, !.open = TRUE, !.volume = snapshot.volume,
            !.opened = snapshot.openedMs, !.updated = snapshot.updatedMs,
            !.levels = IF b.loaded THEN snapshot.levels ELSE NoLevels]
    IN WithForeign(Protected(IF entry = 0 THEN bare
                             ELSE Adopt(bare, entry, order.ours, order.named, TRUE,
                                        waiting \ settled), snapshot), heldClosed)

\* load(): the model rebuilt from a snapshot.  orders: the position's own order list;
\* waiting: the levels whose leg waits for its protective order.
Load(b, snapshot, orders, keepGone, readMs, waiting, heldClosed) ==
    LET gone == GoneKept(b, snapshot, keepGone) IN
    [b EXCEPT
        !.pos = IF snapshot.open
                THEN LoadedPosition(b, snapshot, orders, EntryOf(orders), waiting, heldClosed)
                ELSE IF gone THEN @ ELSE NoPosition,
        !.kept = gone, !.keptMs = readMs, !.unconfirmed = FALSE,
        !.pending = {o \in snapshot.pending : ~b.loaded \/ o.pends},
        !.reported = {o.id : o \in snapshot.pending}]
=============================================================================
