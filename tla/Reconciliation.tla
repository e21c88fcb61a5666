--------------------------- MODULE Reconciliation ---------------------------
(***************************************************************************)
(* The reports of a mass status (reconciliation.py): what Nautilus is told *)
(* of a position from the broker's snapshot and the position's own order   *)
(* and deal lists, read after the snapshot.                                *)
(*                                                                         *)
(* Operators only, over the values of VenueBook: one position, its orders  *)
(* and deals as sets of records.  A report names its order, its status,    *)
(* its quantity and its deals; "accepted" stands for PARTIALLY_FILLED too, *)
(* which the deals tell apart.                                             *)
(***************************************************************************)
EXTENDS VenueBook

VolumeOf(deals) == LET volume(d) == d.volume IN MapThenSumSet(volume, deals)
Ids(deals) == {d.id : d \in deals}
DealsOf(found, order) == {d \in found.deals : d.order = order}

Report(who, status, quantity, deals) ==
    [who |-> who, status |-> status, quantity |-> quantity, deals |-> Ids(deals),
     filled |-> VolumeOf(deals)]

\* open_volume(): what the position's own deals leave open.
OpenVolume(found) ==
    IF EntryOf(found.orders) = 0 THEN 0
    ELSE VolumeOf({d \in found.deals : ~d.closing}) - VolumeOf({d \in found.deals : d.closing})

\* _status() of an order with the deals it has.
Status(order) ==
    CASE order.status = "FILLED" -> "filled"
      [] order.status \in EndedKinds -> "canceled"
      [] OTHER -> "accepted"

\* _order_report()
OrderReport(found, order, who) ==
    Report(who, Status(order), order.volume, DealsOf(found, order.id))

\* _close_id() for each closing order with a deal, newest first: a close the model
\* matched, else the node's close in flight that fits and no newer order took.
CloseIdOf(found, order, matched, closes) ==
    LET known == {m.close : m \in {m \in matched : m.order = order.id}}
        fits(o) == IF o.stopOut THEN {}
                   ELSE ClosingCandidates(closes, [order |-> o.id, volume |-> o.volume,
                                                   created |-> o.created])
        newer == {o \in found.orders : o.type = "CLOSING" /\ o.updatedMs > order.updatedMs
                                       /\ DealsOf(found, o.id) # {}}
        free == fits(order) \ ({m.close : m \in matched} \cup UNION {fits(o) : o \in newer})
    IN IF known # {} THEN known ELSE IF free # {} THEN {CHOOSE c \in free : TRUE} ELSE {}

CloseReports(found, matched, closes) ==
    {LET ids == CloseIdOf(found, o, matched, closes)
     IN OrderReport(found, o, IF ids = {} THEN External(o.id) ELSE Close(CHOOSE c \in ids : TRUE)) :
        o \in {o \in found.orders : o.type = "CLOSING" /\ DealsOf(found, o.id) # {}}}

ProtectiveOrders(found) == {o \in found.orders : o.type = "PROTECTIVE"}

\* _triggers(): the protective orders' deals that fall to a level's leg.
LegDeals(found, l) ==
    UNION {{d \in DealsOf(found, o.id) : o.levels # NoLevels /\ WhichLevel(o.levels, d.price) = l} :
              o \in ProtectiveOrders(found)}

\* ... and the reports of those no leg takes.
UntakenReports(found, withLegs) ==
    LET untaken(o) == DealsOf(found, o.id) \ UNION {LegDeals(found, l) : l \in withLegs} IN
    {Report(External(o.id), Status(o), o.volume, untaken(o)) :
        o \in {o \in ProtectiveOrders(found) : untaken(o) # {}}}

\* _closing_source(): the protective order that filled for a level, else the last.
ClosingSource(found, deals) ==
    LET filled == {o \in ProtectiveOrders(found) : \E d \in deals : d.order = o.id}
        from == IF filled # {} THEN filled ELSE ProtectiveOrders(found)
        rank(o) == IF filled # {} THEN -o.id ELSE o.updatedMs
    IN {o \in from : \A q \in from : rank(q) <= rank(o)}

\* Mutant: a leg of a closed position is reported filled whatever it filled.
LegReportFilled(snapshot, found, open, l, who, deals) ==
    Report(who, IF open /\ snapshot.levels[l] # 0 THEN "accepted" ELSE "filled",
           snapshot.volume, deals)

\* _leg(): a leg as the broker's lists leave it.
LegReport(snapshot, found, open, l, who, deals) ==
    LET rest == IF snapshot.protective # 0 THEN snapshot.protectiveVolume ELSE snapshot.volume
        source == ClosingSource(found, deals)
        units == IF source # {} THEN (CHOOSE o \in source : TRUE).volume
                 ELSE VolumeOf({d \in found.deals : ~d.closing})
        filled == VolumeOf(deals)
    IN IF open THEN Report(who, IF snapshot.levels[l] # 0 THEN "accepted" ELSE "canceled",
                           filled + rest, deals)
       ELSE Report(who, IF deals # {} /\ filled >= units THEN "filled" ELSE "canceled",
                   Max({units, filled}), deals)

\* _generation(): the generation a foreign level's leg takes, given what Nautilus
\* holds (a function from names to orders).
Generation(l, deals, held, stands) ==
    LET generations == 1..(Cardinality(DOMAIN held) + 1)
        closed(g) == ForeignLeg(l, g) \in DOMAIN held /\
                        held[ForeignLeg(l, g)].status \in {"filled", "canceled"}
        holds(g) == ForeignLeg(l, g) \in DOMAIN held /\
                        held[ForeignLeg(l, g)].deals \cap Ids(deals) # {}
    IN Min({g \in generations : ~closed(g) \/ (holds(g) /\ ~stands)})

\* _foreign_legs(): each level as a leg, and the end of every other leg of the entry
\* Nautilus holds open.
ForeignReports(snapshot, found, open, held) ==
    LET deals(l) == LegDeals(found, l)
        source(l) == ClosingSource(found, deals(l))
        levels(l) == IF open THEN snapshot.levels
                     ELSE IF source(l) = {} THEN NoLevels ELSE (CHOOSE o \in source(l) : TRUE).levels
        stands(l) == open /\ snapshot.levels[l] # 0
        generation(l) == Generation(l, deals(l), held, stands(l))
        earlier(l) == UNION {held[ForeignLeg(l, g)].deals :
                                g \in {g \in 1..(generation(l) - 1) : ForeignLeg(l, g) \in DOMAIN held}}
        taken(l) == {d \in deals(l) : d.id \notin earlier(l)}
        report(l) == LegReport(snapshot, found, open, l, ForeignLeg(l, generation(l)), taken(l))
        heldOpen == {w \in DOMAIN held : w[1] = "leg" /\ Len(w) = 3 /\ held[w].status = "accepted"}
        told == {l \in Level :
            /\ levels(l)[l] # 0 \/ deals(l) # {}
            /\ ~(report(l).status = "canceled" /\ taken(l) = {} /\ generation(l) > 1
                    /\ ForeignLeg(l, generation(l)) \notin heldOpen)}
        reports == {report(l) : l \in told}
    IN reports \cup {Report(w, "canceled", held[w].quantity, {}) :
                        w \in heldOpen \ {r.who : r \in reports}}

\* The snapshot's open orders not reported above, as it holds them: none is protective,
\* none has a fill reported.
PendingReports(snapshot, found, reported) ==
    {Report(IF o.ours THEN Entry ELSE External(o.id), "accepted", o.volume, {}) :
        o \in {o \in found.orders : o.id \in {q.id : q \in snapshot.pending} \ reported}}

\* reconcile() of the position.  Nothing is told of it while its deals leave it open
\* and the snapshot lacks it.
Reconcile(snapshot, found, matched, closes, held) ==
    LET entryId == EntryOf(found.orders)
        entry == CHOOSE o \in found.orders : o.id = entryId
        volume == OpenVolume(found)
        open == snapshot.open /\ volume > 0
        named == IF entry.ours THEN entry.named ELSE Level
        raises == {o \in found.orders : o.type = "OPENING" /\ o.id # entryId
                                        /\ DealsOf(found, o.id) # {}}
        taken == entryId # 0 /\ DealsOf(found, entryId) # {} /\ ~(~snapshot.open /\ volume > 0)
        own == {OrderReport(found, entry, IF entry.ours THEN Entry ELSE External(entryId))}
               \cup {OrderReport(found, o, External(o.id)) : o \in raises}
               \cup CloseReports(found, matched, closes) \cup UntakenReports(found, named)
        legs == IF entry.ours
                THEN {LegReport(snapshot, found, open, l, Leg(l), LegDeals(found, l)) : l \in named}
                ELSE ForeignReports(snapshot, found, open, held)
        reports == IF taken THEN own \cup legs ELSE {}
        reported == IF taken THEN {entryId} \cup {o.id : o \in raises} ELSE {}
    IN reports \cup PendingReports(snapshot, found, reported)
=============================================================================
