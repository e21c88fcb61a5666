------------------------------ MODULE BarCloser ------------------------------
(***************************************************************************)
(* Closing live bars (common/bars.py) and backfilling them (data.py).      *)
(*                                                                         *)
(* cTrader sends the forming bar and never says that it closed.  A closer  *)
(* decides it from a newer bar in the stream, from a timer, or from a      *)
(* backfill after a reconnect, queues the boundary, and a resolver task    *)
(* asks history for the entries the stream cannot vouch for.               *)
(*                                                                         *)
(* One bar subscription: its closer, the backfill tasks the data client    *)
(* runs for it, the session underneath and the venue.  A bar is its        *)
(* boundary and the number of trades in it: a streamed bar may have fewer  *)
(* than the venue's, a closed bar of the venue changes no more.  Times are *)
(* whole units.  Everything between two awaits is one action, and what a   *)
(* loss fails has ended before the next connection.                        *)
(***************************************************************************)
EXTENDS Integers, Sequences, SequencesExt, FiniteSets, FiniteSetsExt

CONSTANTS
    Period,      \* of the bars
    Offset,      \* of the venue's boundaries into the period
    Grace,       \* bar_close_grace_secs
    Retries,     \* bar_close_history_retries
    MaxTime,     \* bound: the clock, unless a backfill waits for it
    MaxTrades,   \* bound: trades at the venue
    MaxLosses,   \* bound: losses of the connection
    MaxFailures  \* bound: subscribes, restores and backfills that fail

ASSUME BarAssumption ==
    /\ {Period, Grace} \subseteq Nat \ {0}
    /\ {Retries, MaxTime, MaxTrades, MaxLosses, MaxFailures} \subseteq Nat
    /\ Offset \in 0..(Period - 1)

VARIABLES
    now,       \* the clock
    trades,    \* trades in each bar at the venue
    link,      \* "down", "up", "restored": the trendbar restore has run, "ready"
    losses,    \* losses so far
    failures,  \* failures so far
    streaming, \* the venue sends trendbars on this connection
    wire,      \* updates sent and not yet read
    closer,    \* the BarCloser; blind is history: a backfill began before any bar was seen
    backfill,  \* the data client's backfill task of this subscription
    unwinding, \* a cancelled backfill has not unwound yet
    owes,      \* _BarSub.owes_backfill
    barsFailed,     \* the trendbar restore is among the failed restores
    backfillFailed, \* the bar restore is among them
    unserved,  \* history: boundaries the resolver gave up on
    raced      \* history: an update came before its backfill began, or a backfill failed

venueVars == <<now, trades>>
linkVars == <<link, losses, failures, streaming>>
taskVars == <<backfill, unwinding, owes, barsFailed, backfillFailed>>
vars == <<venueVars, linkVars, wire, closer, taskVars, unserved, raced>>

Start == Period                   \* the time of construction
Floor == Start - Period + 1       \* _floor
Boundaries == {b \in Floor..MaxTime : b % Period = Offset}
NoBar == [at |-> -1, trades |-> 0]
Bars == [at : Boundaries, trades : 1..MaxTrades] \cup {NoBar}
Idle == [pc |-> "none", at |-> -1, attempt |-> 0, deadline |-> 0, wake |-> 0]
NoBackfill == [pc |-> "none", start |-> 0, end |-> 0, until |-> 0]

\* The boundary of the bar forming at time t.
Forming(t) == ((t - Offset) \div Period) * Period + Offset
Closed(at) == at + Period <= now
\* The venue's bar; it has none for a period without trades.
VenueBar(at) == IF at \notin Boundaries \/ trades[at] = 0 THEN NoBar ELSE [at |-> at, trades |-> trades[at]]
Accepting == link # "down"

TypeOK ==
    /\ now \in Nat /\ losses \in 0..MaxLosses /\ failures \in 0..MaxFailures
    /\ trades \in [Boundaries -> 0..MaxTrades]
    /\ link \in {"down", "up", "restored", "ready"}
    /\ \A b \in {streaming, unwinding, owes, barsFailed, backfillFailed, raced} : b \in BOOLEAN
    /\ wire \in Seq(Bars \ {NoBar})
    /\ closer.queue \in Seq([at : Int, streamed : Bars, needs : BOOLEAN])
    /\ closer.emitted \in Seq(Bars \ {NoBar})
    /\ closer.current \in Bars /\ closer.held \in Bars
    /\ \A b \in {closer.drained, closer.holding, closer.baseline, closer.closed, closer.blind} : b \in BOOLEAN
    /\ closer.phase \in {-1, Offset}
    /\ closer.resolver.pc \in {"none", "starting", "asking", "sleeping"}
    /\ closer.resolver.attempt \in 0..Retries
    /\ backfill.pc \in {"none", "waiting", "range", "draining"}
    /\ unserved \subseteq Nat

\* A subscribe just answered, or one whose answer was lost.
Init ==
    /\ now = Start /\ trades = [b \in Boundaries |-> 0]
    /\ link = "ready" /\ losses = 0
    /\ streaming \in BOOLEAN /\ barsFailed \in BOOLEAN
    /\ ~barsFailed => streaming
    /\ failures = IF barsFailed THEN 1 ELSE 0
    /\ failures <= MaxFailures
    /\ wire = <<>>
    /\ closer = [phase |-> -1, emitted |-> <<>>, current |-> NoBar, queue |-> <<>>,
                 resolver |-> Idle, drained |-> TRUE, holding |-> FALSE, held |-> NoBar,
                 baseline |-> TRUE, closed |-> FALSE, blind |-> FALSE]
    /\ backfill = NoBackfill /\ unwinding = FALSE
    /\ owes = barsFailed /\ backfillFailed = FALSE
    /\ unserved = {} /\ raced = FALSE

-----------------------------------------------------------------------------
(* The closer: operators on its state c *)

LastEmitted(c) == IF c.emitted = <<>> THEN -1 ELSE Last(c.emitted).at
IsCovered(c, at) == at <= LastEmitted(c)
IsQueued(c, at) == \E i \in DOMAIN c.queue : c.queue[i].at = at

\* _observe()
Observe(c, at) == [c EXCEPT !.phase = at % Period]

\* _floor_boundary() and _last_closed_boundary(): epoch-aligned until a bar is seen.
FloorBoundary(c, t) ==
    LET phase == IF c.phase = -1 THEN 0 ELSE c.phase
    IN ((t - phase) \div Period) * Period + phase
LastClosedBoundary(c) == FloorBoundary(c, now) - Period

\* The entries in the order of their numbers rank.
Sorted(entries, rank(_)) ==
    [i \in 1..Cardinality(entries) |->
        CHOOSE p \in entries : Cardinality({q \in entries : rank(q) < rank(p)}) = i - 1]

\* _emit_ready(): emits the front entries up to the first that needs history.
\* The queue ascends, so none of them covers another.
EmitReady(c) ==
    LET waiting == {i \in DOMAIN c.queue : c.queue[i].needs /\ ~IsCovered(c, c.queue[i].at)}
        front == IF waiting = {} THEN Len(c.queue) + 1 ELSE Min(waiting)
        ready == Sorted({i \in 1..(front - 1) :
                            c.queue[i].streamed # NoBar /\ ~IsCovered(c, c.queue[i].at)},
                        LAMBDA i : i)
    IN [c EXCEPT !.queue = SubSeq(@, front, Len(@)),
                 !.emitted = @ \o [i \in DOMAIN ready |-> c.queue[ready[i]].streamed]]

\* _pump(): nothing while a resolver runs; a new one starts in a turn of its own.
Pump(c) ==
    LET e == EmitReady(c) IN
    IF c.resolver.pc # "none" THEN c
    ELSE IF e.queue = <<>> THEN [e EXCEPT !.drained = TRUE]
    ELSE [e EXCEPT !.resolver.pc = "starting"]

\* Mutant: the entries that need no history come first.
InOrderReadyFirst(entries) ==
    Sorted(entries, LAMBDA p : IF p.needs THEN p.at + 2 * (MaxTime + Period) ELSE p.at)

\* _enqueue() keeps the queue in ascending order.
InOrder(entries) == Sorted(entries, LAMBDA p : p.at)

\* _enqueue() for the ascending boundaries ats, a bar each: what may not be emitted
\* is left out, and one already queued takes the bar if it has none.  Queued in
\* that order, they end up as queued at once.
Enqueue(c, ats, bar, needs) ==
    LET fresh == {at \in ats : ~c.closed /\ at >= Floor /\ ~IsCovered(c, at) /\ ~IsQueued(c, at)}
        kept == {IF p.at \in ats /\ p.streamed = NoBar THEN [p EXCEPT !.streamed = bar[p.at]] ELSE p
                   : p \in ToSet(c.queue)}
        new == {[at |-> at, streamed |-> bar[at], needs |-> needs] : at \in fresh}
    IN IF fresh = {} THEN [c EXCEPT !.queue = InOrder(kept)]
       ELSE Pump([c EXCEPT !.queue = InOrder(kept \cup new), !.drained = FALSE])
EnqueueOne(c, bar, needs) == Enqueue(c, {bar.at}, [at \in {bar.at} |-> bar], needs)

\* The end of on_update(), with or without a bar forming; its timer runs while
\* current is a bar.
Follow(c, bar) ==
    IF c.current = NoBar \/ bar.at = c.current.at THEN [c EXCEPT !.current = bar]
    ELSE IF bar.at > c.current.at
    THEN EnqueueOne([c EXCEPT !.current = bar], c.current, FALSE)
    ELSE c

\* on_update()
OnUpdate(c, bar) ==
    LET o == Observe(c, bar.at) IN
    IF c.closed THEN c
    ELSE IF bar.at < Floor \/ IsCovered(c, bar.at) THEN o
    ELSE IF c.holding THEN [o EXCEPT !.held = bar]
    ELSE IF IsQueued(c, bar.at) THEN EnqueueOne(o, bar, TRUE)
    ELSE IF c.baseline /\ Closed(bar.at)
    THEN EnqueueOne([o EXCEPT !.baseline = FALSE], bar, TRUE)
    ELSE Follow([o EXCEPT !.baseline = FALSE], bar)

\* on_disconnect(): the queue stays.
OnDisconnect(c) ==
    IF c.closed THEN c
    ELSE [c EXCEPT !.current = NoBar, !.held = NoBar, !.baseline = TRUE]

-----------------------------------------------------------------------------
(* The resolver task *)

\* _resolve() from _emit_ready() to its next await.  Without a connection the
\* entry is left queued and the task ends.
ResolveOn(c) ==
    LET e == EmitReady(c) IN
    IF e.queue = <<>> THEN [e EXCEPT !.resolver = Idle, !.drained = TRUE]
    ELSE IF ~Accepting THEN [e EXCEPT !.resolver = Idle]
    ELSE [e EXCEPT !.resolver = [pc |-> "asking", at |-> Head(e.queue).at, attempt |-> 0,
                                 deadline |-> now + Period, wake |-> 0]]

\* The entry carries its final bar, or none.
Resolved(c, bar) ==
    [c EXCEPT !.queue = [i \in DOMAIN @ |->
        IF @[i].at = c.resolver.at THEN [@[i] EXCEPT !.streamed = bar, !.needs = FALSE] ELSE @[i]]]

ResolverStarts ==
    /\ closer.resolver.pc = "starting"
    /\ closer' = ResolveOn(closer)
    /\ UNCHANGED <<venueVars, linkVars, wire, taskVars, unserved, raced>>

HistoryServes ==
    /\ closer.resolver.pc = "asking"
    /\ VenueBar(closer.resolver.at) # NoBar
    /\ closer' = ResolveOn(Resolved(closer, VenueBar(closer.resolver.at)))
    /\ UNCHANGED <<venueVars, linkVars, wire, taskVars, unserved, raced>>

\* History has no such bar yet, or the request failed or expired: asked again
\* after the grace, within a period, else the streamed state is taken.
HistoryLacks ==
    LET r == closer.resolver
        streamed == {p.streamed : p \in {q \in ToSet(closer.queue) : q.at = r.at}}
    IN
    /\ r.pc = "asking"
    /\ \/ /\ r.attempt < Retries /\ now + Grace < r.deadline
          /\ closer' = [closer EXCEPT !.resolver.pc = "sleeping", !.resolver.attempt = @ + 1,
                                      !.resolver.wake = now + Grace]
          /\ UNCHANGED unserved
       \/ /\ r.attempt = Retries \/ now + Grace >= r.deadline
          /\ \E bar \in streamed : closer' = ResolveOn(Resolved(closer, bar))
          /\ unserved' = unserved \cup {r.at}
    /\ UNCHANGED <<venueVars, linkVars, wire, taskVars, raced>>

ResolverWakes ==
    /\ closer.resolver.pc = "sleeping" /\ now >= closer.resolver.wake
    /\ closer' = IF Accepting THEN [closer EXCEPT !.resolver.pc = "asking", !.resolver.wake = 0]
                 ELSE [closer EXCEPT !.resolver = Idle]
    /\ UNCHANGED <<venueVars, linkVars, wire, taskVars, unserved, raced>>

\* _on_timer(), for the bar that is still forming.
TimerFires ==
    LET bar == closer.current IN
    /\ bar # NoBar /\ now >= bar.at + Period + Grace
    /\ closer' = EnqueueOne([closer EXCEPT !.current = NoBar], bar, TRUE)
    /\ UNCHANGED <<venueVars, linkVars, wire, taskVars, unserved, raced>>

-----------------------------------------------------------------------------
(* Backfills: operators on the closer c, or to a closer with its task *)

\* The finally of backfill().
Unhold(c) == [c EXCEPT !.holding = FALSE, !.baseline = TRUE]

\* Mutant: only the last closed boundary is queued.
TailFromNewest(first, newest) == {newest}

\* The boundaries _queue_tail() runs over.
TailFrom(first, newest) == {at \in first..newest : (at - first) % Period = 0}

\* _queue_tail(): nothing until a bar has told where boundaries fall.
QueueTail(c, end) ==
    LET newest == LastClosedBoundary(c)
        tail == TailFrom(Min({FloorBoundary(c, end), newest}), newest)
    IN IF c.phase = -1 THEN c ELSE Enqueue(c, tail, [at \in tail |-> NoBar], TRUE)

\* The rest of backfill() once the range is drained: the tail, then the update held.
Finished(c, end) ==
    LET u == Unhold(QueueTail(c, end)) IN
    IF u.held = NoBar THEN u ELSE OnUpdate([u EXCEPT !.held = NoBar], u.held)

\* Mutant: the entries an outage left queued wait for the next closed bar.
HeldForBackfillUnpumped(c) ==
    [c EXCEPT !.holding = TRUE, !.held = NoBar, !.current = NoBar, !.blind = @ \/ c.phase = -1]

\* backfill() takes over from the stream, and restarts the resolver.
HeldForBackfill(c) ==
    Pump([c EXCEPT !.holding = TRUE, !.held = NoBar, !.current = NoBar, !.blind = @ \/ c.phase = -1])

\* backfill() to its first await, and _backfill() after a lost connection.
Begun(c) ==
    LET h == HeldForBackfill(c)
        end == LastClosedBoundary(h)
        start == IF h.emitted = <<>> THEN Floor ELSE Max({Floor, LastEmitted(h) + Period})
    IN IF start > end THEN [closer |-> Finished(h, end), task |-> NoBackfill]
       ELSE IF ~Accepting THEN [closer |-> Unhold(h), task |-> NoBackfill]
       ELSE [closer |-> h,
             task |-> [pc |-> "range", start |-> start, end |-> end, until |-> 0]]

\* _start_backfill(): one that still runs is cancelled, and waited for.
Started(c) ==
    IF backfill.pc = "none" /\ ~unwinding THEN Begun(c)
    ELSE [closer |-> c, task |-> [NoBackfill EXCEPT !.pc = "waiting"]]

\* _pay_backfill()
Paid(c) ==
    IF owes /\ backfill.pc = "none" THEN Started(c) ELSE [closer |-> c, task |-> backfill]

\* The task that is cancelled unwinds in a turn of its own.
Takes(result) ==
    /\ closer' = result.closer
    /\ backfill' = result.task
    /\ unwinding' = (unwinding \/ (result.task.pc = "waiting" /\ backfill.pc \in {"range", "draining"}))

Unwinds ==
    /\ unwinding
    /\ unwinding' = FALSE
    /\ closer' = Unhold(closer)
    /\ UNCHANGED <<venueVars, linkVars, wire, backfill, owes, barsFailed, backfillFailed, unserved, raced>>

BackfillResumes ==
    /\ backfill.pc = "waiting" /\ ~unwinding
    /\ Takes(Begun(closer))
    /\ UNCHANGED <<venueVars, linkVars, wire, owes, barsFailed, backfillFailed, unserved, raced>>

\* The range as history has it; it may lack the last bar asked for.
RangeServes ==
    /\ backfill.pc = "range"
    /\ \E lag \in BOOLEAN :
         LET asked == {b \in Boundaries : backfill.start <= b /\ b <= backfill.end - (IF lag THEN 1 ELSE 0)}
             found == {b \in asked : VenueBar(b) # NoBar}
             seen == IF found = {} THEN closer ELSE Observe(closer, Max(found))
             c == Enqueue(seen, found, [b \in found |-> VenueBar(b)], FALSE)
             until == now + (1 + Retries) * Grace * Len(c.queue) + Grace
         IN IF c.drained
            THEN closer' = Finished(c, backfill.end) /\ backfill' = NoBackfill
            ELSE closer' = c /\ backfill' = [backfill EXCEPT !.pc = "draining", !.until = until]
    /\ UNCHANGED <<venueVars, linkVars, wire, unwinding, owes, barsFailed, backfillFailed, unserved, raced>>

\* _wait_drained() returns, after its own time at the latest.
DrainEnds ==
    /\ backfill.pc = "draining"
    /\ closer.drained \/ now >= backfill.until
    /\ closer' = Finished(closer, backfill.end)
    /\ backfill' = NoBackfill
    /\ UNCHANGED <<venueVars, linkVars, wire, unwinding, owes, barsFailed, backfillFailed, unserved, raced>>

\* Refused or unanswered: the bar restore is marked failed, to be retried.
RangeFails ==
    /\ backfill.pc = "range" /\ failures < MaxFailures
    /\ failures' = failures + 1
    /\ closer' = Unhold(closer)
    /\ backfill' = NoBackfill
    /\ backfillFailed' = TRUE
    /\ raced' = TRUE
    /\ UNCHANGED <<venueVars, link, losses, streaming, wire, unwinding, owes, barsFailed, unserved>>

-----------------------------------------------------------------------------
(* The session and its restores *)

\* The connection is lost, with what it carried and what was asked on it.
Lose ==
    /\ link # "down" /\ losses < MaxLosses /\ ~closer.closed
    /\ link' = "down" /\ losses' = losses + 1
    /\ streaming' = FALSE /\ wire' = <<>>
    /\ LET c == [closer EXCEPT !.resolver = IF @.pc = "asking" THEN Idle ELSE @]
       IN \/ /\ backfill.pc = "range"
             /\ closer' = Unhold(c) /\ backfill' = NoBackfill
          \/ /\ backfill.pc # "range"
             /\ closer' = c /\ UNCHANGED backfill
    /\ UNCHANGED <<venueVars, failures, unwinding, owes, barsFailed, backfillFailed, unserved, raced>>

BringUp ==
    /\ link = "down" /\ ~closer.closed
    /\ link' = "up"
    /\ barsFailed' = FALSE /\ backfillFailed' = FALSE
    /\ UNCHANGED <<venueVars, losses, failures, streaming, wire, closer, backfill, unwinding, owes, unserved,
                   raced>>

\* What the venue sends on a new subscription: the last bar it has.
FirstUpdate ==
    LET traded == {b \in Boundaries : trades[b] > 0}
    IN IF traded = {} THEN <<>> ELSE <<VenueBar(Max(traded))>>

\* The registry's restore; one that got no answer may have reached the venue.
TrendbarsRestored ==
    /\ link = "up" /\ ~closer.closed
    /\ link' = "restored"
    /\ barsFailed' \in BOOLEAN /\ streaming' \in BOOLEAN
    /\ ~barsFailed' => streaming'
    /\ failures' = failures + (IF barsFailed' THEN 1 ELSE 0)
    /\ failures' <= MaxFailures
    /\ wire' = IF streaming' THEN FirstUpdate ELSE <<>>
    /\ UNCHANGED <<venueVars, losses, closer, backfill, unwinding, owes, backfillFailed, unserved, raced>>

\* _restore_bars()
RestoreBars ==
    /\ owes' = barsFailed
    /\ Takes(Started(OnDisconnect(closer)))

\* ... in a bring-up, behind the trendbar restore.
BarsRestored ==
    /\ link = "restored"
    /\ link' = "ready"
    /\ ~closer.closed
    /\ RestoreBars
    /\ UNCHANGED <<venueVars, losses, failures, streaming, wire, barsFailed, backfillFailed, unserved, raced>>

\* ... and retried by the account.
RetryBars ==
    /\ link = "ready" /\ backfillFailed /\ ~closer.closed
    /\ backfillFailed' = FALSE
    /\ RestoreBars
    /\ UNCHANGED <<venueVars, linkVars, wire, barsFailed, unserved, raced>>

\* A retry confirms the trendbars: _on_trendbars_recovered().
RetryTrendbars ==
    /\ link = "ready" /\ barsFailed /\ ~closer.closed
    /\ barsFailed' = FALSE /\ streaming' = TRUE
    /\ wire' = IF streaming THEN wire ELSE FirstUpdate
    /\ owes' = FALSE
    /\ Takes(Paid(closer))
    /\ UNCHANGED <<venueVars, link, losses, failures, backfillFailed, unserved, raced>>

\* _on_bar_spot()
Deliver ==
    /\ wire # <<>> /\ ~closer.closed
    /\ wire' = Tail(wire)
    /\ owes' = FALSE
    /\ LET paid == Paid(closer) IN
       Takes([closer |-> OnUpdate(paid.closer, Head(wire)), task |-> paid.task])
    /\ raced' = (raced \/ link \in {"up", "restored"} \/ backfill.pc = "waiting")
    /\ UNCHANGED <<venueVars, linkVars, barsFailed, backfillFailed, unserved>>

\* _forget_bars() and close().
Close ==
    /\ ~closer.closed
    /\ closer' = [closer EXCEPT !.closed = TRUE, !.current = NoBar, !.held = NoBar, !.queue = <<>>,
                                !.resolver = Idle, !.drained = TRUE]
    /\ backfill' = NoBackfill
    /\ unwinding' = (unwinding \/ backfill.pc \in {"range", "draining"})
    /\ UNCHANGED <<venueVars, linkVars, wire, owes, barsFailed, backfillFailed, unserved, raced>>

-----------------------------------------------------------------------------
(* The venue and the clock *)

Trade ==
    LET at == Forming(now) IN
    /\ ~closer.closed /\ wire = <<>>
    /\ at \in Boundaries /\ now <= MaxTime
    /\ MapThenSumSet(LAMBDA b : trades[b], Boundaries) < MaxTrades
    /\ trades' = [trades EXCEPT ![at] = @ + 1]
    /\ wire' = IF streaming THEN <<[at |-> at, trades |-> trades[at] + 1]>> ELSE wire
    /\ UNCHANGED <<now, linkVars, closer, taskVars, unserved, raced>>

Tick ==
    /\ ~closer.closed
    /\ \/ now < MaxTime
       \/ backfill.pc = "draining" /\ now < backfill.until
    /\ now' = now + 1
    /\ UNCHANGED <<trades, linkVars, wire, closer, taskVars, unserved, raced>>

Next ==
    \/ ResolverStarts \/ HistoryServes \/ HistoryLacks \/ ResolverWakes \/ TimerFires
    \/ Unwinds \/ BackfillResumes \/ RangeServes \/ DrainEnds \/ RangeFails
    \/ Lose \/ BringUp \/ TrendbarsRestored \/ BarsRestored \/ RetryBars \/ RetryTrendbars
    \/ Deliver \/ Close \/ Trade \/ Tick

Spec == Init /\ [][Next]_vars

-----------------------------------------------------------------------------
(* Properties *)

\* "A later bar can never go out before an earlier one": bars go out in ascending
\* order, once each, and none is left in the queue behind the last one, whichever
\* of stream, timer, history and backfill queued it.
NeverOvertaken ==
    LET order == [i \in DOMAIN closer.emitted |-> closer.emitted[i].at]
                    \o [i \in DOMAIN closer.queue |-> closer.queue[i].at]
    IN \A i, j \in DOMAIN order : i < j => order[i] < order[j]

\* Once the session is ready again, a bar left queued by an outage has a resolver,
\* or a backfill about to start one: it does not wait for the market to trade.
QueueHasResolver ==
    closer.queue # <<>> /\ closer.resolver.pc = "none"
        => link # "ready" \/ backfill.pc = "waiting"

\* Every bar the venue has behind the last one emitted was emitted, and as the
\* venue has it, unless history was asked for it and did not serve it.
AllEmitted ==
    \A at \in Boundaries :
        trades[at] > 0 /\ IsCovered(closer, at) =>
            \/ at \in unserved
            \/ VenueBar(at) \in ToSet(closer.emitted)

\* ... whatever the interleaving of stream, timers, losses and backfills, if no
\* update came between a reconnect and its backfill and no backfill failed.
NothingMissed == ~raced /\ ~closer.blind => AllEmitted

\* Updates are held while one backfill runs, and no longer: however it ends - served,
\* refused, lost, cancelled or replaced - the stream is taken up again, and a backfill
\* that replaces another does not start before that one has let the updates go.
HoldingHasTask ==
    LET running == backfill.pc \in {"range", "draining"} IN
    ~closer.closed => (closer.holding <=> (unwinding \/ running)) /\ ~(unwinding /\ running)

\* Nothing waits for ever: what an outage left queued has a resolver, and what a backfill
\* holds is let go with it.
NothingStuck == QueueHasResolver /\ HoldingHasTask

\* BarCloser's docstring: "A bar that closed during an outage is therefore never
\* emitted from its partial streamed state."  Violated by an update that comes after
\* the trendbars are restored and before the bars are, within the grace of a bar
\* that closed meanwhile: on_disconnect() has not been called yet.
NeverPartial ==
    \A i \in DOMAIN closer.emitted :
        LET bar == closer.emitted[i] IN bar.at \in unserved \/ bar = VenueBar(bar.at)

=============================================================================
