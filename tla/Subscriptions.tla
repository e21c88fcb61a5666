---------------------------- MODULE Subscriptions ----------------------------
(***************************************************************************)
(* The subscription registry (common/subscriptions.py) for one symbol and  *)
(* one bar period: the key "spots", the key "bars" (live trendbars, which  *)
(* the venue grants only over live spots), consumers counted on each, a    *)
(* lock per key, and the session restores that keep counted keys alive.    *)
(*                                                                         *)
(* The session is its interface (Session models it): it accepts requests   *)
(* or not, replays the registered restores at each bring-up, and lists the *)
(* failed ones for the account's retry task.  Everything between two       *)
(* awaits is one action; a request is one await, and by its end the venue  *)
(* has applied it or never will.                                           *)
(***************************************************************************)
EXTENDS Naturals, Sequences, FiniteSets, SequencesExt

CONSTANTS
    Calls,          \* (un)subscribe calls that may be in progress at once
    SpotConsumers,  \* consumers of spots
    BarConsumers,   \* consumers of bars; each holds spots under its own name
    MaxCalls,       \* bound: (un)subscribe calls made in a behaviour
    MaxBringUps     \* bound: bring-ups begun in a behaviour

ASSUME SubscriptionsAssumption ==
    /\ SpotConsumers \cap BarConsumers = {} /\ IsFiniteSet(Calls)
    /\ Calls \cap {"bringUp", "retry"} = {}
    /\ MaxCalls \in Nat /\ MaxBringUps \in Nat

VARIABLES
    consumers,      \* _consumers, a key absent when empty
    intents,        \* _intents: [wanted, pending], or NoIntent
    maybe,          \* _maybe_unsubscribed
    locks,          \* per key, the tasks that hold (first) or wait for its lock
    calls,          \* the (un)subscribe call of each slot
    made,           \* calls made so far
    session,        \* "detached", or "down", "restoring" or "ready"
    restores,       \* the session's registered keys
    failedRestores, \* the session's failed_restores
    todo,           \* restores the bring-up has still to run
    restoring,      \* the restore() of the bring-up and the one of the retry task
    bringUps,       \* _bring_up_generation
    venue,          \* the keys the venue streams on the open connection
    legCut          \* history: on it, the last spots were given back under counted bars

callVars == <<calls, made, intents>>
venueVars == <<venue, legCut>>
vars == <<consumers, intents, maybe, locks, calls, made, session, restores, failedRestores, todo,
          restoring, bringUps, venueVars>>

Keys == {"spots", "bars"}
Consumers == SpotConsumers \cup BarConsumers
NoIntent == [wanted |-> FALSE, pending |-> 0, held |-> FALSE]
Restorers == {"bringUp", "retry"}
NoCall == [op |-> "none", who |-> "none", pc |-> "idle", cut |-> FALSE]
NoRestore == [key |-> "none", pc |-> "idle", step |-> 0, cut |-> FALSE, of |-> 0]

\* The key a consumer's calls name.
KeyOf(c) == IF c \in BarConsumers THEN "bars" ELSE "spots"

TypeOK ==
    /\ consumers \in [Keys -> SUBSET Consumers]
    /\ intents \in [Consumers -> [wanted: BOOLEAN, pending: 0..Cardinality(Calls), held: BOOLEAN]]
    /\ maybe \subseteq Keys
    /\ \A k \in Keys : IsInjective(locks[k])
    /\ calls \in [Calls -> [op: {"none", "subscribe", "unsubscribe"}, who: Consumers \cup {"none"},
                            pc: {"idle", "wantBars", "wantSpots", "undoSpots", "subSpots", "subBars",
                                 "unsubBars", "unsubSpots"},
                            cut: BOOLEAN]]
    /\ made \in 0..MaxCalls
    /\ session \in {"detached", "down", "restoring", "ready"}
    /\ restores \subseteq Keys /\ failedRestores \subseteq Keys /\ todo \subseteq Keys
    /\ restoring \in [Restorers -> [key: Keys \cup {"none"}, pc: {"idle", "want", "sending"},
                                    step: 0..2, cut: BOOLEAN, of: 0..MaxBringUps]]
    /\ bringUps \in 0..MaxBringUps
    /\ venue \subseteq Keys /\ legCut \in BOOLEAN

Init ==
    /\ consumers = [k \in Keys |-> {}]
    /\ intents = [c \in Consumers |-> NoIntent]
    /\ maybe = {}
    /\ locks = [k \in Keys |-> <<>>]
    /\ calls = [p \in Calls |-> NoCall]
    /\ made = 0
    /\ session = "detached"
    /\ restores = {} /\ failedRestores = {} /\ todo = {}
    /\ restoring = [r \in Restorers |-> NoRestore]
    /\ bringUps = 0
    /\ venue = {} /\ legCut = FALSE

-----------------------------------------------------------------------------
(* Locks, counting and intents *)

Holds(p, k) == locks[k] # <<>> /\ Head(locks[k]) = p
Enqueue(p, k) == [locks EXCEPT ![k] = Append(@, p)]
\* Every lock p holds or waits for, released; it is in each line at most once.
ReleaseAll(p) == [k \in Keys |-> RemoveFirst(locks[k], p)]
ReleaseSpots(p) == [locks EXCEPT !["spots"] = RemoveFirst(@, p)]

\* _accepting_session().
Accepting == session \in {"restoring", "ready"}

\* Mutant: the settling subscribe forgets to look at the counted spot leg.
CountedInOwnKey(counted, c) == c \in counted[KeyOf(c)]

\* _counted(): a bar consumer's spot leg counts as well.
CountedIn(counted, c) == \E k \in Keys : c \in counted[k]

\* The call p of c ends: _settle() forgets the intent once nothing is left of it.
SettleIntent(c, fewer, counted) ==
    intents' = [intents EXCEPT ![c] =
        IF @.pending - fewer > 0 \/ CountedIn(counted, c)
        THEN [intents[c] EXCEPT !.pending = @ - fewer] ELSE NoIntent]

EndCall(p) ==
    /\ calls' = [calls EXCEPT ![p] = NoCall]
    /\ locks' = ReleaseAll(p)
    /\ SettleIntent(calls[p].who, IF calls[p].op = "subscribe" THEN 1 ELSE 0, consumers')

Goto(p, pc) == calls' = [calls EXCEPT ![p].pc = pc]

-----------------------------------------------------------------------------
(* subscribe_spots() and subscribe_trendbars() *)

\* _acquire(k, c) without a request: c joins a live key, or with no session to
\* ask only the intent is recorded.
Joins(k) == consumers[k] # {} /\ k \notin maybe
AcquiresNow(k) == Joins(k) \/ ~Accepting

\* _record(): the restore is registered with the attached session.
RestoresAfter(k) == IF session = "detached" THEN restores ELSE restores \cup {k}

\* The key k is settled for call p, which goes on: a consumer of k is done; a
\* spot leg makes way for _acquire() of the bars, in the same step.
\* `registered` are the restores after k, `counted` the consumers.
AfterAcquire(p, k, counted, registered) ==
    LET c == calls[p].who IN
    \/ /\ k = KeyOf(c)
       /\ consumers' = counted
       /\ restores' = registered
       /\ EndCall(p)
    \/ /\ k # KeyOf(c) /\ AcquiresNow("bars")
       /\ consumers' = [counted EXCEPT !["bars"] = @ \cup {c}]
       /\ restores' = IF Joins("bars") \/ session = "detached" THEN registered
                      ELSE registered \cup {"bars"}
       /\ EndCall(p)
    \/ /\ k # KeyOf(c) /\ ~AcquiresNow("bars")
       /\ consumers' = counted
       /\ restores' = registered
       /\ locks' = ReleaseSpots(p)
       /\ Goto(p, "subBars")
       /\ UNCHANGED intents

Count(k, c) == [consumers EXCEPT ![k] = @ \cup {c}]

BeginSubscribe(p, c) ==
    /\ calls[p].pc = "idle" /\ made < MaxCalls
    /\ made' = made + 1
    /\ intents' = [intents EXCEPT ![c] =
                      [wanted |-> TRUE, pending |-> @.pending + 1, held |-> TRUE]]
    /\ calls' = [calls EXCEPT ![p] = [op |-> "subscribe", who |-> c, cut |-> FALSE,
                    pc |-> IF c \in BarConsumers THEN "wantBars" ELSE "wantSpots"]]
    /\ locks' = Enqueue(p, KeyOf(c))
    /\ UNCHANGED <<consumers, maybe, session, restores, failedRestores, todo, restoring, bringUps,
                   venueVars>>

\* The bars lock is obtained: nothing to do, or the spots lock is next.
SubscribeBars(p) ==
    /\ calls[p].op = "subscribe" /\ calls[p].pc = "wantBars" /\ Holds(p, "bars")
    /\ \/ /\ calls[p].who \in consumers["bars"] /\ "bars" \notin maybe
          /\ UNCHANGED consumers
          /\ EndCall(p)
       \/ /\ calls[p].who \notin consumers["bars"] \/ "bars" \in maybe
          /\ locks' = Enqueue(p, "spots")
          /\ Goto(p, "wantSpots")
          /\ UNCHANGED <<consumers, intents>>
    /\ UNCHANGED <<maybe, made, session, restores, failedRestores, todo, restoring, bringUps,
                   venueVars>>

\* The spots lock is obtained: _acquire() of spots, to its request if it sends one.
SubscribeSpots(p) ==
    /\ calls[p].op = "subscribe" /\ calls[p].pc = "wantSpots" /\ Holds(p, "spots")
    /\ \/ /\ AcquiresNow("spots")
          /\ AfterAcquire(p, "spots", Count("spots", calls[p].who),
                          IF Joins("spots") THEN restores ELSE RestoresAfter("spots"))
       \/ /\ ~AcquiresNow("spots")
          /\ Goto(p, "subSpots")
          /\ UNCHANGED <<consumers, intents, locks, restores>>
    /\ UNCHANGED <<maybe, made, session, failedRestores, todo, restoring, bringUps, venueVars>>

Subscribing(p) == IF calls[p].pc = "subSpots" THEN "spots" ELSE "bars"

\* External: the venue grants live bars only over live spots.
VenueGrants(k) == k = "bars" => "spots" \in venue

\* A subscribe request returns, ALREADY_SUBSCRIBED included.
SubscribeAccepted(p) ==
    /\ calls[p].pc \in {"subSpots", "subBars"} /\ ~calls[p].cut
    /\ VenueGrants(Subscribing(p))
    /\ venue' = venue \cup {Subscribing(p)}
    /\ maybe' = maybe \ {Subscribing(p)}
    /\ AfterAcquire(p, Subscribing(p), Count(Subscribing(p), calls[p].who),
                    RestoresAfter(Subscribing(p)))
    /\ UNCHANGED <<made, session, failedRestores, todo, restoring, bringUps, legCut>>

\* The venue refuses: the call raises.  Refused bars give their spot leg back.
SubscribeRefused(p) ==
    /\ calls[p].pc \in {"subSpots", "subBars"} /\ ~calls[p].cut
    /\ \/ /\ calls[p].pc = "subSpots"
          /\ UNCHANGED consumers
          /\ EndCall(p)
       \/ /\ calls[p].pc = "subBars"
          /\ locks' = Enqueue(p, "spots")
          /\ Goto(p, "undoSpots")
          /\ UNCHANGED <<consumers, intents>>
    /\ UNCHANGED <<maybe, made, session, restores, failedRestores, todo, restoring, bringUps,
                   venueVars>>

\* Mutant: an unknown outcome is taken on trust while the session stays up.
FailedAfterUnknownTrusted(k) == failedRestores

\* _record_unknown(): a session that stays up repeats the restore on retry.
FailedAfterUnknown(k) == IF Accepting THEN failedRestores \cup {k} ELSE failedRestores

\* A timeout, or the connection's loss: counted, and applied at the venue or not.
SubscribeUnknown(p) ==
    /\ calls[p].pc \in {"subSpots", "subBars"}
    /\ venue' \in {venue} \cup (IF ~calls[p].cut /\ VenueGrants(Subscribing(p))
                                THEN {venue \cup {Subscribing(p)}} ELSE {})
    /\ failedRestores' = FailedAfterUnknown(Subscribing(p))
    /\ AfterAcquire(p, Subscribing(p), Count(Subscribing(p), calls[p].who),
                    RestoresAfter(Subscribing(p)))
    /\ UNCHANGED <<maybe, made, session, todo, restoring, bringUps, legCut>>

\* The call is cancelled inside its request: as unknown, but it goes no further.
SubscribeCancelled(p) ==
    /\ calls[p].pc \in {"subSpots", "subBars"}
    /\ venue' \in {venue} \cup (IF ~calls[p].cut /\ VenueGrants(Subscribing(p))
                                THEN {venue \cup {Subscribing(p)}} ELSE {})
    /\ failedRestores' = FailedAfterUnknown(Subscribing(p))
    /\ consumers' = Count(Subscribing(p), calls[p].who)
    /\ restores' = RestoresAfter(Subscribing(p))
    /\ EndCall(p)
    /\ UNCHANGED <<maybe, made, session, todo, restoring, bringUps, legCut>>

-----------------------------------------------------------------------------
(* unsubscribe_spots() and unsubscribe_trendbars() *)

BeginUnsubscribe(p, c) ==
    /\ calls[p].pc = "idle" /\ made < MaxCalls
    /\ made' = made + 1
    /\ intents' = [intents EXCEPT ![c] = [@ EXCEPT !.wanted = FALSE, !.held = TRUE]]
    /\ calls' = [calls EXCEPT ![p] = [op |-> "unsubscribe", who |-> c, cut |-> FALSE,
                    pc |-> IF c \in BarConsumers THEN "wantBars" ELSE "wantSpots"]]
    /\ locks' = Enqueue(p, KeyOf(c))
    /\ UNCHANGED <<consumers, maybe, session, restores, failedRestores, todo, restoring, bringUps,
                   venueVars>>

\* _release() needs the venue only for the last reference of an accepting session.
ReleasesNow(k, c) == c \notin consumers[k] \/ consumers[k] # {c} \/ ~Accepting

\* What _release() leaves of k when c is dropped.
Drop(k, c) ==
    LET last == consumers[k] = {c} IN
    /\ consumers' = [consumers EXCEPT ![k] = @ \ {c}]
    /\ maybe' = IF last THEN maybe \ {k} ELSE maybe
    /\ restores' = IF last THEN restores \ {k} ELSE restores
    /\ failedRestores' = IF last THEN failedRestores \ {k} ELSE failedRestores

\* The bars are released: the spot leg is next, cancelled or not.
ThenSpots(p) ==
    /\ locks' = Enqueue(p, "spots")
    /\ Goto(p, "undoSpots")
    /\ UNCHANGED intents

ReleaseBars(p) ==
    /\ calls[p].op = "unsubscribe" /\ calls[p].pc = "wantBars" /\ Holds(p, "bars")
    /\ \/ /\ ReleasesNow("bars", calls[p].who)
          /\ Drop("bars", calls[p].who)
          /\ ThenSpots(p)
       \/ /\ ~ReleasesNow("bars", calls[p].who)
          /\ Goto(p, "unsubBars")
          /\ UNCHANGED <<consumers, intents, maybe, locks, restores, failedRestores>>
    /\ UNCHANGED <<made, session, todo, restoring, bringUps, venueVars>>

\* Spots, whether the consumer's own, a released leg or a refused subscribe's.
ReleaseSpotsHeld(p) ==
    /\ \/ calls[p].op = "unsubscribe" /\ calls[p].pc = "wantSpots"
       \/ calls[p].pc = "undoSpots"
    /\ Holds(p, "spots")
    /\ \/ /\ ReleasesNow("spots", calls[p].who)
          /\ Drop("spots", calls[p].who)
          /\ EndCall(p)
       \/ /\ ~ReleasesNow("spots", calls[p].who)
          /\ Goto(p, "unsubSpots")
          /\ UNCHANGED <<consumers, intents, maybe, locks, restores, failedRestores>>
    /\ UNCHANGED <<made, session, todo, restoring, bringUps, venueVars>>

Unsubscribing(p) == IF calls[p].pc = "unsubSpots" THEN "spots" ELSE "bars"

\* External: what an unsubscribe of k leaves streaming.  Bars travel inside spots.
VenueDrops(k) == IF k = "spots" THEN {} ELSE venue \ {k}

\* The unsubscribe p sends may end bars that are counted still, without their spot legs.
CutsLeg(p) == calls[p].pc = "unsubSpots" /\ consumers["bars"] # {}

\* An unsubscribe request runs its course: applied, refused, timed out or lost.
Unsubscribed(p) ==
    /\ calls[p].pc \in {"unsubBars", "unsubSpots"}
    /\ venue' \in {venue} \cup (IF calls[p].cut THEN {} ELSE {VenueDrops(Unsubscribing(p))})
    /\ legCut' = (legCut \/ CutsLeg(p))
    /\ Drop(Unsubscribing(p), calls[p].who)
    /\ \/ calls[p].pc = "unsubBars" /\ ThenSpots(p)
       \/ calls[p].pc = "unsubSpots" /\ EndCall(p)
    /\ UNCHANGED <<made, session, todo, restoring, bringUps>>

\* A cancelled last unsubscribe keeps its key counted, and marked.
MaybeAfterCancel(k) == maybe \cup {k}

UnsubscribeCancelled(p) ==
    /\ calls[p].pc \in {"unsubBars", "unsubSpots"}
    /\ venue' \in {venue} \cup (IF calls[p].cut THEN {} ELSE {VenueDrops(Unsubscribing(p))})
    /\ legCut' = (legCut \/ CutsLeg(p))
    /\ maybe' = MaybeAfterCancel(Unsubscribing(p))
    /\ UNCHANGED consumers
    /\ \/ calls[p].pc = "unsubBars" /\ ThenSpots(p)
       \/ calls[p].pc = "unsubSpots" /\ EndCall(p)
    /\ UNCHANGED <<made, session, restores, failedRestores, todo, restoring, bringUps>>

\* A call is cancelled while it waits for a lock.
CancelledWaiting(p) ==
    /\ calls[p].pc \in {"wantBars", "wantSpots", "undoSpots"}
    /\ UNCHANGED consumers
    /\ EndCall(p)
    /\ UNCHANGED <<maybe, made, session, restores, failedRestores, todo, restoring, bringUps,
                   venueVars>>

-----------------------------------------------------------------------------
(* The session: attach(), detach(), loss, bring-up, retry *)

\* Requests in flight end with the connection.
CutRequests ==
    /\ calls' = [p \in Calls |-> [calls[p] EXCEPT !.cut = @ \/
                    calls[p].pc \in {"subSpots", "subBars", "unsubBars", "unsubSpots"}]]
    /\ restoring' = [r \in Restorers |->
                        [restoring[r] EXCEPT !.cut = @ \/ restoring[r].pc = "sending"]]

Attach ==
    /\ session = "detached"
    /\ session' = "down"
    /\ restores' = {k \in Keys : consumers[k] # {}}
    /\ UNCHANGED <<consumers, callVars, maybe, locks, failedRestores, todo, restoring, bringUps,
                   venueVars>>

\* The account drops its session, which it stops first.
Detach ==
    /\ session = "down" /\ restoring["bringUp"] = NoRestore
    /\ session' = "detached"
    /\ restores' = {} /\ failedRestores' = {}
    /\ UNCHANGED <<consumers, callVars, maybe, locks, todo, restoring, bringUps, venueVars>>

Lose ==
    /\ Accepting
    /\ session' = "down"
    /\ venue' = {}
    /\ CutRequests
    /\ UNCHANGED <<consumers, maybe, locks, made, intents, restores, failedRestores, todo, bringUps,
                   legCut>>

\* Authenticated again: the restores registered now are run.  What the loss woke
\* has run long before.
BringUp ==
    /\ session = "down" /\ bringUps < MaxBringUps
    /\ restoring["bringUp"] = NoRestore
    /\ \A p \in Calls : ~calls[p].cut
    /\ ~restoring["retry"].cut
    /\ session' = "restoring"
    /\ bringUps' = bringUps + 1
    /\ failedRestores' = {}
    /\ todo' = restores
    /\ legCut' = FALSE
    /\ UNCHANGED <<consumers, callVars, maybe, locks, restores, restoring, venue>>

BeginRestore(r, k) ==
    /\ restoring' = [restoring EXCEPT ![r] =
                        [key |-> k, pc |-> "want", step |-> IF k = "bars" THEN 1 ELSE 2,
                         cut |-> FALSE, of |-> bringUps]]
    /\ locks' = Enqueue(r, k)

RunRestore(k) ==
    /\ session = "restoring" /\ restoring["bringUp"] = NoRestore
    /\ k \in todo
    /\ todo' = todo \ {k}
    /\ BeginRestore("bringUp", k)
    /\ UNCHANGED <<consumers, callVars, maybe, session, restores, failedRestores, bringUps,
                   venueVars>>

BecomeReady ==
    /\ session = "restoring" /\ restoring["bringUp"] = NoRestore /\ todo = {}
    /\ session' = "ready"
    /\ UNCHANGED <<consumers, callVars, maybe, locks, restores, failedRestores, todo, restoring,
                   bringUps, venueVars>>

RetryRestore(k) ==
    /\ session = "ready" /\ restoring["retry"] = NoRestore
    /\ k \in failedRestores \cap restores
    /\ BeginRestore("retry", k)
    /\ UNCHANGED <<consumers, callVars, maybe, session, restores, failedRestores, todo, bringUps,
                   venueVars>>

\* Whether the outcome of restore r still counts: _bring_up() is always current,
\* a retry only in the bring-up it began in, and ready.
Current(r) == session = "ready" /\ restoring[r].of = bringUps

EndRestore(r) ==
    /\ restoring' = [restoring EXCEPT ![r] = NoRestore]
    /\ locks' = ReleaseAll(r)

\* restore() returns: a retry drops its key from the list.
RestoreReturns(r) ==
    /\ EndRestore(r)
    /\ failedRestores' = IF r = "retry" /\ Current(r) THEN failedRestores \ {restoring[r].key}
                         ELSE failedRestores
    /\ UNCHANGED todo

\* restore() raises: the bring-up lists the key, or ends with the connection.
RestoreRaises(r, connectionLost) ==
    /\ EndRestore(r)
    /\ failedRestores' = IF r = "bringUp" /\ ~connectionLost
                         THEN failedRestores \cup {restoring[r].key} ELSE failedRestores
    /\ todo' = IF r = "bringUp" /\ connectionLost THEN {} ELSE todo

\* The lock is obtained: the key is gone, or the next request is sent, which
\* session.request() refuses unless it accepts.
RestoreLocked(r) ==
    /\ restoring[r].pc = "want" /\ Holds(r, restoring[r].key)
    /\ \/ consumers[restoring[r].key] = {} /\ RestoreReturns(r)
       \/ consumers[restoring[r].key] # {} /\ ~Accepting /\ RestoreRaises(r, TRUE)
       \/ /\ consumers[restoring[r].key] # {} /\ Accepting
          /\ restoring' = [restoring EXCEPT ![r].pc = "sending"]
          /\ UNCHANGED <<locks, failedRestores, todo>>
    /\ UNCHANGED <<consumers, callVars, maybe, session, restores, bringUps, venueVars>>

\* The request of this step: bars restore their spots first.
RestoreRequest(r) == IF restoring[r].step = 1 THEN "spots" ELSE restoring[r].key

RestoreAccepted(r) ==
    /\ restoring[r].pc = "sending" /\ ~restoring[r].cut
    /\ VenueGrants(RestoreRequest(r))
    /\ venue' = venue \cup {RestoreRequest(r)}
    /\ \/ /\ restoring[r].step = 1
          /\ restoring' = [restoring EXCEPT ![r].step = 2, ![r].pc = "want"]
          /\ locks' = [ReleaseAll(r) EXCEPT ![restoring[r].key] = Append(@, r)]
          /\ UNCHANGED <<maybe, failedRestores, todo>>
       \/ /\ restoring[r].step = 2
          /\ maybe' = maybe \ {restoring[r].key}
          /\ RestoreReturns(r)
    /\ UNCHANGED <<consumers, callVars, session, restores, bringUps, legCut>>

RestoreFails(r) ==
    /\ restoring[r].pc = "sending"
    /\ venue' \in {venue} \cup (IF ~restoring[r].cut /\ VenueGrants(RestoreRequest(r))
                                THEN {venue \cup {RestoreRequest(r)}} ELSE {})
    /\ RestoreRaises(r, restoring[r].cut)
    /\ UNCHANGED <<consumers, callVars, maybe, session, restores, bringUps, legCut>>

Next ==
    \/ \E p \in Calls, c \in Consumers : BeginSubscribe(p, c) \/ BeginUnsubscribe(p, c)
    \/ \E p \in Calls :
          \/ SubscribeBars(p) \/ SubscribeSpots(p)
          \/ SubscribeAccepted(p) \/ SubscribeRefused(p) \/ SubscribeUnknown(p)
          \/ SubscribeCancelled(p)
          \/ ReleaseBars(p) \/ ReleaseSpotsHeld(p) \/ Unsubscribed(p) \/ UnsubscribeCancelled(p)
          \/ CancelledWaiting(p)
    \/ Attach \/ Detach \/ Lose \/ BringUp \/ BecomeReady
    \/ \E k \in Keys : RunRestore(k) \/ RetryRestore(k)
    \/ \E r \in Restorers : RestoreLocked(r) \/ RestoreAccepted(r) \/ RestoreFails(r)

Spec == Init /\ [][Next]_vars

-----------------------------------------------------------------------------
(* Properties *)

\* No task is inside a call, a restore or a bring-up.
Quiet ==
    /\ \A p \in Calls : calls[p].pc = "idle"
    /\ \A r \in Restorers : restoring[r].pc = "idle"
    /\ todo = {}

\* A key that consumers count on is streamed by the venue, or the registry knows
\* that it may not be: it is listed for a restore retry, or marked for the next
\* subscribe to ask again.  A consumer is never left without data silently.
\* Left out: bars whose spots were given back under them, on this connection; that this
\* can happen is BarsHoldTheirSpots' business.
CountedIsLive ==
    session = "ready" /\ Quiet =>
        \A k \in Keys :
            consumers[k] # {} /\ (k = "bars" => ~legCut)
                => k \in venue \cup failedRestores \cup maybe

\* subscribe_trendbars() "Subscribe live trendbars, holding the spot subscription
\* the venue requires for them": a call that finds its bars counted and unmarked,
\* and so returns at once, holds the spots too.  Violated: a cancelled release of
\* the bars gives the spot leg back but keeps the bars, the next bring-up restores
\* them and clears the mark, and the consumer's next subscribe returns without it.
BarsHoldTheirSpots ==
    \A p \in Calls :
        /\ calls[p].op = "subscribe" /\ calls[p].pc = "wantBars" /\ Holds(p, "bars")
        /\ calls[p].who \in consumers["bars"] /\ "bars" \notin maybe
        => calls[p].who \in consumers["spots"]

\* What the next bring-up restores is what is counted: no reference is counted
\* without a restore to keep it alive, none is restored for nobody.
RestoresAreCounted ==
    session # "detached" => restores = {k \in Keys : consumers[k] # {}}

\* Whoever is counted can be found and released by its owner: an intent is kept
\* while any leg of the consumer is counted or a subscribe may still count it.
CountedIsHeld ==
    \A c \in Consumers :
        (\E k \in Keys : c \in consumers[k]) \/ intents[c].pending > 0 => intents[c].held

\* What is counted is restored after a loss and can be released by its owner, and nothing
\* else is: over calls that overlap, fail or are cancelled between their two requests.
HeldIsRestored == RestoresAreCounted /\ CountedIsHeld

=============================================================================
