-------------------------- MODULE BalanceCheckpoint --------------------------
(***************************************************************************)
(* The balance at the daily checkpoint, kept in a cache key                *)
(* (balance_checkpoint.py).                                                *)
(*                                                                         *)
(* A walk reads the history a week at a time, back from now until the rule *)
(* of BalanceHistory has its answer, then cash flows forward from the      *)
(* registration for the first deposit.  One walk runs inside the connect   *)
(* or the reconnect, bounded; another in the background, started by the    *)
(* timer or for the rest of a bounded one.  The broker's account changes   *)
(* between any two requests.                                               *)
(***************************************************************************)
EXTENDS BalanceHistory

CONSTANTS
    StartWindows,     \* START_WINDOWS
    MaxWindows,       \* MAX_WINDOWS
    Grace,            \* GRACE_MS
    Skew,             \* external: how far the node's clock runs ahead of the broker's
    Checkpoints,      \* the checkpoints, as checkpoint_at() and next_checkpoint() find them
    Start,            \* the time of the connect
    MaxNow,           \* bound: time
    Accounts,         \* bound: external: histories before the connect, with registrations
    MaxChanges,       \* bound: balance changes after it
    MaxLosses,        \* bound: lost connections
    MaxFaults         \* bound: refused requests, history items without a field

ASSUME BalanceCheckpointAssumption ==
    /\ {StartWindows, MaxWindows, Grace, Skew, Start, MaxNow, MaxChanges, MaxLosses,
        MaxFaults} \subseteq Nat
    /\ Skew <= Grace /\ Start >= Skew
    /\ Checkpoints \subseteq Int /\ \E t \in Checkpoints : t <= Start

VARIABLES
    now,         \* the node's clock
    ledger,      \* external: the account's balance changes, by version
    account,     \* external: the registration, and the order deal lists come in
    link,        \* "up" or "down"
    node,        \* the BalanceCheckpoint: the record NewNode
    counts       \* history: what the bounds bound

vars == <<now, ledger, account, link, node, counts>>

-----------------------------------------------------------------------------
(* The account *)

Digits == 2

Trader(changes) ==
    [version |-> Len(changes),
     balance |-> IF changes = <<>> THEN 0 ELSE changes[Len(changes)].balance]

\* External: the next change: a deposit, a withdrawal or a closing deal; a cash flow's delta
\* has no sign.
Changes(changes, ts) ==
    LET balance == Trader(changes).balance
        change(cash, deposit, moved) ==
            [version |-> Len(changes) + 1, ts |-> ts, balance |-> balance + moved,
             delta |-> IF cash /\ moved < 0 THEN -moved ELSE moved,
             cash |-> cash, deposit |-> deposit, digits |-> Digits]
    IN {change(TRUE, TRUE, 1)} \cup
       (IF balance = 0 THEN {} ELSE {change(TRUE, FALSE, -1), change(FALSE, FALSE, 1)})

BrokerNow == now - Skew
Ledger == {ledger[i] : i \in 1..Len(ledger)}
InWindow(changes, window) == {c \in changes : window[1] <= c.ts /\ c.ts <= window[2]}

\* The truth: the balance right before t, and the account's first deposit.
TrueBalance(t) ==
    LET before == {c \in Ledger : c.ts < t} IN IF before = {} THEN 0 ELSE Latest(before).balance
TrueDeposit == FirstDeposit(Ledger)

-----------------------------------------------------------------------------
(* The object's state *)

\* checkpoint_at() and next_checkpoint(); Never is past every bound.
Never == MaxNow + Grace + 1
CheckpointAt(time) ==
    CHOOSE t \in Checkpoints : t <= time /\ \A u \in Checkpoints : u <= time => u <= t
NextCheckpoint(time) ==
    LET later == {t \in Checkpoints : t > time} IN
    IF later = {} THEN Never ELSE CHOOSE t \in later : \A u \in later : t <= u

\* _Walk
NewWalk == [t |-> CheckpointAt(now), upper |-> now, covered |-> now, windows |-> 0,
            changes |-> {}, settled |-> FALSE, failure |-> "none"]

NoTrader == [version |-> -1, balance |-> 0]
\* A walk under way: what it awaits (at), and its locals; deals is the list being paged.
Idle == [at |-> "idle"]
NoList == [window |-> <<>>, found |-> {}, page |-> 0]
Walking(walk, trader, limit, bounded) ==
    [at |-> "start", walk |-> walk, trader |-> trader, limit |-> limit, bounded |-> bounded,
     window |-> <<>>, deals |-> NoList,
     asked |-> {}, left |-> 0, since |-> NoTime, latest |-> NoTrader]

NewNode == [
    connect |-> Idle,               \* the refresh() of the connect or the reconnect
    task |-> Idle,                  \* _task
    refreshed |-> FALSE,            \* the first refresh is over, the timer armed
    reload |-> NoTrader,            \* the trader read by a reconnect whose refresh is due
    timer |-> NoTime,               \* _timer: the checkpoint it is armed for
    stopped |-> FALSE,
    deposit |-> Nothing,            \* _deposit
    depositFrom |-> NoTime,         \* _deposit_from_ms
    depositWindows |-> 0,
    caughtUp |-> FALSE,             \* _deposit_caught_up
    lock |-> "free",                \* _deposit_lock
    written |-> NoTime,             \* _written_ms
    \* External: the cache key; final, that the broker's clock had passed t, is history.
    key |-> [status |-> "none", t |-> NoTime, balance |-> 0, reason |-> "none",
             deposit |-> Nothing, final |-> FALSE],
    slipped |-> FALSE,              \* history: a deposit stamped before the deposit walk's place
    skipped |-> {}]                 \* history: checkpoints an older one's refresh overran

-----------------------------------------------------------------------------
(* The parts of a walk; each operator runs to the next await of w, the walk kept in field p *)

\* _deposit_unfinished()
DepositUnfinished(n, registration) ==
    /\ registration # NoTime /\ n.deposit = Nothing /\ ~n.caughtUp
    /\ n.depositWindows < MaxWindows
    /\ (IF n.depositFrom = NoTime THEN registration ELSE n.depositFrom) < now

\* The second trader is asked for, the lock given back.
AskLatest(n, p, w) ==
    [n EXCEPT ![p] = [w EXCEPT !.at = "latest", !.window = <<>>, !.left = 0, !.since = NoTime],
              !.lock = "free"]

\* _walk_deposit_locked(): the next week of cash flows, forward.
DepositStep(n, p, w) ==
    LET registration == account.registration
        from == IF n.depositFrom = NoTime THEN registration ELSE n.depositFrom
    IN IF w.left = 0 \/ ~DepositUnfinished(n, registration) THEN AskLatest(n, p, w)
       ELSE [n EXCEPT ![p] = [w EXCEPT !.at = "deposit", !.window = WeeklyWindow(from, now),
                                          !.since = now],
                      !.lock = p, !.depositFrom = from]

\* _walk_deposit()
WalkDeposit(n, p, w) ==
    LET begins == [w EXCEPT !.left = w.limit, !.window = <<>>, !.deals = NoList, !.asked = {}] IN
    IF n.lock = "free" THEN DepositStep(n, p, begins)
    ELSE [n EXCEPT ![p] = [begins EXCEPT !.at = "lock"]]

\* _read() asks for a window's deals.
AskDeals(w, window) ==
    [w EXCEPT !.at = "deals", !.window = window,
              !.deals = [window |-> window, found |-> {}, page |-> 1],
              !.asked = {c \in InWindow(Ledger, window) : ~c.cash}]

\* _walk_back(), at the head of its loop.
WalkBack(n, p, w) ==
    LET walk == w.walk
        start == IF walk.covered > Week THEN walk.covered - Week ELSE 0
    IN IF walk.settled \/ walk.failure # "none" \/ walk.windows >= w.limit
       THEN WalkDeposit(n, p, w)
       ELSE [n EXCEPT ![p] = AskDeals(w, <<start, walk.covered>>)]

\* _settle()
Settle(n, p, w) ==
    IF w.trader = NoTrader THEN [n EXCEPT ![p] = [w EXCEPT !.at = "trader"]]
    ELSE WalkBack(n, p, w)

-----------------------------------------------------------------------------
(* Starting and stopping *)

\* _cancel_task()
CancelTask(n) == [n EXCEPT !.task = Idle, !.lock = IF @ = "task" THEN "free" ELSE @]

\* _start_task(), of a walk; with the connection down, a walk that asks ends at once.
StartTask(n, w) ==
    LET given == IF n.task = Idle \/ n.task.walk.t <= w.walk.t THEN {} ELSE {n.task.walk.t}
        cancelled == [CancelTask(n) EXCEPT !.skipped = @ \cup given]
    IN IF link = "down" THEN cancelled ELSE Settle(cancelled, "task", w)

\* _run(), in the client's own refresh or in the background.
Run(n, p, trader, bounded) ==
    LET w == Walking(NewWalk, trader, IF bounded THEN StartWindows ELSE MaxWindows, bounded)
        begun == [n EXCEPT !.caughtUp = FALSE]
    IN IF p = "task" THEN StartTask(begun, w) ELSE Settle(begun, p, w)

\* _arm()
Arm(n, after) == [n EXCEPT !.timer = NextCheckpoint(after)]

\* Mutant: the checkpoint just passed is not due again.
ScheduleNext(n) == IF n.stopped THEN n ELSE Arm(n, now)

\* schedule(): a checkpoint whose grace has not run out is still due.
Schedule(n) == IF n.stopped THEN n ELSE Arm(n, now - Grace)

\* The client's refresh is over; after the first one the timer is armed (_connect()).
Refreshed(n) ==
    LET over == [n EXCEPT !.connect = Idle]
        passed == {t \in Checkpoints : t > n.connect.walk.t /\ t <= now - Grace}
    IN IF n.refreshed THEN over
       ELSE Schedule([over EXCEPT !.refreshed = TRUE, !.skipped = @ \cup passed])

\* A walk ends without a value.
GivenUp(n, p) ==
    LET freed == [n EXCEPT !.lock = IF @ = p THEN "free" ELSE @] IN
    IF p = "connect" THEN Refreshed(freed) ELSE [freed EXCEPT !.task = Idle]

-----------------------------------------------------------------------------
(* Writing the key *)

\* _with_deposit(): without a registration there is no forward walk, and the rule's own stands.
WithDeposit(n, w, value) ==
    IF account.registration = NoTime \/ w.trader = NoTrader \/ value.reason = "mixed_scales"
    THEN value ELSE [value EXCEPT !.deposit = n.deposit]

\* Mutant: the newest walk to end writes, whatever its checkpoint.
MayWriteAny(n, t) == ~n.stopped

\* A later checkpoint is not written yet, and the object not stopped (_settle(), _put()).
MayWrite(n, t) == n.written <= t /\ ~n.stopped

\* The end of _settle() and of _run(): the key is written, and the rest of a bounded walk
\* goes on in the background.
Finish(n, p, w, value, asOf) ==
    LET v == WithDeposit(n, w, value)
        put == [n EXCEPT !.written = w.walk.t,
                         !.key = [status |-> v.status, t |-> w.walk.t, balance |-> v.balance,
                                  reason |-> v.reason, deposit |-> v.deposit, final |-> asOf - Skew >= w.walk.t]]
        over == GivenUp(IF MayWrite(n, w.walk.t) THEN put ELSE n, p)
        unfinished == /\ w.walk.failure = "none"
                      /\ ~w.walk.settled \/ DepositUnfinished(n, account.registration)
        rest == Walking(w.walk, w.trader, MaxWindows, FALSE)
    IN IF MayWrite(n, w.walk.t) /\ w.bounded /\ unfinished THEN StartTask(over, rest) ELSE over

\* _value() and the write.
WriteValue(n, p, w) ==
    LET walk == w.walk
        value == IF walk.failure # "none" THEN Value(walk.failure, 0, Nothing)
                 ELSE BalanceAt(walk.t, walk.changes, walk.covered, account.registration,
                                w.latest, Digits, ~walk.settled \/ walk.windows >= MaxWindows)
    IN Finish(n, p, w, value, w.since)

-----------------------------------------------------------------------------
(* The answers *)

Awaits(p, at) == link = "up" /\ node[p].at = at

\* The trader, read before the history.
TraderRead(p) ==
    /\ Awaits(p, "trader")
    /\ node' = WalkBack(node, p, [node[p] EXCEPT !.trader = Trader(ledger)])
    /\ UNCHANGED <<now, ledger, account, link, counts>>

\* _read() is over, in _walk_back() or in _top_up().
ReadOver(n, p, w) ==
    LET walk == [w.walk EXCEPT !.covered = w.window[1], !.windows = @ + 1]
        found == BalanceAt(walk.t, walk.changes, walk.covered, account.registration,
                           [version |-> 0, balance |-> 0], Digits, walk.windows >= MaxWindows)
        settled == walk.failure = "none" /\ found # NeedEarlier
        next == WeeklyWindow(w.window[2], w.walk.upper)
    IN IF w.latest = NoTrader
       THEN WalkBack(n, p, [w EXCEPT !.walk = [walk EXCEPT !.settled = settled]])
       ELSE IF w.window[2] = w.walk.upper THEN WriteValue(n, p, w)
       ELSE [n EXCEPT ![p] = AskDeals(w, next)]

\* _paged(): one page of a deal list; a list that does not end fails the walk.
DealsPage(p) ==
    /\ Awaits(p, "deals")
    /\ \E page \in Pages({c \in Ledger : ~c.cash}, node[p].deals.window, account.newestFirst) :
          LET w == node[p]
              next == NextWindow(page.items, w.deals.window, account.newestFirst)
              read == [w EXCEPT !.deals.found = @ \cup page.items]
              cut == [read EXCEPT !.walk.failure = "incomplete"]
          IN node' = IF ~page.more THEN [node EXCEPT ![p] = [read EXCEPT !.at = "cash"]]
                     ELSE IF next = <<>> \/ w.deals.page = MaxPages THEN ReadOver(node, p, cut)
                     ELSE [node EXCEPT ![p] = [read EXCEPT !.deals.window = next,
                                                           !.deals.page = @ + 1]]
    /\ UNCHANGED <<now, ledger, account, link, counts>>

\* The window's cash flows, and its changes added; an item without a field fails the walk.
CashRead(p) ==
    /\ Awaits(p, "cash")
    /\ LET w == node[p]
           cash == {c \in InWindow(Ledger, w.window) : c.cash}
       IN \/ /\ node' = ReadOver(node, p, [w EXCEPT !.walk.changes = @ \cup w.deals.found \cup cash])
             /\ UNCHANGED counts
          \/ /\ counts.faults < MaxFaults /\ w.deals.found \cup cash # {}
             /\ counts' = [counts EXCEPT !.faults = @ + 1]
             /\ \E reason \in {"no_chain", "mixed_scales"} :
                   node' = ReadOver(node, p, [w EXCEPT !.walk.failure = reason])
    /\ UNCHANGED <<now, ledger, account, link>>

\* Where the deposit walk goes on from.
DepositFrom(n, window) == window[2]

\* A week of cash flows of the first-deposit walk; an item without a field ends it for good.
DepositRead(p) ==
    /\ Awaits(p, "deposit")
    /\ LET w == node[p]
           cash == {c \in InWindow(Ledger, w.window) : c.cash}
           found == FirstDeposit(cash)
           present == w.window[2] = w.since
           read == [node EXCEPT !.depositFrom = DepositFrom(node, w.window),
                                !.depositWindows = IF present THEN @ ELSE @ + 1,
                                !.deposit = found, !.caughtUp = present /\ found = Nothing]
       IN \/ /\ node' = IF found # Nothing \/ present THEN AskLatest(read, p, w)
                        ELSE DepositStep(read, p, [w EXCEPT !.left = @ - 1])
             /\ UNCHANGED counts
          \/ /\ counts.faults < MaxFaults /\ cash # {}
             /\ counts' = [counts EXCEPT !.faults = @ + 1]
             /\ node' = AskLatest([node EXCEPT !.depositFrom = w.window[2],
                                               !.depositWindows = MaxWindows], p, w)
    /\ UNCHANGED <<now, ledger, account, link>>

\* The deposit walk's lock is had.
LockTaken(p) ==
    /\ node[p].at = "lock" /\ node.lock = "free"
    /\ node' = DepositStep(node, p, node[p])
    /\ UNCHANGED <<now, ledger, account, link, counts>>

\* The trader read again, and the history since the walk began if it has moved (_top_up()).
LatestRead(p) ==
    /\ Awaits(p, "latest")
    /\ LET second == Trader(ledger)
           w == [node[p] EXCEPT !.since = now,
                                !.latest = IF second.version >= node[p].trader.version
                                           THEN second ELSE node[p].trader]
           walk == w.walk
           seen == \E c \in walk.changes : c.version >= w.latest.version
           upTo == [w EXCEPT !.walk.upper = now]
       IN node' = IF ~walk.settled \/ walk.failure # "none" \/ seen THEN WriteValue(node, p, w)
                  ELSE IF walk.upper = now THEN WriteValue(node, p, w)
                  ELSE [node EXCEPT ![p] = AskDeals(upTo, WeeklyWindow(walk.upper, now))]
    /\ UNCHANGED <<now, ledger, account, link, counts>>

\* A request is refused: the walk writes that it failed.
RequestFails(p) ==
    /\ link = "up" /\ node[p].at \notin {"idle", "lock"}
    /\ counts.faults < MaxFaults
    /\ counts' = [counts EXCEPT !.faults = @ + 1]
    /\ node' = Finish(node, p, [node[p] EXCEPT !.walk.failure = "request_failed"],
                      Value("request_failed", 0, Nothing), now)
    /\ UNCHANGED <<now, ledger, account, link>>

-----------------------------------------------------------------------------
(* The timer, the connection and the client *)

\* _fire() arms the timer for the checkpoint after the one just due.
FireAgain(n) == Arm(n, IF n.timer >= now - Grace THEN n.timer ELSE now - Grace)

TimerFires ==
    /\ node.timer # NoTime /\ now >= node.timer + Grace
    /\ node' = Run(FireAgain(node), "task", NoTrader, FALSE)
    /\ UNCHANGED <<now, ledger, account, link, counts>>

\* The connection is lost: the walks that ask end.
Loses ==
    /\ link = "up" /\ counts.losses < MaxLosses
    /\ counts' = [counts EXCEPT !.losses = @ + 1]
    /\ link' = "down"
    /\ LET connect == IF node.connect = Idle THEN node ELSE GivenUp(node, "connect")
           both == IF node.task = Idle THEN connect ELSE GivenUp(connect, "task")
       IN node' = [both EXCEPT !.reload = NoTrader]
    /\ UNCHANGED <<now, ledger, account>>

\* The reconnect's pass reads the trader (_reload()).
Reconnects ==
    /\ link = "down"
    /\ link' = "up"
    /\ node' = IF node.stopped THEN node ELSE [node EXCEPT !.reload = Trader(ledger)]
    /\ UNCHANGED <<now, ledger, account, counts>>

\* refresh(), at the end of the pass; the walk in the background is given up for it.
RefreshAgain ==
    /\ node.reload # NoTrader /\ link = "up"
    /\ LET n == [node EXCEPT !.reload = NoTrader] IN
       node' = IF n.stopped THEN n ELSE Run(CancelTask(n), "connect", node.reload, TRUE)
    /\ UNCHANGED <<now, ledger, account, link, counts>>

\* stop(); the client's own refresh is not cancelled by it.
Stop ==
    /\ ~node.stopped
    /\ node' = CancelTask([node EXCEPT !.stopped = TRUE, !.timer = NoTime])
    /\ UNCHANGED <<now, ledger, account, link, counts>>

\* External: time passes.
Tick ==
    /\ now < MaxNow
    /\ now' = now + 1
    /\ UNCHANGED <<ledger, account, link, node, counts>>

\* External: the balance changes.
BalanceChanges ==
    /\ counts.changes < MaxChanges
    /\ counts' = [counts EXCEPT !.changes = @ + 1]
    /\ \E c \in Changes(ledger, BrokerNow) :
          /\ ledger' = Append(ledger, c)
          /\ node' = [node EXCEPT !.slipped = @ \/ (OnZero(c) /\ c.ts < node.depositFrom)]
    /\ UNCHANGED <<now, account, link>>

-----------------------------------------------------------------------------
Init ==
    /\ now = Start
    /\ \E a \in Accounts :
          /\ ledger = a.changes
          /\ account = [registration |-> a.registration, newestFirst |-> a.newestFirst]
    /\ link = "up"
    /\ node = Run(NewNode, "connect", Trader(ledger), TRUE)
    /\ counts = [changes |-> 0, losses |-> 0, faults |-> 0]

Answers(p) ==
    \/ TraderRead(p)
    \/ DealsPage(p)
    \/ CashRead(p)
    \/ DepositRead(p)
    \/ LockTaken(p)
    \/ LatestRead(p)

Next ==
    \/ \E p \in {"connect", "task"} : Answers(p) \/ RequestFails(p)
    \/ TimerFires
    \/ Loses
    \/ Reconnects
    \/ RefreshAgain
    \/ Stop
    \/ Tick
    \/ BalanceChanges

Spec == Init /\ [][Next]_vars

-----------------------------------------------------------------------------
(* Properties *)

\* A deal list that is said to have ended holds every deal its window had when it was first
\* asked for, whichever order the pages come in and wherever a page cuts a millisecond
\* (_paged(), _next_window()).
DealListWhole ==
    \A p \in {"connect", "task"} : node[p].at = "cash" => node[p].asked \subseteq node[p].deals.found

\* The balance stated for a checkpoint is the account's balance right before it.  A key
\* written while the broker's clock was still before the checkpoint may be overtaken by a
\* change; the timer then rewrites it once the grace is over (schedule(), balance_at()).
CheckpointTrue ==
    LET key == node.key
        quiet == /\ link = "up" /\ node.reload = NoTrader /\ ~node.stopped
                 /\ node.connect = Idle /\ node.task = Idle /\ node.timer > key.t
    IN (key.status = "available" /\ (key.final \/ quiet)) => key.balance = TrueBalance(key.t)

\* The first deposit stated is the account's first, and the walk that looks for it never
\* passes it by, though it is shared by overlapping refreshes, cut short and taken up again
\* (_walk_deposit_locked()).
\* Left out: a deposit stamped, by a broker's clock behind the node's, before the place the
\* walk had reached.
FirstDepositTrue ==
    (account.registration # NoTime /\ ~node.slipped) =>
        /\ node.key.deposit # Nothing => node.key.deposit = TrueDeposit
        /\ (node.deposit = Nothing /\ node.depositWindows < MaxWindows) =>
              \A c \in Ledger : OnZero(c) => c.ts >= node.depositFrom

\* The key never goes back to an earlier checkpoint, and nothing is written, armed or left
\* running in the background once stopped (_settle(), _put(), stop()).
KeyNeverGoesBack ==
    [][/\ node'.key.t >= node.key.t
       /\ node.stopped => /\ node'.key = node.key /\ node'.timer = NoTime
                          /\ node'.task = Idle]_vars

\* The checkpoints past whose value is neither written nor on its way: no timer is armed
\* for them, no walk reads for them, and no reconnect will.
Forgotten ==
    LET reads(w) == {t \in Checkpoints : w # Idle /\ t <= w.walk.t} IN
    {t \in Checkpoints : /\ node.key.t < t /\ t + Grace <= now
                         /\ node.refreshed /\ ~node.stopped
                         /\ link = "up" /\ node.reload = NoTrader
                         /\ ~(node.timer # NoTime /\ node.timer <= t)
                         /\ t \notin reads(node.connect) \cup reads(node.task)}

\* Every checkpoint is written, with a balance or with the reason why not: at its time, or
\* by the reconnect of a connection lost then (_fire(), schedule(), refresh()).
EachCheckpointWritten == Forgotten = {}

\* The same, but for a checkpoint that a refresh begun before it overran: the connect's,
\* still running as the grace ended, or a reconnect's that then took over the background.
CheckpointWritten == Forgotten \subseteq node.skipped

\* What the key states is true of the account, the balance and the first deposit, and each
\* checkpoint that no refresh overran gets its key.
KeyTrue == CheckpointTrue /\ FirstDepositTrue /\ CheckpointWritten

=============================================================================
