-------------------------- MODULE RequestScheduler --------------------------
(***************************************************************************)
(* The outbound request scheduler (common/rate_limit.py).                  *)
(*                                                                         *)
(* Requests of one pacing group wait in a heap ordered by priority, then   *)
(* arrival.  A dispatcher task per group grants at most Limit[g] of them   *)
(* in any Window, and none while a venue refusal has paused the group.  A  *)
(* refused historical request is queued again, any other is not.  A lost   *)
(* connection fails what waits (fail_all) and a new one starts afresh      *)
(* (reset).                                                                *)
(*                                                                         *)
(* Everything a task does between two awaits is one action.  Time is       *)
(* discrete; a timer fires at or after its due time, at most Lag late.     *)
(***************************************************************************)
EXTENDS Integers, Sequences, FiniteSets

CONSTANTS
    Requests,     \* calls of submit(), each made once
    Groups,       \* the pacing groups
    Historical,   \* the one group whose refused requests are resent
    GroupOf,      \* group_of(payload): [Requests -> Groups]
    Priority,     \* RequestPriority, lower first: [Requests -> Nat]
    Limit,        \* grants per window: [Groups -> Nat \ {0}]
    Window,       \* Pacing.window_secs
    Retries,      \* Pacing.retries
    QueueTimeout, \* Pacing.queue_timeout_secs
    MaxPause,     \* Pacing.max_pause_secs
    PauseMargin,  \* RATE_LIMIT_PAUSE_MARGIN_SECS
    RetryAfters,  \* the retryAfter values the venue may ask for
    Horizon,      \* bound: no request arrives, and no idle time passes, after it
    Lag           \* bound: how late a timer callback may run

\* Pacing.__post_init__ refuses anything else.
ASSUME PacingAssumption ==
    /\ IsFiniteSet(Requests)
    /\ Historical \in Groups
    /\ GroupOf \in [Requests -> Groups]
    /\ Priority \in [Requests -> Nat]
    /\ Limit \in [Groups -> Nat \ {0}]
    /\ Window \in Nat \ {0}
    /\ QueueTimeout \in Nat \ {0}
    /\ MaxPause \in Nat \ {0}
    /\ Retries \in Nat

ASSUME BoundAssumption ==
    /\ PauseMargin \in Nat
    /\ RetryAfters \subseteq Nat
    /\ Horizon \in Nat
    /\ Lag \in Nat

VARIABLES
    now,         \* clock()
    phase,       \* where each submit() call is
    outcome,     \* how it ended
    seq,         \* its place in arrival order, kept by its retries
    arrivals,    \* next(self._sequence)
    queuedAt,    \* when its current attempt was queued
    waited,      \* time it spent queued in earlier attempts
    attempt,     \* rate-limit refusals it has met
    heap,        \* _Group.heap; an entry no longer "queued" is dead
    granted,     \* _Group.granted, the grants still inside the window
    pausedUntil, \* _Group.paused_until; 0 for "not paused"
    dispatcher,  \* _Group.dispatcher: no task, about to run, or asleep
    wakeAt,      \* when a sleeping dispatcher is due; 0 unless asleep
    failed,      \* whether _failed is latched
    log          \* history: every grant since the last reset, oldest first

callVars == <<phase, outcome, seq, arrivals, queuedAt, waited, attempt>>
groupVars == <<heap, granted, pausedUntil, dispatcher, wakeAt>>
vars == <<now, callVars, groupVars, failed, log>>

Phases == {"idle", "queued", "granted", "failed", "sending", "done"}
\* "timeout" and "lost" are the two CTraderNotSentError classes submit() raises.
NotSent == {"timeout", "lost"}
Outcomes == {"none", "answered", "refused", "cancelled"} \cup NotSent

TypeOK ==
    /\ now \in Nat
    /\ phase \in [Requests -> Phases]
    /\ outcome \in [Requests -> Outcomes]
    /\ seq \in [Requests -> Nat]
    /\ arrivals \in Nat
    /\ queuedAt \in [Requests -> Nat]
    /\ waited \in [Requests -> Nat]
    /\ attempt \in [Requests -> Nat]
    /\ heap \in [Groups -> SUBSET Requests]
    /\ granted \in [Groups -> Seq(Nat)]
    /\ pausedUntil \in [Groups -> Nat]
    /\ dispatcher \in [Groups -> {"none", "ready", "asleep"}]
    /\ wakeAt \in [Groups -> Nat]
    /\ failed \in BOOLEAN
    /\ log \in [Groups -> Seq(Nat)]

Init ==
    /\ now = 0
    /\ phase = [r \in Requests |-> "idle"]
    /\ outcome = [r \in Requests |-> "none"]
    /\ seq = [r \in Requests |-> 0]
    /\ arrivals = 0
    /\ queuedAt = [r \in Requests |-> 0]
    /\ waited = [r \in Requests |-> 0]
    /\ attempt = [r \in Requests |-> 0]
    /\ heap = [g \in Groups |-> {}]
    /\ granted = [g \in Groups |-> <<>>]
    /\ pausedUntil = [g \in Groups |-> 0]
    /\ dispatcher = [g \in Groups |-> "none"]
    /\ wakeAt = [g \in Groups |-> 0]
    /\ failed = FALSE
    /\ log = [g \in Groups |-> <<>>]

-----------------------------------------------------------------------------
(* Queueing *)

LargerOf(a, b) == IF a >= b THEN a ELSE b
SmallerOf(a, b) == IF a <= b THEN a ELSE b

\* The heap order on (priority, sequence).
Before(r, s) ==
    \/ Priority[r] < Priority[s]
    \/ Priority[r] = Priority[s] /\ seq[r] < seq[s]

\* Mutant: the call relies on a dispatcher that may have returned.
EnqueueNoDispatcher(r, w) ==
    /\ phase' = [phase EXCEPT ![r] = "queued"]
    /\ queuedAt' = [queuedAt EXCEPT ![r] = now]
    /\ heap' = [heap EXCEPT ![GroupOf[r]] = @ \cup {r}]
    /\ waited' = [waited EXCEPT ![r] = w]
    /\ UNCHANGED <<outcome, dispatcher>>

\* _wait_turn() once its two early raises are past: push an entry, and start
\* the group's dispatcher if it has none.
Enqueue(r, w) ==
    /\ phase' = [phase EXCEPT ![r] = "queued"]
    /\ queuedAt' = [queuedAt EXCEPT ![r] = now]
    /\ heap' = [heap EXCEPT ![GroupOf[r]] = @ \cup {r}]
    /\ waited' = [waited EXCEPT ![r] = w]
    /\ dispatcher' = [dispatcher EXCEPT ![GroupOf[r]] = IF @ = "none" THEN "ready" ELSE @]
    /\ UNCHANGED outcome

\* submit() returns or raises; its locals are gone.
Finish(r, how) ==
    /\ phase' = [phase EXCEPT ![r] = "done"]
    /\ outcome' = [outcome EXCEPT ![r] = how]
    /\ queuedAt' = [queuedAt EXCEPT ![r] = 0]
    /\ waited' = [waited EXCEPT ![r] = 0]

\* _wait_turn() up to its await, for a call that has waited w so far.
WaitTurn(r, w) ==
    \/ /\ failed
       /\ Finish(r, "lost")
       /\ UNCHANGED <<heap, dispatcher>>
    \/ /\ ~failed
       /\ QueueTimeout - w <= 0
       /\ Finish(r, "timeout")
       /\ UNCHANGED <<heap, dispatcher>>
    \/ /\ ~failed
       /\ QueueTimeout - w > 0
       /\ Enqueue(r, w)

Submit(r) ==
    /\ phase[r] = "idle"
    /\ now <= Horizon
    /\ seq' = [seq EXCEPT ![r] = arrivals]
    /\ arrivals' = arrivals + 1
    /\ WaitTurn(r, 0)
    /\ UNCHANGED <<now, attempt, granted, pausedUntil, wakeAt, failed, log>>

\* _sleep(budget) ends before the entry's future is done.
Deadline(r) == queuedAt[r] + QueueTimeout - waited[r]

QueueTimesOut(r) ==
    /\ phase[r] = "queued"
    /\ now >= Deadline(r)
    /\ Finish(r, "timeout")
    /\ UNCHANGED <<now, seq, arrivals, attempt, groupVars, failed, log>>

\* The awaiting caller is cancelled; a queued entry stays behind, dead.
Cancel(r) ==
    /\ phase[r] \in {"queued", "granted", "failed", "sending"}
    /\ Finish(r, "cancelled")
    /\ UNCHANGED <<now, seq, arrivals, attempt, groupVars, failed, log>>

\* Mutant: a request failed by fail_all() waits for the next connection to raise.
ResumeFailedOnReset(r) ==
    /\ phase[r] = "failed" /\ ~failed
    /\ Finish(r, "lost")
    /\ UNCHANGED <<now, seq, arrivals, attempt, groupVars, failed, log>>

\* The caller resumes: the future holds the fail_all() error ...
ResumeFailed(r) ==
    /\ phase[r] = "failed"
    /\ Finish(r, "lost")
    /\ UNCHANGED <<now, seq, arrivals, attempt, groupVars, failed, log>>

\* ... or its grant, and send() is entered.
ResumeGranted(r) ==
    /\ phase[r] = "granted"
    /\ phase' = [phase EXCEPT ![r] = "sending"]
    /\ waited' = [waited EXCEPT ![r] = @ + (now - queuedAt[r])]
    /\ UNCHANGED <<now, outcome, seq, arrivals, queuedAt, attempt, groupVars, failed, log>>

\* send() returns, or raises anything but a rate-limit refusal.
Answer(r) ==
    /\ phase[r] = "sending"
    /\ Finish(r, "answered")
    /\ UNCHANGED <<now, seq, arrivals, attempt, groupVars, failed, log>>

RetriesOf(g) == IF g = Historical THEN Retries ELSE 0

\* Mutant: a later, shorter refusal ends an earlier, longer pause.
PauseAfterLast(r, retryAfter) ==
    now + SmallerOf(retryAfter + PauseMargin, MaxPause)

\* How long the group of r is paused once the venue asks for retryAfter.
PauseAfter(r, retryAfter) ==
    LargerOf(pausedUntil[GroupOf[r]], now + SmallerOf(retryAfter + PauseMargin, MaxPause))

\* send() raises a rate-limit refusal: the group pauses, and a historical
\* request with a retry left is queued again under its old sequence number.
Refuse(r, retryAfter) ==
    /\ phase[r] = "sending"
    /\ pausedUntil' = [pausedUntil EXCEPT ![GroupOf[r]] = PauseAfter(r, retryAfter)]
    /\ attempt' = [attempt EXCEPT ![r] = @ + 1]
    /\ \/ /\ attempt[r] + 1 <= RetriesOf(GroupOf[r])
          /\ WaitTurn(r, waited[r])
       \/ /\ attempt[r] + 1 > RetriesOf(GroupOf[r])
          /\ Finish(r, "refused")
          /\ UNCHANGED <<heap, dispatcher>>
    /\ UNCHANGED <<now, seq, arrivals, granted, wakeAt, failed, log>>

-----------------------------------------------------------------------------
(* The dispatcher *)

Live(g) == {r \in heap[g] : phase[r] = "queued"}

\* Mutant: a grant leaves the window one tick early.
LeftWindowEarly(t) == t + Window <= now + 1

\* A grant at t no longer counts: the same sum decides this and when the
\* dispatcher sleeps until.
LeftWindow(t) == t + Window <= now

\* The popleft() loop drops the first k grants of g, and no more.
Expired(g, k) ==
    /\ k \in 0..Len(granted[g])
    /\ \A i \in 1..k : LeftWindow(granted[g][i])
    /\ k < Len(granted[g]) => ~LeftWindow(granted[g][k + 1])

\* The earliest time g may grant its next request.
ReadyAt(g, inWindow) ==
    IF Len(inWindow) >= Limit[g]
    THEN LargerOf(pausedUntil[g], inWindow[1] + Window)
    ELSE pausedUntil[g]

\* How many requests one uninterrupted run of the dispatcher grants.
Burst(g, inWindow) ==
    IF ReadyAt(g, inWindow) > now
    THEN 0
    ELSE SmallerOf(Limit[g] - Len(inWindow), Cardinality(Live(g)))

\* The n live requests of g that leave the heap first.
FirstOf(g, n) ==
    {r \in Live(g) : Cardinality({s \in Live(g) : Before(s, r)}) < n}

Times(n) == [i \in 1..n |-> now]

\* A run of _dispatch() from its start, or from the end of a sleep, to its
\* next await or its return: it drops the expired grants, grants while the
\* window has room, and pops the dead entries that surface.  With no live
\* entry left it returns, else it sleeps until the next grant may come.
DispatchAfter(g, expired) ==
    LET inWindow == SubSeq(granted[g], expired + 1, Len(granted[g]))
        n == Burst(g, inWindow)
        chosen == FirstOf(g, n)
        left == Live(g) \ chosen
    IN  /\ phase' = [r \in Requests |-> IF r \in chosen THEN "granted" ELSE phase[r]]
        /\ granted' = [granted EXCEPT ![g] = inWindow \o Times(n)]
        /\ log' = [log EXCEPT ![g] = @ \o Times(n)]
        /\ heap' = [heap EXCEPT ![g] =
                       {r \in @ : \E s \in left : r = s \/ Before(s, r)}]
        /\ \/ /\ left = {}
              /\ dispatcher' = [dispatcher EXCEPT ![g] = "none"]
              /\ wakeAt' = [wakeAt EXCEPT ![g] = 0]
           \/ /\ left # {}
              /\ dispatcher' = [dispatcher EXCEPT ![g] = "asleep"]
              /\ wakeAt' = [wakeAt EXCEPT ![g] = ReadyAt(g, inWindow \o Times(n))]

\* Nothing live is left: the dead entries are popped and the task returns
\* without looking at the window.
DispatchNothing(g) ==
    /\ Live(g) = {}
    /\ heap' = [heap EXCEPT ![g] = {}]
    /\ dispatcher' = [dispatcher EXCEPT ![g] = "none"]
    /\ wakeAt' = [wakeAt EXCEPT ![g] = 0]
    /\ UNCHANGED <<phase, granted, log>>

Dispatch(g) ==
    /\ \/ dispatcher[g] = "ready"
       \/ dispatcher[g] = "asleep" /\ now >= wakeAt[g]
    /\ \/ DispatchNothing(g)
       \/ /\ Live(g) # {}
          /\ \E expired \in 0..Len(granted[g]) :
                Expired(g, expired) /\ DispatchAfter(g, expired)
    /\ UNCHANGED <<now, outcome, seq, arrivals, queuedAt, waited, attempt, pausedUntil, failed>>

-----------------------------------------------------------------------------
(* Losing and replacing the connection *)

FailAll ==
    /\ failed' = TRUE
    /\ phase' = [r \in Requests |->
                    IF \E g \in Groups : r \in Live(g) THEN "failed" ELSE phase[r]]
    /\ heap' = [g \in Groups |-> {}]
    /\ dispatcher' = [g \in Groups |-> "none"]
    /\ wakeAt' = [g \in Groups |-> 0]
    /\ UNCHANGED <<now, outcome, seq, arrivals, queuedAt, waited, attempt, granted,
                   pausedUntil, log>>

\* A new connection: its window starts empty, and so does the history of it.
Reset ==
    /\ failed' = FALSE
    /\ granted' = [g \in Groups |-> <<>>]
    /\ pausedUntil' = [g \in Groups |-> 0]
    /\ dispatcher' = [g \in Groups |-> IF heap[g] # {} THEN "ready" ELSE "none"]
    /\ wakeAt' = [g \in Groups |-> 0]
    /\ log' = [g \in Groups |-> <<>>]
    /\ UNCHANGED <<now, callVars, heap>>

\* The loop's clock.  It idles at the Horizon unless something waits, and no
\* due timer is left more than Lag behind.
Tick ==
    /\ now < Horizon \/ \E r \in Requests : phase[r] = "queued"
    /\ \A r \in Requests : phase[r] = "queued" => now < Deadline(r) + Lag
    /\ now' = now + 1
    /\ UNCHANGED <<callVars, groupVars, failed, log>>

Next ==
    \/ \E r \in Requests :
          \/ Submit(r) \/ QueueTimesOut(r) \/ Cancel(r)
          \/ ResumeFailed(r) \/ ResumeGranted(r) \/ Answer(r)
          \/ \E retryAfter \in RetryAfters : Refuse(r, retryAfter)
    \/ \E g \in Groups : Dispatch(g)
    \/ FailAll
    \/ Reset
    \/ Tick

Spec == Init /\ [][Next]_vars

\* The event loop runs every task that is ready and every timer that is due,
\* and its clock advances.  Nothing is assumed of callers, venue or network.
Fairness ==
    /\ WF_vars(Tick)
    /\ \A g \in Groups : WF_vars(Dispatch(g))
    /\ \A r \in Requests : WF_vars(QueueTimesOut(r) \/ ResumeFailed(r) \/ ResumeGranted(r))

FairSpec == Spec /\ Fairness

-----------------------------------------------------------------------------
(* Properties *)

\* At most Limit[g] requests are granted within any Window since the scheduler
\* was reset (docstring of RequestScheduler): a grant and the Limit[g]-th one
\* after it are at least a Window apart, over resends, pauses, cancelled
\* callers and dispatchers that were stopped and restarted.
WindowLimit ==
    \A g \in Groups : \A i \in 1..Len(log[g]) :
        i + Limit[g] <= Len(log[g]) => log[g][i] + Window <= log[g][i + Limit[g]]

\* A request is waiting only while its group has a dispatcher that will look at
\* it: neither a dispatcher's return, fail_all() nor reset() strands an entry.
NoStrandedRequest ==
    \A r \in Requests :
        phase[r] = "queued" => r \in heap[GroupOf[r]] /\ dispatcher[GroupOf[r]] # "none"

\* A request of any group but the historical one is handed to the venue once at
\* most, so no order goes out twice; a historical one at most 1 + Retries times.
\* A resend needs another refusal, so refusals met bound what was sent.
NeverResent ==
    \A r \in Requests :
        /\ attempt[r] <= RetriesOf(GroupOf[r]) + 1
        /\ GroupOf[r] # Historical /\ attempt[r] > 0 => phase[r] = "done"

\* No grant leaves a group before every pause the venue ordered on this
\* connection is over, a refusal that lands while the dispatcher sleeps included.
PauseHonoured ==
    [][\A g \in Groups, r \in Requests :
          /\ pausedUntil'[g] < pausedUntil[g] => pausedUntil'[g] = 0 /\ log'[g] = <<>>
          /\ phase[r] = "queued" /\ phase'[r] = "granted" /\ GroupOf[r] = g
                => now >= pausedUntil[g]]_vars

\* Every queued request is granted, times out or fails: none waits for ever,
\* whatever becomes of the connection and of the other callers.
QueuedSettles ==
    \A r \in Requests : phase[r] = "queued" ~> phase[r] \in {"sending", "done"}

=============================================================================
