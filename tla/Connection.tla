----------------------------- MODULE Connection -----------------------------
(***************************************************************************)
(* The socket connection (common/connection.py): one socket at a time,     *)
(* requests correlated with replies by a fresh id per frame, a read loop   *)
(* and a heartbeat loop that both may declare the connection lost.         *)
(*                                                                         *)
(* The scheduler is its interface (RequestScheduler models it): a request  *)
(* waits "queued", is "granted", or is "failed" by fail_all(); a refused   *)
(* resendable one goes back to the queue.  Everything between two awaits   *)
(* is one action.  The owner, the session, opens and closes the socket.    *)
(***************************************************************************)
EXTENDS Naturals, FiniteSets

CONSTANTS
    Requests,       \* calls of request(), each made once
    Resendable,     \* those of the historical group
    Retries,        \* Pacing.retries
    MaxGeneration   \* bound: sockets opened in a behaviour

ASSUME ConnectionAssumption ==
    /\ Resendable \subseteq Requests
    /\ Retries \in Nat
    /\ MaxGeneration \in Nat

VARIABLES
    up,          \* _connected
    socket,      \* _writer is not None
    generation,  \* _generation
    reader,      \* whether the read loop runs
    heartbeat,   \* whether the heartbeat loop runs
    stage,       \* where each request() call is
    madeOn,      \* the generation the call captured
    attempt,     \* frames the call has written
    future,      \* the future of its current exchange
    pending,     \* _pending: the calls whose current frame awaits its reply
    wire,        \* frames the venue may still answer on the open socket
    ending,      \* how each call ended
    sentOn,      \* history: the generation each frame was written on
    refused,     \* history: frames of each call the venue refused
    adopted,     \* history: replies handed to the event handler
    told,        \* history: disconnect handler calls per generation
    lostBy       \* history: how each generation ended

callVars == <<stage, madeOn, attempt, future, ending>>
linkVars == <<up, socket, generation, reader, heartbeat>>
history == <<sentOn, refused, adopted, told, lostBy>>
vars == <<linkVars, callVars, pending, wire, history>>

Generations == 1..MaxGeneration
Frames == Requests \X (1..(Retries + 1))
Stages == {"idle", "queued", "failed", "granted", "draining", "awaiting", "expired", "done"}
FutureStates == {"none", "waiting", "reply", "refusal", "error", "cancelled"}
Endings == {"none", "reply", "refused", "notSent", "unknown", "cancelled"}

TypeOK ==
    /\ up \in BOOLEAN /\ socket \in BOOLEAN
    /\ reader \in BOOLEAN /\ heartbeat \in BOOLEAN
    /\ generation \in 0..MaxGeneration
    /\ stage \in [Requests -> Stages]
    /\ madeOn \in [Requests -> 0..MaxGeneration]
    /\ attempt \in [Requests -> 0..(Retries + 1)]
    /\ future \in [Requests -> FutureStates]
    /\ pending \subseteq Requests
    /\ wire \subseteq Frames
    /\ ending \in [Requests -> Endings]
    /\ sentOn \in [Frames -> 0..MaxGeneration]
    /\ refused \in [Requests -> 0..(Retries + 1)]
    /\ adopted \subseteq Frames
    /\ told \in [Generations -> Nat]
    /\ lostBy \in [Generations -> {"none", "loss", "close"}]

Init ==
    /\ up = FALSE /\ socket = FALSE /\ reader = FALSE /\ heartbeat = FALSE
    /\ generation = 0
    /\ stage = [r \in Requests |-> "idle"]
    /\ madeOn = [r \in Requests |-> 0]
    /\ attempt = [r \in Requests |-> 0]
    /\ future = [r \in Requests |-> "none"]
    /\ pending = {}
    /\ wire = {}
    /\ ending = [r \in Requests |-> "none"]
    /\ sentOn = [f \in Frames |-> 0]
    /\ refused = [r \in Requests |-> 0]
    /\ adopted = {}
    /\ told = [g \in Generations |-> 0]
    /\ lostBy = [g \in Generations |-> "none"]

-----------------------------------------------------------------------------
(* The socket *)

\* connect(); its failure leaves everything as it was.
Connect ==
    /\ ~up /\ ~socket
    /\ generation < MaxGeneration
    /\ generation' = generation + 1
    /\ up' = TRUE /\ socket' = TRUE /\ reader' = TRUE /\ heartbeat' = TRUE
    /\ UNCHANGED <<callVars, pending, wire, history>>

\* _reject_pending() and _fail_queued().
RejectAll ==
    /\ pending' = {}
    /\ future' = [r \in Requests |->
                     IF r \in pending /\ future[r] = "waiting" THEN "error" ELSE future[r]]
    /\ stage' = [r \in Requests |-> IF stage[r] = "queued" THEN "failed" ELSE stage[r]]

\* _fail(): whoever notices, the disconnect handler is called for the first.
Fail ==
    /\ up' = FALSE
    /\ RejectAll
    /\ told' = [told EXCEPT ![generation] = IF up THEN @ + 1 ELSE @]
    /\ lostBy' = [lostBy EXCEPT ![generation] = IF up THEN "loss" ELSE @]

\* _read_loop() ends: the peer closed, a read or protocol error.  It may run on
\* after a loss the heartbeat loop noticed.
ReadFails ==
    /\ reader
    /\ reader' = FALSE
    /\ Fail
    /\ UNCHANGED <<socket, generation, heartbeat, madeOn, attempt, ending, wire,
                   sentOn, refused, adopted>>

\* _heartbeat_loop() finds the venue silent, or the connection already down.
HeartbeatEnds ==
    /\ heartbeat
    /\ heartbeat' = FALSE
    /\ \/ up /\ Fail
       \/ ~up /\ UNCHANGED <<up, pending, future, stage, told, lostBy>>
    /\ UNCHANGED <<socket, generation, reader, madeOn, attempt, ending, wire,
                   sentOn, refused, adopted>>

\* close(), up to its first await; closing twice changes nothing more.
Close ==
    /\ socket
    /\ up' = FALSE /\ socket' = FALSE /\ reader' = FALSE /\ heartbeat' = FALSE
    /\ RejectAll
    /\ wire' = {}
    /\ lostBy' = [lostBy EXCEPT ![generation] = IF up THEN "close" ELSE @]
    /\ UNCHANGED <<generation, madeOn, attempt, ending, sentOn, refused, adopted, told>>

-----------------------------------------------------------------------------
(* request() and _exchange() *)

Finish(r, how) ==
    /\ stage' = [stage EXCEPT ![r] = "done"]
    /\ ending' = [ending EXCEPT ![r] = how]

\* request() up to the scheduler's queue.
Request(r) ==
    /\ stage[r] = "idle"
    /\ \/ /\ ~up
          /\ Finish(r, "notSent")
          /\ UNCHANGED madeOn
       \/ /\ up
          /\ stage' = [stage EXCEPT ![r] = "queued"]
          /\ madeOn' = [madeOn EXCEPT ![r] = generation]
          /\ UNCHANGED ending
    /\ UNCHANGED <<linkVars, attempt, future, pending, wire, history>>

\* The scheduler grants the turn; the caller resumes in a later loop turn.
Grant(r) ==
    /\ stage[r] = "queued"
    /\ stage' = [stage EXCEPT ![r] = "granted"]
    /\ UNCHANGED <<linkVars, madeOn, attempt, future, ending, pending, wire, history>>

\* CTraderQueueTimeoutError, or the fail_all() error reaching its caller.
LeaveQueue(r) ==
    /\ stage[r] \in {"queued", "failed"}
    /\ Finish(r, "notSent")
    /\ UNCHANGED <<linkVars, madeOn, attempt, future, pending, wire, history>>

\* Mutant: a socket is a socket, whichever generation the request was made on.
MayWriteAnySocket(r) == up /\ socket

\* The fence in _write().
MayWrite(r) == up /\ socket /\ generation = madeOn[r]

Write(r) ==
    LET n == attempt[r] + 1 IN
    /\ attempt' = [attempt EXCEPT ![r] = n]
    /\ sentOn' = [sentOn EXCEPT ![<<r, n>>] = generation]
    /\ wire' = wire \cup {<<r, n>>}
    /\ pending' = pending \cup {r}
    /\ future' = [future EXCEPT ![r] = "waiting"]
    /\ stage' = [stage EXCEPT ![r] = "draining"]
    /\ UNCHANGED ending

\* send() entered: encode (which may fail), the fence, the write, then drain().
Exchange(r) ==
    /\ stage[r] = "granted"
    /\ \/ /\ Finish(r, "notSent")  \* CTraderNotSentProtocolError, or the fence
          /\ UNCHANGED <<attempt, sentOn, wire, pending, future>>
       \/ /\ MayWrite(r)
          /\ Write(r)
    /\ UNCHANGED <<linkVars, madeOn, refused, adopted, told, lostBy>>

\* drain() returns and the wait for the reply begins.
Drained(r) ==
    /\ stage[r] = "draining"
    /\ stage' = [stage EXCEPT ![r] = "awaiting"]
    /\ UNCHANGED <<linkVars, madeOn, attempt, future, ending, pending, wire, history>>

\* Mutant: a failed drain is taken for a frame that never left.
DrainFailsNotSent(r) ==
    /\ stage[r] = "draining"
    /\ Finish(r, "notSent")
    /\ pending' = pending \ {r}
    /\ UNCHANGED <<linkVars, madeOn, attempt, future, wire, history>>

\* drain() finds the transport broken, perhaps before the read loop does.
DrainFails(r) ==
    /\ stage[r] = "draining"
    /\ Finish(r, "unknown")
    /\ pending' = pending \ {r}
    /\ UNCHANGED <<linkVars, madeOn, attempt, future, wire, history>>

\* Mutant: no deadline; only a lost connection ends the wait.
TimerFiresOnlyDown(r) ==
    /\ stage[r] = "awaiting" /\ ~up
    /\ stage' = [stage EXCEPT ![r] = "expired"]
    /\ future' = [future EXCEPT ![r] = IF @ = "waiting" THEN "cancelled" ELSE @]
    /\ UNCHANGED <<linkVars, madeOn, attempt, ending, pending, wire, history>>

\* The deadline of wait_for() passes: it cancels a future still waiting, and
\* wins over one that is done but whose caller has not run yet.
TimerFires(r) ==
    /\ stage[r] = "awaiting"
    /\ stage' = [stage EXCEPT ![r] = "expired"]
    /\ future' = [future EXCEPT ![r] = IF @ = "waiting" THEN "cancelled" ELSE @]
    /\ UNCHANGED <<linkVars, madeOn, attempt, ending, pending, wire, history>>

\* CTraderTimeoutError reaches the caller.
ResumeExpired(r) ==
    /\ stage[r] = "expired"
    /\ Finish(r, "unknown")
    /\ pending' = pending \ {r}
    /\ UNCHANGED <<linkVars, madeOn, attempt, future, wire, history>>

\* The reply, a request error among them, or the error of the lost connection.
ResumeAnswered(r) ==
    /\ stage[r] = "awaiting"
    /\ \/ future[r] = "reply" /\ Finish(r, "reply")
       \/ future[r] = "error" /\ Finish(r, "unknown")
    /\ pending' = pending \ {r}
    /\ UNCHANGED <<linkVars, madeOn, attempt, future, wire, history>>

RetriesOf(r) == IF r \in Resendable THEN Retries ELSE 0

\* A rate-limit refusal returns to the scheduler, which queues a resendable
\* request again unless the connection was lost meanwhile.
ResumeRefused(r) ==
    /\ stage[r] = "awaiting" /\ future[r] = "refusal"
    /\ pending' = pending \ {r}
    /\ \/ attempt[r] > RetriesOf(r) /\ Finish(r, "refused")
       \/ attempt[r] <= RetriesOf(r) /\ ~up /\ Finish(r, "notSent")
       \/ /\ attempt[r] <= RetriesOf(r) /\ up
          /\ stage' = [stage EXCEPT ![r] = "queued"]
          /\ UNCHANGED ending
    /\ UNCHANGED <<linkVars, madeOn, attempt, future, wire, history>>

\* The caller is cancelled at any await.
Cancel(r) ==
    /\ stage[r] \notin {"idle", "done"}
    /\ Finish(r, "cancelled")
    /\ pending' = pending \ {r}
    /\ UNCHANGED <<linkVars, madeOn, attempt, future, wire, history>>

-----------------------------------------------------------------------------
(* Replies *)

\* Whether the future of frame f is the one _pending holds, and not yet done.
Awaited(f) == f[1] \in pending /\ f[2] = attempt[f[1]] /\ future[f[1]] = "waiting"

Settle(f, answer) ==
    /\ future' = [future EXCEPT ![f[1]] = answer]
    /\ pending' = pending \ {f[1]}

\* _dispatch() of a reply read while up: to its future if that still waits, else
\* to the event handler.  Either way its id leaves _pending.
DispatchReply(f, answer) ==
    \/ /\ Awaited(f)
       /\ Settle(f, answer)
       /\ UNCHANGED adopted
    \/ /\ ~Awaited(f)
       /\ pending' = IF f[2] = attempt[f[1]] THEN pending \ {f[1]} ELSE pending
       /\ adopted' = adopted \cup {f}
       /\ UNCHANGED future

\* The read loop reads the venue's answer to f; after a loss it goes nowhere.
ReadReply(f, answer) ==
    /\ reader
    /\ f \in wire
    /\ wire' = wire \ {f}
    /\ \/ /\ ~up
          /\ UNCHANGED <<future, pending, adopted, refused>>
       \/ /\ up
          /\ DispatchReply(f, answer)
          /\ refused' = [refused EXCEPT ![f[1]] = IF answer = "refusal" THEN @ + 1 ELSE @]
    /\ UNCHANGED <<linkVars, stage, madeOn, attempt, ending, sentOn, told, lostBy>>

Next ==
    \/ Connect \/ ReadFails \/ HeartbeatEnds \/ Close
    \/ \E r \in Requests :
          \/ Request(r) \/ Grant(r) \/ LeaveQueue(r) \/ Exchange(r)
          \/ Drained(r) \/ DrainFails(r) \/ TimerFires(r)
          \/ ResumeExpired(r) \/ ResumeAnswered(r) \/ ResumeRefused(r) \/ Cancel(r)
    \/ \E f \in Frames, answer \in {"reply", "refusal"} : ReadReply(f, answer)

Spec == Init /\ [][Next]_vars

\* The scheduler grants a queued request or times it out (QueuedSettles of
\* RequestScheduler), the event loop runs a ready caller and a due timer, and a
\* drain ends: the peer reads on, or the broken socket is closed.  Nothing is
\* assumed of the venue's answers, of the network or of the owner.
Fairness ==
    \A r \in Requests :
        /\ WF_vars(Grant(r) \/ LeaveQueue(r))
        /\ WF_vars(Exchange(r))
        /\ WF_vars(Drained(r) \/ DrainFails(r))
        /\ WF_vars(TimerFires(r) \/ ResumeAnswered(r) \/ ResumeRefused(r))
        /\ WF_vars(ResumeExpired(r))

FairSpec == Spec /\ Fairness

-----------------------------------------------------------------------------
(* Properties *)

\* A frame leaves on the socket its request was made on or not at all: a wait in
\* the queue or between resends never carries it to the next connection, where
\* the account may not be authenticated ("must fail, never go out on the next").
GenerationFence ==
    \A f \in Frames : sentOn[f] # 0 => sentOn[f] = madeOn[f[1]]

\* Once the connection is down nobody is left waiting for a reply that cannot
\* come: every exchange's future is settled and _pending is empty.
NobodyWaitsOnDeadLink ==
    ~up => /\ pending = {}
           /\ \A r \in Requests :
                 stage[r] \in {"draining", "awaiting"} => future[r] # "waiting"

\* The disconnect handler hears of each loss exactly once, whichever of the two
\* loops notices it first and whatever the other finds later, and never of a
\* connection its owner closed.
DisconnectToldOnce ==
    \A g \in Generations : told[g] = IF lostBy[g] = "loss" THEN 1 ELSE 0

\* No reply is delivered twice: the event handler adopts only replies whose
\* caller was told something else.
DeliveredOnce ==
    \A f \in adopted : f[2] = attempt[f[1]] => ending[f[1]] \notin {"reply", "refused"}

\* A connection ends once and for all its users: no frame crosses to the next generation,
\* nobody waits on a link that is down, its loss is told once, and what a reply settled is
\* not delivered again (_fail(), _write(), _dispatch()).
GenerationsApart ==
    GenerationFence /\ NobodyWaitsOnDeadLink /\ DisconnectToldOnce /\ DeliveredOnce

\* Whatever becomes of venue, socket and owner, every request() returns.
EveryRequestReturns ==
    \A r \in Requests : stage[r] # "idle" ~> stage[r] = "done"

-----------------------------------------------------------------------------
(* Refinement *)

Calls == INSTANCE RequestContract WITH
    open <- {r \in Requests : stage[r] \notin {"idle", "done"}},
    ending <- ending,
    standing <- [r \in Requests |-> attempt[r] - refused[r]]

\* The connection keeps the contract: one ending per call, never two frames of
\* it standing at the venue, and no "notSent" or "refused" while one stands.
KeepsContract == Calls!Contract

=============================================================================
