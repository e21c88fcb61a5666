------------------------------- MODULE Session -------------------------------
(***************************************************************************)
(* The session supervisor (common/session.py): start() and stop(), one     *)
(* supervisor task that brings the session up and waits for its loss, the  *)
(* restores it replays, the loss listeners it tells, and the account's     *)
(* task that retries failed restores.                                      *)
(*                                                                         *)
(* Everything between two awaits is one action.  Account authentication is *)
(* one await here; TokenRefresh models the token exchange inside it.       *)
(* Connection gives the interface to the socket: it is dropped (which      *)
(* calls _on_disconnect at once), closed, or broken under a write.         *)
(***************************************************************************)
EXTENDS Naturals, FiniteSets

CONSTANTS
    Keys,          \* restore keys
    Starters,      \* callers of start(), each calls once
    Stoppers,      \* callers of stop(), each calls once
    MaxBringUps,   \* bound: bring-ups begun in a behaviour
    None           \* no key

ASSUME SessionAssumption ==
    /\ MaxBringUps \in Nat \ {0}
    /\ None \notin Keys
    /\ IsFiniteSet(Stoppers)

VARIABLES
    state,           \* _state
    lost,            \* _lost
    stopping,        \* _stopping
    reauth,          \* _reauth_requested
    supervisor,      \* where the task _supervisor is, "none" without one
    todo,            \* the restores this bring-up has still to run
    current,         \* the restore it is running
    linkUp,          \* the connection's _connected
    linkOpen,        \* its _writer is not None
    bringUps,        \* _bring_up_generation
    restores,        \* the keys of _restores
    failedRestores,  \* _failed_restores
    retryTodo,       \* retry_failed_restores(): keys it has still to look at
    retryKey,        \* the restore it is running
    retryOf,         \* the bring-up generation it captured
    starting,        \* where each start() call is
    startEpoch,      \* the epoch it captured
    stops,           \* where each stop() call is
    stopsInProgress, \* _stops_in_progress
    stopIdle,        \* _stop_idle
    stopEpoch,       \* _stop_epoch
    lastCall,        \* history: the last of start() and stop() to be called
    untold,          \* history: _lost was set by a loss no listener has heard of
    broken,          \* history: the link broke under a ready or rising session, untold
    tells,           \* history: _tell_loss() calls per bring-up
    restoredIn       \* history: the bring-up in which each key was last restored

taskVars == <<supervisor, todo, current>>
linkVars == <<linkUp, linkOpen>>
restoreVars == <<restores, failedRestores, restoredIn>>
retryVars == <<retryTodo, retryKey, retryOf>>
callVars == <<starting, startEpoch, stops, stopsInProgress, stopIdle, stopEpoch, lastCall>>
lossVars == <<untold, broken, tells>>
vars == <<state, lost, stopping, reauth, taskVars, linkVars, bringUps, restoreVars, retryVars,
          callVars, lossVars>>

States == {"STOPPED", "CONNECTING", "AUTHENTICATING", "RESTORING", "READY"}
SupervisorSteps == {"none", "begin", "connecting", "authenticating", "restoring", "up", "holding",
                    "closing", "closingFailed", "backingOff"}

TypeOK ==
    /\ state \in States
    /\ lost \in BOOLEAN /\ stopping \in BOOLEAN /\ reauth \in BOOLEAN
    /\ supervisor \in SupervisorSteps
    /\ todo \subseteq Keys
    /\ current \in Keys \cup {None}
    /\ linkUp \in BOOLEAN /\ linkOpen \in BOOLEAN
    /\ bringUps \in 0..MaxBringUps
    /\ restores \subseteq Keys
    /\ failedRestores \subseteq Keys
    /\ retryTodo \subseteq Keys
    /\ retryKey \in Keys \cup {None}
    /\ retryOf \in 0..MaxBringUps
    /\ starting \in [Starters -> {"idle", "waiting", "woken", "done"}]
    /\ startEpoch \in [Starters -> 0..Cardinality(Stoppers)]
    /\ stops \in [Stoppers -> {"idle", "closing", "done"}]
    /\ stopsInProgress \in 0..Cardinality(Stoppers)
    /\ stopIdle \in BOOLEAN
    /\ stopEpoch \in 0..Cardinality(Stoppers)
    /\ lastCall \in {"none", "start", "stop"}
    /\ untold \in BOOLEAN /\ broken \in BOOLEAN
    /\ tells \in [1..MaxBringUps -> Nat]
    /\ restoredIn \in [Keys -> 0..MaxBringUps]

Init ==
    /\ state = "STOPPED"
    /\ lost = FALSE /\ stopping = FALSE /\ reauth = FALSE
    /\ supervisor = "none" /\ todo = {} /\ current = None
    /\ linkUp = FALSE /\ linkOpen = FALSE
    /\ bringUps = 0
    /\ restores = Keys
    /\ failedRestores = {}
    /\ retryTodo = {} /\ retryKey = None /\ retryOf = 0
    /\ starting = [c \in Starters |-> "idle"]
    /\ startEpoch = [c \in Starters |-> 0]
    /\ stops = [c \in Stoppers |-> "idle"]
    /\ stopsInProgress = 0 /\ stopIdle = TRUE /\ stopEpoch = 0
    /\ lastCall = "none"
    /\ untold = FALSE /\ broken = FALSE
    /\ tells = [g \in 1..MaxBringUps |-> 0]
    /\ restoredIn = [k \in Keys |-> 0]

-----------------------------------------------------------------------------
(* start() and stop() *)

\* The two early returns of start() after its wait.
MayStart(epoch) == stopEpoch = epoch /\ supervisor = "none"

\* The rest of start(), for the epoch captured when it was called.
StartNow(c, epoch) ==
    /\ starting' = [starting EXCEPT ![c] = "done"]
    /\ \/ /\ MayStart(epoch)
          /\ stopping' = FALSE
          /\ reauth' = FALSE
          /\ supervisor' = "begin"
       \/ /\ ~MayStart(epoch)
          /\ UNCHANGED <<stopping, reauth, supervisor>>

\* start(): Event.wait() does not yield when no stop() is running.
Start(c) ==
    /\ starting[c] = "idle"
    /\ lastCall' = "start"
    /\ startEpoch' = [startEpoch EXCEPT ![c] = stopEpoch]
    /\ \/ stopIdle /\ StartNow(c, stopEpoch)
       \/ /\ ~stopIdle
          /\ starting' = [starting EXCEPT ![c] = "waiting"]
          /\ UNCHANGED <<stopping, reauth, supervisor>>
    /\ UNCHANGED <<state, lost, todo, current, linkVars, bringUps, restoreVars, retryVars,
                   stops, stopsInProgress, stopIdle, stopEpoch, lossVars>>

StartResumes(c) ==
    /\ starting[c] = "woken"
    /\ StartNow(c, startEpoch[c])
    /\ UNCHANGED <<state, lost, todo, current, linkVars, bringUps, restoreVars, retryVars,
                   startEpoch, stops, stopsInProgress, stopIdle, stopEpoch, lastCall, lossVars>>

\* stop() up to its first await: the tasks are cancelled and the socket closed
\* here, so nothing of the old session acts again.
Stop(c) ==
    /\ stops[c] = "idle"
    /\ stops' = [stops EXCEPT ![c] = "closing"]
    /\ stopsInProgress' = stopsInProgress + 1
    /\ stopEpoch' = stopEpoch + 1
    /\ stopIdle' = FALSE
    /\ lastCall' = "stop"
    /\ stopping' = TRUE
    /\ lost' = TRUE
    /\ state' = "STOPPED"
    /\ supervisor' = "none" /\ todo' = {} /\ current' = None
    /\ linkUp' = FALSE /\ linkOpen' = FALSE
    /\ untold' = FALSE /\ broken' = FALSE
    /\ UNCHANGED <<reauth, bringUps, restoreVars, retryVars, starting, startEpoch, tells>>

\* What stop() awaited has ended, or its caller was cancelled.
StopEnds(c) ==
    /\ stops[c] = "closing"
    /\ stops' = [stops EXCEPT ![c] = "done"]
    /\ stopsInProgress' = stopsInProgress - 1
    /\ \/ /\ stopsInProgress = 1
          /\ stopIdle' = TRUE
          /\ starting' = [s \in Starters |->
                             IF starting[s] = "waiting" THEN "woken" ELSE starting[s]]
       \/ stopsInProgress > 1 /\ UNCHANGED <<stopIdle, starting>>
    /\ UNCHANGED <<state, lost, stopping, reauth, taskVars, linkVars, bringUps, restoreVars,
                   retryVars, startEpoch, stopEpoch, lastCall, lossVars>>

-----------------------------------------------------------------------------
(* The supervisor *)

\* The top of _supervise()'s loop, to the await of connect(): at the start, after
\* a back-off, or straight after a teardown when the loss was a requested
\* re-authentication or ended a stable session.
BeginBringUp ==
    /\ supervisor \in {"begin", "closing", "backingOff"}
    /\ bringUps < MaxBringUps
    /\ reauth' = IF supervisor = "closing" THEN FALSE ELSE reauth
    /\ lost' = FALSE
    /\ bringUps' = bringUps + 1
    /\ failedRestores' = {}
    /\ state' = "CONNECTING"
    /\ supervisor' = "connecting"
    /\ UNCHANGED <<stopping, todo, current, linkVars, restores, restoredIn, retryVars,
                   callVars, lossVars>>

Tell ==
    /\ tells' = [tells EXCEPT ![bringUps] = @ + 1]
    /\ untold' = FALSE
    /\ broken' = FALSE

\* _teardown_connection(), to its await.
Teardown ==
    /\ state' = "CONNECTING"
    /\ linkUp' = FALSE /\ linkOpen' = FALSE

\* Mutant: only the loss of a ready session is told.
BringUpFailsSilently ==
    /\ supervisor' = "closingFailed" /\ todo' = {} /\ current' = None
    /\ UNCHANGED lossVars
    /\ Teardown
    /\ UNCHANGED <<lost, stopping, reauth, bringUps, restores, failedRestores, callVars>>

\* The except branch of _supervise(), for an exception out of _bring_up().
BringUpFails ==
    /\ supervisor' = "closingFailed" /\ todo' = {} /\ current' = None
    /\ IF lost THEN Tell ELSE UNCHANGED lossVars
    /\ Teardown
    /\ UNCHANGED <<lost, stopping, reauth, bringUps, restores, failedRestores, callVars>>

ConnectSucceeds ==
    /\ supervisor = "connecting"
    /\ linkUp' = TRUE /\ linkOpen' = TRUE
    /\ state' = "AUTHENTICATING"
    /\ supervisor' = "authenticating"
    /\ UNCHANGED <<lost, stopping, reauth, todo, current, bringUps, restoreVars, retryVars,
                   callVars, lossVars>>

\* connect(), an authentication request or a restore fails the bring-up.
ConnectFails ==
    /\ supervisor = "connecting"
    /\ BringUpFails
    /\ UNCHANGED <<restoredIn, retryVars>>

AuthenticateFails ==
    /\ supervisor = "authenticating"
    /\ BringUpFails
    /\ UNCHANGED <<restoredIn, retryVars>>

\* Both requests were accepted; _raise_if_lost() follows at once.
AuthenticateSucceeds ==
    /\ supervisor = "authenticating"
    /\ \/ lost /\ BringUpFails
       \/ /\ ~lost
          /\ state' = "RESTORING"
          /\ supervisor' = "restoring"
          /\ todo' = restores
          /\ UNCHANGED <<lost, stopping, reauth, current, linkVars, bringUps, restores,
                         failedRestores, callVars, lossVars>>
    /\ UNCHANGED <<restoredIn, retryVars>>

RunRestore(k) ==
    /\ supervisor = "restoring" /\ current = None
    /\ k \in todo
    /\ current' = k
    /\ todo' = todo \ {k}
    /\ UNCHANGED <<state, lost, stopping, reauth, supervisor, linkVars, bringUps, restoreVars,
                   retryVars, callVars, lossVars>>

RestoreSucceeds ==
    /\ supervisor = "restoring" /\ current # None
    /\ restoredIn' = [restoredIn EXCEPT ![current] = bringUps]
    /\ current' = None
    /\ UNCHANGED <<state, lost, stopping, reauth, supervisor, todo, linkVars, bringUps, restores,
                   failedRestores, retryVars, callVars, lossVars>>

\* The factory raises: a connection error fails the bring-up, as does any error
\* once the loss is known; a rejection is only listed.
RestoreFails ==
    /\ supervisor = "restoring" /\ current # None
    /\ \/ lost /\ BringUpFails
       \/ /\ ~lost
          /\ failedRestores' = failedRestores \cup {current}
          /\ current' = None
          /\ UNCHANGED <<state, lost, stopping, reauth, supervisor, todo, linkVars, bringUps,
                         restores, callVars, lossVars>>
    /\ UNCHANGED <<restoredIn, retryVars>>

\* Mutant: a loss during the restores is not looked for.
BecomeReadyUnchecked ==
    /\ supervisor = "restoring" /\ current = None /\ todo = {}
    /\ state' = "READY"
    /\ supervisor' = "up"
    /\ UNCHANGED <<lost, stopping, reauth, todo, current, linkVars, bringUps, restoreVars,
                   retryVars, callVars, lossVars>>

\* Mutant: the loss flag is cleared once the session is ready.
BecomeReadyClearsLost ==
    /\ supervisor = "restoring" /\ current = None /\ todo = {}
    /\ state' = "READY"
    /\ supervisor' = "up"
    /\ lost' = FALSE
    /\ UNCHANGED <<stopping, reauth, todo, current, linkVars, bringUps, restoreVars,
                   retryVars, callVars, lossVars>>

\* The end of _bring_up().
BecomeReady ==
    /\ supervisor = "restoring" /\ current = None /\ todo = {}
    /\ \/ lost /\ BringUpFails
       \/ /\ ~lost
          /\ state' = "READY"
          /\ supervisor' = "up"
          /\ UNCHANGED <<lost, stopping, reauth, todo, current, linkVars, bringUps, restores,
                         failedRestores, callVars, lossVars>>
    /\ UNCHANGED <<restoredIn, retryVars>>

\* The wait for _lost ends: the listeners are told, then the socket is held for
\* an awaited refresh reply, or torn down at once.
LossSeen ==
    /\ supervisor = "up" /\ lost
    /\ Tell
    /\ \/ /\ supervisor' = "holding"
          /\ UNCHANGED <<state, linkVars>>
       \/ /\ supervisor' = "closing"
          /\ Teardown
    /\ UNCHANGED <<lost, stopping, reauth, todo, current, bringUps, restoreVars, retryVars, callVars>>

HoldEnds ==
    /\ supervisor = "holding"
    /\ supervisor' = "closing"
    /\ Teardown
    /\ UNCHANGED <<lost, stopping, reauth, todo, current, bringUps, restoreVars, retryVars,
                   callVars, lossVars>>

\* The socket is closed; back off unless re-authentication was asked for.
BackOff ==
    /\ \/ supervisor = "closingFailed" /\ UNCHANGED reauth
       \/ supervisor = "closing" /\ ~reauth /\ reauth' = FALSE
    /\ supervisor' = "backingOff"
    /\ UNCHANGED <<state, lost, stopping, todo, current, linkVars, bringUps, restoreVars, retryVars,
                   callVars, lossVars>>

-----------------------------------------------------------------------------
(* Losses *)

Rising == supervisor \in {"authenticating", "restoring"}

Lose ==
    /\ state' = "CONNECTING"
    /\ lost' = TRUE
    /\ untold' = (untold \/ ~lost)

\* _on_disconnect(), called by the connection's _fail().
Disconnected ==
    /\ linkUp
    /\ linkUp' = FALSE
    /\ Lose
    /\ broken' = (broken \/ ~lost)
    /\ UNCHANGED <<stopping, reauth, taskVars, linkOpen, bringUps, restoreVars, retryVars,
                   callVars, tells>>

\* An event that ends our authentication arrives on the live socket.
AuthenticationEnded ==
    /\ linkUp
    /\ Lose
    /\ UNCHANGED <<stopping, reauth, taskVars, linkVars, bringUps, restoreVars, retryVars,
                   callVars, broken, tells>>

\* The refresh loop, or an adopted late reply, asks for re-authentication.
RequestReauth ==
    /\ state = "READY" /\ ~lost
    /\ reauth' = TRUE
    /\ lost' = TRUE
    /\ untold' = TRUE
    /\ UNCHANGED <<state, stopping, taskVars, linkVars, bringUps, restoreVars, retryVars, callVars,
                   broken, tells>>

\* The socket breaks under a write of the supervisor's own request: drain()
\* raises in its task before the read loop runs, so no _on_disconnect precedes.
BrokenUnderWrite ==
    /\ Rising /\ (supervisor = "restoring" => current # None)
    /\ linkUp /\ ~lost
    /\ supervisor' = "closingFailed" /\ todo' = {} /\ current' = None
    /\ Teardown
    /\ broken' = TRUE
    /\ UNCHANGED <<lost, stopping, reauth, bringUps, restoreVars, retryVars, callVars, untold, tells>>

-----------------------------------------------------------------------------
(* The restore registry and the account's retry loop *)

\* A subscription made, and counted, on the ready session registers its restore.
AddRestore(k) ==
    /\ state = "READY" /\ k \notin restores
    /\ restores' = restores \cup {k}
    /\ restoredIn' = [restoredIn EXCEPT ![k] = bringUps]
    /\ UNCHANGED <<state, lost, stopping, reauth, taskVars, linkVars, bringUps, failedRestores,
                   retryVars, callVars, lossVars>>

RemoveRestore(k) ==
    /\ k \in restores
    /\ restores' = restores \ {k}
    /\ failedRestores' = failedRestores \ {k}
    /\ UNCHANGED <<state, lost, stopping, reauth, taskVars, linkVars, bringUps, restoredIn,
                   retryVars, callVars, lossVars>>

MarkRestoreFailed(k) ==
    /\ k \in restores \ failedRestores
    /\ state = "READY"
    /\ failedRestores' = failedRestores \cup {k}
    /\ UNCHANGED <<state, lost, stopping, reauth, taskVars, linkVars, bringUps, restores, restoredIn,
                   retryVars, callVars, lossVars>>

RetryBegins ==
    /\ retryTodo = {} /\ retryKey = None
    /\ failedRestores # {}
    /\ retryTodo' = failedRestores
    /\ UNCHANGED <<state, lost, stopping, reauth, taskVars, linkVars, bringUps, restoreVars,
                   retryKey, retryOf, callVars, lossVars>>

\* One turn of the loop, to the await of the factory.
RetryNext(k) ==
    /\ retryKey = None /\ k \in retryTodo
    /\ \/ /\ state # "READY"
          /\ retryTodo' = {}
          /\ UNCHANGED <<failedRestores, retryKey, retryOf>>
       \/ /\ state = "READY" /\ k \notin restores
          /\ retryTodo' = retryTodo \ {k}
          /\ failedRestores' = failedRestores \ {k}
          /\ UNCHANGED <<retryKey, retryOf>>
       \/ /\ state = "READY" /\ k \in restores
          /\ retryTodo' = retryTodo \ {k}
          /\ retryKey' = k
          /\ retryOf' = bringUps
          /\ UNCHANGED failedRestores
    /\ UNCHANGED <<state, lost, stopping, reauth, taskVars, linkVars, bringUps, restores, restoredIn,
                   callVars, lossVars>>

\* Mutant: a result is applied to whatever bring-up is current.
RetryIsCurrentAnyTime == state = "READY"

\* The result still speaks of the current bring-up.
RetryIsCurrent == retryOf = bringUps /\ state = "READY"

RetrySucceeds ==
    /\ retryKey # None
    /\ retryKey' = None
    /\ retryOf' = 0
    /\ restoredIn' = IF retryOf = bringUps
                     THEN [restoredIn EXCEPT ![retryKey] = bringUps] ELSE restoredIn
    /\ IF RetryIsCurrent
       THEN failedRestores' = failedRestores \ {retryKey} /\ UNCHANGED retryTodo
       ELSE retryTodo' = {} /\ UNCHANGED failedRestores
    /\ UNCHANGED <<state, lost, stopping, reauth, taskVars, linkVars, bringUps, restores,
                   callVars, lossVars>>

\* A rejection leaves the key listed; a connection error or a loss ends the call.
RetryFails ==
    /\ retryKey # None
    /\ retryKey' = None
    /\ retryOf' = 0
    /\ \/ ~lost /\ RetryIsCurrent /\ UNCHANGED retryTodo
       \/ retryTodo' = {}
    /\ UNCHANGED <<state, lost, stopping, reauth, taskVars, linkVars, bringUps, restoreVars,
                   callVars, lossVars>>

Supervise ==
    \/ BeginBringUp \/ ConnectSucceeds \/ ConnectFails
    \/ AuthenticateSucceeds \/ AuthenticateFails
    \/ (\E k \in Keys : RunRestore(k)) \/ RestoreSucceeds \/ RestoreFails \/ BecomeReady
    \/ LossSeen \/ HoldEnds \/ BackOff \/ BrokenUnderWrite

Next ==
    \/ \E c \in Starters : Start(c) \/ StartResumes(c)
    \/ \E c \in Stoppers : Stop(c) \/ StopEnds(c)
    \/ Supervise
    \/ Disconnected \/ AuthenticationEnded \/ RequestReauth
    \/ \E k \in Keys : AddRestore(k) \/ RemoveRestore(k) \/ MarkRestoreFailed(k) \/ RetryNext(k)
    \/ RetryBegins \/ RetrySucceeds \/ RetryFails

Spec == Init /\ [][Next]_vars

\* The event loop runs the supervisor whenever it can go on and every stop()
\* ends.  Every await of the supervisor has an end: requests and connects time
\* out, the hold and the back-off are timed.
Fairness ==
    /\ WF_vars(Supervise)
    /\ \A c \in Starters : WF_vars(StartResumes(c))
    /\ \A c \in Stoppers : WF_vars(StopEnds(c))

FairSpec == Spec /\ Fairness

-----------------------------------------------------------------------------
(* Properties *)

\* The last of start() and stop() wins, however they overlap and in whatever
\* order their waits end: once all have returned, the session is supervised, or
\* stopped with its socket closed.
LastCallWins ==
    (\A c \in Starters : starting[c] \in {"idle", "done"})
    /\ (\A c \in Stoppers : stops[c] \in {"idle", "done"}) =>
        /\ lastCall = "start" => supervisor # "none"
        /\ lastCall = "stop" => supervisor = "none" /\ state = "STOPPED"

\* No socket outlives its supervisor, and none is open when the next is opened
\* (connect() would raise "already connected" for ever).
SocketSupervised ==
    linkOpen => supervisor \in {"authenticating", "restoring", "up", "holding"}

\* A state that lets request() through tells the truth: its supervisor watches a
\* link that is up, and no loss is pending but the re-authentication the session
\* itself asked for.
ReadyIsLive ==
    state \in {"RESTORING", "READY"} =>
        /\ supervisor \in {"restoring", "up", "holding"}
        /\ linkUp
        /\ lost => reauth

\* The session's socket has an owner, and its state tells the truth of it: the last of
\* start() and stop() wins, no socket outlives its supervisor, and a session that lets
\* requests through has a link that is up.
SocketOwned == LastCallWins /\ SocketSupervised /\ ReadyIsLive

\* Every loss signalled to the session is told to the loss listeners before the
\* next bring-up, once: a loss of a ready session, of one that was
\* authenticating or restoring, and one that overlaps another.
SignalledLossTold ==
    /\ supervisor = "connecting" => ~untold
    /\ \A g \in 1..MaxBringUps : tells[g] <= 1

\* On a ready session a registered restore was made in this bring-up or is
\* listed for retry: a retry that spans a reconnect hides no failure of the new
\* bring-up.
RestoredOrListed ==
    state = "READY" => \A k \in restores : k \in failedRestores \/ restoredIn[k] = bringUps

\* A lost session comes back: no loss is missed, so unless it is stopped the
\* supervisor begins another bring-up (the bound on them ends the behaviour).
LossLeadsToBringUp ==
    supervisor = "up" /\ (lost \/ ~linkUp)
        ~> supervisor \in {"none", "connecting"} \/ bringUps = MaxBringUps

\* add_loss_listener(): "Register `callback()` for every loss, before the session
\* reconnects.  A loss is a dropped connection [...] of a ready session or of one
\* authenticating or restoring".
EveryLossTold == supervisor = "connecting" => ~broken

=============================================================================
