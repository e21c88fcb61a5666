---------------------------- MODULE SessionProofs ----------------------------
(***************************************************************************)
(* Theorems about Session, for every set of restores and of start() and    *)
(* stop() calls and any number of bring-ups: who owns the socket, that     *)
(* each signalled loss is told once, and that a ready session has restored *)
(* or listed what is registered.                                           *)
(***************************************************************************)
EXTENDS Session, TLAPS, FiniteSetTheorems

-----------------------------------------------------------------------------
(* The inductive invariant *)

Closing == {c \in Stoppers : stops[c] = "closing"}
Called == {c \in Stoppers : stops[c] # "idle"}

\* The counters of stop() count: the calls in progress, and the calls ever made.
StopsCounted ==
    /\ stopsInProgress = Cardinality(Closing)
    /\ stopEpoch = Cardinality(Called)

Waiting(c) == starting[c] \in {"waiting", "woken"}

\* What the last call will come to while calls still wait: a start() is done or waits
\* with the current epoch; behind a stop() every start() that waits is outdated.
LastCallPending ==
    /\ \A c \in Starters : startEpoch[c] <= stopEpoch
    /\ lastCall = "start" =>
          \/ supervisor # "none"
          \/ \E c \in Starters : Waiting(c) /\ startEpoch[c] = stopEpoch
    /\ lastCall # "start" =>
          /\ supervisor = "none"
          /\ \A c \in Starters : Waiting(c) => startEpoch[c] # stopEpoch

\* Without a supervisor the session is stopped.
UnsupervisedIsStopped == supervisor = "none" => state = "STOPPED"

\* A rising session that knows of no loss has its link.
LinkTrue ==
    /\ linkUp => linkOpen
    /\ supervisor \in {"authenticating", "restoring"} /\ ~lost => linkUp

\* A loss is untold only while its bring-up lasts, and _lost says so; it is still set
\* while the socket is held.
UntoldIsLost ==
    /\ untold => lost /\ supervisor \in {"authenticating", "restoring", "up"}
    /\ supervisor = "holding" => lost

\* The current bring-up is told of once at most, a later one not at all.
ToldSoFar ==
    /\ supervisor \in {"connecting", "authenticating", "restoring", "up"} =>
          bringUps > 0 /\ tells[bringUps] = 0
    /\ \A g \in 1..MaxBringUps : g > bringUps => tells[g] = 0

\* While the restores run each is still to run, running, listed or made.
RestoreUnderWay ==
    supervisor = "restoring" =>
        \A k \in restores :
            k \in todo \/ k = current \/ k \in failedRestores \/ restoredIn[k] = bringUps

SessionInv ==
    /\ TypeOK
    /\ StopsCounted
    /\ LastCallPending
    /\ UnsupervisedIsStopped
    /\ LinkTrue
    /\ SocketOwned
    /\ UntoldIsLost
    /\ ToldSoFar
    /\ SignalledLossTold
    /\ RestoreUnderWay
    /\ RestoredOrListed

-----------------------------------------------------------------------------
(* What the steps leave alone *)

\* Only start() and stop() move the calls, create the supervisor or end it.
LEMMA CallsMove ==
    ASSUME [Next]_vars, TypeOK,
           ~\E c \in Starters : Start(c) \/ StartResumes(c),
           ~\E c \in Stoppers : Stop(c) \/ StopEnds(c)
    PROVE  UNCHANGED callVars /\ (supervisor' = "none" <=> supervisor = "none")
  <1>1. CASE Supervise
    BY <1>1 DEF Supervise, BeginBringUp, ConnectSucceeds, ConnectFails, AuthenticateSucceeds,
                AuthenticateFails, RunRestore, RestoreSucceeds, RestoreFails, BecomeReady,
                LossSeen, HoldEnds, BackOff, BrokenUnderWrite, BringUpFails, Rising
  <1>2. CASE \/ Disconnected \/ AuthenticationEnded \/ RequestReauth
             \/ \E k \in Keys : \/ AddRestore(k) \/ RemoveRestore(k)
                                \/ MarkRestoreFailed(k) \/ RetryNext(k)
             \/ RetryBegins \/ RetrySucceeds \/ RetryFails
    BY <1>2 DEF Disconnected, AuthenticationEnded, RequestReauth, AddRestore, RemoveRestore,
                MarkRestoreFailed, RetryNext, RetryBegins, RetrySucceeds, RetryFails, taskVars
  <1>3. CASE UNCHANGED vars
    BY <1>3 DEF vars, taskVars
  <1> QED  BY <1>1, <1>2, <1>3 DEF Next

\* The restore registry and its retries touch nothing of the session itself.
LEMMA RegistryMoves ==
    ASSUME \/ \E k \in Keys : \/ AddRestore(k) \/ RemoveRestore(k)
                              \/ MarkRestoreFailed(k) \/ RetryNext(k)
           \/ RetryBegins \/ RetrySucceeds \/ RetryFails \/ UNCHANGED vars
    PROVE  UNCHANGED <<state, lost, stopping, reauth, taskVars, linkVars, bringUps, callVars,
                       lossVars>>
  BY DEF AddRestore, RemoveRestore, MarkRestoreFailed, RetryNext, RetryBegins, RetrySucceeds,
         RetryFails, vars

\* An exception out of _bring_up(), wherever it was raised.
Failing ==
    /\ supervisor \in {"connecting", "authenticating", "restoring"}
    /\ BringUpFails
    /\ UNCHANGED <<restoredIn, retryVars>>

\* The supervisor's steps, the failures of a bring-up taken together.
LEMMA SupervisorMoves ==
    ASSUME Supervise, TypeOK
    PROVE  \/ Failing
           \/ BeginBringUp \/ ConnectSucceeds \/ RestoreSucceeds
           \/ AuthenticateSucceeds /\ ~lost /\ state' = "RESTORING" /\ supervisor' = "restoring"
           \/ \E k \in Keys : RunRestore(k)
           \/ RestoreFails /\ ~lost /\ supervisor' = supervisor
           \/ BecomeReady /\ ~lost /\ state' = "READY" /\ supervisor' = "up"
           \/ LossSeen \/ HoldEnds \/ BackOff \/ BrokenUnderWrite
  BY DEF Supervise, Failing, ConnectFails, AuthenticateSucceeds, AuthenticateFails,
         RestoreFails, BecomeReady

-----------------------------------------------------------------------------
(* Types and counters *)

LEMMA SessionInit == Init => SessionInv
  <1> SUFFICES ASSUME Init PROVE SessionInv
    OBVIOUS
  <1>1. Cardinality(Stoppers) \in Nat
    BY SessionAssumption, FS_CardinalityType
  <1>2. Closing = {} /\ Called = {}
    BY DEF Init, Closing, Called
  <1>3. StopsCounted
    BY <1>2, FS_EmptySet DEF Init, StopsCounted
  <1>4. 0 \in 0..MaxBringUps /\ 0 \in 0..Cardinality(Stoppers)
    BY <1>1, SessionAssumption
  <1>5. TypeOK
    <2>1. /\ state \in States
          /\ lost \in BOOLEAN /\ stopping \in BOOLEAN /\ reauth \in BOOLEAN
          /\ linkUp \in BOOLEAN /\ linkOpen \in BOOLEAN /\ stopIdle \in BOOLEAN
          /\ untold \in BOOLEAN /\ broken \in BOOLEAN
          /\ supervisor \in SupervisorSteps
          /\ lastCall \in {"none", "start", "stop"}
      BY DEF Init, States, SupervisorSteps
    <2>2. /\ todo \subseteq Keys /\ current \in Keys \cup {None}
          /\ restores \subseteq Keys /\ failedRestores \subseteq Keys
          /\ retryTodo \subseteq Keys /\ retryKey \in Keys \cup {None}
          /\ starting \in [Starters -> {"idle", "waiting", "woken", "done"}]
          /\ stops \in [Stoppers -> {"idle", "closing", "done"}]
          /\ tells \in [1..MaxBringUps -> Nat]
      BY DEF Init
    <2>3. /\ bringUps \in 0..MaxBringUps /\ retryOf \in 0..MaxBringUps
          /\ startEpoch \in [Starters -> 0..Cardinality(Stoppers)]
          /\ stopsInProgress \in 0..Cardinality(Stoppers)
          /\ stopEpoch \in 0..Cardinality(Stoppers)
          /\ restoredIn \in [Keys -> 0..MaxBringUps]
      BY <1>4 DEF Init
    <2> QED  BY <2>1, <2>2, <2>3 DEF TypeOK
  <1>6. LastCallPending /\ UnsupervisedIsStopped /\ LinkTrue /\ UntoldIsLost
    BY DEF Init, LastCallPending, UnsupervisedIsStopped, LinkTrue, UntoldIsLost, Waiting
  <1>7. SocketOwned
    BY DEF Init, SocketOwned, LastCallWins, SocketSupervised, ReadyIsLive
  <1>8. ToldSoFar /\ SignalledLossTold
    BY DEF Init, ToldSoFar, SignalledLossTold
  <1>9. RestoreUnderWay /\ RestoredOrListed
    BY DEF Init, RestoreUnderWay, RestoredOrListed
  <1> QED  BY <1>3, <1>5, <1>6, <1>7, <1>8, <1>9 DEF SessionInv

\* The calls of stop() in progress are no more than there are callers.
LEMMA CountersBounded ==
    /\ IsFiniteSet(Closing) /\ IsFiniteSet(Called)
    /\ Cardinality(Closing) \in 0..Cardinality(Stoppers)
    /\ Cardinality(Called) \in 0..Cardinality(Stoppers)
  <1>1. Closing \in SUBSET Stoppers /\ Called \in SUBSET Stoppers
    BY DEF Closing, Called
  <1> QED  BY <1>1, SessionAssumption, FS_Subset, FS_CardinalityType

\* stop() counts itself in and out.
LEMMA StopsCountedStep == SessionInv /\ [Next]_vars => StopsCounted'
  <1> SUFFICES ASSUME SessionInv, [Next]_vars PROVE StopsCounted'
    OBVIOUS
  <1> USE DEF SessionInv, TypeOK, StopsCounted
  <1>1. ASSUME NEW c \in Stoppers, Stop(c) PROVE StopsCounted'
    <2>1. /\ Closing' = Closing \cup {c} /\ c \notin Closing
          /\ Called' = Called \cup {c} /\ c \notin Called
      BY <1>1 DEF Stop, Closing, Called
    <2>2. stopsInProgress' = stopsInProgress + 1 /\ stopEpoch' = stopEpoch + 1
      BY <1>1 DEF Stop
    <2>3. /\ Cardinality(Closing \cup {c}) = Cardinality(Closing) + 1
          /\ Cardinality(Called \cup {c}) = Cardinality(Called) + 1
      BY <2>1, CountersBounded, FS_AddElement
    <2> QED  BY <2>1, <2>2, <2>3
  <1>2. ASSUME NEW c \in Stoppers, StopEnds(c) PROVE StopsCounted'
    <2>1. Closing' = Closing \ {c} /\ c \in Closing /\ Called' = Called
      BY <1>2 DEF StopEnds, Closing, Called
    <2>2. stopsInProgress' = stopsInProgress - 1 /\ stopEpoch' = stopEpoch
      BY <1>2 DEF StopEnds
    <2>3. Cardinality(Closing \ {c}) = Cardinality(Closing) - 1
      BY <2>1, CountersBounded, FS_RemoveElement
    <2> QED  BY <2>1, <2>2, <2>3
  <1>3. CASE UNCHANGED <<stops, stopsInProgress, stopEpoch>>
    BY <1>3 DEF Closing, Called
  <1>4. ASSUME NEW c \in Starters, Start(c) \/ StartResumes(c)
        PROVE  UNCHANGED <<stops, stopsInProgress, stopEpoch>>
    BY <1>4 DEF Start, StartResumes
  <1> QED  BY <1>1, <1>2, <1>3, <1>4, CallsMove DEF callVars

\* Every step keeps the types; the counters are bounded because they count.
LEMMA SessionTypeStep == SessionInv /\ [Next]_vars => TypeOK'
  <1> SUFFICES ASSUME SessionInv, [Next]_vars PROVE TypeOK'
    OBVIOUS
  <1>1. stopsInProgress' \in 0..Cardinality(Stoppers) /\ stopEpoch' \in 0..Cardinality(Stoppers)
    <2>1. StopsCounted'
      BY StopsCountedStep
    <2>2. /\ Cardinality(Closing') \in 0..Cardinality(Stoppers)
          /\ Cardinality(Called') \in 0..Cardinality(Stoppers)
      <3>1. Closing' \in SUBSET Stoppers /\ Called' \in SUBSET Stoppers
        BY DEF Closing, Called
      <3> QED  BY <3>1, SessionAssumption, FS_Subset, FS_CardinalityType
    <2> QED  BY <2>1, <2>2 DEF StopsCounted
  <1> USE DEF SessionInv, TypeOK, States, SupervisorSteps
  <1>2. ASSUME NEW c \in Starters, Start(c) \/ StartResumes(c) PROVE TypeOK'
    <2>1. /\ starting' \in [Starters -> {"idle", "waiting", "woken", "done"}]
          /\ startEpoch' \in [Starters -> 0..Cardinality(Stoppers)]
          /\ lastCall' \in {"none", "start", "stop"}
      BY <1>2 DEF Start, StartResumes, StartNow
    <2>2. stopping' \in BOOLEAN /\ reauth' \in BOOLEAN /\ supervisor' \in SupervisorSteps
      BY <1>2 DEF Start, StartResumes, StartNow
    <2>3. UNCHANGED <<state, lost, todo, current, linkVars, bringUps, restoreVars, retryVars,
                      stops, stopsInProgress, stopIdle, stopEpoch, lossVars>>
      BY <1>2 DEF Start, StartResumes
    <2> QED  BY <2>1, <2>2, <2>3 DEF linkVars, restoreVars, retryVars, lossVars
  <1>3. ASSUME NEW c \in Stoppers, Stop(c) PROVE TypeOK'
    BY <1>1, <1>3 DEF Stop, restoreVars, retryVars
  <1>4. ASSUME NEW c \in Stoppers, StopEnds(c) PROVE TypeOK'
    <2>1. starting' \in [Starters -> {"idle", "waiting", "woken", "done"}] /\ stopIdle' \in BOOLEAN
      BY <1>4 DEF StopEnds
    <2>2. stops' \in [Stoppers -> {"idle", "closing", "done"}]
      BY <1>4 DEF StopEnds
    <2>3. UNCHANGED <<state, lost, stopping, reauth, taskVars, linkVars, bringUps, restoreVars,
                      retryVars, startEpoch, lastCall, lossVars>>
      BY <1>4 DEF StopEnds
    <2> QED  BY <1>1, <2>1, <2>2, <2>3 DEF taskVars, linkVars, restoreVars, retryVars, lossVars
  <1>5. CASE Failing
    <2>1. tells' \in [1..MaxBringUps -> Nat]
      <3>1. \A g \in 1..MaxBringUps : tells[g] + 1 \in Nat
        OBVIOUS
      <3> QED  BY <1>5, <3>1 DEF Failing, BringUpFails, Tell, lossVars
    <2>2. untold' \in BOOLEAN /\ broken' \in BOOLEAN
      BY <1>5 DEF Failing, BringUpFails, Tell, lossVars
    <2> QED  BY <1>5, <2>1, <2>2 DEF Failing, BringUpFails, Teardown, callVars, retryVars
  <1>6. CASE BeginBringUp
    <2>1. bringUps' \in 0..MaxBringUps
      BY <1>6, SessionAssumption DEF BeginBringUp
    <2>2. reauth' \in BOOLEAN /\ lost' \in BOOLEAN /\ failedRestores' \subseteq Keys
      BY <1>6 DEF BeginBringUp
    <2>3. state' \in States /\ supervisor' \in SupervisorSteps
      BY <1>6 DEF BeginBringUp
    <2> QED  BY <1>6, <2>1, <2>2, <2>3, ZenonT(40) DEF BeginBringUp, linkVars, retryVars, callVars, lossVars
  <1>7. CASE \/ ConnectSucceeds \/ RestoreSucceeds \/ (\E k \in Keys : RunRestore(k))
             \/ HoldEnds \/ BackOff \/ BrokenUnderWrite
    <2>1. CASE ConnectSucceeds \/ HoldEnds
      BY <2>1, ZenonT(40) DEF ConnectSucceeds, HoldEnds, Teardown, restoreVars, retryVars, callVars, lossVars
    <2>2. CASE RestoreSucceeds
      BY <2>2 DEF RestoreSucceeds, linkVars, retryVars, callVars, lossVars
    <2>3. CASE \E k \in Keys : RunRestore(k)
      BY <2>3 DEF RunRestore, linkVars, restoreVars, retryVars, callVars, lossVars
    <2>4. CASE BackOff
      <3>1. reauth' \in BOOLEAN
        BY <2>4 DEF BackOff
      <3> QED  BY <2>4, <3>1 DEF BackOff, linkVars, restoreVars, retryVars, callVars, lossVars
    <2>5. CASE BrokenUnderWrite
      BY <2>5 DEF BrokenUnderWrite, Teardown, restoreVars, retryVars, callVars
    <2> QED  BY <1>7, <2>1, <2>2, <2>3, <2>4, <2>5
  <1>8. CASE /\ ~lost
             /\ \/ AuthenticateSucceeds /\ supervisor' = "restoring"
                \/ RestoreFails /\ supervisor' = supervisor
                \/ BecomeReady /\ supervisor' = "up"
    <2>1. ~BringUpFails
      BY <1>8 DEF BringUpFails, AuthenticateSucceeds, RestoreFails, BecomeReady
    <2> QED  BY <1>8, <2>1 DEF AuthenticateSucceeds, RestoreFails, BecomeReady, linkVars,
                               retryVars, callVars, lossVars
  <1>9. CASE LossSeen
    <2>1. tells' \in [1..MaxBringUps -> Nat]
      <3>1. \A g \in 1..MaxBringUps : tells[g] + 1 \in Nat
        OBVIOUS
      <3> QED  BY <1>9, <3>1 DEF LossSeen, Tell
    <2> QED  BY <1>9, <2>1, ZenonT(40) DEF LossSeen, Tell, Teardown, linkVars, restoreVars, retryVars, callVars
  <1>10. CASE Disconnected \/ AuthenticationEnded \/ RequestReauth
    <2>1. /\ state' \in States
          /\ lost' \in BOOLEAN /\ reauth' \in BOOLEAN /\ linkUp' \in BOOLEAN
          /\ untold' \in BOOLEAN /\ broken' \in BOOLEAN
      BY <1>10, Zenon DEF Disconnected, AuthenticationEnded, RequestReauth, Lose, linkVars
    <2>2. UNCHANGED <<stopping, taskVars, linkOpen, bringUps, restoreVars, retryVars, callVars, tells>>
      BY <1>10 DEF Disconnected, AuthenticationEnded, RequestReauth, linkVars
    <2> QED  BY <2>1, <2>2 DEF taskVars, restoreVars, retryVars, callVars
  <1>11. CASE \E k \in Keys : \/ AddRestore(k) \/ RemoveRestore(k)
                              \/ MarkRestoreFailed(k) \/ RetryNext(k)
    BY <1>11 DEF AddRestore, RemoveRestore, MarkRestoreFailed, RetryNext, taskVars, linkVars,
                 retryVars, callVars, lossVars
  <1>12. CASE RetryBegins \/ RetryFails
    BY <1>12, SessionAssumption DEF RetryBegins, RetryFails, taskVars, linkVars,
                                    restoreVars, callVars, lossVars
  <1>13. CASE RetrySucceeds
    <2>1. 0 \in 0..MaxBringUps
      BY SessionAssumption
    <2> QED  BY <1>13, <2>1 DEF RetrySucceeds, taskVars, linkVars, callVars, lossVars
  <1>14. CASE UNCHANGED vars
    BY <1>14 DEF vars, taskVars, linkVars, restoreVars, retryVars, callVars, lossVars
  <1>15. CASE Supervise
    BY <1>5, <1>6, <1>7, <1>8, <1>9, <1>15, SupervisorMoves
  <1> QED  BY <1>2, <1>3, <1>4, <1>10, <1>11, <1>12, <1>13, <1>14, <1>15 DEF Next

-----------------------------------------------------------------------------
(* start() and stop() *)

\* Every step keeps what the calls still waiting will come to.
LEMMA CallsStep == SessionInv /\ [Next]_vars => LastCallPending'
  <1> SUFFICES ASSUME SessionInv, [Next]_vars PROVE LastCallPending'
    OBVIOUS
  <1>0. stopEpoch \in Nat /\ \A c \in Starters : startEpoch[c] \in Nat
    <2>1. Cardinality(Stoppers) \in Nat
      BY SessionAssumption, FS_CardinalityType
    <2> QED  BY <2>1 DEF SessionInv, TypeOK
  <1> USE DEF SessionInv, TypeOK, LastCallPending, Waiting
  <1>1. ASSUME NEW c \in Starters, Start(c) PROVE LastCallPending'
    <2>1. /\ stopEpoch' = stopEpoch /\ lastCall' = "start"
          /\ startEpoch' = [startEpoch EXCEPT ![c] = stopEpoch]
      BY <1>1 DEF Start
    <2>2. supervisor' # "none" \/ starting'[c] = "waiting"
      BY <1>1 DEF Start, StartNow, MayStart
    <2> QED  BY <1>0, <2>1, <2>2
  <1>2. ASSUME NEW c \in Starters, StartResumes(c) PROVE LastCallPending'
    <2>1. /\ UNCHANGED <<stopEpoch, startEpoch, lastCall>> /\ starting[c] = "woken"
          /\ starting' = [starting EXCEPT ![c] = "done"]
      BY <1>2 DEF StartResumes, StartNow
    <2>2. CASE startEpoch[c] = stopEpoch
      <3>1. lastCall = "start" /\ supervisor' # "none"
        BY <1>2, <2>1, <2>2 DEF StartResumes, StartNow, MayStart
      <3> QED  BY <2>1, <3>1
    <2>3. CASE startEpoch[c] # stopEpoch
      <3>1. supervisor' = supervisor
        BY <1>2, <2>3 DEF StartResumes, StartNow, MayStart
      <3>2. \A d \in Starters : d # c => starting'[d] = starting[d]
        BY <2>1
      <3> QED  BY <2>1, <2>3, <3>1, <3>2
    <2> QED  BY <2>2, <2>3
  <1>3. ASSUME NEW c \in Stoppers, Stop(c) PROVE LastCallPending'
    <2>1. /\ stopEpoch' = stopEpoch + 1 /\ lastCall' = "stop" /\ supervisor' = "none"
          /\ UNCHANGED <<starting, startEpoch>>
      BY <1>3 DEF Stop
    <2> QED  BY <1>0, <2>1
  <1>4. ASSUME NEW c \in Stoppers, StopEnds(c) PROVE LastCallPending'
    <2>1. UNCHANGED <<supervisor, startEpoch, stopEpoch, lastCall>>
      BY <1>4 DEF StopEnds, taskVars
    <2>2. \A d \in Starters : Waiting(d)' <=> Waiting(d)
      BY <1>4 DEF StopEnds
    <2> QED  BY <2>1, <2>2
  <1>5. CASE UNCHANGED callVars /\ (supervisor' = "none" <=> supervisor = "none")
    BY <1>5 DEF callVars
  <1> QED  BY <1>1, <1>2, <1>3, <1>4, <1>5, CallsMove

\* A session without supervisor moves only by start() and stop().
LEMMA UnsupervisedStep ==
    SessionInv /\ [Next]_vars => UnsupervisedIsStopped' /\ LinkTrue' /\ SocketSupervised' /\ ReadyIsLive'
  <1> SUFFICES ASSUME SessionInv, [Next]_vars
               PROVE  UnsupervisedIsStopped' /\ LinkTrue' /\ SocketSupervised' /\ ReadyIsLive'
    OBVIOUS
  <1> USE DEF SessionInv, UnsupervisedIsStopped, LinkTrue, SocketOwned,
              SocketSupervised, ReadyIsLive
  <1>1. ASSUME NEW c \in Starters, Start(c) \/ StartResumes(c)
        PROVE  UnsupervisedIsStopped' /\ LinkTrue' /\ SocketSupervised' /\ ReadyIsLive'
    BY <1>1 DEF Start, StartResumes, StartNow, MayStart, linkVars
  <1>2. ASSUME NEW c \in Stoppers, Stop(c) \/ StopEnds(c)
        PROVE  UnsupervisedIsStopped' /\ LinkTrue' /\ SocketSupervised' /\ ReadyIsLive'
    BY <1>2 DEF Stop, StopEnds, taskVars, linkVars
  <1>3. CASE Failing
    BY <1>3 DEF Failing, BringUpFails, Teardown
  <1>4. CASE BeginBringUp \/ ConnectSucceeds \/ RestoreSucceeds \/ \E k \in Keys : RunRestore(k)
    <2>1. CASE BeginBringUp
      BY <2>1 DEF BeginBringUp, linkVars
    <2>2. CASE ConnectSucceeds
      BY <2>2 DEF ConnectSucceeds
    <2>3. CASE RestoreSucceeds \/ \E k \in Keys : RunRestore(k)
      BY <2>3 DEF RestoreSucceeds, RunRestore, linkVars
    <2> QED  BY <1>4, <2>1, <2>2, <2>3
  <1>5. CASE /\ ~lost
             /\ \/ AuthenticateSucceeds /\ supervisor' = "restoring"
                \/ RestoreFails /\ supervisor' = supervisor
                \/ BecomeReady /\ supervisor' = "up"
    <2>1. ~BringUpFails
      BY <1>5 DEF BringUpFails, AuthenticateSucceeds, RestoreFails, BecomeReady
    <2> QED  BY <1>5, <2>1 DEF AuthenticateSucceeds, RestoreFails, BecomeReady, linkVars
  <1>6. CASE LossSeen \/ HoldEnds \/ BackOff \/ BrokenUnderWrite
    BY <1>6 DEF LossSeen, HoldEnds, BackOff, BrokenUnderWrite, Teardown, linkVars
  <1>7. CASE Disconnected \/ AuthenticationEnded \/ RequestReauth
    BY <1>7 DEF Disconnected, AuthenticationEnded, RequestReauth, Lose, taskVars, linkVars
  <1>8. CASE UNCHANGED <<state, lost, reauth, taskVars, linkVars>>
    BY <1>8 DEF taskVars, linkVars
  <1>9. CASE Supervise
    BY <1>3, <1>4, <1>5, <1>6, <1>9, SupervisorMoves
  <1> QED  BY <1>1, <1>2, <1>7, <1>8, <1>9, RegistryMoves DEF Next

\* Once every call has returned, the last one has its way.
LEMMA LastCallStep == SessionInv /\ [Next]_vars => LastCallWins'
  <1> SUFFICES ASSUME SessionInv, [Next]_vars PROVE LastCallWins'
    OBVIOUS
  <1>1. LastCallPending' /\ UnsupervisedIsStopped'
    BY CallsStep, UnsupervisedStep
  <1> QED  BY <1>1 DEF LastCallPending, UnsupervisedIsStopped, LastCallWins, Waiting

-----------------------------------------------------------------------------
(* Losses *)

\* Every step keeps count of what the listeners heard.
LEMMA LossStep ==
    SessionInv /\ [Next]_vars => UntoldIsLost' /\ ToldSoFar' /\ SignalledLossTold'
  <1> SUFFICES ASSUME SessionInv, [Next]_vars
               PROVE  UntoldIsLost' /\ ToldSoFar' /\ SignalledLossTold'
    OBVIOUS
  <1> USE DEF SessionInv, LinkTrue, SocketOwned, SocketSupervised, ReadyIsLive,
              UntoldIsLost, ToldSoFar, SignalledLossTold
  <1>0. /\ bringUps \in 0..MaxBringUps /\ tells \in [1..MaxBringUps -> Nat]
        /\ MaxBringUps \in Nat /\ lost \in BOOLEAN /\ untold \in BOOLEAN
    BY SessionAssumption DEF TypeOK
  <1>1. ASSUME NEW c \in Starters, Start(c) \/ StartResumes(c)
        PROVE  UntoldIsLost' /\ ToldSoFar' /\ SignalledLossTold'
    BY <1>1 DEF Start, StartResumes, StartNow, MayStart, lossVars
  <1>2. ASSUME NEW c \in Stoppers, Stop(c) \/ StopEnds(c)
        PROVE  UntoldIsLost' /\ ToldSoFar' /\ SignalledLossTold'
    BY <1>2 DEF Stop, StopEnds, taskVars, lossVars
  <1>3. ASSUME Tell, bringUps > 0, tells[bringUps] = 0, bringUps' = bringUps,
               supervisor' \in {"holding", "closing", "closingFailed"},
               supervisor' = "holding" => lost'
        PROVE  UntoldIsLost' /\ ToldSoFar' /\ SignalledLossTold'
    <2>1. bringUps \in 1..MaxBringUps
      BY <1>0, <1>3
    <2>2. tells' = [tells EXCEPT ![bringUps] = 1] /\ untold' = FALSE
      BY <1>0, <1>3, <2>1 DEF Tell
    <2> QED  BY <1>0, <1>3, <2>1, <2>2
  <1>4. CASE Failing
    <2>1. CASE lost
      BY <1>3, <1>4, <2>1 DEF Failing, BringUpFails
    <2>2. CASE ~lost
      BY <1>4, <2>2 DEF Failing, BringUpFails, lossVars
    <2> QED  BY <2>1, <2>2
  <1>5. CASE BeginBringUp
    <2>1. bringUps' = bringUps + 1 /\ bringUps' \in 1..MaxBringUps
      BY <1>0, <1>5 DEF BeginBringUp
    <2> QED  BY <1>0, <1>5, <2>1 DEF BeginBringUp, lossVars
  <1>6. CASE ConnectSucceeds \/ RestoreSucceeds \/ (\E k \in Keys : RunRestore(k))
    BY <1>6 DEF ConnectSucceeds, RestoreSucceeds, RunRestore, lossVars
  <1>7. CASE /\ ~lost
             /\ \/ AuthenticateSucceeds /\ supervisor' = "restoring"
                \/ RestoreFails /\ supervisor' = supervisor
                \/ BecomeReady /\ supervisor' = "up"
    <2>1. ~BringUpFails
      BY <1>7 DEF BringUpFails, AuthenticateSucceeds, RestoreFails, BecomeReady
    <2> QED  BY <1>7, <2>1 DEF AuthenticateSucceeds, RestoreFails, BecomeReady, lossVars
  <1>8. CASE LossSeen
    BY <1>3, <1>8 DEF LossSeen
  <1>9. CASE HoldEnds \/ BackOff \/ BrokenUnderWrite
    BY <1>9 DEF HoldEnds, BackOff, BrokenUnderWrite, Rising, lossVars
  <1>10. CASE Disconnected \/ AuthenticationEnded \/ RequestReauth
    <2>1. /\ supervisor \in {"authenticating", "restoring", "up", "holding"}
          /\ state = "READY" => supervisor \in {"restoring", "up", "holding"}
      BY <1>10 DEF Disconnected, AuthenticationEnded, RequestReauth
    <2>2. lost' = TRUE /\ UNCHANGED <<supervisor, bringUps, tells>>
      BY <1>10 DEF Disconnected, AuthenticationEnded, RequestReauth, Lose, taskVars
    <2>3. supervisor = "holding" => lost
      OBVIOUS
    <2>4. untold' => untold \/ ~lost
      BY <1>10 DEF Disconnected, AuthenticationEnded, RequestReauth, Lose
    <2> QED  BY <1>0, <2>1, <2>2, <2>3, <2>4
  <1>11. CASE UNCHANGED <<lost, taskVars, bringUps, lossVars>>
    BY <1>11 DEF taskVars, lossVars
  <1>12. CASE Supervise
    BY <1>4, <1>5, <1>6, <1>7, <1>8, <1>9, <1>12, SupervisorMoves DEF TypeOK
  <1> QED  BY <1>1, <1>2, <1>10, <1>11, <1>12, RegistryMoves DEF Next

-----------------------------------------------------------------------------
(* Restores *)

\* Every step keeps each registered restore accounted for.
LEMMA RestoreStep == SessionInv /\ [Next]_vars => RestoreUnderWay' /\ RestoredOrListed'
  <1> SUFFICES ASSUME SessionInv, [Next]_vars
               PROVE  RestoreUnderWay' /\ RestoredOrListed'
    OBVIOUS
  <1> USE DEF SessionInv, SocketOwned, ReadyIsLive, RestoreUnderWay, RestoredOrListed
  <1>0. /\ restores \subseteq Keys /\ None \notin Keys
        /\ todo \subseteq Keys /\ restoredIn \in [Keys -> 0..MaxBringUps]
        /\ current \in Keys \cup {None} /\ retryKey \in Keys \cup {None}
    BY SessionAssumption DEF TypeOK
  <1>1. ASSUME NEW c \in Starters, Start(c) \/ StartResumes(c)
        PROVE  RestoreUnderWay' /\ RestoredOrListed'
    BY <1>1 DEF Start, StartResumes, StartNow, restoreVars
  <1>2. ASSUME NEW c \in Stoppers, Stop(c) \/ StopEnds(c)
        PROVE  RestoreUnderWay' /\ RestoredOrListed'
    BY <1>2 DEF Stop, StopEnds, taskVars, restoreVars
  <1>3. CASE Failing \/ BrokenUnderWrite \/ BeginBringUp \/ ConnectSucceeds
    BY <1>3 DEF Failing, BringUpFails, Teardown, BrokenUnderWrite, BeginBringUp, ConnectSucceeds
  <1>4. CASE AuthenticateSucceeds /\ ~lost /\ state' = "RESTORING" /\ supervisor' = "restoring"
    <2>1. ~BringUpFails
      BY <1>4 DEF BringUpFails
    <2> QED  BY <1>4, <2>1 DEF AuthenticateSucceeds
  <1>5. CASE RestoreSucceeds
    <2>1. current \in Keys
      BY <1>0, <1>5 DEF RestoreSucceeds
    <2> QED  BY <1>0, <1>5, <2>1 DEF RestoreSucceeds
  <1>6. CASE \E k \in Keys : RunRestore(k)
    BY <1>0, <1>6 DEF RunRestore, restoreVars
  <1>7. CASE RestoreFails /\ ~lost /\ supervisor' = supervisor
    <2>1. ~BringUpFails
      BY <1>7 DEF BringUpFails, RestoreFails
    <2> QED  BY <1>7, <2>1 DEF RestoreFails
  <1>8. CASE BecomeReady /\ ~lost /\ state' = "READY" /\ supervisor' = "up"
    <2>1. ~BringUpFails
      BY <1>8 DEF BringUpFails
    <2> QED  BY <1>0, <1>8, <2>1 DEF BecomeReady
  <1>9. CASE LossSeen \/ HoldEnds \/ BackOff
    BY <1>9 DEF LossSeen, HoldEnds, BackOff, Teardown, restoreVars
  <1>10. CASE Disconnected \/ AuthenticationEnded \/ RequestReauth
    BY <1>10 DEF Disconnected, AuthenticationEnded, RequestReauth, Lose, taskVars, restoreVars
  <1>11. ASSUME NEW k \in Keys, AddRestore(k) PROVE RestoreUnderWay' /\ RestoredOrListed'
    BY <1>0, <1>11 DEF AddRestore, taskVars
  <1>12. ASSUME NEW k \in Keys, RemoveRestore(k) \/ MarkRestoreFailed(k) \/ RetryNext(k)
         PROVE  RestoreUnderWay' /\ RestoredOrListed'
    BY <1>12 DEF RemoveRestore, MarkRestoreFailed, RetryNext, taskVars
  <1>13. CASE RetrySucceeds
    <2>1. retryKey \in Keys
      BY <1>0, <1>13 DEF RetrySucceeds
    <2> QED  BY <1>0, <1>13, <2>1 DEF RetrySucceeds, RetryIsCurrent, taskVars
  <1>14. CASE RetryBegins \/ RetryFails \/ UNCHANGED vars
    BY <1>14 DEF RetryBegins, RetryFails, vars, taskVars, restoreVars
  <1>15. CASE Supervise
    BY <1>3, <1>4, <1>5, <1>6, <1>7, <1>8, <1>9, <1>15, SupervisorMoves
  <1> QED  BY <1>1, <1>2, <1>10, <1>11, <1>12, <1>13, <1>14, <1>15 DEF Next

LEMMA SessionStep == SessionInv /\ [Next]_vars => SessionInv'
  BY SessionTypeStep, StopsCountedStep, CallsStep, UnsupervisedStep, LastCallStep, LossStep,
     RestoreStep
  DEF SessionInv, SocketOwned

LEMMA SessionInvHolds == Spec => []SessionInv
  BY SessionInit, SessionStep, PTL DEF Spec

-----------------------------------------------------------------------------
(* The theorems *)

\* The session's state stays within its types: stop() calls overlapping each other and
\* start() never drive its counter below none or above their number.
THEOREM SessionTyped == Spec => []TypeOK
  BY SessionInvHolds, PTL DEF SessionInv

\* The socket has one owner and the session's state tells the truth of it: the last of
\* any number of overlapping start() and stop() calls wins, no socket outlives its
\* supervisor or is still open when the next is opened, and a session that lets
\* requests through has a link that is up.
THEOREM SocketHasOwner == Spec => []SocketOwned
  BY SessionInvHolds, PTL DEF SessionInv

\* Every loss signalled to the session reaches the listeners before the next bring-up,
\* and no bring-up's loss is told twice, however losses overlap.
THEOREM LossTold == Spec => []SignalledLossTold
  BY SessionInvHolds, PTL DEF SessionInv

\* On a ready session every registered restore was made in this bring-up or is listed
\* for a retry, also when a retry begun before a reconnect ends after it.
THEOREM RestoresAccounted == Spec => []RestoredOrListed
  BY SessionInvHolds, PTL DEF SessionInv

=============================================================================
